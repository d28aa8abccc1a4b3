---------------------------- MODULE GatewayProofs ----------------------------
(***************************************************************************)
(* Theorems about Gateway, for any number of requests, secrets, tools and  *)
(* commands, whatever their turns execute and however names overlap.       *)
(***************************************************************************)
EXTENDS Gateway, FiniteSetTheorems, SequenceTheorems, TLAPS

-----------------------------------------------------------------------------
(* Sequences: what the operations on queue, dict and turns leave *)

LEMMA TailKeeps ==
  ASSUME NEW S, NEW s \in Seq(S), s # <<>>
  PROVE  /\ Head(s) = s[1] /\ 1 \in DOMAIN s /\ Tail(s) \in Seq(S)
         /\ \A i \in DOMAIN Tail(s) : i \in Nat \ {0} /\ i + 1 \in DOMAIN s /\ Tail(s)[i] = s[i + 1]
<1>1. Len(s) \in Nat \ {0} /\ DOMAIN s = 1 .. Len(s)
  BY EmptySeq, LenProperties
<1>2. Tail(s) \in Seq(S) /\ Len(Tail(s)) = Len(s) - 1
      /\ \A i \in 1 .. Len(Tail(s)) : Tail(s)[i] = s[i + 1]
  BY HeadTailProperties
<1>3. DOMAIN Tail(s) = 1 .. Len(s) - 1
  BY <1>1, <1>2, LenProperties
<1>4. Head(s) = s[1]
  BY <1>1
<1> QED BY <1>1, <1>2, <1>3, <1>4

LEMMA AppendAdds ==
  ASSUME NEW S, NEW s \in Seq(S), NEW x \in S
  PROVE  /\ Append(s, x) \in Seq(S)
         /\ DOMAIN Append(s, x) = DOMAIN s \cup {Len(s) + 1} /\ Len(s) + 1 \notin DOMAIN s
         /\ \A i \in DOMAIN s : Append(s, x)[i] = s[i]
         /\ Append(s, x)[Len(s) + 1] = x
<1>1. Len(s) \in Nat /\ DOMAIN s = 1 .. Len(s)
  BY LenProperties
<1>2. Append(s, x) \in Seq(S) /\ Len(Append(s, x)) = Len(s) + 1
      /\ (\A i \in 1 .. Len(s) : Append(s, x)[i] = s[i]) /\ Append(s, x)[Len(s) + 1] = x
  BY AppendProperties
<1>3. DOMAIN Append(s, x) = 1 .. Len(s) + 1
  BY <1>2, LenProperties
<1> QED BY <1>1, <1>2, <1>3

LEMMA WithoutKeeps ==
  ASSUME NEW S, NEW s \in Seq(S), NEW k \in DOMAIN s
  PROVE  /\ Without(s, k) \in Seq(S)
         /\ DOMAIN Without(s, k) = 1 .. Len(s) - 1
         /\ \A i \in DOMAIN Without(s, k) :
              /\ i \in Nat
              /\ \/ i < k /\ i \in DOMAIN s /\ Without(s, k)[i] = s[i]
                 \/ i >= k /\ i + 1 \in DOMAIN s /\ Without(s, k)[i] = s[i + 1]
<1> DEFINE u == SubSeq(s, 1, k - 1)
           v == SubSeq(s, k + 1, Len(s))
<1>1. Len(s) \in Nat /\ DOMAIN s = 1 .. Len(s) /\ k \in 1 .. Len(s)
  BY LenProperties
<1>2. u \in Seq(S) /\ Len(u) = k - 1 /\ \A i \in 1 .. k - 1 : u[i] = s[i]
  BY <1>1, SubSeqProperties
<1>3. v \in Seq(S) /\ Len(v) = Len(s) - k /\ \A i \in 1 .. Len(s) - k : v[i] = s[k + i]
  BY <1>1, SubSeqProperties
<1> HIDE DEF u, v
<1> DEFINE w == u \o v
<1>4. w \in Seq(S) /\ Len(w) = Len(s) - 1
      /\ \A i \in 1 .. Len(s) - 1 : w[i] = IF i <= k - 1 THEN u[i] ELSE v[i - (k - 1)]
  <2>1. /\ w \in Seq(S) /\ Len(w) = Len(u) + Len(v)
        /\ \A i \in 1 .. Len(u) + Len(v) : w[i] = IF i <= Len(u) THEN u[i] ELSE v[i - Len(u)]
    BY <1>2, <1>3, ConcatProperties, Zenon
  <2>2. Len(u) + Len(v) = Len(s) - 1
    BY <1>1, <1>2, <1>3
  <2> QED BY <1>2, <2>1, <2>2
<1>5. Without(s, k) = w
  BY DEF Without, u, v
<1> HIDE DEF w
<1>6. DOMAIN w = 1 .. Len(s) - 1
  BY <1>4, LenProperties
<1>7. ASSUME NEW i \in DOMAIN w
      PROVE  /\ i \in Nat
             /\ \/ i < k /\ i \in DOMAIN s /\ w[i] = s[i]
                \/ i >= k /\ i + 1 \in DOMAIN s /\ w[i] = s[i + 1]
  <2>1. i \in 1 .. Len(s) - 1 /\ i \in Nat /\ i \in DOMAIN s /\ i + 1 \in DOMAIN s
    BY <1>1, <1>6
  <2>2. CASE i < k
    BY <1>1, <1>2, <1>4, <2>1, <2>2
  <2>3. CASE i >= k
    <3>1. i - (k - 1) \in 1 .. Len(s) - k /\ k + (i - (k - 1)) = i + 1
      BY <1>1, <2>1, <2>3
    <3> QED BY <1>1, <1>3, <1>4, <2>1, <2>3, <3>1
  <2> QED BY <1>1, <2>1, <2>2, <2>3
<1> QED BY <1>4, <1>5, <1>7

LEMMA WithoutLosesOne ==
  ASSUME NEW S, NEW s \in Seq(S), NEW k \in DOMAIN s, NEW i \in DOMAIN s, i # k
  PROVE  \E j \in DOMAIN Without(s, k) : Without(s, k)[j] = s[i]
<1>1. Len(s) \in Nat /\ k \in 1 .. Len(s) /\ i \in 1 .. Len(s)
  BY LenProperties
<1>2. CASE i < k
  <2>1. i \in 1 .. Len(s) - 1 /\ ~(i >= k)
    BY <1>1, <1>2
  <2> QED BY <2>1, WithoutKeeps
<1>3. CASE i > k
  <2> DEFINE j == i - 1
  <2>1. j \in 1 .. Len(s) - 1 /\ ~(j < k) /\ j + 1 = i
    BY <1>1, <1>3
  <2> HIDE DEF j
  <2> QED BY <2>1, WithoutKeeps
<1> QED BY <1>1, <1>2, <1>3

-----------------------------------------------------------------------------
(* Types *)

Entry == [key : Keys, of : Requests, no : Nat]
TurnRecord ==
  [of : Requests, no : Nat, at : {"starting", "between", "asking", "script", "missing", "done"},
   ran : Nat, needs : Seq(Names), missing : Seq(Names), asked : Seq(Tools), carried : Nat]

\* A dict has each key once.
KeysDiffer == \A i, j \in DOMAIN pending : pending[i].key = pending[j].key => i = j

\* A question is one that some turn asked.
Asked(q) == q.turn \in DOMAIN turns /\ q.ask \in DOMAIN turns[q.turn].asked

GateType ==
  /\ open \subseteq Question
  /\ \A q \in open \cup replied : Asked(q)
  /\ turnGrants \subseteq Tools /\ wild \subseteq Tools

TypeInv ==
  /\ unsent \subseteq Requests
  /\ inbox \in Seq(Message)
  /\ pending \in Seq(Entry) /\ KeysDiffer
  /\ turns \in Seq(TurnRecord) /\ \A k \in DOMAIN turns : TurnOK(turns[k])
  /\ reports \in [Requests -> Nat]
  /\ GateType
  /\ stored \subseteq Names
  /\ commands \in 0 .. MaxCommands

\* A turn stays that of its message, and has asked what it asked.
GoesOn(t, u) == u.of = t.of /\ u.no = t.no /\ DOMAIN t.asked \subseteq DOMAIN u.asked
TurnsGoOn == DOMAIN turns \subseteq DOMAIN turns' /\ \A k \in DOMAIN turns : GoesOn(turns[k], turns'[k])

LEMMA ATurn ==
  ASSUME TypeInv, NEW k \in DOMAIN turns
  PROVE  turns[k] \in TurnRecord /\ TurnOK(turns[k])
BY ElementOfSeq, LenProperties DEF TypeInv

LEMMA AClam ==
  ASSUME TypeInv, NEW k \in DOMAIN turns, NEW c \in May(turns[k])
  PROVE  /\ c \in Clam /\ turns[k].at = "between"
         /\ turns[k].ran + 1 \in 0 .. Len(Clams[turns[k].of])
<1>1. /\ turns[k].at = "between" /\ turns[k].ran < Len(Clams[turns[k].of])
      /\ c \in Clams[turns[k].of][turns[k].ran + 1]
  BY DEF May
<1>2. turns[k].of \in Requests /\ turns[k].ran \in Nat
  BY ATurn DEF TurnRecord
<1>3. Clams[turns[k].of] \in Seq(SUBSET Clam)
  BY <1>2, GatewayAssumption DEF GatewayAssumption
<1>4. Len(Clams[turns[k].of]) \in Nat
  BY <1>3, LenProperties
<1>5. turns[k].ran + 1 \in 1 .. Len(Clams[turns[k].of])
  BY <1>1, <1>2, <1>4
<1>6. Clams[turns[k].of][turns[k].ran + 1] \in SUBSET Clam
  BY <1>3, <1>5, ElementOfSeq
<1> QED BY <1>1, <1>2, <1>4, <1>5, <1>6

LEMMA TurnChanges ==
  ASSUME TypeInv, NEW k \in DOMAIN turns, NEW u \in TurnRecord, TurnOK(u),
         GoesOn(turns[k], u), turns' = [turns EXCEPT ![k] = u]
  PROVE  /\ turns' \in Seq(TurnRecord) /\ \A j \in DOMAIN turns' : TurnOK(turns'[j])
         /\ DOMAIN turns' = DOMAIN turns /\ TurnsGoOn
         /\ turns'[k] = u /\ \A j \in DOMAIN turns : j # k => turns'[j] = turns[j]
<1>1. turns \in Seq(TurnRecord)
  BY DEF TypeInv
<1>2. turns' \in Seq(TurnRecord)
  BY <1>1, ExceptSeq, LenProperties
<1>3. /\ DOMAIN turns' = DOMAIN turns
      /\ turns'[k] = u /\ \A j \in DOMAIN turns : j # k => turns'[j] = turns[j]
  OBVIOUS
<1> QED BY <1>2, <1>3 DEF TypeInv, TurnsGoOn, GoesOn

LEMMA TurnBegins ==
  ASSUME TypeInv, NEW p \in Requests, NEW n \in Nat, turns' = Append(turns, NewTurn(p, n))
  PROVE  /\ turns' \in Seq(TurnRecord) /\ \A j \in DOMAIN turns' : TurnOK(turns'[j])
         /\ TurnsGoOn /\ DOMAIN turns' = DOMAIN turns \cup {Len(turns) + 1}
         /\ Len(turns) + 1 \notin DOMAIN turns
         /\ turns'[Len(turns) + 1] = NewTurn(p, n)
         /\ \A j \in DOMAIN turns : turns'[j] = turns[j]
<1> DEFINE u == NewTurn(p, n)
<1>1. u \in TurnRecord /\ TurnOK(u)
  <2>1. Clams[p] \in Seq(SUBSET Clam)
    BY GatewayAssumption DEF GatewayAssumption
  <2>2. Len(Clams[p]) \in Nat
    BY <2>1, LenProperties
  <2>3. <<>> \in Seq(Names) /\ <<>> \in Seq(Tools) /\ Len(<<>>) = 0
    OBVIOUS
  <2> QED BY <2>2, <2>3 DEF NewTurn, TurnRecord, TurnOK
<1>2. turns \in Seq(TurnRecord)
  BY DEF TypeInv
<1> HIDE DEF u
<1>3. /\ turns' \in Seq(TurnRecord)
      /\ DOMAIN turns' = DOMAIN turns \cup {Len(turns) + 1} /\ Len(turns) + 1 \notin DOMAIN turns
      /\ \A j \in DOMAIN turns : turns'[j] = turns[j]
      /\ turns'[Len(turns) + 1] = u
  BY <1>1, <1>2, AppendAdds DEF u
<1> QED BY <1>1, <1>3 DEF TypeInv, TurnsGoOn, GoesOn, u

\* The first name of a key.
LEMMA FirstWaits ==
  ASSUME TypeInv, pending # <<>>
  PROVE  1 \in DOMAIN pending /\ pending[1] \in Entry /\ pending[1].key[1] \in Names
<1>1. pending \in Seq(Entry)
  BY DEF TypeInv
<1>2. 1 \in DOMAIN pending
  BY <1>1, TailKeeps
<1>3. pending[1] \in Entry
  BY <1>1, <1>2, ElementOfSeq, LenProperties
<1>4. pending[1].key \in Seq(Names) /\ pending[1].key # <<>>
  BY <1>3 DEF Entry, Keys
<1>5. 1 \in DOMAIN pending[1].key
  BY <1>4, TailKeeps
<1> QED BY <1>2, <1>3, <1>4, <1>5, ElementOfSeq, LenProperties

\* A waiting request leaves the dict: the others wait at places of their own.
LEMMA EntryLeaves ==
  ASSUME TypeInv, NEW k \in DOMAIN pending, pending' = Without(pending, k)
  PROVE  /\ pending' \in Seq(Entry) /\ KeysDiffer'
         /\ pending[k] \in Entry
         /\ \E was \in [DOMAIN pending' -> DOMAIN pending \ {k}] :
              /\ \A i \in DOMAIN pending' : pending'[i] = pending[was[i]]
              /\ \A i, j \in DOMAIN pending' : was[i] = was[j] => i = j
<1>1. pending \in Seq(Entry) /\ KeysDiffer
  BY DEF TypeInv
<1>2. k \in Nat /\ pending[k] \in Entry
  BY <1>1, LenProperties, ElementOfSeq
<1>3. /\ pending' \in Seq(Entry)
      /\ \A i \in DOMAIN pending' :
           /\ i \in Nat
           /\ \/ i < k /\ i \in DOMAIN pending /\ pending'[i] = pending[i]
              \/ i >= k /\ i + 1 \in DOMAIN pending /\ pending'[i] = pending[i + 1]
  BY <1>1, WithoutKeeps
<1> DEFINE was == [i \in DOMAIN pending' |-> IF i < k THEN i ELSE i + 1]
<1>4. \A i \in DOMAIN pending' :
        /\ was[i] \in DOMAIN pending \ {k} /\ pending'[i] = pending[was[i]]
        /\ \A j \in DOMAIN pending' : was[i] = was[j] => i = j
  BY <1>2, <1>3
<1>5. was \in [DOMAIN pending' -> DOMAIN pending \ {k}]
  BY <1>4
<1> HIDE DEF was
<1>6. KeysDiffer'
  BY <1>1, <1>4, <1>5 DEF KeysDiffer
<1> QED BY <1>2, <1>3, <1>4, <1>5, <1>6

\* Waiting under a key it shares, or at the end: where nothing is replaced, all wait on.
LEMMA PutPuts ==
  ASSUME TypeInv, NEW k \in Keys, NEW p \in Requests, NEW n \in Nat, pending' = Put(k, p, n)
  PROVE  LET e == [key |-> k, of |-> p, no |-> n] IN
         /\ pending' \in Seq(Entry) /\ KeysDiffer'
         /\ \A i \in DOMAIN pending' : pending'[i] = e \/ (i \in DOMAIN pending /\ pending'[i] = pending[i])
         /\ DOMAIN pending \subseteq DOMAIN pending'
         /\ \A i \in DOMAIN pending : pending[i].key # k => pending'[i] = pending[i]
<1> DEFINE e == [key |-> k, of |-> p, no |-> n]
<1>1. e \in Entry /\ e.key = k
  BY DEF Entry
<1>2. pending \in Seq(Entry) /\ KeysDiffer
  BY DEF TypeInv
<1>3. Len(pending) \in Nat /\ DOMAIN pending = 1 .. Len(pending)
      /\ \A i \in DOMAIN pending : pending[i] \in Entry
  BY <1>2, LenProperties, ElementOfSeq
<1> SUFFICES /\ pending' \in Seq(Entry) /\ KeysDiffer'
             /\ \A i \in DOMAIN pending' : pending'[i] = e \/ (i \in DOMAIN pending /\ pending'[i] = pending[i])
             /\ DOMAIN pending \subseteq DOMAIN pending'
             /\ \A i \in DOMAIN pending : pending[i].key # k => pending'[i] = pending[i]
  OBVIOUS
<1>4. CASE \E i \in DOMAIN pending : pending[i].key = k
  <2>1. pending' = [i \in DOMAIN pending |-> IF pending[i].key = k THEN e ELSE pending[i]]
    BY <1>4 DEF Put
  <2> HIDE DEF e
  <2>2. pending' \in Seq(Entry)
    BY <1>1, <1>3, <2>1, IsASeq
  <2>3. /\ DOMAIN pending' = DOMAIN pending
        /\ \A i \in DOMAIN pending :
             /\ pending'[i] = e \/ pending'[i] = pending[i]
             /\ pending'[i].key = pending[i].key
             /\ pending[i].key # k => pending'[i] = pending[i]
    BY <1>1, <2>1
  <2> QED BY <1>2, <2>2, <2>3 DEF KeysDiffer
<1>5. CASE ~\E i \in DOMAIN pending : pending[i].key = k
  <2>1. pending' = Append(pending, e)
    BY <1>5 DEF Put
  <2> HIDE DEF e
  <2>2. /\ pending' \in Seq(Entry)
        /\ DOMAIN pending' = DOMAIN pending \cup {Len(pending) + 1}
        /\ \A i \in DOMAIN pending : pending'[i] = pending[i]
        /\ pending'[Len(pending) + 1] = e
    BY <1>1, <1>2, <2>1, AppendAdds
  <2>3. KeysDiffer'
    BY <1>1, <1>2, <1>5, <2>2 DEF KeysDiffer
  <2> QED BY <2>2, <2>3
<1> QED BY <1>4, <1>5

LEMMA StoreSecretTypes ==
  ASSUME TypeInv, NEW n \in Names, NEW rest \in Seq(Message), StoreSecret(n, rest)
  PROVE  TypeInv'
<1>1. UNCHANGED <<unsent, turns, reports, replied, open, turnGrants, wild, commands>> /\ stored' = stored \cup {n}
  BY DEF StoreSecret, gate
<1>2. CASE inbox' = rest /\ UNCHANGED pending
  BY <1>1, <1>2 DEF TypeInv, KeysDiffer, GateType, Asked
<1>3. ASSUME NEW i \in DOMAIN pending, inbox' = Append(rest, Plain(pending[i].of, pending[i].no)),
             pending' = Without(pending, i)
      PROVE  TypeInv'
  <2>1. pending' \in Seq(Entry) /\ KeysDiffer' /\ pending[i] \in Entry
    BY <1>3, EntryLeaves
  <2>2. Plain(pending[i].of, pending[i].no) \in Message
    BY <2>1 DEF Entry, Plain, Message
  <2>3. inbox' \in Seq(Message)
    BY <1>3, <2>2, AppendAdds
  <2> QED BY <1>1, <2>1, <2>3 DEF TypeInv, GateType, Asked
<1> QED BY <1>2, <1>3 DEF StoreSecret, Hits

LEMMA QuestionsStay ==
  ASSUME GateType, TurnsGoOn
  PROVE  \A q \in open \cup replied : Asked(q)'
BY DEF GateType, TurnsGoOn, GoesOn, Asked

LEMMA RouteApproveTypes ==
  ASSUME TypeInv, NEW m \in Message, NEW rest \in Seq(Message), RouteApprove(m, rest)
  PROVE  TypeInv' /\ TurnsGoOn /\ DOMAIN turns' = DOMAIN turns
<1> DEFINE q == m.question
<1>1. UNCHANGED <<unsent, pending, reports, replied, wild, stored, commands>> /\ inbox' = rest
  BY DEF RouteApprove
<1>2. CASE q \in open
  <2>1. q.turn \in DOMAIN turns /\ q.ask \in DOMAIN turns[q.turn].asked
    BY <1>2 DEF TypeInv, GateType, Asked
  <2>2. turns[q.turn].asked \in Seq(Tools)
    BY <2>1, ATurn DEF TurnRecord
  <2>3. turns[q.turn].asked[q.ask] \in Tools
    BY <2>1, <2>2, ElementOfSeq, LenProperties
  <2>4. open' \subseteq open /\ turnGrants' \subseteq Tools
    BY <1>2, <2>3 DEF RouteApprove, TypeInv, GateType
  <2>5. CASE Asking(q)
    <3> DEFINE u == [turns[q.turn] EXCEPT !.at = "script"]
    <3>1. turns' = [turns EXCEPT ![q.turn] = u]
      BY <1>2, <2>5 DEF RouteApprove, Goes
    <3>2. u \in TurnRecord /\ TurnOK(u) /\ GoesOn(turns[q.turn], u)
      BY <2>1, <2>5, ATurn DEF TurnRecord, TurnOK, GoesOn, Asking
    <3> HIDE DEF u
    <3>3. /\ turns' \in Seq(TurnRecord) /\ \A j \in DOMAIN turns' : TurnOK(turns'[j])
          /\ TurnsGoOn /\ DOMAIN turns' = DOMAIN turns
      BY <2>1, <3>1, <3>2, TurnChanges
    <3> QED BY <1>1, <2>4, <3>3, QuestionsStay DEF TypeInv, GateType, KeysDiffer
  <2>6. CASE ~Asking(q)
    <3>1. turns' = turns
      BY <1>2, <2>6 DEF RouteApprove
    <3> QED BY <1>1, <2>4, <3>1 DEF TypeInv, GateType, KeysDiffer, Asked, TurnsGoOn, GoesOn
  <2> QED BY <2>5, <2>6
<1>3. CASE q \notin open
  <2>1. UNCHANGED <<open, turnGrants, turns>>
    BY <1>3 DEF RouteApprove
  <2> QED BY <1>1, <2>1 DEF TypeInv, GateType, KeysDiffer, Asked, TurnsGoOn, GoesOn
<1> QED BY <1>2, <1>3

\* A step of a turn that leaves queue, dict and gate as they are.
LEMMA TurnGoesOnTypes ==
  ASSUME TypeInv, NEW k \in DOMAIN turns, NEW u \in TurnRecord, TurnOK(u),
         GoesOn(turns[k], u), turns' = [turns EXCEPT ![k] = u],
         UNCHANGED <<unsent, inbox, pending, reports, replied, stored, commands>>,
         \/ open' = open
         \/ open' = open \cup {[turn |-> k, ask |-> Len(u.asked)]} /\ u.asked # <<>>,
         turnGrants' \subseteq turnGrants, wild' \subseteq Tools
  PROVE  TypeInv'
<1>1. /\ turns' \in Seq(TurnRecord) /\ \A j \in DOMAIN turns' : TurnOK(turns'[j])
      /\ DOMAIN turns' = DOMAIN turns /\ TurnsGoOn /\ turns'[k] = u
  BY TurnChanges
<1>2. u.asked # <<>> => Len(u.asked) \in DOMAIN u.asked
  <2>1. u.asked \in Seq(Tools)
    BY DEF TurnRecord
  <2> QED BY <2>1, EmptySeq, LenProperties
<1>3. k \in Nat /\ Len(u.asked) \in Nat
  <2>1. turns \in Seq(TurnRecord) /\ u.asked \in Seq(Tools)
    BY DEF TypeInv, TurnRecord
  <2> QED BY <2>1, LenProperties
<1>4. open' \subseteq Question /\ \A q \in open' \cup replied : Asked(q)'
  BY <1>1, <1>2, <1>3, QuestionsStay DEF TypeInv, GateType, Asked, Question
<1> QED BY <1>1, <1>4 DEF TypeInv, GateType, KeysDiffer

\* One that leaves the gate too.
LEMMA TurnAloneTypes ==
  ASSUME TypeInv, NEW k \in DOMAIN turns, NEW u \in TurnRecord, TurnOK(u),
         GoesOn(turns[k], u), turns' = [turns EXCEPT ![k] = u],
         UNCHANGED <<unsent, inbox, pending, reports, open, replied, wild, stored, commands>>,
         turnGrants' \subseteq turnGrants
  PROVE  TypeInv'
<1>1. open' = open /\ wild' \subseteq Tools
  BY DEF TypeInv, GateType
<1>2. UNCHANGED <<unsent, inbox, pending, reports, replied, stored, commands>>
  OBVIOUS
<1> QED BY <1>1, <1>2, TurnGoesOnTypes

LEMMA SimpleTurnTypes ==
  ASSUME TypeInv, NEW k \in DOMAIN turns,
         Begin(k) \/ AskTimesOut(k) \/ Return(k) \/ End(k)
  PROVE  TypeInv'
<1>0. turns[k] \in TurnRecord /\ TurnOK(turns[k])
  BY ATurn
<1>1. CASE Begin(k)
  <2> DEFINE u == [turns[k] EXCEPT !.at = "between"]
  <2>1. u \in TurnRecord /\ TurnOK(u) /\ GoesOn(turns[k], u)
    BY <1>0, <1>1 DEF Begin, TurnRecord, TurnOK, GoesOn
  <2>2. turns' = [turns EXCEPT ![k] = u] /\ turnGrants' \subseteq turnGrants
        /\ UNCHANGED <<unsent, inbox, pending, reports, open, replied, wild, stored, commands>>
    BY <1>1 DEF Begin, Goes
  <2> HIDE DEF u
  <2> QED BY <2>1, <2>2, TurnAloneTypes
<1>2. CASE AskTimesOut(k) \/ End(k)
  <2> DEFINE u(to) == [turns[k] EXCEPT !.at = to]
  <2>1. \A to \in {"script", "done"} :
          turns[k].at # "missing" => u(to) \in TurnRecord /\ TurnOK(u(to)) /\ GoesOn(turns[k], u(to))
    BY <1>0 DEF TurnRecord, TurnOK, GoesOn
  <2>2. \E to \in {"script", "done"} : turns[k].at # "missing" /\ turns' = [turns EXCEPT ![k] = u(to)]
    BY <1>2 DEF AskTimesOut, End, Goes
  <2>3. UNCHANGED <<unsent, inbox, pending, reports, open, replied, turnGrants, wild, stored, commands>>
    BY <1>2 DEF AskTimesOut, End, gate
  <2> HIDE DEF u
  <2> QED BY <2>1, <2>2, <2>3, TurnAloneTypes
<1>3. CASE Return(k)
  <2> DEFINE u == [turns[k] EXCEPT !.at = "between", !.needs = <<>>]
  <2>1. u \in TurnRecord /\ TurnOK(u) /\ GoesOn(turns[k], u)
    BY <1>0, <1>3 DEF Return, TurnRecord, TurnOK, GoesOn
  <2>2. turns' = [turns EXCEPT ![k] = u]
        /\ UNCHANGED <<unsent, inbox, pending, reports, open, replied, turnGrants, wild, stored, commands>>
    BY <1>3 DEF Return, gate
  <2> HIDE DEF u
  <2> QED BY <2>1, <2>2, TurnAloneTypes
<1> QED BY <1>1, <1>2, <1>3

LEMMA ClamTypes ==
  ASSUME TypeInv, NEW k \in DOMAIN turns, NEW c \in May(turns[k]), AskTool(k, c) \/ CallTool(k, c)
  PROVE  TypeInv'
<1>0. /\ turns[k] \in TurnRecord /\ TurnOK(turns[k])
      /\ c \in Clam /\ turns[k].at = "between" /\ turns[k].ran + 1 \in 0 .. Len(Clams[turns[k].of])
  BY ATurn, AClam
<1>1. CASE AskTool(k, c)
  <2> DEFINE s == Append(turns[k].asked, c.tool)
             u == [turns[k] EXCEPT !.at = "asking", !.ran = @ + 1, !.needs = c.needs, !.asked = s]
  <2>1. turns[k].asked \in Seq(Tools) /\ c.tool \in Tools /\ c.needs \in Seq(Names)
        /\ turns[k].ran + 1 \in Nat
    BY <1>0, <1>1 DEF TurnRecord, Clam, AskTool, Covered
  <2>2. /\ s \in Seq(Tools) /\ Len(s) = Len(turns[k].asked) + 1 /\ Len(turns[k].asked) \in Nat
        /\ DOMAIN turns[k].asked \subseteq DOMAIN s /\ s # <<>>
    BY <2>1, AppendProperties, AppendAdds, LenProperties
  <2>3. turns' = [turns EXCEPT ![k] = u]
        /\ open' = open \cup {[turn |-> k, ask |-> Len(turns[k].asked) + 1]}
        /\ UNCHANGED <<unsent, inbox, pending, reports, replied, turnGrants, wild, stored, commands>>
    BY <1>1 DEF AskTool
  <2> HIDE DEF s
  <2>4. u \in TurnRecord
    BY <1>0, <2>1, <2>2 DEF TurnRecord
  <2>5. TurnOK(u)
    BY <1>0, <2>1, <2>2 DEF TurnRecord, TurnOK
  <2>6. GoesOn(turns[k], u) /\ u.asked = s
    BY <1>0, <2>2 DEF TurnRecord, GoesOn
  <2> HIDE DEF u
  <2> QED BY <2>2, <2>3, <2>4, <2>5, <2>6, TurnGoesOnTypes DEF TypeInv, GateType
<1>2. CASE CallTool(k, c)
  <2> DEFINE u == [turns[k] EXCEPT !.at = "script", !.ran = @ + 1, !.needs = c.needs]
  <2>1. turns' = [turns EXCEPT ![k] = u]
        /\ UNCHANGED <<unsent, inbox, pending, reports, open, replied, turnGrants, wild, stored, commands>>
    BY <1>2 DEF CallTool, gate
  <2>2. c.needs \in Seq(Names) /\ turns[k].ran + 1 \in Nat
    BY <1>0 DEF TurnRecord, Clam
  <2>3. u \in TurnRecord /\ TurnOK(u) /\ GoesOn(turns[k], u)
    BY <1>0, <2>2 DEF TurnRecord, TurnOK, GoesOn
  <2> HIDE DEF u
  <2> QED BY <2>1, <2>3, TurnAloneTypes
<1> QED BY <1>1, <1>2

\* What the script misses is a key: the names at some positions, in order.
LEMMA MissesTypes ==
  ASSUME TypeInv, NEW k \in DOMAIN turns, Misses(k)
  PROVE  TypeInv'
<1> DEFINE needs == turns[k].needs
           absent == {i \in DOMAIN needs : needs[i] \notin stored}
           n == Cardinality(absent)
           key(o) == [j \in DOMAIN o |-> needs[o[j]]]
           u(o) == [turns[k] EXCEPT !.at = "missing", !.missing = key(o)]
<1>0. turns[k] \in TurnRecord /\ TurnOK(turns[k])
  BY ATurn
<1>1. needs \in Seq(Names) /\ DOMAIN needs = 1 .. Len(needs) /\ Len(needs) \in Nat
  BY <1>0, LenProperties DEF TurnRecord
<1>2. absent # {} /\ absent \subseteq DOMAIN needs
  BY DEF Misses
<1>3. PICK o \in Ordered(absent) : turns' = [turns EXCEPT ![k] = u(o)]
  BY DEF Misses
<1>4. UNCHANGED <<unsent, inbox, pending, reports, open, replied, turnGrants, wild, stored, commands>>
  BY DEF Misses, gate
<1> HIDE DEF absent, needs
<1>5. n \in Nat /\ n # 0
  <2>0. IsFiniteSet(1 .. Len(needs))
    BY <1>1, FS_Interval
  <2>1. IsFiniteSet(absent)
    BY <1>1, <1>2, <2>0, FS_Subset
  <2> QED BY <1>2, <2>1, FS_CardinalityType, FS_EmptySet
<1>6. o \in [1 .. n -> absent]
  BY DEF Ordered
<1> HIDE DEF n
<1>7. \A j \in 1 .. n : needs[o[j]] \in Names
  BY <1>1, <1>2, <1>6, ElementOfSeq
<1>8. key(o) \in Seq(Names) /\ key(o) # <<>>
  <2>1. key(o) = [j \in 1 .. n |-> needs[o[j]]]
    BY <1>6
  <2>2. key(o) \in Seq(Names) /\ Len(key(o)) = n
    BY <1>5, <1>7, <2>1
  <2> QED BY <1>5, <2>2
<1> HIDE DEF key
<1>9. u(o) \in TurnRecord /\ TurnOK(u(o)) /\ GoesOn(turns[k], u(o))
  BY <1>0, <1>8 DEF TurnRecord, TurnOK, GoesOn
<1> HIDE DEF u
<1> QED BY <1>3, <1>4, <1>9, TurnAloneTypes

\* What a report leaves: the turn, and the entry that waits.
LEMMA ReportTypes ==
  ASSUME TypeInv, NEW k \in DOMAIN turns, Report(k)
  PROVE  LET p == turns[k].of
             n == reports[p] + 1
             e == [key |-> turns[k].missing, of |-> p, no |-> n]
         IN  /\ TypeInv'
             /\ p \in Requests /\ n \in Nat /\ reports' = [reports EXCEPT ![p] = n]
             /\ \A i \in DOMAIN pending' : pending'[i] = e \/ (i \in DOMAIN pending /\ pending'[i] = pending[i])
             /\ DOMAIN pending \subseteq DOMAIN pending'
             /\ \A i \in DOMAIN pending : pending[i].key # turns[k].missing => pending'[i] = pending[i]
             /\ DOMAIN turns' = DOMAIN turns /\ TurnsGoOn
             /\ \A j \in DOMAIN turns : turns'[j].of = turns[j].of /\ turns'[j].no = turns[j].no
                                        /\ turns'[j].asked = turns[j].asked
             /\ \A j \in DOMAIN turns : j # k => turns'[j] = turns[j]
<1> DEFINE p == turns[k].of
           n == reports[p] + 1
           e == [key |-> turns[k].missing, of |-> p, no |-> n]
           u == [turns[k] EXCEPT !.at = "between", !.needs = <<>>, !.missing = <<>>,
                                 !.carried = Len(turns[k].asked)]
<1>0. turns[k] \in TurnRecord /\ TurnOK(turns[k])
  BY ATurn
<1>1. p \in Requests /\ n \in Nat /\ turns[k].missing \in Keys
  <2>1. p \in Requests /\ turns[k].missing \in Seq(Names) /\ turns[k].missing # <<>>
    BY <1>0 DEF TurnRecord, TurnOK, Report
  <2> QED BY <2>1 DEF TypeInv, Keys
<1>2. reports' = [reports EXCEPT ![p] = n] /\ reports' \in [Requests -> Nat] /\ reports'[p] = n
  BY <1>1 DEF Report, TypeInv
<1>3. /\ pending' = Put(turns[k].missing, p, n)
      /\ turns' = [turns EXCEPT ![k] = u]
      /\ wild' = wild \cup AskedBy(turns[k])
      /\ UNCHANGED <<unsent, inbox, open, replied, turnGrants, stored, commands>>
  BY <1>2 DEF Report, Reported
<1>4. turns[k].asked \in Seq(Tools) /\ Len(turns[k].asked) \in Nat
  BY <1>0, LenProperties DEF TurnRecord
<1>5. u \in TurnRecord /\ TurnOK(u) /\ GoesOn(turns[k], u) /\ u.asked = turns[k].asked
  <2>1. <<>> \in Seq(Names) /\ Len(turns[k].asked) \in 0 .. Len(turns[k].asked)
    BY <1>4
  <2> QED BY <1>0, <1>4, <2>1 DEF TurnRecord, TurnOK, GoesOn
<1> HIDE DEF u
<1>6. /\ turns' \in Seq(TurnRecord) /\ \A j \in DOMAIN turns' : TurnOK(turns'[j])
      /\ DOMAIN turns' = DOMAIN turns /\ TurnsGoOn
      /\ turns'[k] = u /\ \A j \in DOMAIN turns : j # k => turns'[j] = turns[j]
  BY <1>3, <1>5, TurnChanges
<1>7. AskedBy(turns[k]) \subseteq Tools
  BY <1>4, ElementOfSeq, LenProperties DEF AskedBy
<1> HIDE DEF p, n
<1>8. /\ pending' \in Seq(Entry) /\ KeysDiffer'
      /\ \A i \in DOMAIN pending' : pending'[i] = e \/ (i \in DOMAIN pending /\ pending'[i] = pending[i])
      /\ DOMAIN pending \subseteq DOMAIN pending'
      /\ \A i \in DOMAIN pending : pending[i].key # turns[k].missing => pending'[i] = pending[i]
  BY <1>1, <1>3, PutPuts
<1>9. TypeInv'
  BY <1>2, <1>3, <1>6, <1>7, <1>8, QuestionsStay DEF TypeInv, GateType
<1>10. \A j \in DOMAIN turns : turns'[j].of = turns[j].of /\ turns'[j].no = turns[j].no
                               /\ turns'[j].asked = turns[j].asked
  BY <1>5, <1>6 DEF GoesOn
<1> QED BY <1>1, <1>2, <1>6, <1>8, <1>9, <1>10 DEF p, n

\* A plain message is one of a request.
LEMMA PlainMessage ==
  ASSUME NEW m \in Message, m.kind = "plain"
  PROVE  m.of \in Requests /\ m.no \in Nat /\ m = Plain(m.of, m.no)
BY DEF Message, Plain

LEMMA NextMessage ==
  ASSUME TypeInv, inbox # <<>>
  PROVE  /\ Head(inbox) \in Message /\ Head(inbox) = inbox[1] /\ 1 \in DOMAIN inbox
         /\ Tail(inbox) \in Seq(Message)
         /\ \A i \in DOMAIN Tail(inbox) :
              i \in Nat \ {0} /\ i + 1 \in DOMAIN inbox /\ Tail(inbox)[i] = inbox[i + 1]
<1>1. inbox \in Seq(Message)
  BY DEF TypeInv
<1> QED BY <1>1, TailKeeps, ElementOfSeq, LenProperties

LEMMA DispatchTypes ==
  ASSUME TypeInv, Dispatch
  PROVE  TypeInv'
<1> DEFINE m == Head(inbox)
           rest == Tail(inbox)
<1>0. inbox # <<>> /\ Route(m, rest) /\ m \in Message /\ rest \in Seq(Message)
  BY NextMessage DEF Dispatch
<1> HIDE DEF m, rest
<1>1. CASE RouteApprove(m, rest)
  BY <1>0, <1>1, RouteApproveTypes
<1>2. CASE RouteSecret(m, rest)
  <2>1. m.name \in Names
    BY <1>0, <1>2 DEF RouteSecret, Message
  <2> QED BY <1>0, <1>2, <2>1, StoreSecretTypes DEF RouteSecret
<1>3. CASE RouteValue(m, rest)
  BY <1>0, <1>3, FirstWaits, StoreSecretTypes DEF RouteValue
<1>4. CASE RouteTurn(m, rest)
  <2>1. /\ turns' = Append(turns, NewTurn(m.of, m.no)) /\ inbox' = rest
        /\ UNCHANGED <<unsent, pending, reports, open, replied, turnGrants, wild, stored, commands>>
    BY <1>4 DEF RouteTurn, gate
  <2>2. /\ turns' \in Seq(TurnRecord) /\ \A j \in DOMAIN turns' : TurnOK(turns'[j])
        /\ TurnsGoOn
    BY <1>0, <1>4, <2>1, PlainMessage, TurnBegins DEF RouteTurn
  <2> QED BY <1>0, <2>1, <2>2, QuestionsStay DEF TypeInv, GateType, KeysDiffer
<1> QED BY <1>0, <1>1, <1>2, <1>3, <1>4 DEF Route

\* A message joins the queue.
LEMMA SentTypes ==
  ASSUME TypeInv, NEW m \in Message, inbox' = Append(inbox, m), unsent' \subseteq unsent,
         \A q \in replied' : Asked(q), commands' \in 0 .. MaxCommands,
         UNCHANGED <<pending, turns, reports, open, turnGrants, wild, stored>>
  PROVE  TypeInv'
<1>1. inbox' \in Seq(Message)
  BY AppendAdds DEF TypeInv
<1> QED BY <1>1 DEF TypeInv, KeysDiffer, GateType, Asked

LEMMA InjectTypes ==
  ASSUME TypeInv, NEW p \in Requests, Inject(p)
  PROVE  TypeInv'
<1>0. unsent' = unsent \ {p} /\ UNCHANGED <<reports, open, replied, turnGrants, wild, commands>>
  BY DEF Inject, gate
<1>1. CASE pending = <<>>
  <2>1. turns' = Append(turns, NewTurn(p, 0)) /\ UNCHANGED <<inbox, pending, stored>>
    BY <1>1 DEF Inject
  <2>2. /\ turns' \in Seq(TurnRecord) /\ \A j \in DOMAIN turns' : TurnOK(turns'[j])
        /\ TurnsGoOn
    BY <2>1, TurnBegins
  <2> QED BY <1>0, <2>1, <2>2, QuestionsStay DEF TypeInv, GateType, KeysDiffer
<1>2. CASE pending # <<>>
  <2>1. 1 \in DOMAIN pending /\ pending[1] \in Entry /\ pending[1].key[1] \in Names
    BY <1>2, FirstWaits
  <2>2. /\ stored' = stored \cup {pending[1].key[1]} /\ pending' = Without(pending, 1)
        /\ inbox' = Append(inbox, Plain(pending[1].of, pending[1].no)) /\ turns' = turns
    BY <1>2 DEF Inject
  <2>3. pending' \in Seq(Entry) /\ KeysDiffer'
    BY <2>1, <2>2, EntryLeaves
  <2>4. Plain(pending[1].of, pending[1].no) \in Message
    BY <2>1 DEF Entry, Plain, Message
  <2>5. inbox' \in Seq(Message)
    BY <2>2, <2>4, AppendAdds DEF TypeInv
  <2>6. stored' \subseteq Names
    BY <2>1, <2>2 DEF TypeInv
  <2> QED BY <1>0, <2>2, <2>3, <2>5, <2>6 DEF TypeInv, GateType, Asked
<1> QED BY <1>1, <1>2

LEMMA WorldTypes ==
  ASSUME TypeInv, World
  PROVE  TypeInv'
<1>1. ASSUME NEW p \in Requests, Send(p)
      PROVE  TypeInv'
  <2>1. Plain(p, 0) \in Message
    BY DEF Plain, Message
  <2>2. /\ inbox' = Append(inbox, Plain(p, 0)) /\ unsent' \subseteq unsent
        /\ UNCHANGED <<pending, turns, reports, open, replied, turnGrants, wild, stored, commands>>
    BY <1>1 DEF Send, gate
  <2>3. (\A q \in replied' : Asked(q)) /\ commands' \in 0 .. MaxCommands
    BY <2>2 DEF TypeInv, GateType
  <2> QED BY <2>1, <2>2, <2>3, SentTypes
<1>2. ASSUME NEW q \in open, NEW allow \in BOOLEAN, Answer(q, allow)
      PROVE  TypeInv'
  <2> DEFINE m == [kind |-> "approve", question |-> q, allow |-> allow]
  <2>1. m \in Message
    BY DEF Message, TypeInv, GateType
  <2>2. /\ inbox' = Append(inbox, m) /\ replied' = replied \cup {q}
        /\ UNCHANGED <<unsent, pending, turns, reports, open, turnGrants, wild, stored, commands>>
    BY <1>2 DEF Answer, gate
  <2> HIDE DEF m
  <2>3. (\A r \in replied' : Asked(r)) /\ commands' \in 0 .. MaxCommands
    BY <2>2 DEF TypeInv, GateType
  <2> QED BY <2>1, <2>2, <2>3, SentTypes
<1>3. ASSUME NEW n \in Names, TypeSecret(n)
      PROVE  TypeInv'
  <2> DEFINE m == [kind |-> "secret", name |-> n]
  <2>1. m \in Message
    BY DEF Message
  <2>2. /\ inbox' = Append(inbox, m) /\ commands < MaxCommands /\ commands' = commands + 1
        /\ UNCHANGED <<unsent, pending, turns, reports, open, replied, turnGrants, wild, stored>>
    BY <1>3 DEF TypeSecret, gate
  <2> HIDE DEF m
  <2>3. (\A q \in replied' : Asked(q)) /\ commands' \in 0 .. MaxCommands
    BY <2>2, GatewayAssumption DEF TypeInv, GateType, GatewayAssumption
  <2> QED BY <2>1, <2>2, <2>3, SentTypes
<1> QED BY <1>1, <1>2, <1>3, InjectTypes DEF World

LEMMA TypesKept == TypeInv /\ [Next]_vars => TypeInv'
<1> SUFFICES ASSUME TypeInv, [Next]_vars PROVE TypeInv'
  OBVIOUS
<1>1. ASSUME NEW k \in DOMAIN turns, Turn(k) PROVE TypeInv'
  BY <1>1, SimpleTurnTypes, ClamTypes, MissesTypes, ReportTypes DEF Turn
<1>2. CASE UNCHANGED vars
  BY <1>2 DEF vars, gate, TypeInv, KeysDiffer, GateType, Asked
<1> QED BY <1>1, <1>2, DispatchTypes, WorldTypes DEF Next

LEMMA TypesHold == Spec => []TypeInv
<1>1. Init => TypeInv
  <2> SUFFICES ASSUME Init PROVE TypeInv
    OBVIOUS
  <2>1. inbox = <<>> /\ pending = <<>> /\ turns = <<>> /\ 0 \in 0 .. MaxCommands
    BY GatewayAssumption DEF Init, GatewayAssumption
  <2>2. \A S : <<>> \in Seq(S)
    BY EmptySeq
  <2>3. inbox \in Seq(Message) /\ pending \in Seq(Entry) /\ turns \in Seq(TurnRecord)
        /\ DOMAIN pending = {} /\ DOMAIN turns = {}
    BY <2>1, <2>2
  <2> QED BY <2>1, <2>3 DEF Init, TypeInv, KeysDiffer, GateType
<1> QED BY <1>1, TypesKept, PTL DEF Spec

\* Type correctness: whatever is missed and re-queued, what waits asks for some name,
\* once under each key, and every question is one a turn asked (orchestrator.py:239,
\* 300, 376).
THEOREM GatewayTypeCorrect == Spec => []TypeOK
<1>1. TypeInv => TypeOK
  <2> SUFFICES ASSUME TypeInv PROVE TypeOK
    OBVIOUS
  <2>1. \A i \in DOMAIN pending : pending[i] \in Entry
    BY ElementOfSeq, LenProperties DEF TypeInv
  <2> QED BY <2>1 DEF TypeInv, TypeOK, KeysDiffer, Entry, GateType, Asked
<1> QED BY <1>1, TypesHold, PTL

-----------------------------------------------------------------------------
(* The inductive invariant *)

AtOne(T) == \A i, j \in T : i = j

\* What its sender (no = 0) or a report (no > 0) has brought into the world.
Given(p, n) == n <= reports[p] /\ (n = 0 => p \notin unsent)
Nowhere(p, n) == Queued(p, n) = {} /\ Waiting(p, n) = {} /\ Run(p, n) = {}
Once(p, n) ==
  /\ AtOne(Queued(p, n)) /\ AtOne(Waiting(p, n)) /\ AtOne(Run(p, n))
  /\ Queued(p, n) = {} \/ Waiting(p, n) = {}
  /\ Queued(p, n) = {} \/ Run(p, n) = {}
  /\ Waiting(p, n) = {} \/ Run(p, n) = {}

\* What was given is at one position of the queue, or waits under one key, or is run by
\* one turn, or is gone; what was not is nowhere.
OnePlace == \A p \in Requests, n \in Nat : Once(p, n) /\ (Nowhere(p, n) \/ Given(p, n))

\* What a turn asked before it reported is granted for ever.
CarriedGranted == \A k \in DOMAIN turns : Carried(turns[k]) \subseteq wild

IInv == TypeInv /\ OnePlace /\ CarriedGranted

\* Positions leave a set, or move, but no two to the same place.
Kept(T, U) == (AtOne(T) => AtOne(U)) /\ (T = {} => U = {})
Stays(p, n) ==
  /\ Kept(Queued(p, n), Queued(p, n)')
  /\ Kept(Waiting(p, n), Waiting(p, n)')
  /\ Kept(Run(p, n), Run(p, n)')

LEMMA StayingKeepsOne ==
  ASSUME NEW p \in Requests, NEW n \in Nat, Stays(p, n)
  PROVE  (Once(p, n) => Once(p, n)') /\ (Nowhere(p, n) => Nowhere(p, n)')
<1> DEFINE a == Queued(p, n)
           b == Waiting(p, n)
           c == Run(p, n)
<1>1. Kept(a, a') /\ Kept(b, b') /\ Kept(c, c')
  BY DEF Stays
<1>2. (Once(p, n) <=> /\ AtOne(a) /\ AtOne(b) /\ AtOne(c)
                      /\ (a = {} \/ b = {}) /\ (a = {} \/ c = {}) /\ (b = {} \/ c = {}))
      /\ (Nowhere(p, n) <=> a = {} /\ b = {} /\ c = {})
  BY DEF Once, Nowhere
<1>3. (Once(p, n)' <=> /\ AtOne(a') /\ AtOne(b') /\ AtOne(c')
                       /\ (a' = {} \/ b' = {}) /\ (a' = {} \/ c' = {}) /\ (b' = {} \/ c' = {}))
      /\ (Nowhere(p, n)' <=> a' = {} /\ b' = {} /\ c' = {})
  BY DEF Once, Nowhere, AtOne
<1> HIDE DEF a, b, c
<1> QED BY <1>1, <1>2, <1>3 DEF Kept

\* One ticket changes its place, the others stay.
LEMMA OneMoves ==
  ASSUME OnePlace, NEW q \in Requests, NEW m \in Nat, Once(q, m)', Given(q, m)',
         \A p \in Requests, n \in Nat : Given(p, n) => Given(p, n)',
         \A p \in Requests, n \in Nat : p # q \/ n # m => Stays(p, n)
  PROVE  OnePlace'
<1> SUFFICES ASSUME NEW p \in Requests, NEW n \in Nat
             PROVE  Once(p, n)' /\ (Nowhere(p, n)' \/ Given(p, n)')
  BY DEF OnePlace, Once, Nowhere, Given, AtOne, Queued, Waiting, Run, Plain
<1>1. CASE p = q /\ n = m
  BY <1>1
<1>2. CASE p # q \/ n # m
  BY <1>2, StayingKeepsOne DEF OnePlace
<1> QED BY <1>1, <1>2

LEMMA NoneMoves ==
  ASSUME OnePlace, UNCHANGED <<unsent, reports>>,
         \A p \in Requests, n \in Nat : Stays(p, n)
  PROVE  OnePlace'
<1> SUFFICES ASSUME NEW p \in Requests, NEW n \in Nat
             PROVE  Once(p, n)' /\ (Nowhere(p, n)' \/ Given(p, n)')
  BY DEF OnePlace, Once, Nowhere, Given, AtOne, Queued, Waiting, Run, Plain
<1>1. Given(p, n) => Given(p, n)'
  BY DEF Given
<1> QED BY <1>1, StayingKeepsOne DEF OnePlace

-----------------------------------------------------------------------------
(* How queue, dict and turns change the places of requests *)

\* rest is the queue, or what is left of it.
Rest(rest) ==
  /\ rest \in Seq(Message)
  /\ \E c \in {0, 1} : \A i \in DOMAIN rest :
       i \in Nat /\ i + c \in DOMAIN inbox /\ rest[i] = inbox[i + c]

LEMMA Rests ==
  ASSUME TypeInv
  PROVE  Rest(inbox) /\ (inbox # <<>> => Rest(Tail(inbox)))
<1>1. inbox \in Seq(Message) /\ DOMAIN inbox \subseteq Nat
  BY LenProperties DEF TypeInv
<1>2. Rest(inbox)
  <2>1. \A i \in DOMAIN inbox : i \in Nat /\ i + 0 \in DOMAIN inbox /\ inbox[i] = inbox[i + 0]
    BY <1>1
  <2> QED BY <1>1, <2>1 DEF Rest
<1>3. ASSUME inbox # <<>> PROVE Rest(Tail(inbox))
  BY <1>3, NextMessage DEF Rest
<1> QED BY <1>2, <1>3

LEMMA QueueShrinks ==
  ASSUME NEW rest, Rest(rest), inbox' = rest
  PROVE  \A p \in Requests, n \in Nat : Kept(Queued(p, n), Queued(p, n)')
<1>1. PICK c \in {0, 1} : \A i \in DOMAIN inbox' :
        i \in Nat /\ i + c \in DOMAIN inbox /\ inbox'[i] = inbox[i + c]
  BY DEF Rest
<1> TAKE p \in Requests, n \in Nat
<1>2. \A i \in Queued(p, n)' : i \in Nat /\ i + c \in Queued(p, n)
  BY <1>1 DEF Queued, Plain
<1>3. \A i, j \in Queued(p, n)' : i + c = j + c => i = j
  BY <1>2
<1> HIDE DEF Queued
<1> QED BY <1>2, <1>3 DEF Kept, AtOne

LEMMA QueueGrows ==
  ASSUME NEW rest, Rest(rest), NEW m \in Message, inbox' = Append(rest, m)
  PROVE  \A p \in Requests, n \in Nat :
           /\ m # Plain(p, n) => Kept(Queued(p, n), Queued(p, n)')
           /\ Queued(p, n) = {} => AtOne(Queued(p, n)')
<1>1. PICK c \in {0, 1} : \A i \in DOMAIN rest :
        i \in Nat /\ i + c \in DOMAIN inbox /\ rest[i] = inbox[i + c]
  BY DEF Rest
<1> DEFINE l == Len(rest) + 1
<1>2. /\ DOMAIN inbox' = DOMAIN rest \cup {l} /\ l \notin DOMAIN rest
      /\ \A i \in DOMAIN rest : inbox'[i] = rest[i]
      /\ inbox'[l] = m
  BY AppendAdds DEF Rest
<1> HIDE DEF l
<1> TAKE p \in Requests, n \in Nat
<1>3. \A i \in Queued(p, n)' :
        (i = l /\ m = Plain(p, n)) \/ (i \in Nat /\ i + c \in Queued(p, n))
  BY <1>1, <1>2 DEF Queued, Plain
<1>4. \A i, j \in Queued(p, n)' : i \in Nat /\ j \in Nat /\ i + c = j + c => i = j
  OBVIOUS
<1> HIDE DEF Queued
<1>5. Queued(p, n) = {} => AtOne(Queued(p, n)')
  BY <1>3 DEF AtOne
<1>6. m # Plain(p, n) => Kept(Queued(p, n), Queued(p, n)')
  BY <1>3, <1>4 DEF Kept, AtOne
<1> QED BY <1>5, <1>6

LEMMA DictShrinks ==
  ASSUME TypeInv, NEW k \in DOMAIN pending, pending' = Without(pending, k),
         NEW q, pending[k].of = q, NEW m, pending[k].no = m
  PROVE  /\ \A p \in Requests, n \in Nat : Kept(Waiting(p, n), Waiting(p, n)')
         /\ Waiting(q, m) # {}
         /\ AtOne(Waiting(q, m)) => Waiting(q, m)' = {}
<1>1. PICK was \in [DOMAIN pending' -> DOMAIN pending \ {k}] :
         /\ \A i \in DOMAIN pending' : pending'[i] = pending[was[i]]
         /\ \A i, j \in DOMAIN pending' : was[i] = was[j] => i = j
  BY EntryLeaves
<1>2. \A p, n : \A i \in Waiting(p, n)' : i \in DOMAIN pending' /\ was[i] \in Waiting(p, n) \ {k}
  BY <1>1 DEF Waiting
<1>3. k \in Waiting(q, m)
  BY DEF Waiting
<1>4. \A p \in Requests, n \in Nat : Kept(Waiting(p, n), Waiting(p, n)')
  <2> TAKE p \in Requests, n \in Nat
  <2>1. \A i \in Waiting(p, n)' : i \in DOMAIN pending' /\ was[i] \in Waiting(p, n)
    BY <1>2
  <2> HIDE DEF Waiting
  <2> QED BY <1>1, <2>1 DEF Kept, AtOne
<1>5. ASSUME AtOne(Waiting(q, m)) PROVE Waiting(q, m)' = {}
  <2>1. \A i \in Waiting(q, m)' : was[i] \in Waiting(q, m) \ {k}
    BY <1>2
  <2> HIDE DEF Waiting
  <2> QED BY <1>3, <1>5, <2>1 DEF AtOne
<1> QED BY <1>3, <1>4, <1>5

LEMMA RunsGoOn ==
  ASSUME TurnsGoOn, DOMAIN turns' = DOMAIN turns
  PROVE  \A p \in Requests, n \in Nat : Run(p, n)' = Run(p, n)
BY DEF Run, TurnsGoOn, GoesOn

LEMMA RunBegins ==
  ASSUME TypeInv, NEW q \in Requests, NEW m \in Nat, turns' = Append(turns, NewTurn(q, m))
  PROVE  /\ \A p \in Requests, n \in Nat : p # q \/ n # m => Run(p, n)' = Run(p, n)
         /\ Run(q, m) = {} => AtOne(Run(q, m)')
<1>1. /\ DOMAIN turns' = DOMAIN turns \cup {Len(turns) + 1}
      /\ turns'[Len(turns) + 1] = NewTurn(q, m)
      /\ \A j \in DOMAIN turns : turns'[j] = turns[j]
  BY TurnBegins
<1>2. NewTurn(q, m).of = q /\ NewTurn(q, m).no = m
  BY DEF NewTurn
<1>3. \A p \in Requests, n \in Nat : p # q \/ n # m => Run(p, n)' = Run(p, n)
  BY <1>1, <1>2 DEF Run
<1>4. Run(q, m) = {} => \A k \in Run(q, m)' : k = Len(turns) + 1
  BY <1>1 DEF Run
<1> QED BY <1>3, <1>4 DEF AtOne

-----------------------------------------------------------------------------
(* Every step keeps requests at one place *)

\* The places of an issue that leaves a place, and takes another.
LEMMA OnceSomewhere ==
  ASSUME NEW p \in Requests, NEW n \in Nat, Once(p, n)
  PROVE  /\ AtOne(Queued(p, n)) /\ AtOne(Waiting(p, n)) /\ AtOne(Run(p, n))
         /\ Queued(p, n) # {} => Waiting(p, n) = {} /\ Run(p, n) = {}
         /\ Waiting(p, n) # {} => Queued(p, n) = {} /\ Run(p, n) = {}
         /\ Run(p, n) # {} => Queued(p, n) = {} /\ Waiting(p, n) = {}
BY DEF Once

LEMMA OnceAfter ==
  ASSUME NEW p \in Requests, NEW n \in Nat, NEW a, NEW b, NEW c,
         a = Queued(p, n)', b = Waiting(p, n)', c = Run(p, n)',
         AtOne(a), AtOne(b), AtOne(c), a = {} \/ b = {}, a = {} \/ c = {}, b = {} \/ c = {}
  PROVE  Once(p, n)'
BY DEF Once, AtOne

LEMMA SameIsKept == \A T : Kept(T, T)
BY DEF Kept

LEMMA PlainsDiffer ==
  \A p, n, q, m : Plain(p, n) = Plain(q, m) => p = q /\ n = m
BY DEF Plain

\* A waiting request leaves the dict for the end of the queue.
LEMMA RequeuePlaces ==
  ASSUME TypeInv, OnePlace, NEW rest, Rest(rest), NEW k \in DOMAIN pending,
         inbox' = Append(rest, Plain(pending[k].of, pending[k].no)), pending' = Without(pending, k),
         unsent' \subseteq unsent, UNCHANGED <<turns, reports>>
  PROVE  OnePlace'
<1>1. pending[k] \in Entry
  BY EntryLeaves
<1>2. PICK q \in Requests, m \in Nat : pending[k].of = q /\ pending[k].no = m
  BY <1>1 DEF Entry
<1>3. Plain(q, m) \in Message
  BY DEF Plain, Message
<1>4. \A p \in Requests, n \in Nat :
        /\ Plain(q, m) # Plain(p, n) => Kept(Queued(p, n), Queued(p, n)')
        /\ Queued(p, n) = {} => AtOne(Queued(p, n)')
  BY <1>2, <1>3, QueueGrows
<1>5. /\ \A p \in Requests, n \in Nat : Kept(Waiting(p, n), Waiting(p, n)')
      /\ Waiting(q, m) # {}
      /\ AtOne(Waiting(q, m)) => Waiting(q, m)' = {}
  BY <1>2, DictShrinks
<1>6. \A p \in Requests, n \in Nat : Run(p, n)' = Run(p, n)
  BY DEF Run
<1>7. Once(q, m) /\ (Nowhere(q, m) \/ Given(q, m))
  BY DEF OnePlace
<1>8. AtOne(Waiting(q, m)) /\ Queued(q, m) = {} /\ Run(q, m) = {}
  BY <1>5, <1>7, OnceSomewhere
<1>9. \A p \in Requests, n \in Nat : Given(p, n) => Given(p, n)'
  BY DEF Given
<1>10. Given(q, m)'
  BY <1>5, <1>7, <1>9 DEF Nowhere
<1>11. AtOne({})
  BY DEF AtOne
<1>12. Once(q, m)'
  BY <1>4, <1>5, <1>6, <1>8, <1>11, OnceAfter
<1>13. \A p \in Requests, n \in Nat : p # q \/ n # m => Stays(p, n)
  BY <1>4, <1>5, <1>6, PlainsDiffer, SameIsKept DEF Stays
<1> QED BY <1>9, <1>10, <1>12, <1>13, OneMoves

\* A message that is nobody's request leaves the queue, and turns go on.
LEMMA ConsumePlaces ==
  ASSUME OnePlace, NEW rest, Rest(rest), inbox' = rest, TurnsGoOn, DOMAIN turns' = DOMAIN turns,
         UNCHANGED <<unsent, pending, reports>>
  PROVE  OnePlace'
<1>1. \A p \in Requests, n \in Nat : Waiting(p, n)' = Waiting(p, n)
  BY DEF Waiting
<1> QED BY <1>1, QueueShrinks, RunsGoOn, SameIsKept, NoneMoves DEF Stays

LEMMA StoreSecretPlaces ==
  ASSUME TypeInv, OnePlace, NEW n, NEW rest, Rest(rest), StoreSecret(n, rest)
  PROVE  OnePlace'
<1>1. UNCHANGED <<unsent, turns, reports>>
  BY DEF StoreSecret
<1>2. CASE inbox' = rest /\ UNCHANGED pending
  BY <1>1, <1>2, ConsumePlaces DEF TurnsGoOn, GoesOn
<1>3. ASSUME NEW i \in DOMAIN pending, inbox' = Append(rest, Plain(pending[i].of, pending[i].no)),
             pending' = Without(pending, i)
      PROVE  OnePlace'
  BY <1>1, <1>3, RequeuePlaces
<1> QED BY <1>2, <1>3 DEF StoreSecret, Hits

LEMMA RouteTurnPlaces ==
  ASSUME TypeInv, OnePlace, inbox # <<>>, RouteTurn(Head(inbox), Tail(inbox))
  PROVE  OnePlace'
<1>1. /\ Head(inbox) \in Message /\ Head(inbox) = inbox[1] /\ 1 \in DOMAIN inbox
      /\ \A i \in DOMAIN Tail(inbox) :
           i \in Nat \ {0} /\ i + 1 \in DOMAIN inbox /\ Tail(inbox)[i] = inbox[i + 1]
  BY NextMessage
<1>2. PICK q \in Requests, m \in Nat : Head(inbox) = Plain(q, m) /\ Head(inbox).of = q /\ Head(inbox).no = m
  BY <1>1, PlainMessage DEF RouteTurn
<1>3. /\ inbox' = Tail(inbox) /\ turns' = Append(turns, NewTurn(q, m))
      /\ UNCHANGED <<unsent, pending, reports>>
  BY <1>2 DEF RouteTurn
<1>4. \A p \in Requests, n \in Nat : Kept(Queued(p, n), Queued(p, n)')
  BY <1>3, Rests, QueueShrinks
<1>5. 1 \in Queued(q, m)
  BY <1>1, <1>2 DEF Queued
<1>6. AtOne(Queued(q, m)) => Queued(q, m)' = {}
  <2>1. \A i \in Queued(q, m)' : i \in Nat \ {0} /\ i + 1 \in Queued(q, m)
    BY <1>1, <1>3 DEF Queued, Plain
  <2> HIDE DEF Queued
  <2> QED BY <1>5, <2>1 DEF AtOne
<1>7. \A p \in Requests, n \in Nat : Waiting(p, n)' = Waiting(p, n)
  BY <1>3 DEF Waiting
<1>8. /\ \A p \in Requests, n \in Nat : p # q \/ n # m => Run(p, n)' = Run(p, n)
      /\ Run(q, m) = {} => AtOne(Run(q, m)')
  BY <1>3, RunBegins
<1>9. Once(q, m) /\ (Nowhere(q, m) \/ Given(q, m))
  BY DEF OnePlace
<1>10. AtOne(Queued(q, m)) /\ Waiting(q, m) = {} /\ Run(q, m) = {}
  BY <1>5, <1>9, OnceSomewhere
<1>11. \A p \in Requests, n \in Nat : Given(p, n) => Given(p, n)'
  BY <1>3 DEF Given
<1>12. Given(q, m)'
  BY <1>5, <1>9, <1>11 DEF Nowhere
<1>13. AtOne({})
  BY DEF AtOne
<1>14. Once(q, m)'
  BY <1>6, <1>7, <1>8, <1>10, <1>13, OnceAfter
<1>15. \A p \in Requests, n \in Nat : p # q \/ n # m => Stays(p, n)
  BY <1>4, <1>7, <1>8, SameIsKept DEF Stays
<1> QED BY <1>11, <1>12, <1>14, <1>15, OneMoves

LEMMA DispatchPlaces ==
  ASSUME TypeInv, OnePlace, Dispatch
  PROVE  OnePlace'
<1> DEFINE m == Head(inbox)
           rest == Tail(inbox)
<1>0. inbox # <<>> /\ Route(m, rest) /\ m \in Message /\ rest \in Seq(Message) /\ Rest(rest)
  BY NextMessage, Rests DEF Dispatch
<1>1. CASE RouteTurn(m, rest)
  BY <1>0, <1>1, RouteTurnPlaces
<1> HIDE DEF m, rest
<1>2. CASE RouteApprove(m, rest)
  BY <1>0, <1>2, RouteApproveTypes, ConsumePlaces DEF RouteApprove
<1>3. CASE RouteSecret(m, rest) \/ RouteValue(m, rest)
  BY <1>0, <1>3, StoreSecretPlaces DEF RouteSecret, RouteValue
<1> QED BY <1>0, <1>1, <1>2, <1>3 DEF Route

LEMMA ReportPlaces ==
  ASSUME TypeInv, OnePlace, NEW k \in DOMAIN turns, Report(k)
  PROVE  OnePlace'
<1> DEFINE p0 == turns[k].of
           n0 == reports[p0] + 1
           e0 == [key |-> turns[k].missing, of |-> p0, no |-> n0]
<1>0. /\ p0 \in Requests /\ n0 \in Nat /\ n0 = reports[p0] + 1 /\ reports' = [reports EXCEPT ![p0] = n0]
      /\ \A i \in DOMAIN pending' : pending'[i] = e0 \/ (i \in DOMAIN pending /\ pending'[i] = pending[i])
      /\ DOMAIN turns' = DOMAIN turns /\ TurnsGoOn
      /\ TypeInv' /\ e0.of = p0 /\ e0.no = n0
  BY ReportTypes
<1> HIDE DEF p0, n0, e0
<1>a. PICK q \in Requests, m \in Nat : q = p0 /\ m = n0
  BY <1>0
<1>1. PICK e :
        /\ m = reports[q] + 1 /\ reports' = [reports EXCEPT ![q] = m]
        /\ \A i \in DOMAIN pending' : pending'[i] = e \/ (i \in DOMAIN pending /\ pending'[i] = pending[i])
        /\ DOMAIN turns' = DOMAIN turns /\ TurnsGoOn
        /\ TypeInv' /\ e.of = q /\ e.no = m
  BY <1>0, <1>a
<1>2. UNCHANGED <<unsent, inbox>> /\ reports \in [Requests -> Nat]
  BY DEF Report, TypeInv
<1>3. Nowhere(q, m)
  BY <1>1, <1>2 DEF OnePlace, Given
<1>4. \A p \in Requests, n \in Nat : Queued(p, n)' = Queued(p, n) /\ Run(p, n)' = Run(p, n)
  BY <1>1, <1>2, RunsGoOn DEF Queued, Plain
<1>5. e.of = q /\ e.no = m
  BY <1>1
<1>6. \A p \in Requests, n \in Nat : p # q \/ n # m => Waiting(p, n)' \subseteq Waiting(p, n)
  BY <1>1, <1>5 DEF Waiting
<1>7. \A i \in Waiting(q, m)' : i \in DOMAIN pending' /\ pending'[i] = e
  BY <1>1, <1>3 DEF Waiting, Nowhere
<1>8. AtOne(Waiting(q, m)')
  BY <1>1, <1>7 DEF AtOne, TypeInv, KeysDiffer
<1>9. \A p \in Requests, n \in Nat : Given(p, n) => Given(p, n)'
  BY <1>1, <1>2 DEF Given
<1>10. Given(q, m)'
  BY <1>1, <1>2 DEF Given
<1>11. AtOne({})
  BY DEF AtOne
<1>12. Once(q, m)'
  BY <1>3, <1>4, <1>8, <1>11, OnceAfter DEF Nowhere
<1>13. \A p \in Requests, n \in Nat : p # q \/ n # m => Kept(Waiting(p, n), Waiting(p, n)')
  BY <1>6 DEF Kept, AtOne
<1>14. \A p \in Requests, n \in Nat : p # q \/ n # m => Stays(p, n)
  BY <1>4, <1>13, SameIsKept DEF Stays
<1> QED BY <1>9, <1>10, <1>12, <1>14, OneMoves

\* Between one report and the next a turn keeps its request and what it asked.
LEMMA TurnStep ==
  ASSUME TypeInv, NEW k \in DOMAIN turns, Turn(k), ~Report(k)
  PROVE  /\ UNCHANGED <<unsent, inbox, pending, reports, wild>>
         /\ TurnsGoOn /\ DOMAIN turns' = DOMAIN turns
         /\ \A j \in DOMAIN turns : Carried(turns'[j]) = Carried(turns[j])
<1>0. turns[k] \in TurnRecord /\ TurnOK(turns[k])
  BY ATurn
<1>1. \A j \in DOMAIN turns : turns[j].asked \in Seq(Tools)
  BY ATurn DEF TurnRecord
<1>2. CASE \E c \in May(turns[k]) : AskTool(k, c)
  <2>1. PICK c \in May(turns[k]) : AskTool(k, c)
    BY <1>2
  <2> DEFINE s == Append(turns[k].asked, c.tool)
             u == [turns[k] EXCEPT !.at = "asking", !.ran = @ + 1, !.needs = c.needs, !.asked = s]
  <2>2. /\ turns' = [turns EXCEPT ![k] = u]
        /\ UNCHANGED <<unsent, inbox, pending, reports, wild>>
    BY <2>1 DEF AskTool
  <2>3. c.tool \in Tools
    BY <2>1, AClam DEF AskTool, Covered, Clam
  <2>4. /\ DOMAIN turns[k].asked \subseteq DOMAIN s
        /\ \A i \in DOMAIN turns[k].asked : s[i] = turns[k].asked[i]
    BY <1>1, <2>3, AppendAdds
  <2>5. \A i \in 1 .. turns[k].carried : i \in DOMAIN turns[k].asked
    BY <1>0, <1>1, LenProperties DEF TurnOK
  <2> HIDE DEF s
  <2>6. u.of = turns[k].of /\ u.no = turns[k].no /\ u.asked = s /\ u.carried = turns[k].carried
    BY <1>0 DEF TurnRecord
  <2>7. Carried(u) = Carried(turns[k])
    BY <2>4, <2>5, <2>6 DEF Carried
  <2> HIDE DEF u
  <2>8. /\ DOMAIN turns' = DOMAIN turns
        /\ turns'[k] = u /\ \A j \in DOMAIN turns : j # k => turns'[j] = turns[j]
    BY <2>2
  <2> QED BY <2>2, <2>4, <2>6, <2>7, <2>8 DEF TurnsGoOn, GoesOn
<1>3. CASE ~\E c \in May(turns[k]) : AskTool(k, c)
  <2>1. /\ UNCHANGED <<unsent, inbox, pending, reports, wild>>
        /\ DOMAIN turns' = DOMAIN turns
        /\ \A j \in DOMAIN turns : j # k => turns'[j] = turns[j]
        /\ turns'[k].of = turns[k].of /\ turns'[k].no = turns[k].no
        /\ turns'[k].asked = turns[k].asked /\ turns'[k].carried = turns[k].carried
    <3> DEFINE Same ==
          /\ UNCHANGED <<unsent, inbox, pending, reports, wild>>
          /\ DOMAIN turns' = DOMAIN turns
          /\ \A j \in DOMAIN turns : j # k => turns'[j] = turns[j]
          /\ turns'[k].of = turns[k].of /\ turns'[k].no = turns[k].no
          /\ turns'[k].asked = turns[k].asked /\ turns'[k].carried = turns[k].carried
    <3>1. CASE Begin(k) \/ AskTimesOut(k) \/ End(k)
      BY <1>0, <3>1 DEF Begin, AskTimesOut, End, Goes, gate, TurnRecord
    <3>2. CASE Return(k)
      BY <1>0, <3>2 DEF Return, gate, TurnRecord
    <3>3. CASE Misses(k)
      <4>1. \E x : turns' = [turns EXCEPT ![k] = [turns[k] EXCEPT !.at = "missing", !.missing = x]]
        BY <3>3 DEF Misses
      <4>2. UNCHANGED <<unsent, inbox, pending, reports, wild>>
        BY <3>3 DEF Misses, gate
      <4> QED BY <1>0, <4>1, <4>2 DEF TurnRecord
    <3>4. ASSUME NEW c \in May(turns[k]), CallTool(k, c) PROVE Same
      BY <1>0, <3>4 DEF CallTool, gate, TurnRecord
    <3> QED BY <1>3, <3>1, <3>2, <3>3, <3>4 DEF Turn
  <2>2. \A j \in DOMAIN turns :
          turns'[j].of = turns[j].of /\ turns'[j].no = turns[j].no
          /\ turns'[j].asked = turns[j].asked /\ turns'[j].carried = turns[j].carried
    BY <2>1
  <2> QED BY <2>1, <2>2 DEF TurnsGoOn, GoesOn, Carried
<1> QED BY <1>2, <1>3

LEMMA TurnPlaces ==
  ASSUME TypeInv, OnePlace, NEW k \in DOMAIN turns, Turn(k)
  PROVE  OnePlace'
<1>1. CASE Report(k)
  BY <1>1, ReportPlaces
<1>2. CASE ~Report(k)
  BY <1>2, TurnStep, Rests, ConsumePlaces
<1> QED BY <1>1, <1>2

\* A request is sent or injected: it was nowhere.
LEMMA SendPlaces ==
  ASSUME TypeInv, OnePlace, NEW p \in Requests, Send(p)
  PROVE  OnePlace'
<1>1. /\ inbox' = Append(inbox, Plain(p, 0)) /\ unsent' = unsent \ {p} /\ p \in unsent
      /\ UNCHANGED <<pending, turns, reports>>
  BY DEF Send
<1>2. Plain(p, 0) \in Message /\ Rest(inbox)
  BY Rests DEF Plain, Message
<1>3. Nowhere(p, 0)
  BY <1>1 DEF OnePlace, Given
<1>4. \A r \in Requests, n \in Nat :
        /\ Plain(p, 0) # Plain(r, n) => Kept(Queued(r, n), Queued(r, n)')
        /\ Queued(r, n) = {} => AtOne(Queued(r, n)')
  BY <1>1, <1>2, QueueGrows
<1>5. \A r \in Requests, n \in Nat : Waiting(r, n)' = Waiting(r, n) /\ Run(r, n)' = Run(r, n)
  BY <1>1 DEF Waiting, Run
<1>6. \A r \in Requests, n \in Nat : Given(r, n) => Given(r, n)'
  BY <1>1 DEF Given
<1>7. Given(p, 0)'
  BY <1>1 DEF Given, TypeInv
<1>8. AtOne({})
  BY DEF AtOne
<1>9. Once(p, 0)'
  BY <1>3, <1>4, <1>5, <1>8, OnceAfter DEF Nowhere
<1>10. \A r \in Requests, n \in Nat : r # p \/ n # 0 => Stays(r, n)
  BY <1>4, <1>5, PlainsDiffer, SameIsKept DEF Stays
<1> QED BY <1>6, <1>7, <1>9, <1>10, OneMoves

LEMMA InjectPlaces ==
  ASSUME TypeInv, OnePlace, NEW p \in Requests, Inject(p)
  PROVE  OnePlace'
<1>1. unsent' = unsent \ {p} /\ p \in unsent /\ UNCHANGED reports
  BY DEF Inject
<1>2. CASE pending = <<>>
  <2>1. turns' = Append(turns, NewTurn(p, 0)) /\ UNCHANGED <<inbox, pending>>
    BY <1>2 DEF Inject
  <2>2. Nowhere(p, 0)
    BY <1>1 DEF OnePlace, Given
  <2>3. /\ \A r \in Requests, n \in Nat : r # p \/ n # 0 => Run(r, n)' = Run(r, n)
        /\ Run(p, 0) = {} => AtOne(Run(p, 0)')
    BY <2>1, RunBegins
  <2>4. \A r \in Requests, n \in Nat : Queued(r, n)' = Queued(r, n) /\ Waiting(r, n)' = Waiting(r, n)
    BY <2>1 DEF Queued, Waiting, Plain
  <2>5. \A r \in Requests, n \in Nat : Given(r, n) => Given(r, n)'
    BY <1>1 DEF Given
  <2>6. Given(p, 0)'
    BY <1>1 DEF Given, TypeInv
  <2>7. AtOne({})
    BY DEF AtOne
  <2>8. Once(p, 0)'
    BY <2>2, <2>3, <2>4, <2>7, OnceAfter DEF Nowhere
  <2>9. \A r \in Requests, n \in Nat : r # p \/ n # 0 => Stays(r, n)
    BY <2>3, <2>4, SameIsKept DEF Stays
  <2> QED BY <2>5, <2>6, <2>8, <2>9, OneMoves
<1>3. CASE pending # <<>>
  <2>1. /\ inbox' = Append(inbox, Plain(pending[1].of, pending[1].no))
        /\ pending' = Without(pending, 1) /\ UNCHANGED turns
    BY <1>3 DEF Inject
  <2> QED BY <1>1, <1>3, <2>1, FirstWaits, Rests, RequeuePlaces
<1> QED BY <1>2, <1>3

\* A message joins the queue that is no request.
LEMMA OtherPlaces ==
  ASSUME TypeInv, OnePlace, NEW m \in Message, m.kind # "plain", inbox' = Append(inbox, m),
         UNCHANGED <<unsent, pending, turns, reports>>
  PROVE  OnePlace'
<1>1. \A p \in Requests, n \in Nat : m # Plain(p, n)
  BY DEF Plain
<1>2. \A p \in Requests, n \in Nat : Kept(Queued(p, n), Queued(p, n)')
  BY <1>1, Rests, QueueGrows
<1>3. \A p \in Requests, n \in Nat : Waiting(p, n)' = Waiting(p, n) /\ Run(p, n)' = Run(p, n)
  BY DEF Waiting, Run
<1> QED BY <1>2, <1>3, SameIsKept, NoneMoves DEF Stays

LEMMA WorldPlaces ==
  ASSUME TypeInv, OnePlace, World
  PROVE  OnePlace'
<1>1. ASSUME NEW q \in open, NEW allow \in BOOLEAN, Answer(q, allow)
      PROVE  OnePlace'
  <2> DEFINE m == [kind |-> "approve", question |-> q, allow |-> allow]
  <2>1. m \in Message /\ m.kind # "plain"
    BY DEF Message, TypeInv, GateType
  <2>2. inbox' = Append(inbox, m) /\ UNCHANGED <<unsent, pending, turns, reports>>
    BY <1>1 DEF Answer
  <2> HIDE DEF m
  <2> QED BY <2>1, <2>2, OtherPlaces
<1>2. ASSUME NEW n \in Names, TypeSecret(n)
      PROVE  OnePlace'
  <2> DEFINE m == [kind |-> "secret", name |-> n]
  <2>1. m \in Message /\ m.kind # "plain"
    BY DEF Message
  <2>2. inbox' = Append(inbox, m) /\ UNCHANGED <<unsent, pending, turns, reports>>
    BY <1>2 DEF TypeSecret
  <2> HIDE DEF m
  <2> QED BY <2>1, <2>2, OtherPlaces
<1> QED BY <1>1, <1>2, SendPlaces, InjectPlaces DEF World

-----------------------------------------------------------------------------
(* Grants *)

LEMMA BeginningCarriesNothing ==
  ASSUME TypeInv, CarriedGranted, NEW p \in Requests, NEW n \in Nat,
         turns' = Append(turns, NewTurn(p, n)), wild' = wild
  PROVE  CarriedGranted'
<1>1. /\ DOMAIN turns' = DOMAIN turns \cup {Len(turns) + 1}
      /\ turns'[Len(turns) + 1] = NewTurn(p, n)
      /\ \A j \in DOMAIN turns : turns'[j] = turns[j]
  BY TurnBegins
<1>2. NewTurn(p, n).carried = 0
  BY DEF NewTurn
<1>3. Carried(turns'[Len(turns) + 1]) = {}
  BY <1>1, <1>2 DEF Carried
<1>4. \A j \in DOMAIN turns' : Carried(turns'[j]) \subseteq wild'
  BY <1>1, <1>3 DEF CarriedGranted
<1> QED BY <1>4 DEF CarriedGranted, Carried

LEMMA ReportGrants ==
  ASSUME TypeInv, CarriedGranted, NEW k \in DOMAIN turns, Report(k)
  PROVE  CarriedGranted'
<1>1. /\ turns' = [turns EXCEPT ![k].at = "between", ![k].needs = <<>>, ![k].missing = <<>>,
                                ![k].carried = Len(turns[k].asked)]
      /\ wild' = wild \cup AskedBy(turns[k])
  BY DEF Report, Reported
<1>2. turns[k] \in TurnRecord
  BY ATurn
<1>3. /\ DOMAIN turns' = DOMAIN turns /\ \A j \in DOMAIN turns : j # k => turns'[j] = turns[j]
      /\ turns'[k].asked = turns[k].asked /\ turns'[k].carried = Len(turns[k].asked)
  BY <1>1, <1>2 DEF TurnRecord
<1>4. DOMAIN turns[k].asked = 1 .. Len(turns[k].asked)
  BY <1>2, LenProperties DEF TurnRecord
<1>5. Carried(turns'[k]) \subseteq AskedBy(turns[k])
  BY <1>3, <1>4 DEF Carried, AskedBy
<1> QED BY <1>1, <1>3, <1>5 DEF CarriedGranted, Carried

LEMMA GrantsKept ==
  ASSUME TypeInv, CarriedGranted, Next
  PROVE  CarriedGranted'
<1>1. CASE UNCHANGED <<turns, wild>>
  BY <1>1 DEF CarriedGranted, Carried
<1>2. CASE Dispatch
  <2> DEFINE m == Head(inbox)
             rest == Tail(inbox)
  <2>1. Route(m, rest) /\ m \in Message
    BY <1>2, NextMessage DEF Dispatch
  <2> HIDE DEF m, rest
  <2>2. CASE RouteApprove(m, rest)
    <3>1. wild' = wild
      BY <2>2 DEF RouteApprove
    <3>2. turns' = turns \/ \E k \in DOMAIN turns : turns' = [turns EXCEPT ![k].at = "script"]
      BY <2>2 DEF RouteApprove, Goes, Asking
    <3>3. ASSUME NEW k \in DOMAIN turns, turns' = [turns EXCEPT ![k].at = "script"]
          PROVE  turns'[k].asked = turns[k].asked /\ turns'[k].carried = turns[k].carried
      BY <3>3, ATurn DEF TurnRecord
    <3>4. DOMAIN turns' = DOMAIN turns /\ \A j \in DOMAIN turns :
            turns'[j].asked = turns[j].asked /\ turns'[j].carried = turns[j].carried
      BY <3>2, <3>3
    <3> QED BY <3>1, <3>4 DEF CarriedGranted, Carried
  <2>3. CASE RouteSecret(m, rest) \/ RouteValue(m, rest)
    BY <1>1, <2>3 DEF RouteSecret, RouteValue, StoreSecret, gate
  <2>4. CASE RouteTurn(m, rest)
    BY <2>1, <2>4, PlainMessage, BeginningCarriesNothing DEF RouteTurn, gate
  <2> QED BY <2>1, <2>2, <2>3, <2>4 DEF Route
<1>3. ASSUME NEW k \in DOMAIN turns, Turn(k) PROVE CarriedGranted'
  <2>1. CASE Report(k)
    BY <2>1, ReportGrants
  <2>2. CASE ~Report(k)
    <3>1. DOMAIN turns' = DOMAIN turns /\ wild' = wild
          /\ \A j \in DOMAIN turns : Carried(turns'[j]) = Carried(turns[j])
      BY <1>3, <2>2, TurnStep
    <3> QED BY <3>1 DEF CarriedGranted, Carried
  <2> QED BY <2>1, <2>2
<1>4. ASSUME NEW p \in Requests, Inject(p) PROVE CarriedGranted'
  <2>1. wild' = wild /\ (turns' = turns \/ turns' = Append(turns, NewTurn(p, 0)))
    BY <1>4 DEF Inject, gate
  <2> QED BY <1>1, <2>1, BeginningCarriesNothing
<1>5. CASE World
  BY <1>1, <1>4, <1>5 DEF World, Send, Answer, TypeSecret, gate
<1> QED BY <1>2, <1>3, <1>5 DEF Next

-----------------------------------------------------------------------------
(* The theorems *)

LEMMA InitInv == Init => OnePlace /\ CarriedGranted
<1> SUFFICES ASSUME Init PROVE OnePlace /\ CarriedGranted
  OBVIOUS
<1>1. DOMAIN inbox = {} /\ DOMAIN pending = {} /\ DOMAIN turns = {}
  BY DEF Init
<1>2. \A p \in Requests, n \in Nat : Nowhere(p, n)
  BY <1>1 DEF Nowhere, Queued, Waiting, Run
<1>3. \A p \in Requests, n \in Nat : Nowhere(p, n) => Once(p, n)
  BY DEF Nowhere, Once, AtOne
<1> QED BY <1>1, <1>2, <1>3 DEF OnePlace, CarriedGranted

LEMMA StepInv == TypeInv /\ OnePlace /\ CarriedGranted /\ [Next]_vars => (OnePlace /\ CarriedGranted)'
<1> SUFFICES ASSUME TypeInv, OnePlace, CarriedGranted, [Next]_vars
             PROVE  (OnePlace /\ CarriedGranted)'
  OBVIOUS
<1>1. CASE UNCHANGED vars
  <2>1. UNCHANGED <<unsent, inbox, pending, turns, reports, wild>>
    BY <1>1 DEF vars, gate
  <2>2. \A p \in Requests, n \in Nat : Stays(p, n)
    BY <2>1, SameIsKept DEF Stays, Queued, Waiting, Run, Plain
  <2> QED BY <2>1, <2>2, NoneMoves DEF CarriedGranted, Carried
<1>2. CASE Next
  <2>1. OnePlace'
    BY <1>2, DispatchPlaces, TurnPlaces, WorldPlaces DEF Next
  <2> QED BY <1>2, <2>1, GrantsKept
<1> QED BY <1>1, <1>2

\* However requests are sent, answered, taken for secrets and re-queued, and however
\* often a turn reports while it goes on, what was sent or reported is at one place,
\* and what was asked before a report is granted (orchestrator.py:93-250, 375-388).
THEOREM GatewayInvariance == Spec => []IInv
<1>1. TypeInv /\ OnePlace /\ CarriedGranted => IInv
  BY DEF IInv
<1> QED BY <1>1, InitInv, StepInv, TypesHold, PTL DEF Spec

LEMMA AtMostOne ==
  ASSUME NEW T, AtOne(T)
  PROVE  Cardinality(T) \in {0, 1} /\ (T = {} => Cardinality(T) = 0)
<1>1. T = {} \/ \E i : T = {i}
  BY DEF AtOne
<1> QED BY <1>1, FS_EmptySet, FS_Singleton

LEMMA OnePlaceIsOnce == OnePlace => ResumedOnce
<1> SUFFICES ASSUME OnePlace, NEW p \in Requests, NEW n \in 0 .. reports[p]
             PROVE  Cardinality(Queued(p, n)) + Cardinality(Waiting(p, n)) + Cardinality(Run(p, n)) <= 1
  BY DEF ResumedOnce
<1>1. n \in Nat /\ Once(p, n)
  BY DEF OnePlace
<1>2. /\ Cardinality(Queued(p, n)) \in {0, 1} /\ Cardinality(Waiting(p, n)) \in {0, 1}
      /\ Cardinality(Run(p, n)) \in {0, 1}
      /\ Queued(p, n) = {} => Cardinality(Queued(p, n)) = 0
      /\ Waiting(p, n) = {} => Cardinality(Waiting(p, n)) = 0
      /\ Run(p, n) = {} => Cardinality(Run(p, n)) = 0
  BY <1>1, AtMostOne DEF Once
<1> QED BY <1>1, <1>2 DEF Once

\* No report of a missing secret re-queues its request twice, whichever secrets are
\* stored in which order, and what a sender sent is begun once (orchestrator.py:226-250).
THEOREM ReportsResumeOnce == Spec => []ResumedOnce
<1>1. IInv => ResumedOnce
  BY OnePlaceIsOnce DEF IInv
<1> QED BY <1>1, GatewayInvariance, PTL

\* Whatever a turn asked before it reported a missing secret, nobody is ever asked
\* again, by the turn that goes on, by the one that is re-queued, or by another
\* (orchestrator.py:378-388).
THEOREM CarriedNeverAskedAgain == Spec => NotAskedAgain
<1>1. ASSUME IInv, NEW k \in DOMAIN turns, NEW c \in May(turns[k]), AskTool(k, c),
             NEW j \in DOMAIN turns
      PROVE  c.tool \notin Carried(turns[j])
  BY <1>1 DEF AskTool, Covered, IInv, CarriedGranted
<1>2. IInv => (\A k \in DOMAIN turns : \A c \in May(turns[k]) :
                 AskTool(k, c) => \A j \in DOMAIN turns : c.tool \notin Carried(turns[j]))
  BY <1>1
<1> QED BY <1>2, GatewayInvariance, PTL DEF Spec, NotAskedAgain

-----------------------------------------------------------------------------
(* Who is forgotten *)

\* A request stops waiting: it is re-queued, or a turn of another reports that it
\* misses the same names.
ResumedOrDisplaced ==
  \A p \in Requests : Waits(p) /\ ~Waits(p)' =>
    \/ InQueue(p)'
    \/ \E k \in DOMAIN turns :
         /\ turns[k].of # p /\ Report(k)
         /\ \E i \in DOMAIN pending : pending[i].key = turns[k].missing /\ pending[i].of = p

LEMMA RequeueLosesNone ==
  ASSUME TypeInv, NEW rest, rest \in Seq(Message), NEW k \in DOMAIN pending,
         inbox' = Append(rest, Plain(pending[k].of, pending[k].no)), pending' = Without(pending, k)
  PROVE  ResumedOrDisplaced
<1>1. pending \in Seq(Entry)
  BY DEF TypeInv
<1>2. \A i \in DOMAIN pending : i # k => \E j \in DOMAIN pending' : pending'[j] = pending[i]
  BY <1>1, WithoutLosesOne
<1>3. pending[k] \in Entry
  BY EntryLeaves
<1>4. Plain(pending[k].of, pending[k].no) \in Message
  BY <1>3 DEF Entry, Plain, Message
<1>5. /\ Len(rest) + 1 \in DOMAIN inbox'
      /\ inbox'[Len(rest) + 1] = Plain(pending[k].of, pending[k].no)
  BY <1>4, AppendAdds
<1> SUFFICES ASSUME NEW p \in Requests, Waits(p), ~Waits(p)' PROVE InQueue(p)'
  BY DEF ResumedOrDisplaced
<1>6. PICK i \in DOMAIN pending : pending[i].of = p
  BY DEF Waits
<1>7. i = k
  BY <1>2, <1>6 DEF Waits
<1> QED BY <1>5, <1>6, <1>7 DEF InQueue, Plain

LEMMA ReportDisplaces ==
  ASSUME TypeInv, NEW k \in DOMAIN turns, Report(k)
  PROVE  ResumedOrDisplaced
<1>1. /\ DOMAIN pending \subseteq DOMAIN pending'
      /\ \A i \in DOMAIN pending : pending[i].key # turns[k].missing => pending'[i] = pending[i]
  BY ReportTypes
<1>2. Waits(turns[k].of) => \E i \in DOMAIN pending' : pending'[i].of = turns[k].of
  <2> DEFINE p == turns[k].of
             e == [key |-> turns[k].missing, of |-> p, no |-> reports[p] + 1]
  <2>1. /\ \A i \in DOMAIN pending' : pending'[i] = e \/ (i \in DOMAIN pending /\ pending'[i] = pending[i])
        /\ e.of = p
    BY ReportTypes
  <2> HIDE DEF e, p
  <2>2. ASSUME NEW i \in DOMAIN pending, pending[i].of = p
        PROVE  i \in DOMAIN pending' /\ pending'[i].of = p
    BY <1>1, <2>1, <2>2
  <2> QED BY <2>2 DEF Waits, p
<1> SUFFICES ASSUME NEW p \in Requests, Waits(p), ~Waits(p)'
             PROVE  turns[k].of # p
                    /\ \E i \in DOMAIN pending : pending[i].key = turns[k].missing /\ pending[i].of = p
  BY DEF ResumedOrDisplaced
<1>3. PICK i \in DOMAIN pending : pending[i].of = p
  BY DEF Waits
<1>4. pending[i].key = turns[k].missing
  BY <1>1, <1>3 DEF Waits
<1>5. turns[k].of # p
  BY <1>2 DEF Waits
<1> QED BY <1>3, <1>4, <1>5

\* Whatever is sent, answered, missed and typed: the only way in which a request that
\* waits for a secret is forgotten is that a turn of another request misses the same
\* names in the same order, whose entry takes the place of its own (orchestrator.py:376).
THEOREM ForgottenByNamesakesAlone == Spec => [][ResumedOrDisplaced]_vars
<1>1. TypeInv /\ [Next]_vars => [ResumedOrDisplaced]_vars
  <2> SUFFICES ASSUME TypeInv, Next PROVE ResumedOrDisplaced
    OBVIOUS
  <2>1. CASE UNCHANGED pending
    BY <2>1 DEF ResumedOrDisplaced, Waits
  <2>2. ASSUME NEW n, NEW rest, rest \in Seq(Message), StoreSecret(n, rest)
        PROVE  ResumedOrDisplaced
    BY <2>1, <2>2, RequeueLosesNone DEF StoreSecret, Hits
  <2>3. CASE Dispatch
    <3>1. Tail(inbox) \in Seq(Message) /\ Route(Head(inbox), Tail(inbox))
      BY <2>3, NextMessage DEF Dispatch
    <3> QED BY <2>1, <2>2, <3>1 DEF Route, RouteApprove, RouteSecret, RouteValue, RouteTurn
  <2>4. ASSUME NEW k \in DOMAIN turns, Turn(k) PROVE ResumedOrDisplaced
    <3>1. CASE Report(k)
      BY <3>1, ReportDisplaces
    <3>2. CASE ~Report(k)
      BY <2>1, <2>4, <3>2, TurnStep
    <3> QED BY <3>1, <3>2
  <2>5. ASSUME NEW p \in Requests, Inject(p) PROVE ResumedOrDisplaced
    <3>1. CASE pending = <<>>
      BY <2>1, <2>5, <3>1 DEF Inject
    <3>2. CASE pending # <<>>
      <4>1. 1 \in DOMAIN pending /\ inbox \in Seq(Message)
        BY <3>2, FirstWaits DEF TypeInv
      <4> QED BY <2>5, <3>2, <4>1, RequeueLosesNone DEF Inject
    <3> QED BY <3>1, <3>2
  <2>6. CASE World
    BY <2>1, <2>5, <2>6 DEF World, Send, Answer, TypeSecret
  <2> QED BY <2>3, <2>4, <2>6 DEF Next
<1> QED BY <1>1, TypesHold, PTL DEF Spec
=============================================================================
