--------------------------- MODULE ProviderProofs ---------------------------
(***************************************************************************)
(* Theorems about CodexProvider, for any number of calls, of tool calls    *)
(* and of their pieces, and whatever the service sends.                    *)
(***************************************************************************)
EXTENDS CodexProvider, TLAPS

(* The default model *)

StageType == stage \in [Calls -> {"idle", "discovering", "asking", "streaming", "answered",
                                  "failed", "raised"}]

\* One discovery at most is under way; it, and one that has ended, are marked.
OneDiscovery ==
  /\ over => attempted
  /\ \A c \in Calls : stage[c] = "discovering" => attempted /\ ~over
  /\ \A c, d \in Calls : stage[c] = "discovering" /\ stage[d] = "discovering" => c = d

ModelInv == StageType /\ OneDiscovery

(* The stream *)

Completion == [item : Items, arguments : Seq(Items \X (1 .. Pieces))]

StreamType ==
  /\ events \in [Calls -> [Items -> 0 .. Pieces + 2]]
  /\ active \in [Calls -> [Items -> Seq(Items \X (1 .. Pieces)) \cup {None}]]
  /\ completed \in [Calls -> Seq(Completion)]
  /\ garbled \in [Calls -> SUBSET Items]

\* What is gathered of i are pieces of i that have been sent.
GatheredInv ==
  \A c \in Calls, i \in Items : active[c][i] # None =>
    /\ InOrder(i, active[c][i])
    /\ \A k \in DOMAIN active[c][i] : active[c][i][k][2] < events[c][i]

\* While no event of i was lost, i is open from its first event to its last, and
\* what is gathered of it are all the pieces sent.
OpenInv ==
  \A c \in Calls : \A i \in Items \ garbled[c] :
    /\ events[c][i] \in 1 .. Pieces + 1 <=> active[c][i] # None
    /\ active[c][i] # None /\ i \notin ByItemId =>
         active[c][i] = [k \in 1 .. events[c][i] - 1 |-> <<i, k>>]

\* A call that was returned has had its last event, and is what CallsWhole says.
Returned(c, k) ==
  LET e == completed[c][k]
  IN  /\ events[c][e.item] = Pieces + 2
      /\ InOrder(e.item, e.arguments)
      /\ \/ e.item \in garbled[c] \/ e.item \in ByItemId \ Repeated
         \/ e.arguments = All(e.item)
      /\ \A l \in DOMAIN completed[c] : completed[c][l].item = e.item => k = l

ReturnedInv == \A c \in Calls : \A k \in DOMAIN completed[c] : Returned(c, k)

\* One that had all its events was returned.
NoneMissing ==
  \A c \in Calls : \A i \in Items \ garbled[c] : events[c][i] = Pieces + 2 =>
    \E k \in DOMAIN completed[c] : completed[c][k].item = i

StreamInv == StreamType /\ GatheredInv /\ OpenInv /\ ReturnedInv /\ NoneMissing

-----------------------------------------------------------------------------
(* Sequences of pieces *)

LEMMA Constants ==
  /\ Pieces \in Nat /\ MaxFaults \in Nat
  /\ Response \in [Calls -> SUBSET Items]
  /\ ByItemId \subseteq Items /\ Repeated \subseteq Items
  /\ None \notin Seq(Items \X (1 .. Pieces))
BY CodexAssumption DEF CodexAssumption

LEMMA OwnPieces ==
  ASSUME NEW i \in Items, NEW s, InOrder(i, s)
  PROVE  s \in Seq(Items \X (1 .. Pieces)) /\ s # None
<1>1. s \in Seq({i} \X (1 .. Pieces))
  BY DEF InOrder
<1>2. s \in [1 .. Len(s) -> {i} \X (1 .. Pieces)] /\ Len(s) \in Nat
  BY <1>1
<1>3. s \in [1 .. Len(s) -> Items \X (1 .. Pieces)]
  BY <1>2
<1>4. s \in Seq(Items \X (1 .. Pieces))
  BY <1>2, <1>3
<1> QED BY <1>4, Constants

LEMMA NoPieces ==
  ASSUME NEW i \in Items
  PROVE  InOrder(i, <<>>) /\ <<>> # None /\ <<>> = [k \in 1 .. 0 |-> <<i, k>>]
<1>1. InOrder(i, <<>>)
  BY DEF InOrder
<1> QED BY <1>1, OwnPieces

\* The pieces before the n-th.
LEMMA PiecesInOrder ==
  ASSUME NEW i \in Items, NEW n \in 0 .. Pieces
  PROVE  InOrder(i, [k \in 1 .. n |-> <<i, k>>])
<1> DEFINE s == [k \in 1 .. n |-> <<i, k>>]
<1>1. s \in [1 .. n -> {i} \X (1 .. Pieces)]
  BY Constants
<1>2. n \in Nat
  BY Constants
<1>3. s \in Seq({i} \X (1 .. Pieces)) /\ DOMAIN s = 1 .. n
  BY <1>1, <1>2
<1>4. \A k, l \in DOMAIN s : k < l => s[k][2] < s[l][2]
  BY <1>3
<1> QED BY <1>3, <1>4 DEF InOrder

LEMMA AllInOrder ==
  ASSUME NEW i \in Items
  PROVE  InOrder(i, All(i))
BY PiecesInOrder, Constants DEF All

\* The next piece of a tool call goes behind the others.
LEMMA NextPiece ==
  ASSUME NEW i \in Items, NEW s, InOrder(i, s), NEW n \in 1 .. Pieces,
         \A k \in DOMAIN s : s[k][2] < n
  PROVE  /\ InOrder(i, Append(s, <<i, n>>))
         /\ \A k \in DOMAIN Append(s, <<i, n>>) : Append(s, <<i, n>>)[k][2] < n + 1
<1> DEFINE S == {i} \X (1 .. Pieces)
           t == Append(s, <<i, n>>)
<1>1. s \in Seq(S) /\ Len(s) \in Nat /\ DOMAIN s = 1 .. Len(s)
  BY DEF InOrder
<1>2. <<i, n>> \in S /\ n \in Nat
  BY Constants
<1>3. /\ t \in Seq(S) /\ DOMAIN t = 1 .. Len(s) + 1
      /\ t[Len(s) + 1] = <<i, n>>
      /\ \A k \in 1 .. Len(s) : t[k] = s[k]
  BY <1>1, <1>2
<1>4. \A k \in DOMAIN s : s[k] \in S /\ s[k][2] \in 1 .. Pieces /\ s[k][2] \in Nat
  <2>1. \A k \in DOMAIN s : s[k] \in S
    BY <1>1
  <2> QED BY <2>1, Constants
<1> HIDE DEF t
<1>5. \A k \in DOMAIN t : t[k][2] < n + 1
  <2> SUFFICES ASSUME NEW k \in DOMAIN t PROVE t[k][2] < n + 1
    OBVIOUS
  <2>1. CASE k = Len(s) + 1
    BY <1>2, <1>3, <2>1
  <2>2. CASE k \in 1 .. Len(s)
    BY <1>1, <1>2, <1>3, <1>4, <2>2
  <2> QED BY <1>1, <1>3, <2>1, <2>2
<1>6. \A k, l \in DOMAIN t : k < l => t[k][2] < t[l][2]
  <2> SUFFICES ASSUME NEW k \in DOMAIN t, NEW l \in DOMAIN t, k < l PROVE t[k][2] < t[l][2]
    OBVIOUS
  <2>1. k \in 1 .. Len(s) /\ t[k] = s[k]
    BY <1>1, <1>3
  <2>2. CASE l = Len(s) + 1
    BY <1>1, <1>3, <2>1, <2>2
  <2>3. CASE l \in 1 .. Len(s)
    <3>1. s[k][2] < s[l][2]
      BY <1>1, <2>1, <2>3 DEF InOrder
    <3> QED BY <1>3, <2>1, <2>3, <3>1
  <2> QED BY <1>1, <1>3, <2>2, <2>3
<1> QED BY <1>3, <1>5, <1>6 DEF t, InOrder

LEMMA NextPieceAll ==
  ASSUME NEW i \in Items, NEW n \in 1 .. Pieces
  PROVE  Append([k \in 1 .. n - 1 |-> <<i, k>>], <<i, n>>) = [k \in 1 .. n |-> <<i, k>>]
<1> DEFINE s == [k \in 1 .. n - 1 |-> <<i, k>>]
           t == [k \in 1 .. n |-> <<i, k>>]
           S == {i} \X (1 .. Pieces)
<1>1. n \in Nat /\ n - 1 \in Nat
  BY Constants
<1>2. s \in [1 .. n - 1 -> S] /\ t \in [1 .. n -> S] /\ <<i, n>> \in S
  BY Constants
<1>3. s \in Seq(S) /\ Len(s) = n - 1 /\ t \in Seq(S) /\ Len(t) = n
  BY <1>1, <1>2
<1>4. \A k \in 1 .. n - 1 : s[k] = t[k]
  BY <1>1
<1>5. t[n] = <<i, n>>
  BY <1>1
<1> HIDE DEF s, t, S
<1>6. Append(s, <<i, n>>) \in Seq(S) /\ Len(Append(s, <<i, n>>)) = n
  BY <1>1, <1>2, <1>3
<1>7. \A k \in 1 .. n : Append(s, <<i, n>>)[k] = t[k]
  BY <1>1, <1>2, <1>3, <1>4, <1>5
<1>8. Append(s, <<i, n>>) = t
  BY <1>3, <1>6, <1>7
<1> QED BY <1>8 DEF s, t

-----------------------------------------------------------------------------
(* The default model: what each step does to the stage of the calls *)

LEMMA ModelInit == Init => ModelInv
BY DEF Init, ModelInv, StageType, OneDiscovery

LEMMA GoesType ==
  ASSUME StageType, NEW c \in Calls, NEW from, NEW to,
         to \in {"idle", "discovering", "asking", "streaming", "answered", "failed", "raised"},
         Goes(c, from, to)
  PROVE  /\ StageType' /\ stage'[c] = to
         /\ \A d \in Calls \ {c} : stage'[d] = stage[d]
BY DEF StageType, Goes

LEMMA TokenFetchedModel ==
  ASSUME ModelInv, NEW c \in Calls, TokenFetched(c)
  PROVE  ModelInv'
<1>1. StageType /\ OneDiscovery /\ over' = over
  BY DEF ModelInv, TokenFetched, shared
<1>2. CASE c \in Named \/ ~Discoverable \/ resolved # None \/ attempted
  <2>1. Goes(c, "idle", "asking") /\ attempted' = attempted
    BY <1>2 DEF TokenFetched
  <2>2. StageType' /\ stage'[c] = "asking" /\ \A d \in Calls \ {c} : stage'[d] = stage[d]
    BY <1>1, <2>1, GoesType
  <2> QED BY <1>1, <2>1, <2>2 DEF ModelInv, OneDiscovery
<1>3. CASE ~(c \in Named \/ ~Discoverable \/ resolved # None \/ attempted)
  <2>1. Goes(c, "idle", "discovering") /\ attempted' /\ ~attempted
    BY <1>3 DEF TokenFetched
  <2>2. StageType' /\ stage'[c] = "discovering" /\ \A d \in Calls \ {c} : stage'[d] = stage[d]
    BY <1>1, <2>1, GoesType
  <2> QED BY <1>1, <2>1, <2>2 DEF ModelInv, OneDiscovery
<1> QED BY <1>2, <1>3

\* The end of a discovery, well or not.
LEMMA DiscoveryEnds ==
  ASSUME ModelInv, NEW c \in Calls, Goes(c, "discovering", "asking"), over', attempted' = attempted
  PROVE  ModelInv'
<1>1. StageType /\ OneDiscovery /\ stage[c] = "discovering"
  BY DEF ModelInv, Goes
<1>2. StageType' /\ stage'[c] = "asking" /\ \A d \in Calls \ {c} : stage'[d] = stage[d]
  BY <1>1, GoesType
<1> QED BY <1>1, <1>2 DEF ModelInv, OneDiscovery

\* Every other step leaves what the calls share as it is, and begins no discovery.
LEMMA OtherModel ==
  ASSUME ModelInv, StageType', UNCHANGED <<attempted, over>>,
         \A c \in Calls : stage'[c] = "discovering" => stage[c] = "discovering"
  PROVE  ModelInv'
BY DEF ModelInv, OneDiscovery

LEMMA FailsStage ==
  ASSUME StageType, NEW c \in Calls, Fails(c)
  PROVE  StageType' /\ stage'[c] = "failed" /\ \A d \in Calls \ {c} : stage'[d] = stage[d]
BY DEF StageType, Fails

\* The steps that are not about the default model.
Serves(c) ==
  \/ TokenRefused(c) \/ Unverified(c) \/ Answers(c) \/ Fails(c) \/ Ends(c)
  \/ \E i \in Response[c] : Added(c, i) \/ Delta(c, i) \/ Done(c, i) \/ Garble(c, i)

LEMMA ServesStage ==
  ASSUME StageType, NEW c \in Calls, Serves(c)
  PROVE  /\ StageType' /\ UNCHANGED shared
         /\ \A d \in Calls : stage'[d] = stage[d] \/ stage'[d] \in {"raised", "streaming", "failed", "answered"}
<1>1. CASE TokenRefused(c)
  BY <1>1, GoesType DEF TokenRefused, shared
<1>2. CASE Unverified(c)
  BY <1>2 DEF Unverified, shared, StageType
<1>3. CASE Answers(c)
  BY <1>3, GoesType DEF Answers, shared
<1>4. CASE Fails(c)
  <2>1. UNCHANGED shared
    BY <1>4 DEF Fails
  <2> QED BY <1>4, <2>1, FailsStage
<1>5. CASE Ends(c)
  BY <1>5, GoesType DEF Ends, shared
<1>6. CASE \E i \in Response[c] : Added(c, i) \/ Delta(c, i) \/ Done(c, i) \/ Garble(c, i)
  BY <1>6 DEF Added, Delta, Done, Garble, shared, StageType
<1> QED BY <1>1, <1>2, <1>3, <1>4, <1>5, <1>6 DEF Serves

\* Every call has an entry of its own in model, whichever model that is.
EachItsModel == model = [c \in Calls |-> model[c]]

LEMMA EachItsModelStays == EachItsModel /\ [Next]_vars => EachItsModel'
<1> SUFFICES ASSUME EachItsModel, [Next]_vars PROVE EachItsModel'
  OBVIOUS
<1>1. CASE UNCHANGED vars
  BY <1>1 DEF vars, EachItsModel
<1>2. ASSUME NEW c \in Calls, NEW m, model' = [model EXCEPT ![c] = m] PROVE EachItsModel'
  BY <1>2 DEF EachItsModel
<1>3. CASE UNCHANGED model
  BY <1>3 DEF EachItsModel
<1>4. ASSUME NEW c \in Calls, TokenFetched(c) PROVE EachItsModel'
  BY <1>2, <1>3, <1>4 DEF TokenFetched
<1>5. ASSUME NEW c \in Calls, Undiscovered(c) PROVE EachItsModel'
  BY <1>2, <1>5 DEF Undiscovered
<1>6. ASSUME NEW c \in Calls, NEW offer \in Offers, Discovered(c, offer) PROVE EachItsModel'
  BY <1>2, <1>6 DEF Discovered
<1>7. ASSUME NEW c \in Calls, Serves(c) PROVE EachItsModel'
  BY <1>3, <1>7 DEF Serves, TokenRefused, Unverified, Answers, Fails, Ends, Added, Delta, Done, Garble
<1> QED BY <1>1, <1>4, <1>5, <1>6, <1>7 DEF Next, Serves

LEMMA ModelStep ==
  ASSUME ModelInv, [Next]_vars
  PROVE  ModelInv'
<1>1. CASE UNCHANGED vars
  BY <1>1 DEF vars, ModelInv, StageType, OneDiscovery
<1>2. ASSUME NEW c \in Calls, TokenFetched(c) PROVE ModelInv'
  BY <1>2, TokenFetchedModel
<1>3. ASSUME NEW c \in Calls, Undiscovered(c) PROVE ModelInv'
  BY <1>3, DiscoveryEnds DEF Undiscovered
<1>4. ASSUME NEW c \in Calls, NEW offer \in Offers, Discovered(c, offer) PROVE ModelInv'
  BY <1>4, DiscoveryEnds DEF Discovered
<1>5. ASSUME NEW c \in Calls, Serves(c) PROVE ModelInv'
  <2>1. /\ StageType' /\ UNCHANGED shared
        /\ \A d \in Calls : stage'[d] = stage[d] \/ stage'[d] \in {"raised", "streaming", "failed", "answered"}
    BY <1>5, ServesStage DEF ModelInv
  <2> QED BY <2>1, OtherModel DEF shared
<1> QED BY <1>1, <1>2, <1>3, <1>4, <1>5 DEF Next, Serves

\* One discovery at most is made by an instance, whatever calls arrive while it is
\* under way and however it ends.
THEOREM DiscoversOnce == Spec => []ModelInv
BY ModelInit, ModelStep, PTL DEF Spec

LEMMA EachItsModelAlways == Spec => []EachItsModel
<1>1. Init => EachItsModel
  BY DEF Init, EachItsModel
<1> QED BY <1>1, EachItsModelStays, PTL DEF Spec

\* When it has ended the default is what it is for ever, every later call that names
\* no model asks for it, and no call discovers again.
THEOREM DefaultHasSettled == Spec => DefaultSettles
<1> DEFINE Settled ==
      /\ resolved' = resolved
      /\ \A c \in Calls : stage[c] = "idle" /\ stage'[c] = "asking" =>
           model'[c] = IF c \in Named THEN c ELSE Default
      /\ \A c \in Calls : stage[c] = "idle" => stage'[c] # "discovering"
<1>1. ModelInv /\ EachItsModel /\ [Next]_vars => [over => Settled]_vars
  <2> SUFFICES ASSUME ModelInv, EachItsModel, Next, over PROVE Settled
    OBVIOUS
  <2>1. StageType /\ OneDiscovery
    BY DEF ModelInv
  <2>2. attempted /\ \A c \in Calls : stage[c] # "discovering"
    BY <2>1 DEF OneDiscovery
  <2>3. ASSUME NEW c \in Calls, TokenFetched(c) PROVE Settled
    <3>1. /\ Goes(c, "idle", "asking") /\ resolved' = resolved
          /\ model' = [model EXCEPT ![c] = IF c \in Named THEN c ELSE Default]
      BY <2>2, <2>3 DEF TokenFetched
    <3>2. stage'[c] = "asking" /\ \A d \in Calls \ {c} : stage'[d] = stage[d]
      BY <2>1, <3>1, GoesType
    <3>3. model'[c] = IF c \in Named THEN c ELSE Default
      BY <3>1 DEF EachItsModel
    <3> QED BY <3>1, <3>2, <3>3
  <2>4. ASSUME NEW c \in Calls, Serves(c) PROVE Settled
    <3>1. /\ resolved' = resolved
          /\ \A d \in Calls : stage'[d] = stage[d] \/ stage'[d] \in {"raised", "streaming", "failed", "answered"}
      BY <2>1, <2>4, ServesStage DEF shared
    <3> QED BY <3>1
  <2>5. ASSUME NEW c \in Calls, Undiscovered(c) PROVE FALSE
    BY <2>2, <2>5 DEF Undiscovered, Goes
  <2>6. ASSUME NEW c \in Calls, NEW offer \in Offers, Discovered(c, offer) PROVE FALSE
    BY <2>2, <2>6 DEF Discovered, Goes
  <2> HIDE DEF Settled
  <2> QED BY <2>3, <2>4, <2>5, <2>6 DEF Next, Serves
<1> QED BY <1>1, DiscoversOnce, EachItsModelAlways, PTL DEF Spec, DefaultSettles

-----------------------------------------------------------------------------
(* The stream: what an event of i in the answer to c changes *)

\* All but i of c stay as they are.
OthersStay(c, i) ==
  \A d \in Calls, j \in Items : d # c \/ j # i =>
    events'[d][j] = events[d][j] /\ active'[d][j] = active[d][j]

LEMMA SendsOne ==
  ASSUME StreamType, NEW c \in Calls, NEW i \in Items, Sends(c, i), events[c][i] <= Pieces + 1
  PROVE  /\ events' \in [Calls -> [Items -> 0 .. Pieces + 2]]
         /\ events'[c][i] = events[c][i] + 1
         /\ events[c][i] \in 0 .. Pieces + 1
         /\ \A d \in Calls, j \in Items : d # c \/ j # i => events'[d][j] = events[d][j]
<1>1. events[c] \in [Items -> 0 .. Pieces + 2] /\ events[c][i] \in 0 .. Pieces + 2
  BY DEF StreamType
<1>2. events[c][i] + 1 \in 0 .. Pieces + 2 /\ events[c][i] \in 0 .. Pieces + 1
  BY <1>1, Constants
<1>3. events' = [events EXCEPT ![c] = [events[c] EXCEPT ![i] = events[c][i] + 1]]
  BY DEF Sends
<1>4. events \in [Calls -> [Items -> 0 .. Pieces + 2]]
  BY DEF StreamType
<1>5. [events[c] EXCEPT ![i] = events[c][i] + 1] \in [Items -> 0 .. Pieces + 2]
  BY <1>1, <1>2
<1>6. events' \in [Calls -> [Items -> 0 .. Pieces + 2]]
  BY <1>3, <1>4, <1>5
<1>7. events'[c] = [events[c] EXCEPT ![i] = events[c][i] + 1]
      /\ \A d \in Calls \ {c} : events'[d] = events[d]
  BY <1>3, <1>4
<1> QED BY <1>1, <1>2, <1>6, <1>7

LEMMA SetsOne ==
  ASSUME StreamType, NEW c \in Calls, NEW i \in Items, NEW s \in Seq(Items \X (1 .. Pieces)) \cup {None},
         active' = [active EXCEPT ![c][i] = s]
  PROVE  /\ active' \in [Calls -> [Items -> Seq(Items \X (1 .. Pieces)) \cup {None}]]
         /\ active'[c][i] = s
         /\ \A d \in Calls, j \in Items : d # c \/ j # i => active'[d][j] = active[d][j]
<1> DEFINE V == Seq(Items \X (1 .. Pieces)) \cup {None}
<1>1. active \in [Calls -> [Items -> V]]
  BY DEF StreamType
<1> HIDE DEF V
<1>2. s \in V
  BY DEF V
<1>3. /\ active' \in [Calls -> [Items -> V]] /\ active'[c][i] = s
      /\ \A d \in Calls, j \in Items : d # c \/ j # i => active'[d][j] = active[d][j]
  BY <1>1, <1>2
<1> QED BY <1>3 DEF V

\* An event that completes nothing: enough to know of what is gathered of i.
LEMMA GathersOne ==
  ASSUME StreamInv, NEW c \in Calls, NEW i \in Items,
         events' \in [Calls -> [Items -> 0 .. Pieces + 2]],
         active' \in [Calls -> [Items -> Seq(Items \X (1 .. Pieces)) \cup {None}]],
         OthersStay(c, i), events[c][i] \in 0 .. Pieces + 1, events'[c][i] = events[c][i] + 1,
         completed' = completed, garbled' \in [Calls -> SUBSET Items],
         \A d \in Calls : garbled[d] \subseteq garbled'[d],
         active'[c][i] # None =>
           /\ InOrder(i, active'[c][i])
           /\ \A k \in DOMAIN active'[c][i] : active'[c][i][k][2] < events[c][i] + 1,
         i \notin garbled'[c] =>
           /\ events[c][i] \in 0 .. Pieces
           /\ active'[c][i] # None
           /\ i \notin ByItemId => active'[c][i] = [k \in 1 .. events[c][i] |-> <<i, k>>]
  PROVE  StreamInv'
<1>1. StreamType /\ GatheredInv /\ OpenInv /\ ReturnedInv /\ NoneMissing
  BY DEF StreamInv
<1>2. StreamType'
  BY <1>1 DEF StreamType
<1>3. GatheredInv'
  <2> SUFFICES ASSUME NEW d \in Calls, NEW j \in Items, active'[d][j] # None
               PROVE  /\ InOrder(j, active'[d][j])
                      /\ \A k \in DOMAIN active'[d][j] : active'[d][j][k][2] < events'[d][j]
    BY DEF GatheredInv, InOrder
  <2>1. CASE d = c /\ j = i
    BY <2>1
  <2>2. CASE d # c \/ j # i
    <3>1. events'[d][j] = events[d][j] /\ active'[d][j] = active[d][j]
      BY <2>2 DEF OthersStay
    <3> QED BY <1>1, <3>1 DEF GatheredInv
  <2> QED BY <2>1, <2>2
<1>4. OpenInv'
  <2> SUFFICES ASSUME NEW d \in Calls, NEW j \in Items, j \notin garbled'[d]
               PROVE  /\ events'[d][j] \in 1 .. Pieces + 1 <=> active'[d][j] # None
                      /\ active'[d][j] # None /\ j \notin ByItemId =>
                           active'[d][j] = [k \in 1 .. events'[d][j] - 1 |-> <<j, k>>]
    BY DEF OpenInv
  <2>1. CASE d = c /\ j = i
    <3>1. /\ events[c][i] \in 0 .. Pieces /\ active'[c][i] # None
          /\ i \notin ByItemId => active'[c][i] = [k \in 1 .. events[c][i] |-> <<i, k>>]
      BY <2>1
    <3>2. events'[c][i] \in 1 .. Pieces + 1 /\ events'[c][i] - 1 = events[c][i]
      BY <3>1, Constants
    <3> QED BY <2>1, <3>1, <3>2
  <2>2. CASE d # c \/ j # i
    <3>1. events'[d][j] = events[d][j] /\ active'[d][j] = active[d][j] /\ j \notin garbled[d]
      BY <2>2 DEF OthersStay
    <3> QED BY <1>1, <3>1 DEF OpenInv
  <2> QED BY <2>1, <2>2
<1>5. ReturnedInv'
  <2> SUFFICES ASSUME NEW d \in Calls, NEW k \in DOMAIN completed[d] PROVE Returned(d, k)'
    BY DEF ReturnedInv
  <2> DEFINE e == completed[d][k]
  <2>1. Returned(d, k)
    BY <1>1 DEF ReturnedInv
  <2>2. completed[d] \in Seq(Completion)
    BY <1>1 DEF StreamType
  <2>3. e \in Completion
    BY <2>2
  <2>4. e.item \in Items
    BY <2>3 DEF Completion
  <2>5. events[d][e.item] = Pieces + 2
    BY <2>1 DEF Returned
  <2>6. d # c \/ e.item # i
    BY <2>5, Constants
  <2>7. events'[d][e.item] = events[d][e.item]
    BY <2>4, <2>6 DEF OthersStay
  <2> QED BY <2>1, <2>7 DEF Returned, InOrder, All
<1>6. NoneMissing'
  <2> SUFFICES ASSUME NEW d \in Calls, NEW j \in Items \ garbled'[d], events'[d][j] = Pieces + 2
               PROVE  \E k \in DOMAIN completed'[d] : completed'[d][k].item = j
    BY DEF NoneMissing
  <2>1. CASE d = c /\ j = i
    BY <2>1, Constants
  <2>2. CASE d # c \/ j # i
    <3>1. events[d][j] = Pieces + 2 /\ j \in Items \ garbled[d]
      BY <2>2 DEF OthersStay
    <3>2. \E k \in DOMAIN completed[d] : completed[d][k].item = j
      BY <1>1, <3>1 DEF NoneMissing
    <3> QED BY <3>2
  <2> QED BY <2>1, <2>2
<1> QED BY <1>2, <1>3, <1>4, <1>5, <1>6 DEF StreamInv

LEMMA AddedStream ==
  ASSUME StreamInv, NEW c \in Calls, NEW i \in Items, Added(c, i)
  PROVE  StreamInv'
<1> DEFINE n == events[c][i]
<1>10. PICK none : none = <<>>
  OBVIOUS
<1>1. /\ StreamType /\ Sends(c, i) /\ n = 0
      /\ active' = [active EXCEPT ![c][i] = none] /\ UNCHANGED <<completed, garbled>>
  BY <1>10 DEF StreamInv, Added
<1>2. InOrder(i, none) /\ none # None /\ none = [k \in 1 .. 0 |-> <<i, k>>]
  BY <1>10, NoPieces
<1>3. none \in Seq(Items \X (1 .. Pieces)) /\ \A k \in DOMAIN none : none[k][2] < n + 1
  BY <1>10
<1>4. /\ events' \in [Calls -> [Items -> 0 .. Pieces + 2]]
      /\ events'[c][i] = n + 1 /\ n \in 0 .. Pieces + 1 /\ n \in 0 .. Pieces
      /\ \A d \in Calls, j \in Items : d # c \/ j # i => events'[d][j] = events[d][j]
  BY <1>1, SendsOne, Constants
<1>5. StreamType /\ active' = [active EXCEPT ![c][i] = none]
  BY <1>1
<1>6. /\ active' \in [Calls -> [Items -> Seq(Items \X (1 .. Pieces)) \cup {None}]]
      /\ active'[c][i] = none
      /\ \A d \in Calls, j \in Items : d # c \/ j # i => active'[d][j] = active[d][j]
  BY <1>3, <1>5, SetsOne
<1>7. OthersStay(c, i)
  BY <1>4, <1>6 DEF OthersStay
<1>8. garbled' \in [Calls -> SUBSET Items] /\ \A d \in Calls : garbled[d] \subseteq garbled'[d]
  BY <1>1 DEF StreamType
<1>9. none = [k \in 1 .. n |-> <<i, k>>]
  BY <1>1, <1>2
<1>11. /\ active'[c][i] # None
       /\ InOrder(i, active'[c][i])
       /\ \A k \in DOMAIN active'[c][i] : active'[c][i][k][2] < n + 1
       /\ active'[c][i] = [k \in 1 .. n |-> <<i, k>>]
  BY <1>2, <1>3, <1>6, <1>9
<1>12. completed' = completed
  BY <1>1
<1> QED BY <1>4, <1>6, <1>7, <1>8, <1>11, <1>12, GathersOne

LEMMA GarbleStream ==
  ASSUME StreamInv, NEW c \in Calls, NEW i \in Items, Garble(c, i)
  PROVE  StreamInv'
<1>1. /\ StreamType /\ Sends(c, i) /\ events[c][i] <= Pieces + 1 /\ UNCHANGED <<active, completed>>
      /\ garbled' = [garbled EXCEPT ![c] = @ \cup {i}]
  BY DEF StreamInv, Garble
<1>2. /\ events' \in [Calls -> [Items -> 0 .. Pieces + 2]]
      /\ events'[c][i] = events[c][i] + 1 /\ events[c][i] \in 0 .. Pieces + 1
      /\ \A d \in Calls, j \in Items : d # c \/ j # i => events'[d][j] = events[d][j]
  BY <1>1, SendsOne
<1>3. OthersStay(c, i) /\ active' \in [Calls -> [Items -> Seq(Items \X (1 .. Pieces)) \cup {None}]]
  BY <1>1, <1>2 DEF OthersStay, StreamType
<1>4. /\ garbled' \in [Calls -> SUBSET Items] /\ \A d \in Calls : garbled[d] \subseteq garbled'[d]
      /\ i \in garbled'[c]
  BY <1>1 DEF StreamType
<1>5. ASSUME active[c][i] # None
      PROVE  /\ InOrder(i, active[c][i])
             /\ \A k \in DOMAIN active[c][i] : active[c][i][k][2] < events[c][i] + 1
  <2>1. /\ InOrder(i, active[c][i])
        /\ \A k \in DOMAIN active[c][i] : active[c][i][k][2] < events[c][i]
    BY <1>5 DEF StreamInv, GatheredInv
  <2>2. active[c][i] \in Seq(Items \X (1 .. Pieces))
    BY <2>1, OwnPieces
  <2>3. \A k \in DOMAIN active[c][i] : active[c][i][k] \in Items \X (1 .. Pieces)
    BY <2>2
  <2>4. \A k \in DOMAIN active[c][i] : active[c][i][k][2] \in Nat
    BY <2>3, Constants
  <2> QED BY <1>2, <2>1, <2>4, Constants
<1> QED BY <1>1, <1>2, <1>3, <1>4, <1>5, GathersOne

LEMMA DeltaStream ==
  ASSUME StreamInv, NEW c \in Calls, NEW i \in Items, Delta(c, i)
  PROVE  StreamInv'
<1> DEFINE n == events[c][i]
           s == active[c][i]
<1>1. /\ StreamType /\ GatheredInv /\ OpenInv /\ Sends(c, i) /\ n \in 1 .. Pieces
      /\ UNCHANGED <<completed, garbled>>
  BY DEF StreamInv, Delta
<1>2. /\ events' \in [Calls -> [Items -> 0 .. Pieces + 2]]
      /\ events'[c][i] = n + 1 /\ n \in 0 .. Pieces + 1 /\ n \in 0 .. Pieces
      /\ \A d \in Calls, j \in Items : d # c \/ j # i => events'[d][j] = events[d][j]
  BY <1>1, SendsOne, Constants
<1>3. garbled' \in [Calls -> SUBSET Items] /\ \A d \in Calls : garbled[d] \subseteq garbled'[d]
  BY <1>1 DEF StreamType
<1>4. i \notin garbled[c] => s # None /\ (i \notin ByItemId => s = [k \in 1 .. n - 1 |-> <<i, k>>])
  BY <1>1, Constants DEF OpenInv
<1>5. s # None => InOrder(i, s) /\ \A k \in DOMAIN s : s[k][2] < n
  BY <1>1 DEF GatheredInv
<1>6. CASE s # None /\ i \notin ByItemId
  <2> DEFINE t == Append(s, <<i, n>>)
  <2>1. InOrder(i, t) /\ \A k \in DOMAIN t : t[k][2] < n + 1
    BY <1>1, <1>5, <1>6, NextPiece
  <2>2. t \in Seq(Items \X (1 .. Pieces)) /\ t # None
    BY <2>1, OwnPieces
  <2>3. active' = [active EXCEPT ![c][i] = t]
    BY <1>6 DEF Delta
  <2>4. i \notin garbled[c] => t = [k \in 1 .. n |-> <<i, k>>]
    BY <1>1, <1>4, <1>6, NextPieceAll
  <2> HIDE DEF t
  <2>5. /\ active' \in [Calls -> [Items -> Seq(Items \X (1 .. Pieces)) \cup {None}]]
        /\ active'[c][i] = t
        /\ \A d \in Calls, j \in Items : d # c \/ j # i => active'[d][j] = active[d][j]
    BY <1>1, <2>2, <2>3, SetsOne
  <2>6. OthersStay(c, i)
    BY <1>2, <2>5 DEF OthersStay
  <2> QED BY <1>1, <1>2, <1>3, <2>1, <2>2, <2>4, <2>5, <2>6, GathersOne
<1>7. CASE ~(s # None /\ i \notin ByItemId)
  <2>1. active' = active
    BY <1>7 DEF Delta
  <2>2. OthersStay(c, i) /\ active' \in [Calls -> [Items -> Seq(Items \X (1 .. Pieces)) \cup {None}]]
    BY <1>1, <1>2, <2>1 DEF OthersStay, StreamType
  <2>3. i \notin garbled[c] => s # None /\ i \in ByItemId
    BY <1>4, <1>7
  <2>4. s # None => \A k \in DOMAIN s : s[k][2] < n + 1
    <3> SUFFICES ASSUME s # None, NEW k \in DOMAIN s PROVE s[k][2] < n + 1
      OBVIOUS
    <3>1. s \in Seq(Items \X (1 .. Pieces)) /\ s[k][2] < n
      BY <1>5, OwnPieces
    <3>2. s[k] \in Items \X (1 .. Pieces)
      BY <3>1
    <3>3. s[k][2] \in Nat
      BY <3>2, Constants
    <3>4. n \in Nat
      BY <1>2, Constants
    <3> QED BY <3>1, <3>3, <3>4
  <2> QED BY <1>1, <1>2, <1>3, <1>5, <2>1, <2>2, <2>3, <2>4, GathersOne
<1> QED BY <1>6, <1>7

\* The arguments Done returns.
Arguments(c, i) ==
  IF i \in Repeated THEN All(i) ELSE IF active[c][i] # None THEN active[c][i] ELSE <<>>

LEMMA ArgumentsWhole ==
  ASSUME StreamInv, NEW c \in Calls, NEW i \in Items, events[c][i] = Pieces + 1
  PROVE  /\ InOrder(i, Arguments(c, i))
         /\ i \in garbled[c] \/ i \in ByItemId \ Repeated \/ Arguments(c, i) = All(i)
<1>1. GatheredInv /\ OpenInv
  BY DEF StreamInv
<1>2. CASE i \in Repeated
  BY <1>2, AllInOrder DEF Arguments
<1>3. CASE i \notin Repeated /\ active[c][i] # None
  <2>1. Arguments(c, i) = active[c][i]
    BY <1>3 DEF Arguments
  <2>2. InOrder(i, active[c][i])
    BY <1>1, <1>3 DEF GatheredInv
  <2>3. ASSUME i \notin garbled[c], i \notin ByItemId PROVE active[c][i] = All(i)
    <3>1. active[c][i] = [k \in 1 .. events[c][i] - 1 |-> <<i, k>>]
      BY <1>1, <1>3, <2>3 DEF OpenInv
    <3>2. events[c][i] - 1 = Pieces
      BY Constants
    <3> QED BY <3>1, <3>2 DEF All
  <2> QED BY <1>3, <2>1, <2>2, <2>3
<1>4. CASE i \notin Repeated /\ active[c][i] = None
  <2>1. Arguments(c, i) = <<>>
    BY <1>4 DEF Arguments
  <2>2. events[c][i] \in 1 .. Pieces + 1
    BY Constants
  <2>3. i \in garbled[c]
    BY <1>1, <1>4, <2>2 DEF OpenInv
  <2> QED BY <2>1, <2>3, NoPieces
<1> QED BY <1>2, <1>3, <1>4

\* What Done appends to the completions of c.
LEMMA ReturnsOne ==
  ASSUME StreamType, NEW c \in Calls, NEW e \in Completion,
         completed' = [completed EXCEPT ![c] = Append(@, e)]
  PROVE  /\ completed' \in [Calls -> Seq(Completion)]
         /\ \A d \in Calls \ {c} : completed'[d] = completed[d]
         /\ Len(completed[c]) \in Nat /\ DOMAIN completed[c] = 1 .. Len(completed[c])
         /\ DOMAIN completed'[c] = 1 .. Len(completed[c]) + 1
         /\ completed'[c][Len(completed[c]) + 1] = e
         /\ \A k \in 1 .. Len(completed[c]) : completed'[c][k] = completed[c][k]
<1>1. completed \in [Calls -> Seq(Completion)] /\ completed[c] \in Seq(Completion)
  BY DEF StreamType
<1>2. Append(completed[c], e) \in Seq(Completion)
  BY <1>1
<1>3. completed'[c] = Append(completed[c], e)
  BY <1>1
<1>4. completed' \in [Calls -> Seq(Completion)]
  BY <1>1, <1>2
<1>5. \A d \in Calls \ {c} : completed'[d] = completed[d]
  BY <1>1
<1>6. Len(completed[c]) \in Nat /\ DOMAIN completed[c] = 1 .. Len(completed[c])
  BY <1>1
<1>7. /\ DOMAIN completed'[c] = 1 .. Len(completed[c]) + 1
      /\ completed'[c][Len(completed[c]) + 1] = e
      /\ \A k \in 1 .. Len(completed[c]) : completed'[c][k] = completed[c][k]
  BY <1>1, <1>3
<1> QED BY <1>4, <1>5, <1>6, <1>7

LEMMA DoneStream ==
  ASSUME StreamInv, NEW c \in Calls, NEW i \in Items, Done(c, i)
  PROVE  StreamInv'
<1>1. /\ StreamType /\ GatheredInv /\ OpenInv /\ ReturnedInv /\ NoneMissing
      /\ Sends(c, i) /\ events[c][i] = Pieces + 1
      /\ active' = [active EXCEPT ![c][i] = None] /\ garbled' = garbled
  BY DEF StreamInv, Done
<1>2. /\ events' \in [Calls -> [Items -> 0 .. Pieces + 2]]
      /\ events'[c][i] = Pieces + 2
      /\ \A d \in Calls, j \in Items : d # c \/ j # i => events'[d][j] = events[d][j]
  BY <1>1, SendsOne, Constants
<1>3. /\ active' \in [Calls -> [Items -> Seq(Items \X (1 .. Pieces)) \cup {None}]]
      /\ active'[c][i] = None
      /\ \A d \in Calls, j \in Items : d # c \/ j # i => active'[d][j] = active[d][j]
  <2>1. active \in [Calls -> [Items -> Seq(Items \X (1 .. Pieces)) \cup {None}]]
    BY <1>1 DEF StreamType
  <2>2. active[c] \in [Items -> Seq(Items \X (1 .. Pieces)) \cup {None}]
    BY <2>1
  <2>3. active'[c] = [active[c] EXCEPT ![i] = None] /\ \A d \in Calls \ {c} : active'[d] = active[d]
    BY <1>1, <2>1
  <2>4. [active[c] EXCEPT ![i] = None] \in [Items -> Seq(Items \X (1 .. Pieces)) \cup {None}]
    BY <2>2
  <2>5. active' \in [Calls -> [Items -> Seq(Items \X (1 .. Pieces)) \cup {None}]]
    BY <1>1, <2>1, <2>4
  <2> QED BY <2>2, <2>3, <2>5
<1>4. OthersStay(c, i)
  BY <1>2, <1>3 DEF OthersStay
<1> DEFINE n == Len(completed[c])
<1>5. PICK a : a = Arguments(c, i)
  OBVIOUS
<1>6. /\ InOrder(i, a) /\ a \in Seq(Items \X (1 .. Pieces))
      /\ i \in garbled[c] \/ i \in ByItemId \ Repeated \/ a = All(i)
  BY <1>1, <1>5, ArgumentsWhole, OwnPieces
<1>7. PICK e : e = [item |-> i, arguments |-> a]
  OBVIOUS
<1>8. e \in Completion /\ e.item = i /\ e.arguments = a
  BY <1>6, <1>7 DEF Completion
<1>9. completed' = [completed EXCEPT ![c] = Append(@, e)]
  BY <1>5, <1>7 DEF Done, Arguments
<1>10. /\ completed' \in [Calls -> Seq(Completion)]
       /\ \A d \in Calls \ {c} : completed'[d] = completed[d]
       /\ n \in Nat /\ DOMAIN completed[c] = 1 .. n /\ DOMAIN completed'[c] = 1 .. n + 1
       /\ completed'[c][n + 1] = e
       /\ \A k \in 1 .. n : completed'[c][k] = completed[c][k]
  BY <1>1, <1>8, <1>9, ReturnsOne
<1>11. \A d \in Calls : \A k \in DOMAIN completed[d] :
         completed[d][k].item \in Items /\ (d # c \/ completed[d][k].item # i)
  <2> SUFFICES ASSUME NEW d \in Calls, NEW k \in DOMAIN completed[d]
               PROVE  completed[d][k].item \in Items /\ (d # c \/ completed[d][k].item # i)
    OBVIOUS
  <2>1. completed[d] \in Seq(Completion)
    BY <1>1 DEF StreamType
  <2>2. completed[d][k] \in Completion
    BY <2>1
  <2>3. events[d][completed[d][k].item] = Pieces + 2
    BY <1>1 DEF ReturnedInv, Returned
  <2> QED BY <1>1, <2>2, <2>3, Constants DEF Completion
<1> HIDE DEF n
<1>12. StreamType'
  BY <1>1, <1>2, <1>3, <1>10 DEF StreamType
<1>13. GatheredInv'
  <2> SUFFICES ASSUME NEW d \in Calls, NEW j \in Items, active'[d][j] # None
               PROVE  /\ InOrder(j, active'[d][j])
                      /\ \A k \in DOMAIN active'[d][j] : active'[d][j][k][2] < events'[d][j]
    BY DEF GatheredInv, InOrder
  <2>1. events'[d][j] = events[d][j] /\ active'[d][j] = active[d][j]
    BY <1>3, <1>4 DEF OthersStay
  <2> QED BY <1>1, <2>1 DEF GatheredInv
<1>14. OpenInv'
  <2> SUFFICES ASSUME NEW d \in Calls, NEW j \in Items, j \notin garbled'[d]
               PROVE  /\ events'[d][j] \in 1 .. Pieces + 1 <=> active'[d][j] # None
                      /\ active'[d][j] # None /\ j \notin ByItemId =>
                           active'[d][j] = [k \in 1 .. events'[d][j] - 1 |-> <<j, k>>]
    BY DEF OpenInv
  <2>1. CASE d = c /\ j = i
    BY <1>2, <1>3, <2>1, Constants
  <2>2. CASE d # c \/ j # i
    <3>1. events'[d][j] = events[d][j] /\ active'[d][j] = active[d][j] /\ j \notin garbled[d]
      BY <1>1, <1>4, <2>2 DEF OthersStay
    <3> QED BY <1>1, <3>1 DEF OpenInv
  <2> QED BY <2>1, <2>2
<1>15. ReturnedInv'
  <2> SUFFICES ASSUME NEW d \in Calls, NEW k \in DOMAIN completed'[d] PROVE Returned(d, k)'
    BY DEF ReturnedInv
  <2>1. CASE d = c /\ k = n + 1
    <3>1. \A l \in DOMAIN completed'[c] : completed'[c][l].item = i => l = n + 1
      BY <1>10, <1>11
    <3>2. completed'[d][k] = e
      BY <1>10, <2>1
    <3>3. events'[d][e.item] = Pieces + 2
      BY <1>2, <1>8, <2>1
    <3>4. InOrder(e.item, e.arguments)
      BY <1>6, <1>8
    <3>5. e.item \in garbled'[d] \/ e.item \in ByItemId \ Repeated \/ e.arguments = All(e.item)
      BY <1>1, <1>6, <1>8, <2>1
    <3>6. \A l \in DOMAIN completed'[d] : completed'[d][l].item = e.item => k = l
      BY <1>8, <2>1, <3>1
    <3> QED BY <3>2, <3>3, <3>4, <3>5, <3>6 DEF Returned, InOrder, All
  <2>2. CASE ~(d = c /\ k = n + 1)
    <3>1. k \in DOMAIN completed[d] /\ completed'[d][k] = completed[d][k]
      BY <1>10, <2>2
    <3>2. Returned(d, k)
      BY <1>1, <3>1 DEF ReturnedInv
    <3>3. completed[d][k].item \in Items /\ (d # c \/ completed[d][k].item # i)
      BY <1>11, <3>1
    <3>4. events'[d][completed[d][k].item] = events[d][completed[d][k].item]
      BY <1>4, <3>3 DEF OthersStay
    <3>5. ASSUME NEW l \in DOMAIN completed'[d], completed'[d][l].item = completed[d][k].item
          PROVE  k = l
      <4>1. l \in DOMAIN completed[d] /\ completed'[d][l] = completed[d][l]
        BY <1>8, <1>10, <3>3, <3>5
      <4> QED BY <3>2, <3>5, <4>1 DEF Returned
    <3> QED BY <1>1, <3>1, <3>2, <3>4, <3>5 DEF Returned, InOrder, All
  <2> QED BY <2>1, <2>2
<1>16. NoneMissing'
  <2> SUFFICES ASSUME NEW d \in Calls, NEW j \in Items \ garbled'[d], events'[d][j] = Pieces + 2
               PROVE  \E k \in DOMAIN completed'[d] : completed'[d][k].item = j
    BY DEF NoneMissing
  <2>1. CASE d = c /\ j = i
    <3>1. n + 1 \in DOMAIN completed'[c] /\ completed'[c][n + 1].item = i
      BY <1>8, <1>10
    <3> QED BY <2>1, <3>1
  <2>2. CASE d # c \/ j # i
    <3>1. events[d][j] = Pieces + 2 /\ j \in Items \ garbled[d]
      BY <1>1, <1>4, <2>2 DEF OthersStay
    <3>2. PICK k \in DOMAIN completed[d] : completed[d][k].item = j
      BY <1>1, <3>1 DEF NoneMissing
    <3>3. k \in DOMAIN completed'[d] /\ completed'[d][k] = completed[d][k]
      BY <1>10
    <3> QED BY <3>2, <3>3
  <2> QED BY <2>1, <2>2
<1> QED BY <1>12, <1>13, <1>14, <1>15, <1>16 DEF StreamInv

LEMMA StreamStart == Init => StreamInv
<1> SUFFICES ASSUME Init PROVE StreamInv
  OBVIOUS
<1>1. StreamType
  BY Constants DEF Init, StreamType
<1>2. \A c \in Calls, i \in Items : active[c][i] = None /\ events[c][i] = 0
  BY DEF Init
<1>3. \A c \in Calls : completed[c] = <<>>
  BY DEF Init
<1>4. GatheredInv
  BY <1>2 DEF GatheredInv
<1>5. OpenInv
  BY <1>2 DEF OpenInv
<1>6. ReturnedInv
  BY <1>3 DEF ReturnedInv
<1>7. NoneMissing
  BY <1>2, Constants DEF NoneMissing
<1> QED BY <1>1, <1>4, <1>5, <1>6, <1>7 DEF StreamInv

LEMMA StreamStays ==
  ASSUME StreamInv, UNCHANGED stream
  PROVE  StreamInv'
<1>1. events' = events /\ active' = active /\ completed' = completed /\ garbled' = garbled
  BY DEF stream
<1>2. StreamType'
  BY <1>1 DEF StreamInv, StreamType
<1>3. GatheredInv'
  BY <1>1 DEF StreamInv, GatheredInv, InOrder
<1>4. OpenInv'
  BY <1>1 DEF StreamInv, OpenInv
<1>5. ReturnedInv'
  <2> SUFFICES ASSUME NEW c \in Calls, NEW k \in DOMAIN completed'[c] PROVE Returned(c, k)'
    BY DEF ReturnedInv
  <2>1. Returned(c, k)
    BY <1>1 DEF StreamInv, ReturnedInv
  <2> QED BY <1>1, <2>1 DEF Returned, InOrder, All
<1>6. NoneMissing'
  BY <1>1 DEF StreamInv, NoneMissing
<1> QED BY <1>2, <1>3, <1>4, <1>5, <1>6 DEF StreamInv

LEMMA StreamStep ==
  ASSUME StreamInv, [Next]_vars
  PROVE  StreamInv'
<1>1. CASE UNCHANGED vars
  BY <1>1, StreamStays DEF vars, stream
<1>2. ASSUME NEW c \in Calls,
             \/ TokenFetched(c) \/ TokenRefused(c) \/ Undiscovered(c) \/ Unverified(c)
             \/ (\E offer \in Offers : Discovered(c, offer))
             \/ Answers(c) \/ Fails(c) \/ Ends(c)
      PROVE  StreamInv'
  <2>1. UNCHANGED stream
    BY <1>2 DEF TokenFetched, TokenRefused, Undiscovered, Unverified, Discovered, Answers, Fails, Ends
  <2> QED BY <2>1, StreamStays
<1>3. ASSUME NEW c \in Calls, NEW i \in Response[c], Added(c, i) \/ Delta(c, i) \/ Done(c, i) \/ Garble(c, i)
      PROVE  StreamInv'
  <2>1. i \in Items
    BY Constants
  <2> QED BY <1>3, <2>1, AddedStream, DeltaStream, DoneStream, GarbleStream
<1> QED BY <1>1, <1>2, <1>3 DEF Next

\* What is gathered and what is returned of every tool call, at every moment of a
\* stream.
THEOREM StreamsGather == Spec => []StreamInv
BY StreamStart, StreamStep, PTL DEF Spec

LEMMA ReturnedIsWhole == StreamInv => CallsWhole
<1> SUFFICES ASSUME StreamInv, NEW c \in Calls, NEW i \in Items
             PROVE  LET mine == {k \in DOMAIN completed[c] : completed[c][k].item = i}
                        hurt == i \in garbled[c]
                    IN  /\ \A k, l \in mine : k = l
                        /\ hurt \/ (mine # {} <=> events[c][i] = Pieces + 2)
                        /\ \A k \in mine :
                             /\ InOrder(i, completed[c][k].arguments)
                             /\ hurt \/ i \in ByItemId \ Repeated \/ completed[c][k].arguments = All(i)
  BY DEF CallsWhole
<1> DEFINE mine == {k \in DOMAIN completed[c] : completed[c][k].item = i}
<1>1. \A k \in mine : Returned(c, k) /\ k \in DOMAIN completed[c] /\ completed[c][k].item = i
  BY DEF StreamInv, ReturnedInv
<1>2. \A k, l \in mine : k = l
  BY <1>1 DEF Returned
<1>3. \A k \in mine :
        /\ events[c][i] = Pieces + 2
        /\ InOrder(i, completed[c][k].arguments)
        /\ i \in garbled[c] \/ i \in ByItemId \ Repeated \/ completed[c][k].arguments = All(i)
  BY <1>1 DEF Returned
<1>4. i \notin garbled[c] /\ events[c][i] = Pieces + 2 => mine # {}
  BY DEF StreamInv, NoneMissing
<1> QED BY <1>2, <1>3, <1>4

\* However the events of parallel tool calls alternate, are lost, or break off, every
\* call the service completed is returned once, whole, with its own pieces alone.
THEOREM CallsAreWhole == Spec => []CallsWhole
BY StreamsGather, ReturnedIsWhole, PTL
=============================================================================
