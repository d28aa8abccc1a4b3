--------------------------- MODULE CodexProvider ---------------------------
(***************************************************************************)
(* The Codex provider (providers/openai_codex_provider.py): one instance   *)
(* whose calls share the discovered default model, and each of which reads *)
(* a stream in which the pieces of several tool calls alternate.           *)
(*                                                                         *)
(* The service and the network are free to do what they like; what they    *)
(* send of a tool call is known by its pieces.  Text is left out: it is    *)
(* appended as it comes.                                                   *)
(***************************************************************************)
EXTENDS Naturals, Sequences

CONSTANTS
  Calls,       \* calls of acomplete
  Named,       \* calls that name a model
  Placeholder, \* the configured default model
  Discoverable, \* it is one of the names that stand for "the latest"
  Insecure,    \* security.ssl_fallback_insecure
  Offers,      \* what the service may list: sequences of models
  Items,       \* tool calls
  Response,    \* bound: call -> the tool calls its response may hold
  Pieces,      \* deltas of each
  ByItemId,    \* tool calls whose deltas carry no call_id
  Repeated,    \* tool calls whose last event repeats the arguments
  MaxFaults,   \* bound: failed requests and events that are no JSON
  None

\* A listed model: gpt-<version>-codex, with a suffix or plain; another gpt; or
\* any other name.
Model == [family : {"codex", "gpt", "other"}, version : Nat, plain : BOOLEAN]

ASSUME CodexAssumption ==
  /\ Named \subseteq Calls
  /\ {Discoverable, Insecure} \subseteq BOOLEAN
  /\ Offers \subseteq Seq(Model) /\ {None, Placeholder} \cap Model = {}
  /\ Response \in [Calls -> SUBSET Items]
  /\ Pieces \in Nat /\ MaxFaults \in Nat
  /\ ByItemId \subseteq Items /\ Repeated \subseteq Items
  /\ None \notin Seq(Items \X (1 .. Pieces))

VARIABLES
  stage,     \* where each call is
  verify,    \* whether its request verifies certificates
  model,     \* the model it asks for, or None before it has one
  attempted, \* _attempted_default_model_resolution
  resolved,  \* _resolved_default_model
  over,      \* history: a discovery has ended
  events,    \* how many events of each tool call the service has sent to a call
  active,    \* active_calls: the pieces of a tool call, or None
  completed, \* completed_calls
  garbled,   \* history: tool calls an event of which was no JSON
  faults     \* how many there were

vars == <<stage, verify, model, attempted, resolved, over, events, active, completed, garbled, faults>>
shared == <<attempted, resolved, over>>
stream == <<events, active, completed, garbled>>

Goes(c, from, to) == stage[c] = from /\ stage' = [stage EXCEPT ![c] = to]
Fault == faults < MaxFaults /\ faults' = faults + 1

-----------------------------------------------------------------------------
(* The default model *)

Earlier(a, b) == a.version > b.version \/ (a.version = b.version /\ a.plain /\ ~b.plain)

\* _pick_most_advanced_codex_model: of the codex family if there is one, else of
\* all gpt, by version; a plain one before one with a suffix of the same
\* version; the first of equals.
Picked(offer) ==
  LET codex == {i \in DOMAIN offer : offer[i].family = "codex"}
      pool  == IF codex # {} THEN codex ELSE {i \in DOMAIN offer : offer[i].family = "gpt"}
      Beats(i, j) == IF codex # {} THEN Earlier(offer[i], offer[j])
                     ELSE offer[i].version > offer[j].version
  IN  IF pool = {} THEN None
      ELSE offer[CHOOSE i \in pool : \A j \in pool \ {i} : Beats(i, j) \/ (i < j /\ ~Beats(j, i))]

Default == IF resolved = None THEN Placeholder ELSE resolved

\* Mutant: the attempt is not marked.
TokenFetchedUnmarked(c) ==
  /\ IF c \in Named \/ ~Discoverable \/ resolved # None \/ attempted
     THEN /\ Goes(c, "idle", "asking")
          /\ model' = [model EXCEPT ![c] = IF c \in Named THEN c ELSE Default]
     ELSE /\ Goes(c, "idle", "discovering")
          /\ UNCHANGED model
  /\ UNCHANGED <<verify, shared, stream, faults>>

\* get_token, in a thread, returns.  Nobody waits for the lock: what it guards is
\* marked as attempted before its first await, and looked at before the lock.
\* The other calls take the default as it is.
TokenFetched(c) ==
  /\ IF c \in Named \/ ~Discoverable \/ resolved # None \/ attempted
     THEN /\ Goes(c, "idle", "asking")
          /\ model' = [model EXCEPT ![c] = IF c \in Named THEN c ELSE Default]
          /\ UNCHANGED attempted
     ELSE /\ Goes(c, "idle", "discovering")
          /\ attempted' = TRUE
          /\ UNCHANGED model
  /\ UNCHANGED <<verify, resolved, over, stream, faults>>

\* It raises, and so does acomplete.
TokenRefused(c) ==
  /\ Fault /\ Goes(c, "idle", "raised")
  /\ UNCHANGED <<verify, model, shared, stream>>

\* The list has come.
Discovered(c, offer) ==
  /\ Goes(c, "discovering", "asking")
  /\ resolved' = IF Picked(offer) = None THEN resolved ELSE Picked(offer)
  /\ model' = [model EXCEPT ![c] = IF resolved' = None THEN Placeholder ELSE resolved']
  /\ over' = TRUE
  /\ verify' = [verify EXCEPT ![c] = TRUE]
  /\ UNCHANGED <<attempted, stream, faults>>

\* It fails, and is never tried again.
Undiscovered(c) ==
  /\ Fault /\ Goes(c, "discovering", "asking")
  /\ model' = [model EXCEPT ![c] = Default]
  /\ over' = TRUE
  /\ verify' = [verify EXCEPT ![c] = TRUE]
  /\ UNCHANGED <<attempted, resolved, stream>>

\* The certificate is refused: once more without looking at it, if allowed.
Unverified(c) ==
  /\ stage[c] \in {"discovering", "asking"} /\ verify[c] /\ Insecure
  /\ Fault
  /\ verify' = [verify EXCEPT ![c] = FALSE]
  /\ UNCHANGED <<stage, model, shared, stream>>

-----------------------------------------------------------------------------
(* The response *)

\* Status 200.
Answers(c) ==
  /\ Goes(c, "asking", "streaming")
  /\ UNCHANGED <<verify, model, shared, stream, faults>>

\* Another status, a connection that breaks, before or in the stream, or an event
\* that says so: the answer is the text of the error, and has no tool calls.
Fails(c) ==
  /\ stage[c] \in {"asking", "streaming"} /\ Fault
  /\ stage' = [stage EXCEPT ![c] = "failed"]
  /\ UNCHANGED <<verify, model, shared, stream>>

All(i) == [k \in 1 .. Pieces |-> <<i, k>>]
Sends(c, i) == events' = [events EXCEPT ![c][i] = @ + 1]

\* response.output_item.added
Added(c, i) ==
  /\ stage[c] = "streaming" /\ events[c][i] = 0
  /\ Sends(c, i)
  /\ active' = [active EXCEPT ![c][i] = <<>>]
  /\ UNCHANGED <<stage, verify, model, shared, completed, garbled, faults>>

\* Mutant: a delta belongs to every call that is open.
DeltaToAll(c, i) ==
  /\ stage[c] = "streaming" /\ events[c][i] \in 1 .. Pieces
  /\ Sends(c, i)
  /\ active' = [active EXCEPT ![c] = [j \in Items |->
                  IF @[j] # None /\ i \notin ByItemId THEN Append(@[j], <<i, events[c][i]>>) ELSE @[j]]]
  /\ UNCHANGED <<stage, verify, model, shared, completed, garbled, faults>>

\* response.function_call_arguments.delta: one whose call is not known by the id
\* it carries is dropped.
Delta(c, i) ==
  /\ stage[c] = "streaming" /\ events[c][i] \in 1 .. Pieces
  /\ Sends(c, i)
  /\ active' = IF active[c][i] # None /\ i \notin ByItemId
               THEN [active EXCEPT ![c][i] = Append(@, <<i, events[c][i]>>)] ELSE active
  /\ UNCHANGED <<stage, verify, model, shared, completed, garbled, faults>>

\* response.output_item.done: the arguments it repeats, or those gathered, or none
Done(c, i) ==
  /\ stage[c] = "streaming" /\ events[c][i] = Pieces + 1
  /\ Sends(c, i)
  /\ completed' = [completed EXCEPT ![c] = Append(@,
       [item |-> i, arguments |-> IF i \in Repeated THEN All(i)
                                  ELSE IF active[c][i] # None THEN active[c][i] ELSE <<>>])]
  /\ active' = [active EXCEPT ![c][i] = None]
  /\ UNCHANGED <<stage, verify, model, shared, garbled, faults>>

\* _iter_sse skips an event that is no JSON.
Garble(c, i) ==
  /\ stage[c] = "streaming" /\ events[c][i] <= Pieces + 1
  /\ Fault /\ Sends(c, i)
  /\ garbled' = [garbled EXCEPT ![c] = @ \cup {i}]
  /\ UNCHANGED <<stage, verify, model, shared, active, completed>>

\* The stream ends, wherever that is: nobody looks for response.completed.
Ends(c) ==
  /\ Goes(c, "streaming", "answered")
  /\ UNCHANGED <<verify, model, shared, stream, faults>>

-----------------------------------------------------------------------------
Init ==
  /\ stage = [c \in Calls |-> "idle"]
  /\ verify = [c \in Calls |-> TRUE]
  /\ model = [c \in Calls |-> None]
  /\ attempted = FALSE /\ resolved = None /\ over = FALSE
  /\ events = [c \in Calls |-> [i \in Items |-> 0]]
  /\ active = [c \in Calls |-> [i \in Items |-> None]]
  /\ completed = [c \in Calls |-> <<>>]
  /\ garbled = [c \in Calls |-> {}]
  /\ faults = 0

Next ==
  \E c \in Calls :
    \/ TokenFetched(c) \/ TokenRefused(c)
    \/ Undiscovered(c) \/ Unverified(c) \/ \E offer \in Offers : Discovered(c, offer)
    \/ Answers(c) \/ Fails(c) \/ Ends(c)
    \/ \E i \in Response[c] : Added(c, i) \/ Delta(c, i) \/ Done(c, i) \/ Garble(c, i)

Spec == Init /\ [][Next]_vars

-----------------------------------------------------------------------------
\* Some pieces of i, in their order.
InOrder(i, s) ==
  /\ s \in Seq({i} \X (1 .. Pieces))
  /\ \A m, n \in DOMAIN s : m < n => s[m][2] < s[n][2]

\* The discovery is made "once per provider instance" (line 162): when it has
\* ended, well or not, the default is what it is for ever, and every later call
\* that names no model asks for it; there is no second discovery.
DefaultSettles ==
  [][over =>
       /\ resolved' = resolved
       /\ \A c \in Calls : stage[c] = "idle" /\ stage'[c] = "asking" =>
            model'[c] = IF c \in Named THEN c ELSE Default
       /\ \A c \in Calls : stage[c] = "idle" => stage'[c] # "discovering"]_vars

\* _consume_sse: however the events of parallel tool calls alternate and wherever
\* the stream ends, each call that the service completed is returned once, with
\* its own pieces in their order.  One an event of which was no JSON, or which
\* has its arguments only in deltas without call_id, may come incomplete, but
\* never with the pieces of another, nor with one twice.
CallsWhole ==
  \A c \in Calls : stage[c] = "answered" => \A i \in Items :
    LET mine == {k \in DOMAIN completed[c] : completed[c][k].item = i}
        hurt == i \in garbled[c]
    IN  /\ \A k, l \in mine : k = l
        /\ hurt \/ (mine # {} <=> events[c][i] = Pieces + 2)
        /\ \A k \in mine :
             /\ InOrder(i, completed[c][k].arguments)
             /\ hurt \/ i \in ByItemId \ Repeated \/ completed[c][k].arguments = All(i)
=============================================================================
