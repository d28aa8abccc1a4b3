----------------------------- MODULE ConfigFile -----------------------------
(***************************************************************************)
(* config.json and the programs that rewrite it: clambot onboard           *)
(* (workspace/onboard.py), the connect and login commands                  *)
(* (cli/commands.py), and in the gateway the approval gate                 *)
(* (agent/approval_gate.py) and the LiteLLM provider                       *)
(* (providers/litellm_provider.py).                                        *)
(*                                                                         *)
(* Each reads the file, changes what it was read into, and writes it with  *)
(* write_text: the file is empty between the truncation and the write.     *)
(***************************************************************************)
EXTENDS Naturals

CONSTANTS
  Programs, \* runs that rewrite the file, the gate's persisting among them
  Kind,     \* what kind of program each is
  Grants,   \* scopes a user may allow always
  MaxMishaps, \* bound: slips of an editor, and deaths in the middle of a write
  NoFile

Settings == {"telegram", "apiKey", "apiBase", "model", "selector", "think"}
Kinds == {"telegram", "apiKey", "ollama", "login", "onboard", "think", "gate"}

ASSUME ConfigAssumption ==
  /\ Kind \in [Programs -> Kinds]
  /\ Grants \cap Settings = {}
  /\ MaxMishaps \in Nat

\* What a file says is which settings are given (an empty string is none) and
\* which scopes are granted.
Texts == SUBSET (Settings \cup Grants)

ASSUME NoTextAssumption == \A t \in Texts : t # NoFile

VARIABLES
  text,    \* what config.json says, or NoFile where there is no such file
  valid,   \* it is JSON
  read,    \* program -> what it read, or NoFile
  writing, \* the programs that have truncated the file and not written it yet
  up,      \* the gateway runs
  thinkless, \* its calls of the model say think=False
  retrying, \* calls that got an empty answer and await a second one
  granted, \* the gate's always grants
  mishaps  \* how many there were

configVars == <<text, valid, read, writing, up, thinkless, retrying, granted, mishaps>>
provider == <<thinkless, retrying>>

\* Mutant: the object is made anew and not updated.
PutAlone(c, S) == S

\* setdefault and an assignment for each.
Put(c, S) == c \cup S

\* clambot channels connect telegram
ConnectTelegram(c) == {Put(c, {"telegram"})}

\* clambot provider connect: a key and, unless --no-set-default, a model; the
\* first one brings a model for the selector where the provider has one.
ConnectProvider(c) ==
  {Put(c, S) : S \in {{"apiKey"}, {"apiKey", "model"}, {"apiKey", "model", "selector"}}}

ConnectOllama(c) == {Put(c, S) : S \in {{"apiBase"}, {"apiBase", "model"}}}

\* clambot provider login
Login(c) == {Put(c, {"model"})}

\* _deep_merge of the defaults and what is there, then what was detected and not
\* there; a model is chosen where none is, of a provider that was detected.
Onboard(c) ==
  {Put(c, S) : S \in {T \in SUBSET {"apiKey", "apiBase", "model", "selector"} :
                       /\ "selector" \in T => "model" \in T
                       /\ "model" \in T => "model" \notin c /\ T \cap {"apiKey", "apiBase"} # {}}}

\* _persist_think_disabled_model
PersistThink(c) == {Put(c, {"think"})}

\* The list of grants becomes the gate's.
PersistGrants(c) == {Put(c \ Grants, granted)}

Edits(p, c) ==
  CASE Kind[p] = "telegram" -> ConnectTelegram(c)
    [] Kind[p] = "apiKey"   -> ConnectProvider(c)
    [] Kind[p] = "ollama"   -> ConnectOllama(c)
    [] Kind[p] = "login"    -> Login(c)
    [] Kind[p] = "onboard"  -> Onboard(c)
    [] Kind[p] = "think"    -> PersistThink(c)
    [] Kind[p] = "gate"     -> PersistGrants(c)

-----------------------------------------------------------------------------
\* The gateway's event loop runs neither of its two to the end yet.
LoopFree == \A p \in Programs : Kind[p] \in {"gate", "think"} => read[p] = NoFile
Parse == IF text = NoFile \/ ~valid THEN {} ELSE text

\* A command reads a file that is not JSON as an empty one.
Read(p) ==
  /\ read[p] = NoFile /\ Kind[p] \notin {"gate", "think"}
  /\ read' = [read EXCEPT ![p] = Parse]
  /\ UNCHANGED <<text, valid, writing, up, provider, granted, mishaps>>

\* acomplete of the LiteLLM provider: the model has thought and says nothing; it
\* is asked again.
Blank(p) ==
  /\ Kind[p] = "think" /\ up /\ LoopFree /\ p \notin retrying
  /\ ~thinkless
  /\ retrying' = retrying \cup {p}
  /\ UNCHANGED <<text, valid, read, writing, up, thinkless, granted, mishaps>>

\* The second answer comes, and the model is remembered.  A file that says it, or
\* is not JSON, is left alone.
Remember(p) ==
  /\ p \in retrying /\ LoopFree
  /\ retrying' = retrying \ {p} /\ thinkless' = TRUE
  /\ read' = IF text # NoFile /\ (~valid \/ "think" \in text) THEN read
             ELSE [read EXCEPT ![p] = Parse]
  /\ UNCHANGED <<text, valid, writing, up, granted, mishaps>>

\* It does not come: the answer is the text of the error.
RetryFails(p) ==
  /\ p \in retrying /\ LoopFree
  /\ retrying' = retrying \ {p}
  /\ UNCHANGED <<text, valid, read, writing, up, thinkless, granted, mishaps>>

\* resolve with "Always": the gate adds the grant, and reads the file if there
\* is one.
Grant(p, g) ==
  /\ Kind[p] = "gate" /\ up /\ LoopFree
  /\ granted' = granted \cup {g}
  /\ read' = IF text = NoFile THEN read ELSE [read EXCEPT ![p] = Parse]
  /\ UNCHANGED <<text, valid, writing, up, provider, mishaps>>

\* write_text opens the file ...
Truncate(p) ==
  /\ read[p] # NoFile /\ p \notin writing
  /\ text' = {} /\ valid' = FALSE
  /\ writing' = writing \cup {p}
  /\ UNCHANGED <<read, up, provider, granted, mishaps>>

\* ... and writes it.
Write(p) ==
  /\ p \in writing
  /\ text' \in Edits(p, read[p]) /\ valid' = TRUE
  /\ writing' = writing \ {p}
  /\ read' = [read EXCEPT ![p] = NoFile]
  /\ UNCHANGED <<up, provider, granted, mishaps>>

\* Another has written it since this one emptied it: the two texts may mix.
Mix(p) ==
  /\ p \in writing /\ valid
  /\ text' \in Edits(p, read[p]) /\ valid' = FALSE
  /\ writing' = writing \ {p}
  /\ read' = [read EXCEPT ![p] = NoFile]
  /\ UNCHANGED <<up, provider, granted, mishaps>>

Mishap == mishaps < MaxMishaps /\ mishaps' = mishaps + 1

\* The program dies with the file open.
Die(p) ==
  /\ p \in writing /\ Mishap
  /\ writing' = writing \ {p}
  /\ read' = [read EXCEPT ![p] = NoFile]
  /\ UNCHANGED <<text, valid, up, provider, granted>>

\* The user edits the file, and it is no JSON; later it is mended.
Slip ==
  /\ text # NoFile /\ valid /\ Mishap
  /\ valid' = FALSE
  /\ UNCHANGED <<text, read, writing, up, provider, granted>>

MendText ==
  /\ text # NoFile /\ ~valid /\ writing = {}
  /\ valid' = TRUE
  /\ UNCHANGED <<text, read, writing, up, provider, granted, mishaps>>

\* load_config, which raises where there is no JSON and tells the provider which
\* models think; and the gate's __init__.
StartUp ==
  /\ ~up /\ (text = NoFile \/ valid)
  /\ up' = TRUE
  /\ granted' = Grants \cap Parse
  /\ thinkless' = ("think" \in Parse)
  /\ UNCHANGED <<text, valid, read, writing, retrying, mishaps>>

\* The gateway stops between two messages.
ShutDown ==
  /\ up /\ LoopFree
  /\ up' = FALSE /\ granted' = {}
  /\ thinkless' = FALSE /\ retrying' = {}
  /\ UNCHANGED <<text, valid, read, writing, mishaps>>

ConfigInit ==
  /\ text = NoFile /\ valid = FALSE
  /\ read = [p \in Programs |-> NoFile]
  /\ writing = {} /\ up = FALSE /\ granted = {}
  /\ thinkless = FALSE /\ retrying = {}
  /\ mishaps = 0

ConfigNext ==
  \/ \E p \in Programs : Read(p) \/ Truncate(p) \/ Write(p) \/ Mix(p) \/ Die(p)
  \/ \E p \in Programs : Blank(p) \/ Remember(p) \/ RetryFails(p)
  \/ \E p \in Programs, g \in Grants : Grant(p, g)
  \/ Slip \/ MendText \/ StartUp \/ ShutDown

ConfigSpec == ConfigInit /\ [][ConfigNext]_configVars

-----------------------------------------------------------------------------
\* The file says it, or will when it is written, and so will all who write it.
Kept(s) ==
  /\ text # NoFile
  /\ valid => s \in text
  /\ writing = {} => valid
  /\ \A p \in Programs : read[p] # NoFile => s \in read[p]
  /\ s \in Grants /\ up => s \in granted

\* Somebody reads it while it is being written, dies writing it, writes it with
\* another, or makes it something that is not JSON.
Spoilt ==
  \/ Slip
  \/ \E p \in Programs : Mix(p) \/ Die(p)
  \/ ~valid /\ \E p \in Programs : Read(p) \/ Remember(p) \/ \E g \in Grants : Grant(p, g)

\* A setting or a grant that is kept stays kept, whoever rewrites the file for
\* whatever reason, but for those accidents (commands.py:558-912;
\* onboard.py:163-244; approval_gate.py:256).
SettingsStay ==
  [][\A s \in Settings \cup Grants : Kept(s) => Kept(s)' \/ Spoilt]_configVars
=============================================================================
