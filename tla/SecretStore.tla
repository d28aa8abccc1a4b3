---------------------------- MODULE SecretStore ----------------------------
(***************************************************************************)
(* secrets.json (tools/secrets/store.py) and those who save into it        *)
(* without a lock: sandbox threads (secrets_add), the event loop (/secret),*)
(* and the command line, which is another process.                         *)
(*                                                                         *)
(* A save resolves a value, reads the whole file, and renames a new one    *)
(* over it: three steps between which the others go on.                    *)
(***************************************************************************)
EXTENDS Naturals

CONSTANTS
  Names,    \* names of secrets
  Savers,   \* saves, each of one secret
  NameOf,   \* save -> its name
  Explicit, \* saves that bring the value; the others look it up
  FromEnv,  \* saves that name an environment variable which is set
  InEnv,    \* names an environment variable gives a value to
  Described, \* saves that bring a description
  Openers,  \* processes that open a store
  MaxSpoils, \* bound: how often the file is spoilt
  None

ASSUME SecretAssumption ==
  /\ NameOf \in [Savers -> Names]
  /\ Explicit \subseteq Savers /\ FromEnv \subseteq Savers /\ Described \subseteq Savers
  /\ InEnv \subseteq Names
  /\ MaxSpoils \in Nat

\* Who wrote what stands for when and what: a record's value and its
\* description are known by the save that brought them, its created_at by the
\* save that made it.  "env" is the environment's value.
Brought == Savers \cup {"env"}
SecretRecord == [created : Savers, value : Brought, description : Savers \cup {None}]
Files == UNION {[S -> SecretRecord] : S \in SUBSET Names}
NoSecrets == [n \in {} |-> None]

ASSUME NoFileAssumption == None \notin Files

VARIABLES
  secrets,  \* the records in secrets.json, or None where there is no file
  shape,    \* what it holds: "records", "list" (no object), or "broken"
  value,    \* save -> the value it resolved, or None
  loaded,   \* save -> the records it read, or None
  saving,   \* save -> where it is
  opening,  \* openers that saw no file and are about to write an empty one
  spoils    \* how often it was spoilt

secretVars == <<secrets, shape, value, loaded, saving, opening, spoils>>

\* _load raises where there is no file, or where it cannot be read or parsed;
\* what is no object is taken for an empty one.
CanLoad == secrets # None /\ shape # "broken"
Load == IF shape = "list" THEN NoSecrets ELSE secrets
InFile == IF CanLoad THEN DOMAIN Load ELSE {}

-----------------------------------------------------------------------------
\* SecretStore.__init__: _ensure_permissions looks for the file ...
Open(o) ==
  /\ o \notin opening /\ secrets = None
  /\ opening' = opening \cup {o}
  /\ UNCHANGED <<secrets, shape, value, loaded, saving, spoils>>

\* ... and writes "{}" over whatever is there by then.
CreateEmpty(o) ==
  /\ o \in opening
  /\ secrets' = NoSecrets /\ shape' = "records"
  /\ opening' = opening \ {o}
  /\ UNCHANGED <<value, loaded, saving, spoils>>

Fails(w) ==
  /\ saving' = [saving EXCEPT ![w] = "failed"]
  /\ UNCHANGED <<secrets, shape, value, loaded, opening, spoils>>

\* resolve_secret_value: the explicit value, the named variable's, the stored
\* one, a well-known variable's, or none.
Found(w) ==
  LET n == NameOf[w]
  IN  CASE w \in Explicit -> {w}
        [] w \in FromEnv \ Explicit -> {"env"}
        [] w \notin Explicit \cup FromEnv /\ n \in InFile -> {secrets[n].value}
        [] OTHER -> {"env" : i \in {n} \cap InEnv}

\* secrets_add.  The values of /secret and of the command line's prompt are
\* explicit.
Resolve(w) ==
  /\ saving[w] = "idle"
  /\ w \in Explicit \cup FromEnv \/ CanLoad
  /\ \E v \in Found(w) : value' = [value EXCEPT ![w] = v]
  /\ saving' = [saving EXCEPT ![w] = "resolved"]
  /\ UNCHANGED <<secrets, shape, loaded, opening, spoils>>

\* get raises, or nothing was found.
ResolveFails(w) ==
  /\ saving[w] = "idle" /\ w \notin Explicit \cup FromEnv
  /\ ~CanLoad \/ Found(w) = {}
  /\ Fails(w)

\* Mutant: a file that cannot be read is taken for an empty one.
LoadSecretsOrEmpty(w) ==
  /\ saving[w] = "resolved"
  /\ loaded' = [loaded EXCEPT ![w] = IF CanLoad THEN Load ELSE NoSecrets]
  /\ saving' = [saving EXCEPT ![w] = "loaded"]
  /\ UNCHANGED <<secrets, shape, value, opening, spoils>>

\* save: _load
LoadSecrets(w) ==
  /\ saving[w] = "resolved" /\ CanLoad
  /\ loaded' = [loaded EXCEPT ![w] = Load]
  /\ saving' = [saving EXCEPT ![w] = "loaded"]
  /\ UNCHANGED <<secrets, shape, value, opening, spoils>>

\* _load raises: nothing is written.
LoadFails(w) == saving[w] = "resolved" /\ ~CanLoad /\ Fails(w)

\* The record save makes of the one it read.
Record(w) ==
  LET n == NameOf[w]
      kept == n \in DOMAIN loaded[w]
  IN  [created |-> IF kept THEN loaded[w][n].created ELSE w,
       value |-> value[w],
       description |-> IF w \in Described THEN w
                       ELSE IF kept THEN loaded[w][n].description ELSE None]

\* _save: a temporary file is written and renamed.
Rename(w) ==
  /\ saving[w] = "loaded"
  /\ secrets' = [n \in DOMAIN loaded[w] \cup {NameOf[w]} |->
                   IF n = NameOf[w] THEN Record(w) ELSE loaded[w][n]]
  /\ shape' = "records"
  /\ loaded' = [loaded EXCEPT ![w] = None]
  /\ value' = [value EXCEPT ![w] = None]
  /\ saving' = [saving EXCEPT ![w] = "done"]
  /\ UNCHANGED <<opening, spoils>>

\* The disk is full, or the process dies: the temporary file is all that is lost.
RenameFails(w) ==
  /\ saving[w] = "loaded"
  /\ loaded' = [loaded EXCEPT ![w] = None]
  /\ value' = [value EXCEPT ![w] = None]
  /\ saving' = [saving EXCEPT ![w] = "failed"]
  /\ UNCHANGED <<secrets, shape, opening, spoils>>

\* Somebody edits it by hand, or takes its permissions away; and mends it.
Spoil ==
  /\ secrets # None /\ shape = "records" /\ spoils < MaxSpoils
  /\ shape' \in {"list", "broken"} /\ spoils' = spoils + 1
  /\ UNCHANGED <<secrets, value, loaded, saving, opening>>

Mend ==
  /\ shape # "records" /\ shape' = "records"
  /\ UNCHANGED <<secrets, value, loaded, saving, opening, spoils>>

SecretInit ==
  /\ secrets = None /\ shape = "records"
  /\ value = [w \in Savers |-> None]
  /\ loaded = [w \in Savers |-> None]
  /\ saving = [w \in Savers |-> "idle"]
  /\ opening = {} /\ spoils = 0

SecretNext ==
  \/ \E o \in Openers : Open(o) \/ CreateEmpty(o)
  \/ \E w \in Savers :
       \/ Resolve(w) \/ ResolveFails(w) \/ LoadSecrets(w) \/ LoadFails(w)
       \/ Rename(w) \/ RenameFails(w)
  \/ Spoil \/ Mend

SecretSpec == SecretInit /\ [][SecretNext]_secretVars

-----------------------------------------------------------------------------
\* A secret is settled when it is in the file, everyone who has read the file
\* has read it, and nobody is about to write an empty file.
Settled(n) ==
  /\ secrets # None /\ n \in DOMAIN secrets /\ shape # "list"
  /\ opening = {}
  /\ \A w \in Savers : loaded[w] # None =>
       n \in DOMAIN loaded[w] /\ loaded[w][n].created = secrets[n].created

\* A settled secret stays settled for ever, with its created_at: no save of any
\* other, no failure and no file that cannot be read takes it away, but only
\* somebody who makes the file something else; and before it is settled, a save
\* that read the file earlier (store.py:82, 112, 164-183).
SecretsStay ==
  [][\A n \in Names : Settled(n) =>
       \/ Settled(n)' /\ secrets'[n].created = secrets[n].created
       \/ shape' = "list"]_secretVars
=============================================================================
