----------------------------- MODULE FilesProofs -----------------------------
(***************************************************************************)
(* Theorems about the three shared files, for any number of secrets, jobs, *)
(* scopes, programs, faults and edits.                                     *)
(***************************************************************************)
EXTENDS SharedFiles, TLAPS

(* secrets.json *)

SecretType ==
  /\ secrets \in Files \cup {None}
  /\ value \in [Savers -> Brought \cup {None}]
  /\ loaded \in [Savers -> Files \cup {None}]
  /\ saving \in [Savers -> {"idle", "resolved", "loaded", "done", "failed"}]

\* A save that is under way has what it needs.
SaveReady ==
  \A w \in Savers :
    /\ saving[w] \in {"resolved", "loaded"} => value[w] \in Brought
    /\ saving[w] = "loaded" => loaded[w] \in Files

SecretInv == SecretType /\ SaveReady

LEMMA FilesAre ==
  ASSUME NEW f
  PROVE  f \in Files <=> DOMAIN f \subseteq Names /\ f \in [DOMAIN f -> SecretRecord]
BY DEF Files

LEMMA NoSecretsIsFile == NoSecrets \in Files
<1>1. DOMAIN NoSecrets = {} /\ NoSecrets \in [{} -> SecretRecord]
  BY DEF NoSecrets
<1> QED BY <1>1 DEF Files

\* What is renamed over the file is a file, and says of the other names, and of
\* when a secret was made, what was read.
LEMMA RenamedIsFile ==
  ASSUME SecretInv, NEW w \in Savers, saving[w] = "loaded",
         NEW f, f = [n \in DOMAIN loaded[w] \cup {NameOf[w]} |->
                       IF n = NameOf[w] THEN Record(w) ELSE loaded[w][n]]
  PROVE  /\ f \in Files
         /\ \A n \in DOMAIN loaded[w] : n \in DOMAIN f /\ f[n].created = loaded[w][n].created
<1>1. loaded[w] \in Files /\ value[w] \in Brought /\ NameOf[w] \in Names
  BY SecretAssumption DEF SecretInv, SaveReady, SecretAssumption
<1>2. DOMAIN loaded[w] \subseteq Names /\ loaded[w] \in [DOMAIN loaded[w] -> SecretRecord]
  BY <1>1, FilesAre
<1>3. /\ Record(w) \in SecretRecord
      /\ NameOf[w] \in DOMAIN loaded[w] => Record(w).created = loaded[w][NameOf[w]].created
  <2>1. CASE NameOf[w] \in DOMAIN loaded[w]
    <3>1. loaded[w][NameOf[w]] \in SecretRecord
      BY <1>2, <2>1
    <3>2. /\ loaded[w][NameOf[w]].created \in Savers
          /\ loaded[w][NameOf[w]].description \in Savers \cup {None}
      BY <3>1 DEF SecretRecord
    <3> QED BY <1>1, <2>1, <3>2 DEF Record, SecretRecord
  <2>2. CASE NameOf[w] \notin DOMAIN loaded[w]
    BY <1>1, <2>2 DEF Record, SecretRecord
  <2> QED BY <2>1, <2>2
<1>4. DOMAIN f = DOMAIN loaded[w] \cup {NameOf[w]} /\ DOMAIN f \subseteq Names
  BY <1>1, <1>2
<1>5. f \in [DOMAIN f -> SecretRecord]
  BY <1>2, <1>3
<1>6. f \in Files
  BY <1>4, <1>5, FilesAre
<1>7. \A n \in DOMAIN loaded[w] : n \in DOMAIN f /\ f[n].created = loaded[w][n].created
  BY <1>2, <1>3
<1> QED BY <1>6, <1>7

LEMMA SecretInitInv == SecretInit => SecretInv
BY DEF SecretInit, SecretInv, SecretType, SaveReady

LEMMA SecretStep1 ==
  ASSUME SecretInv, [SecretNext]_secretVars
  PROVE  SecretInv'
<1> USE DEF SecretInv, SecretType, SaveReady
<1>1. ASSUME NEW o \in Openers, Open(o) \/ CreateEmpty(o) PROVE SecretInv'
  BY <1>1, NoSecretsIsFile DEF Open, CreateEmpty
<1>2. ASSUME NEW w \in Savers, Resolve(w) PROVE SecretInv'
  <2>1. PICK v \in Found(w) : value' = [value EXCEPT ![w] = v]
    BY <1>2 DEF Resolve
  <2>2. v \in Brought
    <3>1. CASE w \in Explicit
      BY <2>1, <3>1 DEF Found, Brought
    <3>2. CASE w \in FromEnv \ Explicit
      BY <2>1, <3>2 DEF Found, Brought
    <3>3. CASE w \notin Explicit \cup FromEnv /\ NameOf[w] \in InFile
      <4>1. CanLoad /\ NameOf[w] \in DOMAIN Load
        BY <3>3 DEF InFile
      <4>2. secrets \in Files /\ NameOf[w] \in DOMAIN secrets
        BY <4>1 DEF CanLoad, Load, NoSecrets
      <4>3. secrets[NameOf[w]] \in SecretRecord
        BY <4>2, FilesAre
      <4>4. secrets[NameOf[w]].value \in Brought
        BY <4>3 DEF SecretRecord
      <4> QED BY <2>1, <3>3, <4>4 DEF Found
    <3>4. CASE w \notin Explicit \cup FromEnv /\ NameOf[w] \notin InFile
      BY <2>1, <3>4 DEF Found, Brought
    <3> QED BY <3>1, <3>2, <3>3, <3>4
  <2> QED BY <1>2, <2>1, <2>2 DEF Resolve
<1>3. ASSUME NEW w \in Savers, ResolveFails(w) \/ LoadFails(w) PROVE SecretInv'
  BY <1>3 DEF ResolveFails, LoadFails, Fails
<1>4. ASSUME NEW w \in Savers, LoadSecrets(w) PROVE SecretInv'
  <2>1. Load \in Files
    BY <1>4, NoSecretsIsFile DEF LoadSecrets, CanLoad, Load
  <2> QED BY <1>4, <2>1 DEF LoadSecrets
<1>5. ASSUME NEW w \in Savers, Rename(w) PROVE SecretInv'
  <2>1. secrets' \in Files
    BY <1>5, RenamedIsFile DEF Rename
  <2> QED BY <1>5, <2>1 DEF Rename
<1>6. ASSUME NEW w \in Savers, RenameFails(w) PROVE SecretInv'
  BY <1>6 DEF RenameFails
<1>7. ASSUME Spoil \/ Mend PROVE SecretInv'
  BY <1>7 DEF Spoil, Mend
<1>8. CASE UNCHANGED secretVars
  BY <1>8 DEF secretVars
<1> QED BY <1>1, <1>2, <1>3, <1>4, <1>5, <1>6, <1>7, <1>8 DEF SecretNext

\* The step that SecretsStay asks of.
LEMMA SecretKept ==
  ASSUME SecretInv, [SecretNext]_secretVars, NEW n \in Names, Settled(n), shape' # "list"
  PROVE  Settled(n)' /\ secrets'[n].created = secrets[n].created
<1> USE DEF Settled
<1>1. ASSUME NEW o \in Openers, Open(o) \/ CreateEmpty(o)
      PROVE  Settled(n)' /\ secrets'[n].created = secrets[n].created
  BY <1>1 DEF Open, CreateEmpty
<1>2. ASSUME NEW w \in Savers, Resolve(w) \/ ResolveFails(w) \/ LoadFails(w)
      PROVE  Settled(n)' /\ secrets'[n].created = secrets[n].created
  BY <1>2 DEF Resolve, ResolveFails, LoadFails, Fails
<1>3. ASSUME NEW w \in Savers, LoadSecrets(w)
      PROVE  Settled(n)' /\ secrets'[n].created = secrets[n].created
  BY <1>3 DEF LoadSecrets, Load, SecretInv, SecretType
<1>4. ASSUME NEW w \in Savers, Rename(w)
      PROVE  Settled(n)' /\ secrets'[n].created = secrets[n].created
  <2>1. loaded[w] \in Files /\ loaded[w] # None
    BY <1>4, NoFileAssumption DEF Rename, SecretInv, SaveReady, NoFileAssumption
  <2>2. n \in DOMAIN loaded[w] /\ loaded[w][n].created = secrets[n].created
    BY <2>1
  <2>3. secrets' \in Files /\ n \in DOMAIN secrets' /\ secrets'[n].created = secrets[n].created
    BY <1>4, <2>2, RenamedIsFile DEF Rename
  <2>4. secrets' # None
    BY <2>3, NoFileAssumption DEF NoFileAssumption
  <2>5. \A v \in Savers : loaded'[v] # None => loaded'[v] = loaded[v]
    BY <1>4 DEF Rename, SecretInv, SecretType
  <2> QED BY <1>4, <2>3, <2>4, <2>5 DEF Rename
<1>5. ASSUME NEW w \in Savers, RenameFails(w)
      PROVE  Settled(n)' /\ secrets'[n].created = secrets[n].created
  <2>1. \A v \in Savers : loaded'[v] # None => loaded'[v] = loaded[v]
    BY <1>5 DEF RenameFails, SecretInv, SecretType
  <2> QED BY <1>5, <2>1 DEF RenameFails
<1>6. ASSUME Spoil \/ Mend
      PROVE  Settled(n)' /\ secrets'[n].created = secrets[n].created
  BY <1>6 DEF Spoil, Mend
<1>7. CASE UNCHANGED secretVars
  BY <1>7 DEF secretVars
<1> QED BY <1>1, <1>2, <1>3, <1>4, <1>5, <1>6, <1>7 DEF SecretNext

\* A settled secret is lost by no save, failure or unreadable file, whatever the
\* saves and openers and however they interleave (store.py:82-143, 164-183).
THEOREM SettledSecretsStay == SecretSpec => SecretsStay
<1>1. SecretInv /\ [SecretNext]_secretVars =>
        [\A n \in Names : Settled(n) =>
           \/ Settled(n)' /\ secrets'[n].created = secrets[n].created
           \/ shape' = "list"]_secretVars
  BY SecretKept
<1> QED BY <1>1, SecretInitInv, SecretStep1, PTL DEF SecretSpec, SecretsStay

-----------------------------------------------------------------------------
(* jobs.json *)

Places == {"idle", "loaded", "started"}

JobsType ==
  /\ jobs \in Stores /\ parsable \in BOOLEAN
  /\ known \in Stores \cup {Unread} /\ pruning \in Stores \cup {Unread}
  /\ theirs \in [JobCommands -> Stores \cup {Unread}]
  /\ command \in [JobCommands -> Places]

\* The gateway prunes only while it runs, and a command that goes on has read.
JobsInv ==
  /\ JobsType
  /\ pruning # Unread => known # Unread
  /\ \A c \in JobCommands : command[c] # "idle" => theirs[c] # Unread

LEMMA StoresAre ==
  ASSUME NEW s
  PROVE  s \in Stores <=> DOMAIN s \subseteq Jobs /\ s \in [DOMAIN s -> BOOLEAN]
BY DEF Stores

LEMMA NoJobsIsStore == NoJobs \in Stores
<1>1. DOMAIN NoJobs = {} /\ NoJobs \in [{} -> BOOLEAN]
  BY DEF NoJobs
<1> QED BY <1>1 DEF Stores

LEMMA ParsedIsStore == ASSUME JobsInv PROVE Parsed \in Stores /\ Parsed # Unread
BY NoJobsIsStore, UnreadAssumption DEF JobsInv, JobsType, Parsed, UnreadAssumption

\* A change of one job leaves the others as they are.
LEMMA ChangedIsStore ==
  ASSUME NEW s \in Stores, NEW j \in Jobs, NEW t \in Changed(s, j)
  PROVE  /\ t \in Stores /\ t # Unread
         /\ \A i \in Jobs \ {j} : Enabled(s, i) => Enabled(t, i)
<1>1. DOMAIN s \subseteq Jobs /\ s \in [DOMAIN s -> BOOLEAN]
  BY StoresAre
<1>2. CASE t = Without(s, j)
  <2>1. DOMAIN t = DOMAIN s \ {j} /\ \A i \in DOMAIN t : t[i] = s[i]
    BY <1>2 DEF Without
  <2>2. t \in [DOMAIN t -> BOOLEAN]
    BY <1>1, <1>2, <2>1 DEF Without
  <2>3. t \in Stores
    BY <1>1, <2>1, <2>2, StoresAre
  <2> QED BY <2>1, <2>3, UnreadAssumption DEF Enabled, UnreadAssumption
<1>3. ASSUME NEW e \in BOOLEAN, t = With(s, j, e)
      PROVE  /\ t \in Stores /\ t # Unread
             /\ \A i \in Jobs \ {j} : Enabled(s, i) => Enabled(t, i)
  <2>1. DOMAIN t = DOMAIN s \cup {j} /\ \A i \in DOMAIN t : t[i] = IF i = j THEN e ELSE s[i]
    BY <1>3 DEF With
  <2>2. t \in [DOMAIN t -> BOOLEAN]
    BY <1>1, <1>3, <2>1 DEF With
  <2>3. t \in Stores
    BY <1>1, <2>1, <2>2, StoresAre
  <2> QED BY <2>1, <2>3, UnreadAssumption DEF Enabled, UnreadAssumption
<1> QED BY <1>2, <1>3 DEF Changed

LEMMA PrunedIsStore ==
  ASSUME NEW s \in Stores, NEW t, t = [j \in {i \in DOMAIN s : s[i]} |-> TRUE]
  PROVE  /\ t \in Stores /\ t # Unread
         /\ \A j \in Jobs : Enabled(s, j) => Enabled(t, j)
<1>1. DOMAIN s \subseteq Jobs
  BY StoresAre
<1>2. DOMAIN t \subseteq Jobs /\ t \in [DOMAIN t -> BOOLEAN]
  BY <1>1
<1>3. t \in Stores
  BY <1>2, StoresAre
<1> QED BY <1>3, UnreadAssumption DEF Enabled, UnreadAssumption

LEMMA JobsInitInv == JobsInit => JobsInv
BY NoJobsIsStore DEF JobsInit, JobsInv, JobsType, Places

LEMMA JobsStep ==
  ASSUME JobsInv, [JobsNext]_jobVars
  PROVE  JobsInv'
<1> USE DEF JobsInv, JobsType, Saved
<1>1. CASE StartGateway
  BY <1>1, ParsedIsStore DEF StartGateway
<1>2. CASE SaveAll \/ StopGateway \/ Garble
  BY <1>2 DEF SaveAll, StopGateway, Garble, Running
<1>3. CASE Prune
  <2>1. pruning' \in Stores /\ pruning' # Unread
    BY <1>3, PrunedIsStore DEF Prune
  <2> QED BY <1>3, <2>1 DEF Prune, Running
<1>4. CASE PruneWrites \/ PruneDies
  BY <1>4 DEF PruneWrites, PruneDies
<1>5. ASSUME NEW j \in Jobs, Change(j) \/ ChangeUnsaved(j) PROVE JobsInv'
  <2>1. known \in Stores
    BY <1>5 DEF Change, ChangeUnsaved, Running
  <2>2. known' \in Stores /\ known' # Unread
    BY <1>5, <2>1, ChangedIsStore DEF Change, ChangeUnsaved
  <2> QED BY <1>5, <2>2 DEF Change, ChangeUnsaved
<1>6. ASSUME NEW c \in JobCommands, CommandLoads(c) \/ CommandStarts(c) \/ CommandMisses(c)
      PROVE  JobsInv'
  <2>1. CASE CommandLoads(c)
    BY <2>1, ParsedIsStore DEF CommandLoads, Steps, Places
  <2>2. CASE CommandStarts(c)
    BY <2>2 DEF CommandStarts, Steps, Places
  <2>3. CASE CommandMisses(c)
    BY <2>3 DEF CommandMisses, Steps, Places
  <2> QED BY <1>6, <2>1, <2>2, <2>3
<1>7. ASSUME NEW c \in JobCommands, NEW j \in Jobs, CommandEnds(c, j) PROVE JobsInv'
  <2>1. theirs[c] \in Stores
    BY <1>7 DEF CommandEnds, Steps
  <2>2. jobs' \in Stores /\ parsable'
    BY <1>7, <2>1, ChangedIsStore DEF CommandEnds
  <2> QED BY <1>7, <2>2 DEF CommandEnds, Steps, Places
<1>8. CASE UNCHANGED jobVars
  BY <1>8 DEF jobVars
<1> QED BY <1>1, <1>2, <1>3, <1>4, <1>5, <1>6, <1>7, <1>8 DEF JobsNext

\* The step that JobsStay asks of.
LEMMA JobKept ==
  ASSUME JobsInv, [JobsNext]_jobVars, NEW j \in Jobs,
         Shared(j), ~Meant(j), ~Garble, ~Unlucky
  PROVE  Shared(j)'
<1> USE DEF Shared, Saved
<1>1. CASE StartGateway
  <2>1. parsable
    BY <1>1 DEF StartGateway, JobsInv
  <2> QED BY <1>1, <2>1 DEF StartGateway, Parsed
<1>2. CASE SaveAll
  BY <1>2 DEF SaveAll, Running
<1>3. CASE StopGateway
  BY <1>3 DEF StopGateway, Running
<1>4. CASE Prune
  <2>1. Enabled(jobs, j)
    BY <1>4 DEF Prune
  <2>2. pruning' # Unread /\ Enabled(pruning', j)
    BY <1>4, <2>1, PrunedIsStore DEF Prune, JobsInv, JobsType
  <2> QED BY <1>4, <2>2 DEF Prune
<1>5. CASE PruneWrites
  BY <1>5 DEF PruneWrites
<1>6. ASSUME NEW i \in Jobs, Change(i) \/ ChangeUnsaved(i) PROVE Shared(j)'
  <2>1. known \in Stores /\ Enabled(known, j)
    BY <1>6 DEF Change, ChangeUnsaved, Running, JobsInv, JobsType
  <2>2. i # j
    BY <1>6 DEF Meant
  <2>3. Enabled(known', j)
    BY <1>6, <2>1, <2>2, ChangedIsStore DEF Change, ChangeUnsaved
  <2> QED BY <1>6, <2>3 DEF Change, ChangeUnsaved
<1>7. ASSUME NEW c \in JobCommands, CommandLoads(c) PROVE Shared(j)'
  <2>1. parsable
    BY <1>7 DEF Unlucky
  <2> QED BY <1>7, <2>1 DEF CommandLoads, Parsed, JobsInv, JobsType
<1>8. ASSUME NEW c \in JobCommands, CommandStarts(c) PROVE Shared(j)'
  <2>1. Enabled(theirs[c], j)
    BY <1>8 DEF CommandStarts, Steps, JobsInv
  <2> QED BY <1>8, <2>1 DEF CommandStarts
<1>9. ASSUME NEW c \in JobCommands, NEW i \in Jobs, CommandEnds(c, i) PROVE Shared(j)'
  <2>1. theirs[c] \in Stores /\ Enabled(theirs[c], j)
    BY <1>9 DEF CommandEnds, Steps, JobsInv, JobsType
  <2>2. i # j
    BY <1>9 DEF Meant
  <2>3. Enabled(jobs', j) /\ parsable'
    BY <1>9, <2>1, <2>2, ChangedIsStore DEF CommandEnds
  <2> QED BY <1>9, <2>3 DEF CommandEnds, JobsInv, JobsType
<1>10. ASSUME NEW c \in JobCommands, CommandMisses(c) PROVE Shared(j)'
  BY <1>10 DEF CommandMisses, JobsInv, JobsType
<1>11. CASE UNCHANGED jobVars
  BY <1>11 DEF jobVars
<1> QED BY <1>1, <1>2, <1>3, <1>4, <1>5, <1>6, <1>7, <1>8, <1>9, <1>10, <1>11 DEF JobsNext, Unlucky

\* An enabled job that the file and everyone about to write it have is lost by
\* nobody who did not mean it, whatever the commands and failures
\* (service.py:96-102; store.py:114-170; cleanup.py:143-170).
THEOREM SharedJobsStay == JobsSpec => JobsStay
<1>1. JobsInv /\ [JobsNext]_jobVars =>
        [\A j \in Jobs : Shared(j) => Shared(j)' \/ Meant(j) \/ Garble \/ Unlucky]_jobVars
  BY JobKept
<1> QED BY <1>1, JobsInitInv, JobsStep, PTL DEF JobsSpec, JobsStay

-----------------------------------------------------------------------------
(* config.json *)

ConfigType ==
  /\ text \in Texts \cup {NoFile} /\ valid \in BOOLEAN
  /\ read \in [Programs -> Texts \cup {NoFile}]
  /\ writing \subseteq Programs
  /\ up \in BOOLEAN /\ granted \subseteq Grants

\* Who writes has read, and only a running gateway asks a model again; it does
\* not stop while it rewrites the file.
ConfigInv ==
  /\ ConfigType
  /\ \A p \in writing : read[p] # NoFile
  /\ retrying # {} => up
  /\ \A p \in Programs : Kind[p] \in {"gate", "think"} /\ read[p] # NoFile => up

LEMMA ParseIsText == ASSUME ConfigInv PROVE Parse \in Texts /\ Parse # NoFile
BY NoTextAssumption DEF ConfigInv, ConfigType, Parse, Texts, NoTextAssumption

\* Whatever a program makes of a text, it keeps every setting; and every grant,
\* unless it is the gate, which puts its own.
LEMMA EditsKeep ==
  ASSUME ConfigInv, NEW p \in Programs, NEW c \in Texts, NEW t \in Edits(p, c)
  PROVE  /\ t \in Texts /\ t # NoFile
         /\ \A s \in c : s \in t \/ (Kind[p] = "gate" /\ s \in Grants \ granted)
<1>1. Kind[p] \in Kinds
  BY ConfigAssumption DEF ConfigAssumption
<1>2. ASSUME NEW S \in SUBSET Settings, t = Put(c, S)
      PROVE  t \in Texts /\ c \subseteq t
  BY <1>2 DEF Put, Texts
<1>3. CASE Kind[p] = "telegram"
  <2>1. {"telegram"} \in SUBSET Settings
    BY DEF Settings
  <2> QED BY <1>2, <1>3, <2>1, NoTextAssumption DEF Edits, ConnectTelegram, NoTextAssumption
<1>4. CASE Kind[p] = "apiKey"
  <2>1. {{"apiKey"}, {"apiKey", "model"}, {"apiKey", "model", "selector"}} \subseteq SUBSET Settings
    BY DEF Settings
  <2> QED BY <1>2, <1>4, <2>1, NoTextAssumption DEF Edits, ConnectProvider, NoTextAssumption
<1>5. CASE Kind[p] = "ollama"
  <2>1. {{"apiBase"}, {"apiBase", "model"}} \subseteq SUBSET Settings
    BY DEF Settings
  <2> QED BY <1>2, <1>5, <2>1, NoTextAssumption DEF Edits, ConnectOllama, NoTextAssumption
<1>6. CASE Kind[p] = "login"
  <2>1. {"model"} \in SUBSET Settings
    BY DEF Settings
  <2> QED BY <1>2, <1>6, <2>1, NoTextAssumption DEF Edits, Login, NoTextAssumption
<1>7. CASE Kind[p] = "onboard"
  <2>1. SUBSET {"apiKey", "apiBase", "model", "selector"} \subseteq SUBSET Settings
    BY DEF Settings
  <2> QED BY <1>2, <1>7, <2>1, NoTextAssumption DEF Edits, Onboard, NoTextAssumption
<1>8. CASE Kind[p] = "think"
  <2>1. {"think"} \in SUBSET Settings
    BY DEF Settings
  <2> QED BY <1>2, <1>8, <2>1, NoTextAssumption DEF Edits, PersistThink, NoTextAssumption
<1>9. CASE Kind[p] = "gate"
  <2>1. t = (c \ Grants) \cup granted
    BY <1>9 DEF Edits, PersistGrants, Put
  <2>2. t \in Texts
    BY <2>1 DEF ConfigInv, ConfigType, Texts
  <2> QED BY <1>9, <2>1, <2>2, NoTextAssumption DEF NoTextAssumption
<1> QED BY <1>1, <1>3, <1>4, <1>5, <1>6, <1>7, <1>8, <1>9 DEF Kinds

LEMMA ConfigInitInv == ConfigInit => ConfigInv
BY DEF ConfigInit, ConfigInv, ConfigType

LEMMA ConfigStep1 ==
  ASSUME ConfigInv, [ConfigNext]_configVars
  PROVE  ConfigInv'
<1> USE DEF ConfigInv, ConfigType, provider
<1>1. ASSUME NEW p \in Programs, Read(p) PROVE ConfigInv'
  BY <1>1, ParseIsText DEF Read
<1>2. ASSUME NEW p \in Programs, Truncate(p) PROVE ConfigInv'
  BY <1>2 DEF Truncate, Texts
<1>3. ASSUME NEW p \in Programs, Write(p) \/ Mix(p) PROVE ConfigInv'
  <2>1. read[p] \in Texts
    BY <1>3 DEF Write, Mix
  <2>2. text' \in Texts
    BY <1>3, <2>1, EditsKeep DEF Write, Mix
  <2> QED BY <1>3, <2>2 DEF Write, Mix
<1>4. ASSUME NEW p \in Programs, Die(p) PROVE ConfigInv'
  BY <1>4 DEF Die, Mishap
<1>5. ASSUME NEW p \in Programs, Blank(p) \/ Remember(p) \/ RetryFails(p) PROVE ConfigInv'
  <2>1. CASE Remember(p)
    <3>1. up
      BY <2>1 DEF Remember
    <3> QED BY <2>1, <3>1, ParseIsText DEF Remember
  <2>2. CASE Blank(p) \/ RetryFails(p)
    BY <2>2 DEF Blank, RetryFails
  <2> QED BY <1>5, <2>1, <2>2
<1>6. ASSUME NEW p \in Programs, NEW g \in Grants, Grant(p, g) PROVE ConfigInv'
  BY <1>6, ParseIsText DEF Grant
<1>7. CASE Slip \/ MendText
  BY <1>7 DEF Slip, MendText, Mishap
<1>8. CASE StartUp
  BY <1>8 DEF StartUp
<1>9. CASE ShutDown
  BY <1>9 DEF ShutDown, LoopFree
<1>10. CASE UNCHANGED configVars
  BY <1>10 DEF configVars
<1> QED BY <1>1, <1>2, <1>3, <1>4, <1>5, <1>6, <1>7, <1>8, <1>9, <1>10 DEF ConfigNext

\* The step that SettingsStay asks of.
LEMMA SettingKept ==
  ASSUME ConfigInv, [ConfigNext]_configVars, NEW s \in Settings \cup Grants,
         Kept(s), ~Spoilt
  PROVE  Kept(s)'
<1> USE DEF Kept, provider
<1>1. ASSUME NEW p \in Programs, Read(p) PROVE Kept(s)'
  <2>1. valid
    BY <1>1 DEF Spoilt
  <2> QED BY <1>1, <2>1 DEF Read, Parse, ConfigInv, ConfigType
<1>2. ASSUME NEW p \in Programs, Truncate(p) PROVE Kept(s)'
  <2>1. text' # NoFile
    BY <1>2, NoTextAssumption DEF Truncate, Texts, NoTextAssumption
  <2> QED BY <1>2, <2>1 DEF Truncate
<1>3. ASSUME NEW p \in Programs, Write(p) PROVE Kept(s)'
  <2>1. read[p] \in Texts /\ s \in read[p]
    BY <1>3 DEF Write, ConfigInv, ConfigType
  <2>2. Kind[p] = "gate" => up
    BY <1>3 DEF Write, ConfigInv
  <2>3. text' # NoFile /\ s \in text'
    BY <1>3, <2>1, <2>2, EditsKeep DEF Write
  <2> QED BY <1>3, <2>3 DEF Write, ConfigInv, ConfigType
<1>4. ASSUME NEW p \in Programs, Blank(p) \/ RetryFails(p) PROVE Kept(s)'
  BY <1>4 DEF Blank, RetryFails
<1>5. ASSUME NEW p \in Programs, Remember(p) PROVE Kept(s)'
  <2>1. valid
    BY <1>5 DEF Spoilt
  <2> QED BY <1>5, <2>1 DEF Remember, Parse, ConfigInv, ConfigType
<1>6. ASSUME NEW p \in Programs, NEW g \in Grants, Grant(p, g) PROVE Kept(s)'
  <2>1. valid
    BY <1>6 DEF Spoilt
  <2> QED BY <1>6, <2>1 DEF Grant, Parse, ConfigInv, ConfigType
<1>7. CASE MendText
  BY <1>7 DEF MendText
<1>8. CASE StartUp
  BY <1>8 DEF StartUp, Parse
<1>9. CASE ShutDown
  BY <1>9 DEF ShutDown
<1>10. CASE UNCHANGED configVars
  BY <1>10 DEF configVars
<1>11. ASSUME NEW p \in Programs, Mix(p) \/ Die(p) PROVE FALSE
  BY <1>11 DEF Spoilt
<1>12. ~Slip
  BY DEF Spoilt
<1> QED BY <1>1, <1>2, <1>3, <1>4, <1>5, <1>6, <1>7, <1>8, <1>9, <1>10, <1>11, <1>12 DEF ConfigNext

\* A setting or a grant that the file and everyone about to write it have stays,
\* whatever the programs, unless somebody reads a file that is no JSON, dies
\* writing it, or two texts mix (commands.py:558-912; onboard.py:163-244;
\* approval_gate.py:256-274; litellm_provider.py:41-60).
THEOREM KeptSettingsStay == ConfigSpec => SettingsStay
<1>1. ConfigInv /\ [ConfigNext]_configVars =>
        [\A s \in Settings \cup Grants : Kept(s) => Kept(s)' \/ Spoilt]_configVars
  BY SettingKept
<1> QED BY <1>1, ConfigInitInv, ConfigStep1, PTL DEF ConfigSpec, SettingsStay

-----------------------------------------------------------------------------
\* The three together, as the run checks them.
THEOREM FilesStay == FileSpec => SecretsStay /\ JobsStay /\ SettingsStay
<1>1. FileInit => SecretInit /\ JobsInit /\ ConfigInit
  BY DEF FileInit
<1>2. [FileNext]_fileVars => [SecretNext]_secretVars
  BY DEF FileNext, SecretStep, JobStep, ConfigStep, fileVars
<1>3. [FileNext]_fileVars => [JobsNext]_jobVars
  BY DEF FileNext, SecretStep, JobStep, ConfigStep, fileVars
<1>4. [FileNext]_fileVars => [ConfigNext]_configVars
  BY DEF FileNext, SecretStep, JobStep, ConfigStep, fileVars
<1>5. FileSpec => SecretSpec /\ JobsSpec /\ ConfigSpec
  BY <1>1, <1>2, <1>3, <1>4, PTL DEF FileSpec, SecretSpec, JobsSpec, ConfigSpec
<1> QED BY <1>5, SettledSecretsStay, SharedJobsStay, KeptSettingsStay
=============================================================================
