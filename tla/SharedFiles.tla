---------------------------- MODULE SharedFiles ----------------------------
(***************************************************************************)
(* The three files that several programs rewrite without telling each      *)
(* other.  They have no variable in common; a behaviour is about one.      *)
(***************************************************************************)
EXTENDS SecretStore, JobsFile, ConfigFile

VARIABLE file  \* the one this behaviour is about

fileVars == <<file, secretVars, jobVars, configVars>>

FileInit ==
  /\ file \in {"secrets.json", "jobs.json", "config.json"}
  /\ SecretInit /\ JobsInit /\ ConfigInit

SecretStep == file = "secrets.json" /\ SecretNext /\ UNCHANGED <<file, jobVars, configVars>>
JobStep    == file = "jobs.json" /\ JobsNext /\ UNCHANGED <<file, secretVars, configVars>>
ConfigStep == file = "config.json" /\ ConfigNext /\ UNCHANGED <<file, secretVars, jobVars>>

FileNext == SecretStep \/ JobStep \/ ConfigStep
FileSpec == FileInit /\ [][FileNext]_fileVars
=============================================================================
