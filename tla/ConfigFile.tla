------------------------------ MODULE ConfigFile ------------------------------
(***************************************************************************)
(* The configuration file, the copy of it that viper holds in a command's  *)
(* memory, and the deployments in the clouds that its records stand for.   *)
(*                                                                         *)
(* os.WriteFile truncates the file and writes it in a second step, each    *)
(* writer at its own offset: a reader may meet an empty file, and two      *)
(* writers may leave a mixture of what they wrote.                         *)
(***************************************************************************)
EXTENDS Naturals, FiniteSets

CONSTANTS
  Deployments,
  Provider,       \* the provider of each deployment
  Before,         \* the deployments that earlier commands may have left
  Main, Worker,   \* goroutines that write the file besides one per deployment
  Torn            \* a file that does not parse

Providers == {"gcp", "azure", "aws"}
Writers == Deployments \cup {Main, Worker}

ASSUME ProviderAssumption == Provider \in [Deployments -> Providers]
ASSUME BeforeAssumption == Before \subseteq Deployments
ASSUME WritersAssumption == /\ Main \notin Deployments /\ Worker \notin Deployments
                            /\ Main # Worker

VARIABLES
  file,      \* the file: the keys under "deployments", and whether "gcp" is there
  viper,     \* what the running command has of it in memory
  draft,     \* what a goroutine is about to write
  cloud      \* each deployment in its cloud; one whose deletion has begun is absent

fileVars == <<file, viper, draft>>

Contents == [records : SUBSET Deployments, gcp : BOOLEAN]
Empty == [records |-> {}, gcp |-> FALSE]

ASSUME TornAssumption == Torn \notin Contents

DeploymentsOf(p) == {d \in Deployments : Provider[d] = p}

Draft(w, c) == draft' = [draft EXCEPT ![w] = c]

Truncate == file' = Empty

\* What is left when one output is written over another.
Mixtures(c, d) ==
  {Torn, c, d} \cup {m \in Contents : m.records \subseteq c.records \cup d.records}

\* Onto an empty file, or over what another writer wrote since the truncation.
Write(w) ==
  file' \in IF file \in {Empty, draft[w]} THEN {draft[w]}
            ELSE IF file = Torn THEN {Torn, draft[w]}
            ELSE Mixtures(file, draft[w])

\* Earlier deployments, with a record or without, alive or gone.
FileInit ==
  /\ file \in [records : SUBSET Before, gcp : {TRUE}]
  /\ viper = Empty
  /\ draft = [w \in Writers |-> Empty]
  /\ \E alive \in SUBSET Before :
       cloud = [d \in Deployments |-> IF d \in alive THEN "active" ELSE "absent"]

FileTypeOK ==
  /\ file \in Contents \cup {Torn}
  /\ viper \in Contents
  /\ draft \in [Writers -> Contents]
  /\ cloud \in [Deployments -> {"absent", "active"}]
==============================================================================
