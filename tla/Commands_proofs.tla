---------------------------- MODULE Commands_proofs ----------------------------
(***************************************************************************)
(* Theorems about Commands, for any deployments, writers and numbers of    *)
(* attempts, messages and commands: types, the file that `create` leaves,  *)
(* what `destroy --all` of GCP has destroyed and how it leaves the file,   *)
(* and the messages of `provision`.  The steps of the three commands are   *)
(* treated in turn: one runs at a time.                                    *)
(***************************************************************************)
EXTENDS Commands, TLAPS

------------------------------------------------------------------------------
(* The invariant. *)

\* One command runs at a time, and whatever it starts stops with it.
OneCommand ==
  /\ phase # "off" => main = "off" /\ step = "off"
  /\ main # "off" => step = "off"

\* The goroutines of destroy: they run while the command does and work on deployments of the
\* provider chosen, and who holds the mutex is writing or about to release it.
GoroutineInv ==
  /\ phase # "looping" => \A d \in Deployments : pc[d] = "idle"
  /\ phase = "looping" =>
       /\ \A d \in Deployments : pc[d] # "idle" => Provider[d] = choice.provider
       /\ \A e \in todo : Provider[e[1]] = choice.provider
  /\ \A d \in Deployments :
       /\ pc[d] = "reload" => lock = d
       /\ lock = d => pc[d] \in {"truncate", "write", "reload"}

\* `destroy --all` of GCP, not a dry run.
AllOfGCP == choice = [provider |-> "gcp", all |-> TRUE, dryRun |-> FALSE]

\* As long as no goroutine has failed, an active project is yet to be destroyed.
GoneInv ==
  AllOfGCP =>
    \A d \in DeploymentsOf("gcp") : cloud[d] = "active" =>
      /\ phase # "ok"
      /\ phase = "looping" =>
           failed \/ <<d, "whole">> \in todo \/ pc[d] \in {"provider", "cloud"}

\* Deployments of the provider chosen that contents hold were found at the start.
OnlyKnown(c) == c.records \cap DeploymentsOf(choice.provider) \subseteq known

Writing(d) == pc[d] \in {"truncate", "write"}

\* No deployment gets into the file while destroy runs, so who writes without the mutex had a
\* record from the start.
RecordsInv ==
  phase = "looping" =>
    /\ file # Torn => OnlyKnown(file)
    /\ OnlyKnown(viper)
    /\ \A d \in Deployments : Writing(d) => OnlyKnown(draft[d])
    /\ choice.provider = "gcp" =>
         \A d \in Deployments : Writing(d) /\ lock # d => d \in known

\* The deployment has a record that its goroutine has yet to remove under the mutex; until
\* then it may write without.
Pending(d) ==
  /\ d \in known
  /\ \/ <<d, "whole">> \in todo
     \/ pc[d] \in {"provider", "cloud", "read", "delete"}
     \/ Writing(d) /\ lock # d

Lacks(c) == known \ c.records # {}

\* What is in the file once all of them have: the last one that had a record removed it with
\* nobody left to write it back, and the ones without a record write what they read.
Shrunk ==
  /\ lock = NoOne => file # Torn /\ Lacks(file)
  /\ \A d \in Deployments : lock = d =>
       CASE pc[d] = "truncate" -> Lacks(draft[d])
         [] pc[d] = "write" -> file = Empty /\ Lacks(draft[d])
         [] OTHER -> file # Torn /\ Lacks(file)

ShrinkInv ==
  AllOfGCP /\ known # {} =>
    /\ phase = "ok" => file # Torn /\ Lacks(file)
    /\ phase = "looping" /\ ~failed /\ (\A d \in Deployments : ~Pending(d)) => Shrunk

\* The ways in which create does not wait for its deployment.
NotAwaited == (Provider[made] = "gcp" /\ displayErr) \/ (Provider[made] = "aws" /\ cancelled)

\* The goroutines of create: the deployment's comes with the display, both write what viper
\* holds, the new record included, and none but they changes viper or the file.
CreateInv ==
  /\ main \in {"off", "prepare"} => saving[Main] = "no"
  /\ worker \in {"none", "start", "creating", "quit", "done"} => saving[Worker] = "no"
  /\ main \in {"off", "prepare", "prepared"} => worker = "none"
  /\ main \in {"display", "join", "save", "saved"} => worker # "none"
  /\ main # "off" => made \in Deployments
  /\ main = "prepared" \/ worker # "none" => made \in viper.records
  /\ \A w \in Savers : saving[w] # "no" => draft[w] = viper
  /\ main \in {"save", "saved", "ended"} /\ worker # "none" /\ ~NotAwaited => worker = "done"

\* The last write of create meets no other.
LastWriteInv ==
  worker # "none" /\ ~NotAwaited =>
    /\ main = "saved" => CASE saving[Main] = "truncate" -> TRUE
                           [] saving[Main] = "write" -> file = Empty
                           [] OTHER -> file = viper
    /\ main = "ended" => file = viper

\* What provision has sent at each of its steps.
MessagesInv ==
  /\ ShownUpdates
  /\ step \in {"off", "connect"} => sent = 0 /\ ~holding
  /\ step \in {"ssh", "hostname", "docker", "connected", "failed"} => sent = 1
  /\ step = "settings" => sent = 2
  /\ step \in {"node", "nodeFailed", "close", "wait", "ok"} =>
       2 <= sent /\ sent <= 2 + MaxMessages
  /\ closed <=> step \in {"wait", "ok"}

IInv ==
  /\ TypeOK
  /\ OneCommand /\ GoroutineInv /\ GoneInv /\ RecordsInv /\ ShrinkInv
  /\ CreateInv /\ LastWriteInv /\ MessagesInv

------------------------------------------------------------------------------
(* The file. *)

LEMMA EmptyContents == Empty \in Contents /\ Empty # Torn
<1>1. Empty \in Contents
  BY DEF Empty, Contents
<1> QED  BY <1>1, TornAssumption

\* Write leaves the file torn or with records that it had or that the writer held; on an
\* empty file, with what the writer held.
LEMMA WriteEffect ==
  ASSUME FileTypeOK, NEW w \in Writers, Write(w)
  PROVE  /\ file' \in Contents \cup {Torn}
         /\ file = Empty => file' = draft[w]
         /\ file' # Torn =>
              \/ file'.records \subseteq draft[w].records
              \/ file # Torn /\ file'.records \subseteq file.records \cup draft[w].records
<1>1. draft[w] \in Contents
  BY DEF FileTypeOK
<1>2. CASE file \in {Empty, draft[w]}
  BY <1>1, <1>2 DEF Write
<1>3. CASE file \notin {Empty, draft[w]} /\ file = Torn
  BY <1>1, <1>3 DEF Write
<1>4. CASE file \notin {Empty, draft[w]} /\ file # Torn
  <2>1. file \in Contents
    BY <1>4 DEF FileTypeOK
  <2>2. file' \in Mixtures(file, draft[w])
    BY <1>4 DEF Write
  <2>3. \/ file' \in {Torn, file, draft[w]}
        \/ file' \in Contents /\ file'.records \subseteq file.records \cup draft[w].records
    BY <2>2 DEF Mixtures
  <2> QED  BY <1>1, <1>4, <2>1, <2>3
<1> QED  BY <1>2, <1>3, <1>4

\* A new draft of one writer leaves those of the others.
LEMMA DraftEffect ==
  ASSUME FileTypeOK, NEW w \in Writers, NEW c \in Contents, Draft(w, c)
  PROVE  /\ draft' \in [Writers -> Contents]
         /\ draft'[w] = c
         /\ \A x \in Writers \ {w} : draft'[x] = draft[x]
BY DEF FileTypeOK, Draft

------------------------------------------------------------------------------
(* The start. *)

LEMMA InitInv == Init => IInv
<1> SUFFICES ASSUME Init PROVE IInv
  OBVIOUS
<1> USE DEF Init
<1>1. FileTypeOK
  <2>1. file \in Contents
    BY BeforeAssumption DEF FileInit, Contents
  <2> QED  BY <2>1, EmptyContents DEF FileInit, FileTypeOK
<1>2. DestroyTypeOK
  <2>1. NoChoice \in Choices
    BY DEF NoChoice, Choices, Providers
  <2>2. 1 \in 1..Attempts
    BY AttemptsAssumption
  <2> QED  BY <2>1, <2>2 DEF DestroyInit, DestroyTypeOK, Keys
<1>3. CreateTypeOK
  BY DEF CreateInit, CreateTypeOK, Savers
<1>4. ProvisionTypeOK /\ commands \in 0..MaxCommands
  <2>1. NoNode \in Nodes
    BY DEF NoNode, Nodes, LineKinds
  <2>2. 0 \in 0..(3 + MaxMessages) /\ 0 \in 0..MaxCommands
    BY MaxMessagesAssumption, MaxCommandsAssumption
  <2> QED  BY <2>1, <2>2 DEF ProvisionInit, ProvisionTypeOK
<1>5. OneCommand
  BY DEF DestroyInit, CreateInit, ProvisionInit, OneCommand
<1>6. GoroutineInv
  BY AttemptsAssumption DEF DestroyInit, GoroutineInv
<1>7. GoneInv /\ ShrinkInv
  BY DEF DestroyInit, NoChoice, GoneInv, ShrinkInv, AllOfGCP
<1>8. RecordsInv
  BY DEF DestroyInit, RecordsInv
<1>9. CreateInv /\ LastWriteInv
  BY DEF CreateInit, Savers, CreateInv, LastWriteInv
<1>10. MessagesInv
  BY DEF ProvisionInit, MessagesInv, ShownUpdates
<1> QED  BY <1>1, <1>2, <1>3, <1>4, <1>5, <1>6, <1>7, <1>8, <1>9, <1>10 DEF IInv, TypeOK

------------------------------------------------------------------------------
(* The steps of provision. *)

\* They leave everything else as it is.
LEMMA ProvisionFrame ==
  ASSUME IInv, step # "off",
         UNCHANGED <<fileVars, cloud, destroyVars, createVars, commands>>
  PROVE  /\ FileTypeOK' /\ DestroyTypeOK' /\ CreateTypeOK' /\ (commands \in 0..MaxCommands)'
         /\ OneCommand' /\ GoroutineInv' /\ GoneInv' /\ RecordsInv' /\ ShrinkInv'
         /\ CreateInv' /\ LastWriteInv'
<1> USE DEF IInv, TypeOK, fileVars, destroyVars, commandVars, goroutineVars, createVars,
            mainVars, displayVars, contextVars
<1>1. FileTypeOK' /\ DestroyTypeOK' /\ CreateTypeOK' /\ (commands \in 0..MaxCommands)'
  BY DEF FileTypeOK, DestroyTypeOK, CreateTypeOK
<1>2. OneCommand' /\ GoroutineInv'
  BY DEF OneCommand, GoroutineInv
<1>3. GoneInv' /\ RecordsInv' /\ ShrinkInv'
  BY DEF OneCommand, GoneInv, RecordsInv, ShrinkInv
<1>4. CreateInv' /\ LastWriteInv'
  BY DEF CreateInv, LastWriteInv, NotAwaited
<1> QED  BY <1>1, <1>2, <1>3, <1>4

\* The same as inequalities.
LEMMA MessageTypes ==
  /\ MaxMessages \in Nat
  /\ ProvisionTypeOK <=>
       /\ node \in Nodes /\ step \in ProvisionSteps \cup {"off", "ok", "error"}
       /\ sent \in Nat /\ sent <= 3 + MaxMessages
       /\ printed \in Nat /\ printed <= 3 + MaxMessages
       /\ holding \in BOOLEAN /\ closed \in BOOLEAN
  /\ ProvisionTypeOK' <=>
       /\ node' \in Nodes /\ step' \in ProvisionSteps \cup {"off", "ok", "error"}
       /\ sent' \in Nat /\ sent' <= 3 + MaxMessages
       /\ printed' \in Nat /\ printed' <= 3 + MaxMessages
       /\ holding' \in BOOLEAN /\ closed' \in BOOLEAN
<1>1. MaxMessages \in Nat
  BY MaxMessagesAssumption
<1>2. \A x : x \in 0..(3 + MaxMessages) <=> x \in Nat /\ x <= 3 + MaxMessages
  BY <1>1
<1> QED  BY <1>1, <1>2 DEF ProvisionTypeOK

LEMMA ProvisionMessages ==
  ASSUME IInv, ProvisionStep \/ PrintUpdate
  PROVE  step # "off" /\ ProvisionTypeOK' /\ MessagesInv'
<1>0. ProvisionTypeOK /\ MessagesInv
  BY DEF IInv, TypeOK
<1> USE <1>0, MessageTypes DEF MessagesInv, ShownUpdates, ProvisionSteps
<1>1. CASE Connect
  <2>1. CASE SendAndGo("connect", {"ssh"})
    BY <2>1 DEF SendAndGo, Send
  <2>2. CASE Advance("ssh", {"hostname", "failed"})
    BY <2>2 DEF Advance
  <2>3. CASE Advance("hostname", {"docker", "error"})
    BY <2>3 DEF Advance
  <2>4. CASE Advance("docker", {"connected", "error"})
    BY <2>4 DEF Advance
  <2>5. CASE SendAndGo("connected", {"settings"})
    BY <2>5 DEF SendAndGo, Send
  <2> QED  BY <1>1, <2>1, <2>2, <2>3, <2>4, <2>5 DEF Connect
<1>2. CASE ParseFile
  BY <1>2 DEF ParseFile, Advance
<1>3. CASE ProvisionNode
  <2>1. CASE sent < 2 + MaxMessages /\ SendAndGo("node", {"node", "nodeFailed"})
    BY <2>1 DEF SendAndGo, Send
  <2>2. CASE Advance("node", IF sent = 2 + MaxMessages THEN {"close"} ELSE {"nodeFailed"})
    BY <2>2 DEF Advance
  <2> QED  BY <1>3, <2>1, <2>2 DEF ProvisionNode
<1>4. CASE ReportFailure
  <2>1. CASE SendAndGo("nodeFailed", {"error"})
    BY <2>1 DEF SendAndGo, Send
  <2>2. CASE SendAndGo("failed", {"error"})
    BY <2>2 DEF SendAndGo, Send
  <2> QED  BY <1>4, <2>1, <2>2 DEF ReportFailure
<1>5. CASE CloseUpdates
  BY <1>5 DEF CloseUpdates, AfterClose
<1>6. CASE Wait
  BY <1>6 DEF Wait, Advance
<1>7. CASE PrintUpdate
  <2>1. /\ step \in ProvisionSteps /\ step # "off" /\ step # "ok" /\ holding
        /\ holding' = FALSE /\ printed' = printed + 1
        /\ UNCHANGED <<node, step, sent, closed>>
    BY <1>7 DEF PrintUpdate
  <2>2. sent = printed + 1
    BY <2>1
  <2>3. ProvisionTypeOK'
    BY <2>1, <2>2
  <2>4. ShownUpdates'
    BY <2>1, <2>2
  <2> QED  BY <2>1, <2>3, <2>4
<1> QED  BY <1>1, <1>2, <1>3, <1>4, <1>5, <1>6, <1>7 DEF ProvisionStep

LEMMA ProvisionInvariance ==
  ASSUME IInv, Provisioning(ProvisionStep) \/ Provisioning(PrintUpdate)
  PROVE  IInv'
<1>1. /\ ProvisionStep \/ PrintUpdate
      /\ UNCHANGED <<fileVars, cloud, destroyVars, createVars, commands>>
  BY DEF Provisioning
<1>2. step # "off" /\ ProvisionTypeOK' /\ MessagesInv'
  BY <1>1, ProvisionMessages
<1> QED  BY <1>1, <1>2, ProvisionFrame DEF IInv, TypeOK

------------------------------------------------------------------------------
(* The steps of create. *)

\* They leave what belongs to the other commands, which do not run, as it is.
LEMMA CreateFrame ==
  ASSUME IInv, phase = "off", step = "off", UNCHANGED <<destroyVars, provisionVars>>
  PROVE  /\ DestroyTypeOK' /\ ProvisionTypeOK'
         /\ OneCommand' /\ GoroutineInv' /\ GoneInv' /\ RecordsInv' /\ ShrinkInv' /\ MessagesInv'
<1> USE DEF IInv, TypeOK, destroyVars, commandVars, goroutineVars, provisionVars
<1>1. DestroyTypeOK' /\ ProvisionTypeOK'
  BY DEF DestroyTypeOK, ProvisionTypeOK
<1>2. OneCommand' /\ GoroutineInv'
  BY DEF OneCommand, GoroutineInv
<1>3. GoneInv' /\ RecordsInv' /\ ShrinkInv'
  BY DEF GoneInv, RecordsInv, ShrinkInv
<1>4. MessagesInv'
  BY DEF MessagesInv, ShownUpdates
<1> QED  BY <1>1, <1>2, <1>3, <1>4

\* What the steps of create have to keep.
CreatePart == FileTypeOK /\ CreateTypeOK /\ CreateInv /\ LastWriteInv

LEMMA SaversAreWriters ==
  Savers \subseteq Writers /\ Main \in Savers /\ Worker \in Savers /\ Main # Worker
BY WritersAssumption DEF Savers, Writers

\* A goroutine that begins to save what viper holds does no more to the file.
LEMMA SaveEffect ==
  ASSUME FileTypeOK, CreateTypeOK, NEW w \in Savers, NEW c \in Contents, BeginSave(w, c)
  PROVE  /\ draft' \in [Writers -> Contents] /\ draft'[w] = c
         /\ saving' \in [Savers -> {"no", "truncate", "write"}] /\ saving'[w] = "truncate"
         /\ \A x \in Savers \ {w} : draft'[x] = draft[x] /\ saving'[x] = saving[x]
<1>1. w \in Writers
  BY SaversAreWriters
<1>2. /\ draft' \in [Writers -> Contents] /\ draft'[w] = c
      /\ \A x \in Writers \ {w} : draft'[x] = draft[x]
  BY <1>1, DraftEffect DEF BeginSave
<1>3. /\ saving' \in [Savers -> {"no", "truncate", "write"}] /\ saving'[w] = "truncate"
      /\ \A x \in Savers \ {w} : saving'[x] = saving[x]
  BY DEF BeginSave, CreateTypeOK
<1> QED  BY <1>2, <1>3, SaversAreWriters

LEMMA TruncateSaveKeeps ==
  ASSUME CreatePart, NEW w \in Savers, TruncateSave(w)
  PROVE  CreatePart' /\ main' = main
<1> USE SaversAreWriters, EmptyContents DEF CreatePart
<1>1. /\ CreateRunning /\ saving[w] = "truncate" /\ file' = Empty
      /\ saving' = [saving EXCEPT ![w] = "write"]
      /\ UNCHANGED <<viper, draft, cloud, main, made, worker, receiver, asked, displayErr,
                     deploymentErr, cancelled, signalled>>
  BY DEF TruncateSave, Truncate, mainVars, displayVars, contextVars
<1>2. FileTypeOK'
  BY <1>1 DEF FileTypeOK
<1>3. CreateTypeOK'
  BY <1>1 DEF CreateTypeOK
<1>4. /\ saving'[w] = "write"
      /\ \A x \in Savers \ {w} : saving'[x] = saving[x]
  BY <1>1 DEF CreateTypeOK
<1>5. CreateInv'
  BY <1>1, <1>4 DEF CreateInv, NotAwaited, Savers
<1>6. LastWriteInv'
  BY <1>1, <1>4 DEF CreateInv, LastWriteInv, NotAwaited, Savers, CreateRunning, MainSteps
<1> QED  BY <1>1, <1>2, <1>3, <1>5, <1>6

LEMMA WriteSaveKeeps ==
  ASSUME CreatePart, NEW w \in Savers, WriteSave(w)
  PROVE  CreatePart' /\ main' = main
<1> USE SaversAreWriters DEF CreatePart
<1>1. /\ CreateRunning /\ saving[w] = "write"
      /\ Write(w) \/ (w = Worker /\ file' = Torn)
      /\ draft' = [draft EXCEPT ![w] = Empty]
      /\ saving' = [saving EXCEPT ![w] = "no"]
      /\ UNCHANGED <<viper, cloud, main, made, worker, receiver, asked, displayErr,
                     deploymentErr, cancelled, signalled>>
  BY DEF WriteSave, mainVars, displayVars, contextVars
<1>2. file' \in Contents \cup {Torn} /\ (Write(w) /\ file = Empty => file' = draft[w])
  BY <1>1, WriteEffect
<1>3. /\ draft' \in [Writers -> Contents]
      /\ \A x \in Savers \ {w} : draft'[x] = draft[x]
  BY <1>1, EmptyContents DEF FileTypeOK
<1>4. FileTypeOK'
  BY <1>1, <1>2, <1>3 DEF FileTypeOK
<1>5. CreateTypeOK'
  BY <1>1 DEF CreateTypeOK
<1>6. /\ saving'[w] = "no"
      /\ \A x \in Savers \ {w} : saving'[x] = saving[x]
  BY <1>1 DEF CreateTypeOK
<1>7. CreateInv'
  BY <1>1, <1>3, <1>6 DEF CreateInv, NotAwaited, Savers
<1>8. LastWriteInv'
  <2> SUFFICES ASSUME worker # "none", ~NotAwaited, main = "saved"
               PROVE  w = Main /\ file' = viper
    BY <1>1, <1>6 DEF LastWriteInv, NotAwaited, CreateRunning, MainSteps
  <2>1. saving[Worker] = "no"
    BY DEF CreateInv
  <2>2. w = Main
    BY <1>1, <2>1 DEF Savers
  <2>3. file = Empty /\ draft[w] = viper
    BY <1>1, <2>2 DEF LastWriteInv, CreateInv
  <2> QED  BY <1>1, <1>2, <2>2, <2>3
<1> QED  BY <1>1, <1>4, <1>5, <1>7, <1>8

LEMMA RunCreateKeeps ==
  ASSUME CreatePart, NEW d \in Deployments, RunCreate(d)
  PROVE  CreatePart'
<1> USE SaversAreWriters DEF CreatePart
<1>1. /\ main = "off" /\ file # Torn /\ viper' = file
      /\ main' \in {"prepare", "ended"} /\ made' = d
      /\ UNCHANGED <<file, draft, cloud, worker, saving, receiver, asked, displayErr,
                     deploymentErr, cancelled, signalled>>
  BY DEF RunCreate, displayVars, contextVars
<1>2. FileTypeOK'
  BY <1>1 DEF FileTypeOK
<1>3. CreateTypeOK'
  BY <1>1 DEF CreateTypeOK, MainSteps
<1>4. worker = "none" /\ \A w \in Savers : saving[w] = "no"
  BY <1>1 DEF CreateInv, Savers
<1>5. CreateInv' /\ LastWriteInv'
  BY <1>1, <1>4 DEF CreateInv, LastWriteInv
<1> QED  BY <1>2, <1>3, <1>5

\* The command's goroutine goes on, with nothing else changed.
LEMMA EndMainKeeps ==
  ASSUME CreatePart,
         NEW end \in {"ended", "killed"}, EndMain(end),
         \/ end = "killed" /\ CreateRunning
         \/ main \in {"prepare", "prepared"}
         \/ main = "saved" /\ saving[Main] = "no"
  PROVE  CreatePart' /\ main' # "off"
<1> USE DEF CreatePart
<1>1. /\ main' = end
      /\ UNCHANGED <<file, viper, draft, cloud, made, worker, saving, receiver, asked, displayErr,
                     deploymentErr, cancelled, signalled>>
  BY DEF EndMain, fileVars, displayVars, contextVars
<1>2. FileTypeOK' /\ CreateTypeOK'
  BY <1>1 DEF FileTypeOK, CreateTypeOK
<1>3. CreateInv'
  BY <1>1 DEF CreateInv, NotAwaited, CreateRunning, MainSteps
<1>4. LastWriteInv'
  BY <1>1 DEF CreateInv, LastWriteInv, NotAwaited
<1> QED  BY <1>1, <1>2, <1>3, <1>4

LEMMA PrepareDeploymentKeeps ==
  ASSUME CreatePart, PrepareDeployment
  PROVE  CreatePart' /\ main' # "off"
<1> USE SaversAreWriters DEF CreatePart
<1>1. main = "prepare"
  BY DEF PrepareDeployment
<1>2. CASE EndMain("ended")
  BY <1>1, <1>2, EndMainKeeps
<1>3. CASE /\ viper' = WithRecord
           /\ BeginSave(Main, viper')
           /\ main' = "prepared"
           /\ UNCHANGED <<file, cloud, made, worker, displayVars, contextVars>>
  <2>1. made \in Deployments /\ worker = "none" /\ \A w \in Savers : saving[w] = "no"
    BY <1>1 DEF CreateInv, Savers
  <2>2. viper' \in Contents /\ made \in viper'.records
    BY <1>3, <2>1 DEF WithRecord, FileTypeOK, Contents
  <2>3. /\ draft' \in [Writers -> Contents] /\ draft'[Main] = viper'
        /\ saving' \in [Savers -> {"no", "truncate", "write"}] /\ saving'[Main] = "truncate"
        /\ \A x \in Savers \ {Main} : draft'[x] = draft[x] /\ saving'[x] = saving[x]
    BY <1>3, <2>2, SaveEffect
  <2>4. FileTypeOK'
    BY <1>3, <2>2, <2>3 DEF FileTypeOK
  <2>5. CreateTypeOK'
    BY <1>3, <2>3 DEF CreateTypeOK, MainSteps, displayVars, contextVars
  <2>6. CreateInv' /\ LastWriteInv'
    BY <1>3, <2>1, <2>2, <2>3 DEF CreateInv, LastWriteInv, Savers
  <2> QED  BY <1>3, <2>4, <2>5, <2>6
<1> QED  BY <1>2, <1>3 DEF PrepareDeployment

LEMMA StartDisplayKeeps ==
  ASSUME CreatePart, StartDisplay
  PROVE  CreatePart' /\ main' # "off"
<1> USE SaversAreWriters DEF CreatePart
<1>1. main = "prepared" /\ saving[Main] = "no"
  BY DEF StartDisplay
<1>2. CASE EndMain("ended")
  BY <1>1, <1>2, EndMainKeeps
<1>3. CASE /\ main' = "display" /\ worker' = "start" /\ receiver' = TRUE
           /\ UNCHANGED <<fileVars, cloud, made, saving, asked, displayErr, contextVars>>
  <2>1. FileTypeOK'
    BY <1>3 DEF FileTypeOK, fileVars
  <2>2. CreateTypeOK'
    BY <1>3 DEF CreateTypeOK, MainSteps, contextVars
  <2>3. CreateInv' /\ LastWriteInv'
    BY <1>1, <1>3 DEF CreateInv, LastWriteInv, fileVars
  <2> QED  BY <1>3, <2>1, <2>2, <2>3
<1> QED  BY <1>2, <1>3 DEF StartDisplay

\* The display and the joining of the deployment.
LEMMA DisplayKeeps ==
  ASSUME CreatePart, RunReturns \/ UserQuits \/ RunFails \/ Join
  PROVE  CreatePart' /\ main' # "off"
<1> USE DEF CreatePart
<1>1. /\ main \in {"display", "join"} /\ main' \in {"join", "save"}
      /\ UNCHANGED <<file, viper, draft, cloud, made, worker, saving, asked, deploymentErr,
                     signalled>>
      /\ receiver' \in BOOLEAN /\ displayErr' \in BOOLEAN /\ cancelled' \in BOOLEAN
      /\ displayErr => displayErr'
      /\ cancelled => cancelled'
      /\ main' = "save" => worker = "done" \/ NotAwaited'
  <2>0. receiver \in BOOLEAN /\ displayErr \in BOOLEAN /\ cancelled \in BOOLEAN
    BY DEF CreateTypeOK
  <2> USE <2>0 DEF fileVars, displayVars, contextVars, NotAwaited
  <2>1. CASE RunReturns
    BY <2>1 DEF RunReturns
  <2>2. CASE UserQuits
    BY <2>2 DEF UserQuits, AfterKey
  <2>3. CASE RunFails
    <3>1. main' = "save" => Provider[made] = "gcp"
      BY <2>3 DEF RunFails
    <3>2. cancelled' \in BOOLEAN /\ (cancelled => cancelled')
      BY <2>3 DEF RunFails
    <3> QED  BY <2>3, <3>1, <3>2 DEF RunFails
  <2>4. CASE Join
    BY <2>4 DEF Join, DeploymentDone
  <2> QED  BY <2>1, <2>2, <2>3, <2>4
<1>2. FileTypeOK'
  BY <1>1 DEF FileTypeOK
<1>3. CreateTypeOK'
  BY <1>1 DEF CreateTypeOK, MainSteps
<1>4. CreateInv' /\ LastWriteInv'
  BY <1>1 DEF CreateInv, LastWriteInv, NotAwaited
<1> QED  BY <1>1, <1>2, <1>3, <1>4

LEMMA SaveAtEndKeeps ==
  ASSUME CreatePart, SaveAtEnd
  PROVE  CreatePart' /\ main' # "off"
<1> USE SaversAreWriters DEF CreatePart
<1>1. /\ main = "save" /\ BeginSave(Main, viper) /\ main' = "saved" /\ viper \in Contents
      /\ UNCHANGED <<file, viper, cloud, made, worker, receiver, asked, displayErr,
                     deploymentErr, cancelled, signalled>>
  BY DEF SaveAtEnd, displayVars, contextVars, FileTypeOK
<1>2. /\ draft' \in [Writers -> Contents] /\ draft'[Main] = viper
      /\ saving' \in [Savers -> {"no", "truncate", "write"}] /\ saving'[Main] = "truncate"
      /\ \A x \in Savers \ {Main} : draft'[x] = draft[x] /\ saving'[x] = saving[x]
  BY <1>1, SaveEffect
<1>3. FileTypeOK'
  BY <1>1, <1>2 DEF FileTypeOK
<1>4. CreateTypeOK'
  BY <1>1, <1>2 DEF CreateTypeOK, MainSteps
<1>5. CreateInv'
  BY <1>1, <1>2 DEF CreateInv, NotAwaited, Savers
<1>6. LastWriteInv'
  BY <1>1, <1>2 DEF LastWriteInv
<1> QED  BY <1>1, <1>3, <1>4, <1>5, <1>6

LEMMA SignalKeeps ==
  ASSUME CreatePart, Signal
  PROVE  CreatePart' /\ main' # "off"
<1> USE DEF CreatePart
<1>1. /\ main # "off" /\ signalled' = TRUE /\ cancelled' = TRUE
      /\ UNCHANGED <<file, viper, draft, cloud, main, made, worker, saving, receiver, asked,
                     displayErr, deploymentErr>>
  BY DEF Signal, CreateRunning, MainSteps, fileVars, mainVars, displayVars
<1>2. FileTypeOK' /\ CreateTypeOK'
  BY <1>1 DEF FileTypeOK, CreateTypeOK
<1>3. CreateInv' /\ LastWriteInv'
  BY <1>1 DEF CreateInv, LastWriteInv, NotAwaited
<1> QED  BY <1>1, <1>2, <1>3

\* A step of the deployment's goroutine, which may begin to save what viper holds: if the
\* command is past the display it does not wait for it.
WorkerEffect ==
  /\ CreateRunning /\ worker \notin {"none", "done"}
  /\ UNCHANGED <<file, viper, main, made, displayErr, signalled>>
  /\ cloud' \in [Deployments -> {"absent", "active"}]
  /\ draft' \in [Writers -> Contents] /\ draft'[Main] = draft[Main]
  /\ saving' \in [Savers -> {"no", "truncate", "write"}] /\ saving'[Main] = saving[Main]
  /\ saving'[Worker] # "no" => draft'[Worker] = viper
  /\ worker' \in {"creating", "provisioning", "finalizing", "quit", "done"}
  /\ worker' \in {"creating", "quit", "done"} => saving'[Worker] = "no"
  /\ receiver' \in BOOLEAN /\ asked' \in BOOLEAN /\ deploymentErr' \in BOOLEAN
  /\ cancelled' \in BOOLEAN /\ (cancelled => cancelled')

LEMMA WorkerKeeps ==
  ASSUME CreatePart, WorkerEffect
  PROVE  CreatePart' /\ main' # "off"
<1> USE DEF CreatePart, WorkerEffect
<1>1. FileTypeOK'
  BY DEF FileTypeOK
<1>2. CreateTypeOK'
  BY DEF CreateTypeOK
<1>3. CreateInv'
  BY DEF CreateInv, NotAwaited, Savers, CreateRunning, MainSteps
<1>4. LastWriteInv'
  BY DEF CreateInv, LastWriteInv, NotAwaited, CreateRunning, MainSteps
<1> QED  BY <1>1, <1>2, <1>3, <1>4 DEF CreateRunning, MainSteps

\* The resources come up, and their deployment is saved.
LEMMA WorkerSaves ==
  ASSUME CreatePart, BeginSave(Worker, viper)
  PROVE  /\ draft' \in [Writers -> Contents] /\ draft'[Main] = draft[Main]
         /\ saving' \in [Savers -> {"no", "truncate", "write"}] /\ saving'[Main] = saving[Main]
         /\ draft'[Worker] = viper
BY SaversAreWriters, SaveEffect DEF CreatePart, FileTypeOK

LEMMA WorkerSteps ==
  ASSUME CreatePart,
         \/ BeginDeployment \/ RefuseRegion \/ CreateResources \/ ProvisionCluster
         \/ FinalizeDeployment \/ Quit
  PROVE  WorkerEffect
<1>1. /\ cloud \in [Deployments -> {"absent", "active"}]
      /\ draft \in [Writers -> Contents]
      /\ saving \in [Savers -> {"no", "truncate", "write"}]
      /\ saving[Worker] # "no" => draft[Worker] = viper
      /\ receiver \in BOOLEAN /\ asked \in BOOLEAN /\ deploymentErr \in BOOLEAN
      /\ cancelled \in BOOLEAN
      /\ worker \in {"none", "start", "creating", "quit", "done"} => saving[Worker] = "no"
  BY SaversAreWriters DEF CreatePart, FileTypeOK, CreateTypeOK, CreateInv
<1> USE <1>1 DEF WorkerEffect, WorkerUnchanged, saveVars, mainVars, fileVars
<1>2. CASE BeginDeployment
  BY <1>2 DEF BeginDeployment
<1>3. CASE RefuseRegion
  BY <1>3 DEF RefuseRegion
<1>4. CASE CreateResources
  <2> DEFINE up == [cloud EXCEPT ![made] = "active"]
  <2>1. up \in [Deployments -> {"absent", "active"}]
    OBVIOUS
  <2> HIDE DEF up
  <2>2. CASE Failed /\ UNCHANGED saveVars /\ cloud' \in {cloud, up} /\ worker = "creating"
    BY <1>4, <2>1, <2>2 DEF CreateResources, Failed
  <2>3. CASE /\ worker' = "provisioning" /\ BeginSave(Worker, viper) /\ cloud' = up
             /\ UNCHANGED <<file, deploymentErr, cancelled>>
    BY <1>4, <2>1, <2>3, WorkerSaves DEF CreateResources
  <2> QED  BY <1>4, <2>2, <2>3 DEF CreateResources, up
<1>5. CASE ProvisionCluster
  <2>1. CASE Failed /\ UNCHANGED saveVars
    BY <1>5, <2>1 DEF ProvisionCluster, Failed
  <2>2. CASE worker' = "finalizing" /\ UNCHANGED saveVars /\ UNCHANGED <<deploymentErr, cancelled>>
    BY <1>5, <2>2 DEF ProvisionCluster
  <2>3. CASE /\ worker' = "finalizing" /\ BeginSave(Worker, viper) /\ UNCHANGED file
             /\ UNCHANGED <<deploymentErr, cancelled>>
    BY <1>5, <2>3, WorkerSaves DEF ProvisionCluster
  <2> QED  BY <1>5, <2>1, <2>2, <2>3 DEF ProvisionCluster
<1>6. CASE FinalizeDeployment
  <2>1. CASE Failed
    BY <1>6, <2>1 DEF FinalizeDeployment, Failed
  <2>2. CASE worker' = "quit" /\ UNCHANGED <<deploymentErr, cancelled>>
    BY <1>6, <2>2 DEF FinalizeDeployment
  <2> QED  BY <1>6, <2>1, <2>2 DEF FinalizeDeployment
<1>7. CASE Quit
  <2>1. cancelled' \in BOOLEAN /\ (cancelled => cancelled')
    BY <1>7 DEF Quit
  <2> QED  BY <1>7, <2>1 DEF Quit
<1> QED  BY <1>2, <1>3, <1>4, <1>5, <1>6, <1>7

\* Every step of create.
LEMMA CreateSteps ==
  ASSUME CreatePart, MainStep \/ WorkerStep \/ Exit \/ CreateEnvironment
  PROVE  CreatePart' /\ main # "off"
<1>1. main # "off"
  <2>1. CASE MainStep
    BY <2>1 DEF MainStep, PrepareDeployment, StartDisplay, RunReturns, Join, SaveAtEnd,
                EndCreate, TruncateSave, WriteSave, CreateRunning, MainSteps
  <2>2. CASE WorkerStep
    BY <2>2 DEF WorkerStep, BeginDeployment, RefuseRegion, CreateResources, ProvisionCluster,
                FinalizeDeployment, Quit, TruncateSave, WriteSave, CreateRunning, MainSteps
  <2>3. CASE Exit \/ CreateEnvironment
    BY <2>3 DEF Exit, CreateEnvironment, UserQuits, RunFails, Signal, CreateRunning, MainSteps
  <2> QED  BY <2>1, <2>2, <2>3
<1>2. CASE \E w \in Savers : TruncateSave(w) \/ WriteSave(w)
  <2>1. PICK w \in Savers : TruncateSave(w) \/ WriteSave(w)
    BY <1>2
  <2>2. CASE TruncateSave(w)
    BY <1>1, <2>2, TruncateSaveKeeps
  <2>3. CASE WriteSave(w)
    BY <1>1, <2>3, WriteSaveKeeps
  <2> QED  BY <2>1, <2>2, <2>3
<1>3. CASE \/ BeginDeployment \/ RefuseRegion \/ CreateResources \/ ProvisionCluster
           \/ FinalizeDeployment \/ Quit
  BY <1>1, <1>3, WorkerSteps, WorkerKeeps
<1>4. CASE EndCreate
  BY <1>1, <1>4, EndMainKeeps DEF EndCreate
<1>5. CASE Exit
  BY <1>1, <1>5, EndMainKeeps DEF Exit
<1>6. CASE PrepareDeployment
  BY <1>1, <1>6, PrepareDeploymentKeeps
<1>7. CASE StartDisplay
  BY <1>1, <1>7, StartDisplayKeeps
<1>8. CASE RunReturns \/ UserQuits \/ RunFails \/ Join
  BY <1>1, <1>8, DisplayKeeps
<1>9. CASE SaveAtEnd
  BY <1>1, <1>9, SaveAtEndKeeps
<1>10. CASE Signal
  BY <1>1, <1>10, SignalKeeps
<1> QED  BY <1>2, <1>3, <1>4, <1>5, <1>6, <1>7, <1>8, <1>9, <1>10, SaversAreWriters
         DEF MainStep, WorkerStep, CreateEnvironment

LEMMA CreateInvariance ==
  ASSUME IInv, \/ Creating(MainStep) \/ Creating(WorkerStep) \/ Creating(Exit)
               \/ Creating(CreateEnvironment)
  PROVE  IInv'
<1>1. CreatePart
  BY DEF IInv, TypeOK, CreatePart
<1>2. /\ UNCHANGED <<destroyVars, provisionVars, commands>>
      /\ MainStep \/ WorkerStep \/ Exit \/ CreateEnvironment
  BY DEF Creating
<1>3. CreatePart' /\ main # "off"
  BY <1>1, <1>2, CreateSteps
<1>4. phase = "off" /\ step = "off"
  BY <1>3 DEF IInv, OneCommand
<1> QED  BY <1>2, <1>3, <1>4, CreateFrame DEF IInv, TypeOK, CreatePart

------------------------------------------------------------------------------
(* The steps of destroy. *)

\* They leave what belongs to the other commands, which do not run, as it is.
LEMMA DestroyFrame ==
  ASSUME IInv, main = "off", step = "off", UNCHANGED <<createVars, provisionVars>>
  PROVE  /\ CreateTypeOK' /\ ProvisionTypeOK'
         /\ OneCommand' /\ CreateInv' /\ LastWriteInv' /\ MessagesInv'
<1> USE DEF IInv, TypeOK, createVars, mainVars, displayVars, contextVars, provisionVars
<1>1. CreateTypeOK' /\ ProvisionTypeOK'
  BY DEF CreateTypeOK, ProvisionTypeOK
<1>2. OneCommand'
  BY DEF OneCommand
<1>3. worker = "none" /\ \A w \in Savers : saving[w] = "no"
  BY DEF CreateInv, Savers
<1>4. CreateInv' /\ LastWriteInv'
  BY <1>3 DEF CreateInv, LastWriteInv
<1>5. MessagesInv'
  BY DEF MessagesInv, ShownUpdates
<1> QED  BY <1>1, <1>2, <1>4, <1>5

\* What the steps of destroy have to keep.
DestroyPart ==
  FileTypeOK /\ DestroyTypeOK /\ GoroutineInv /\ GoneInv /\ RecordsInv /\ ShrinkInv

Points == {"idle", "provider", "cloud", "read", "truncate", "write", "delete", "reload"}

LEMMA GotoEffect ==
  ASSUME DestroyTypeOK, NEW d \in Deployments, NEW s \in Points, Goto(d, s)
  PROVE  /\ pc' \in [Deployments -> Points] /\ pc'[d] = s
         /\ \A x \in Deployments \ {d} : pc'[x] = pc[x]
BY DEF DestroyTypeOK, Goto, Points

LEMMA ReturnEffect ==
  ASSUME FileTypeOK, DestroyTypeOK, NEW d \in Deployments, Return(d)
  PROVE  /\ pc' \in [Deployments -> Points] /\ pc'[d] = "idle"
         /\ attempt' \in [Deployments -> 1..Attempts]
         /\ draft' \in [Writers -> Contents] /\ draft'[d] = Empty
         /\ \A x \in Deployments \ {d} : pc'[x] = pc[x] /\ draft'[x] = draft[x]
<1>1. Goto(d, "idle") /\ attempt' = [attempt EXCEPT ![d] = 1] /\ Draft(d, Empty)
  BY DEF Return
<1>2. 1 \in 1..Attempts
  BY AttemptsAssumption
<1>3. attempt' \in [Deployments -> 1..Attempts]
  BY <1>1, <1>2 DEF DestroyTypeOK
<1>4. d \in Writers /\ Deployments \subseteq Writers
  BY DEF Writers
<1>5. /\ draft' \in [Writers -> Contents] /\ draft'[d] = Empty
      /\ \A x \in Writers \ {d} : draft'[x] = draft[x]
  BY <1>1, <1>4, EmptyContents, DraftEffect
<1> QED  BY <1>1, <1>3, <1>4, <1>5, GotoEffect DEF Points

LEMMA TriesAgainEffect ==
  ASSUME FileTypeOK, DestroyTypeOK, NEW d \in Deployments, TriesAgain(d)
  PROVE  /\ pc' \in [Deployments -> Points]
         /\ attempt' \in [Deployments -> 1..Attempts]
         /\ draft' \in [Writers -> Contents]
         /\ \A x \in Deployments \ {d} : pc'[x] = pc[x] /\ draft'[x] = draft[x]
         /\ \/ pc'[d] = "cloud" /\ failed' = failed
            \/ pc'[d] = "idle" /\ failed' = TRUE
         /\ failed' \in BOOLEAN /\ (failed => failed')
<1>0. failed \in BOOLEAN
  BY DEF DestroyTypeOK
<1>1. CASE /\ attempt[d] < Attempts
           /\ attempt' = [attempt EXCEPT ![d] = @ + 1]
           /\ Goto(d, "cloud")
           /\ UNCHANGED <<draft, failed>>
  <2>1. attempt[d] + 1 \in 1..Attempts
    BY <1>1, AttemptsAssumption DEF DestroyTypeOK
  <2>2. attempt' \in [Deployments -> 1..Attempts]
    BY <1>1, <2>1 DEF DestroyTypeOK
  <2>3. failed' \in BOOLEAN /\ (failed => failed')
    BY <1>0, <1>1
  <2> QED  BY <1>1, <2>2, <2>3, GotoEffect DEF Points, FileTypeOK
<1>2. CASE Fail(d)
  BY <1>2, ReturnEffect DEF Fail
<1> QED  BY <1>1, <1>2 DEF TriesAgain

\* What every step of the goroutine of d does, as far as the invariants of the other
\* goroutines and of the file's records tell: the others stay where they are, and so does the
\* mutex if one of them has it; d has it when it is at "reload".  A project that is active
\* after the step was so before, and its goroutine, unless it failed, has not gone past it.
\* No records come up, and d writes without the mutex only if it had a record.
Effect(d) ==
  /\ UNCHANGED commandVars
  /\ FileTypeOK' /\ pc' \in [Deployments -> Points]
  /\ attempt' \in [Deployments -> 1..Attempts]
  /\ lock' \in Deployments \cup {NoOne} /\ failed' \in BOOLEAN
  /\ failed => failed'
  /\ \A x \in Deployments \ {d} : /\ pc'[x] = pc[x] /\ draft'[x] = draft[x]
                                  /\ cloud'[x] = cloud[x]
                                  /\ lock' = x <=> lock = x
  /\ pc'[d] = "reload" => lock' = d
  /\ lock' = d => pc'[d] \in {"truncate", "write", "reload"}
  /\ Provider[d] = "gcp" /\ ~failed' /\ cloud'[d] = "active" /\ AllOfGCP =>
       /\ cloud[d] = "active"
       /\ pc[d] \in {"provider", "cloud"} => pc'[d] \in {"provider", "cloud"}
  /\ file' # Torn => OnlyKnown(file')
  /\ OnlyKnown(viper')
  /\ pc'[d] \in {"truncate", "write"} => OnlyKnown(draft'[d])
  /\ choice.provider = "gcp" /\ pc'[d] \in {"truncate", "write"} /\ lock' # d => d \in known

\* And what ShrinkInv asks of it.
Shrinks ==
  AllOfGCP /\ known # {} /\ ~failed' /\ (\A x \in Deployments : ~Pending(x)') => Shrunk'

\* The goroutine of d runs.
Runs(d) == DestroyPart /\ pc[d] # "idle"

LEMMA RunsFacts ==
  ASSUME NEW d \in Deployments, Runs(d)
  PROVE  /\ phase = "looping" /\ Provider[d] = choice.provider
         /\ pc[d] = "reload" => lock = d
         /\ lock = d => pc[d] \in {"truncate", "write", "reload"}
         /\ file # Torn => OnlyKnown(file)
         /\ OnlyKnown(viper)
         /\ pc[d] \in {"truncate", "write"} => OnlyKnown(draft[d])
         /\ choice.provider = "gcp" /\ pc[d] \in {"truncate", "write"} /\ lock # d => d \in known
         /\ file \in Contents \cup {Torn} /\ viper \in Contents
         /\ draft \in [Writers -> Contents]
         /\ cloud \in [Deployments -> {"absent", "active"}]
         /\ pc \in [Deployments -> Points]
         /\ attempt \in [Deployments -> 1..Attempts]
         /\ lock \in Deployments \cup {NoOne} /\ failed \in BOOLEAN
         /\ d \in Writers /\ d # NoOne
<1>1. phase \in {"off", "looping", "ok", "error"}
  BY DEF Runs, DestroyPart, DestroyTypeOK
<1>2. phase = "looping"
  BY <1>1 DEF Runs, DestroyPart, GoroutineInv
<1>3. /\ Provider[d] = choice.provider
      /\ pc[d] = "reload" => lock = d
      /\ lock = d => pc[d] \in {"truncate", "write", "reload"}
  BY <1>2 DEF Runs, DestroyPart, GoroutineInv
<1>4. /\ file # Torn => OnlyKnown(file)
      /\ OnlyKnown(viper)
      /\ pc[d] \in {"truncate", "write"} => OnlyKnown(draft[d])
      /\ choice.provider = "gcp" /\ pc[d] \in {"truncate", "write"} /\ lock # d => d \in known
  BY <1>2 DEF Runs, DestroyPart, RecordsInv, Writing
<1>5. d \in Writers /\ d # NoOne
  BY AttemptsAssumption DEF Writers
<1> QED  BY <1>2, <1>3, <1>4, <1>5 DEF Runs, DestroyPart, FileTypeOK, DestroyTypeOK, Points

\* Such a step keeps the invariants of the goroutines.
LEMMA EffectKeeps ==
  ASSUME NEW d \in Deployments, Runs(d), Effect(d), Shrinks
  PROVE  DestroyPart'
<1>1. /\ phase = "looping" /\ Provider[d] = choice.provider /\ DestroyPart
      /\ UNCHANGED <<phase, choice, known, todo, key>>
  BY RunsFacts DEF Effect, commandVars, Runs
<1>2. DestroyTypeOK'
  BY <1>1 DEF Effect, DestroyPart, DestroyTypeOK, Points
<1>3. GoroutineInv'
  BY <1>1 DEF Effect, DestroyPart, GoroutineInv
<1>4. GoneInv'
  <2> SUFFICES ASSUME AllOfGCP, ~failed', NEW x \in DeploymentsOf("gcp"), cloud'[x] = "active"
               PROVE  <<x, "whole">> \in todo \/ pc'[x] \in {"provider", "cloud"}
    BY <1>1 DEF GoneInv, AllOfGCP
  <2>1. x \in Deployments /\ Provider[x] = "gcp" /\ ~failed
    BY DEF DeploymentsOf, Effect
  <2>2. cloud[x] = "active" =>
          <<x, "whole">> \in todo \/ pc[x] \in {"provider", "cloud"}
    BY <1>1, <2>1 DEF DestroyPart, GoneInv
  <2>3. CASE x = d
    BY <2>1, <2>2, <2>3 DEF Effect
  <2>4. CASE x # d
    BY <2>1, <2>2, <2>4 DEF Effect
  <2> QED  BY <2>3, <2>4
<1>5. RecordsInv'
  <2>1. /\ file' # Torn => OnlyKnown(file)'
        /\ OnlyKnown(viper)'
    BY <1>1 DEF Effect, OnlyKnown
  <2>2. ASSUME NEW x \in Deployments, Writing(x)'
        PROVE  OnlyKnown(draft[x])' /\ (choice'.provider = "gcp" /\ lock' # x => x \in known')
    <3>1. CASE x = d
      BY <1>1, <2>2, <3>1 DEF Effect, OnlyKnown, Writing
    <3>2. CASE x # d
      <4>1. Writing(x) /\ draft'[x] = draft[x] /\ (lock' = x <=> lock = x)
        BY <2>2, <3>2 DEF Effect, Writing
      <4> QED  BY <1>1, <4>1 DEF DestroyPart, RecordsInv, OnlyKnown
    <3> QED  BY <3>1, <3>2
  <2> QED  BY <2>1, <2>2 DEF RecordsInv
<1>6. ShrinkInv'
  BY <1>1 DEF Shrinks, ShrinkInv, AllOfGCP
<1> QED  BY <1>2, <1>3, <1>4, <1>5, <1>6 DEF DestroyPart, Effect

\* A step before the mutex that leaves the file alone.
LEMMA PrivateShrinks ==
  ASSUME NEW d \in Deployments, Runs(d), Effect(d), lock # d, UNCHANGED <<file, lock>>,
         AllOfGCP /\ ~failed' /\ Pending(d) => Pending(d)'
  PROVE  Shrinks
<1> SUFFICES ASSUME AllOfGCP, known # {}, ~failed', \A x \in Deployments : ~Pending(x)'
             PROVE  Shrunk'
  BY DEF Shrinks
<1>1. ASSUME NEW x \in Deployments PROVE ~Pending(x)
  <2>1. CASE x = d
    BY <2>1
  <2>2. CASE x # d
    <3>1. /\ pc'[x] = pc[x] /\ (lock' = x <=> lock = x) /\ known' = known /\ todo' = todo
          /\ ~Pending(x)'
      BY <2>2 DEF Effect, commandVars
    <3> QED  BY <3>1 DEF Pending, Writing
  <2> QED  BY <2>1, <2>2
<1>2. Shrunk /\ known' = known
  BY <1>1, RunsFacts DEF Runs, DestroyPart, ShrinkInv, Effect, commandVars
<1>3. ASSUME NEW x \in Deployments, lock = x
      PROVE  pc'[x] = pc[x] /\ draft'[x] = draft[x]
  BY <1>3 DEF Effect
<1> QED  BY <1>2, <1>3 DEF Shrunk, Lacks

\* Who writes without the mutex has it still to come.
LEMMA UnlockedShrinks ==
  ASSUME NEW d \in Deployments, Runs(d), Effect(d), lock # d, lock' # d, Writing(d),
         pc'[d] \in {"write", "delete"}
  PROVE  Shrinks
<1> SUFFICES ASSUME AllOfGCP PROVE Pending(d)'
  BY DEF Shrinks
<1>1. d \in known /\ known' = known
  BY RunsFacts DEF Writing, AllOfGCP, Effect, commandVars
<1> QED  BY <1>1 DEF Pending, Writing

LEMMA CreateProviderKeeps ==
  ASSUME DestroyPart, NEW d \in Deployments, CreateProvider(d)
  PROVE  DestroyPart'
<1>1. pc[d] = "provider" /\ UNCHANGED <<file, viper, cloud, commandVars, lock>>
  BY DEF CreateProvider
<1>2. Runs(d) /\ lock # d
  BY <1>1, RunsFacts DEF Runs
<1> USE <1>1, <1>2, RunsFacts
<1>3. CASE /\ Goto(d, IF choice.dryRun THEN "idle" ELSE "cloud")
           /\ UNCHANGED <<draft, attempt, failed>>
  <2> DEFINE to == IF choice.dryRun THEN "idle" ELSE "cloud"
  <2>1. to \in {"idle", "cloud"} /\ to \in Points /\ (~choice.dryRun => to = "cloud")
    BY DEF Points
  <2>2. Goto(d, to)
    BY <1>3
  <2> HIDE DEF to
  <2>3. /\ pc' \in [Deployments -> Points] /\ pc'[d] = to
        /\ \A x \in Deployments \ {d} : pc'[x] = pc[x]
    BY <2>1, <2>2, GotoEffect DEF DestroyPart
  <2>4. ~choice.dryRun \/ ~AllOfGCP
    BY DEF AllOfGCP
  <2>5. Effect(d)
    BY <1>3, <2>1, <2>3, <2>4 DEF Effect, FileTypeOK
  <2>6. AllOfGCP /\ Pending(d) => Pending(d)'
    BY <2>1, <2>3, <2>4 DEF Pending, commandVars
  <2>7. Shrinks
    BY <2>5, <2>6, PrivateShrinks
  <2> QED  BY <2>5, <2>7, EffectKeeps
<1>4. CASE Fail(d)
  <2>1. Effect(d)
    BY <1>4, ReturnEffect DEF Fail, DestroyPart, Effect, FileTypeOK
  <2>2. Shrinks
    BY <1>4 DEF Fail, Shrinks
  <2> QED  BY <2>1, <2>2, EffectKeeps
<1> QED  BY <1>3, <1>4 DEF CreateProvider

LEMMA DestroyProjectKeeps ==
  ASSUME DestroyPart, NEW d \in Deployments, DestroyProject(d)
  PROVE  DestroyPart'
<1>1. pc[d] = "cloud" /\ Provider[d] = "gcp" /\ UNCHANGED <<file, viper, commandVars, lock>>
  BY DEF DestroyProject
<1>2. Runs(d) /\ lock # d
  BY <1>1, RunsFacts DEF Runs
<1> DEFINE gone == [cloud EXCEPT ![d] = "absent"]
<1>3. /\ gone \in [Deployments -> {"absent", "active"}] /\ gone[d] = "absent"
      /\ \A x \in Deployments \ {d} : gone[x] = cloud[x]
  BY <1>2, RunsFacts
<1> HIDE DEF gone
<1> USE <1>1, <1>2, <1>3, RunsFacts
<1>4. CASE /\ cloud' = gone /\ Goto(d, "read") /\ UNCHANGED <<draft, attempt, failed>>
  <2>1. Effect(d)
    BY <1>4, GotoEffect DEF DestroyPart, Points, Effect, FileTypeOK
  <2>2. Pending(d) => Pending(d)'
    BY <1>4, GotoEffect DEF DestroyPart, Points, Pending, commandVars
  <2> QED  BY <2>1, <2>2, PrivateShrinks, EffectKeeps
<1>5. CASE /\ cloud[d] = "absent" /\ Goto(d, "delete")
           /\ UNCHANGED <<draft, attempt, failed, cloud>>
  <2>1. Effect(d)
    BY <1>5, GotoEffect DEF DestroyPart, Points, Effect, FileTypeOK
  <2>2. Pending(d) => Pending(d)'
    BY <1>5, GotoEffect DEF DestroyPart, Points, Pending, commandVars
  <2> QED  BY <2>1, <2>2, PrivateShrinks, EffectKeeps
<1>6. CASE TriesAgain(d) /\ cloud' \in {cloud, gone}
  <2>0. /\ cloud' \in [Deployments -> {"absent", "active"}]
        /\ cloud'[d] = "active" => cloud[d] = "active"
        /\ \A x \in Deployments \ {d} : cloud'[x] = cloud[x]
    BY <1>6
  <2>1. Effect(d)
    <3>1. /\ pc' \in [Deployments -> Points] /\ attempt' \in [Deployments -> 1..Attempts]
          /\ draft' \in [Writers -> Contents]
          /\ \A x \in Deployments \ {d} : pc'[x] = pc[x] /\ draft'[x] = draft[x]
          /\ \/ pc'[d] = "cloud" /\ failed' = failed
             \/ pc'[d] = "idle" /\ failed' = TRUE
      BY <1>6, TriesAgainEffect DEF DestroyPart
    <3>2. FileTypeOK'
      BY <2>0, <3>1 DEF FileTypeOK
    <3>3. failed' \in BOOLEAN /\ (failed => failed')
      BY <1>6, TriesAgainEffect DEF DestroyPart
    <3>4. pc'[d] \in {"cloud", "idle"} /\ (~failed' => pc'[d] = "cloud")
      BY <3>1
    <3>5. /\ (file' # Torn => OnlyKnown(file')) /\ OnlyKnown(viper')
          /\ lock' \in Deployments \cup {NoOne} /\ lock' # d
      OBVIOUS
    <3>6. \A x \in Deployments \ {d} : /\ pc'[x] = pc[x] /\ draft'[x] = draft[x]
                                      /\ cloud'[x] = cloud[x]
                                      /\ lock' = x <=> lock = x
      BY <2>0, <3>1
    <3> QED  BY <2>0, <3>1, <3>2, <3>3, <3>4, <3>5, <3>6 DEF Effect
  <2>2. ~failed' /\ Pending(d) => Pending(d)'
    BY <1>6, TriesAgainEffect DEF DestroyPart, Pending, commandVars
  <2> QED  BY <2>1, <2>2, PrivateShrinks, EffectKeeps
<1> QED  BY <1>4, <1>5, <1>6 DEF DestroyProject, gone

LEMMA ReadConfigKeeps ==
  ASSUME DestroyPart, NEW d \in Deployments, ReadConfig(d)
  PROVE  DestroyPart'
<1>1. pc[d] = "read" /\ UNCHANGED <<file, viper, cloud, commandVars, lock>>
  BY DEF ReadConfig
<1>2. Runs(d) /\ lock # d
  BY <1>1, RunsFacts DEF Runs
<1> USE <1>1, <1>2, RunsFacts
<1>3. CASE TriesAgain(d)
  <2>1. Effect(d)
    BY <1>3, TriesAgainEffect DEF DestroyPart, Effect, FileTypeOK
  <2>2. ~failed' /\ Pending(d) => Pending(d)'
    BY <1>3, TriesAgainEffect DEF DestroyPart, Pending, commandVars
  <2> QED  BY <2>1, <2>2, PrivateShrinks, EffectKeeps
<1>4. CASE Goto(d, "delete") /\ UNCHANGED <<draft, attempt, failed>>
  <2>1. Effect(d)
    BY <1>4, GotoEffect DEF DestroyPart, Points, Effect, FileTypeOK
  <2>2. Pending(d) => Pending(d)'
    BY <1>4, GotoEffect DEF DestroyPart, Points, Pending, commandVars
  <2> QED  BY <2>1, <2>2, PrivateShrinks, EffectKeeps
<1>5. CASE /\ file # Torn /\ d \in file.records
           /\ Draft(d, [records |-> file.records \ {d}, gcp |-> FALSE])
           /\ Goto(d, "truncate")
           /\ UNCHANGED <<attempt, failed>>
  <2> DEFINE c == [records |-> file.records \ {d}, gcp |-> FALSE]
  <2>1. c \in Contents /\ OnlyKnown(c)
    BY <1>5 DEF Contents, OnlyKnown
  <2>2. d \in known
    BY <1>5 DEF OnlyKnown, DeploymentsOf
  <2>3. Draft(d, c) /\ Deployments \subseteq Writers
    BY <1>5 DEF Writers
  <2> HIDE DEF c
  <2>4. /\ draft' \in [Writers -> Contents] /\ draft'[d] = c
        /\ \A x \in Writers \ {d} : draft'[x] = draft[x]
    BY <2>1, <2>3, DraftEffect DEF DestroyPart
  <2>5. Effect(d)
    BY <1>5, <2>1, <2>2, <2>3, <2>4, GotoEffect DEF DestroyPart, Points, Effect, FileTypeOK
  <2>6. Pending(d) => Pending(d)'
    BY <1>5, GotoEffect DEF DestroyPart, Points, Pending, Writing, commandVars
  <2> QED  BY <2>5, <2>6, PrivateShrinks, EffectKeeps
<1> QED  BY <1>3, <1>4, <1>5 DEF ReadConfig

\* The other providers.
LEMMA DestroyResourcesKeeps ==
  ASSUME DestroyPart, NEW d \in Deployments, DestroyResources(d)
  PROVE  DestroyPart'
<1>1. pc[d] = "cloud" /\ Provider[d] = "azure" /\ UNCHANGED <<file, viper, commandVars, lock>>
  BY DEF DestroyResources
<1>2. Runs(d) /\ lock # d
  BY <1>1, RunsFacts DEF Runs
<1>3. ~AllOfGCP
  BY <1>1, <1>2, RunsFacts DEF AllOfGCP
<1>4. /\ cloud' \in [Deployments -> {"absent", "active"}]
      /\ \A x \in Deployments \ {d} : cloud'[x] = cloud[x]
      /\ \/ Goto(d, "delete") /\ UNCHANGED <<draft, attempt, failed>>
         \/ Fail(d)
  BY <1>2, RunsFacts DEF DestroyResources
<1> USE <1>1, <1>2, <1>3, <1>4, RunsFacts
<1>5. Shrinks
  BY DEF Shrinks
<1>6. CASE Goto(d, "delete") /\ UNCHANGED <<draft, attempt, failed>>
  <2>1. Effect(d)
    BY <1>6, GotoEffect DEF DestroyPart, Points, Effect, FileTypeOK
  <2> QED  BY <1>5, <2>1, EffectKeeps
<1>7. CASE Fail(d)
  <2>1. Effect(d)
    BY <1>7, ReturnEffect DEF Fail, DestroyPart, Effect, FileTypeOK
  <2> QED  BY <1>5, <2>1, EffectKeeps
<1> QED  BY <1>6, <1>7

LEMMA DestroyAWSKeeps ==
  ASSUME DestroyPart, NEW d \in Deployments, DestroyAWS(d)
  PROVE  DestroyPart'
<1>1. /\ pc[d] = "cloud" /\ Provider[d] = "aws" /\ Draft(d, viper) /\ Goto(d, "truncate")
      /\ UNCHANGED <<file, viper, cloud, commandVars, attempt, lock, failed>>
  BY DEF DestroyAWS
<1>2. Runs(d) /\ lock # d
  BY <1>1, RunsFacts DEF Runs
<1> USE <1>1, <1>2, RunsFacts
<1>3. ~AllOfGCP /\ choice.provider = "aws"
  BY DEF AllOfGCP
<1>4. Shrinks
  BY <1>3 DEF Shrinks
<1>5. /\ draft' \in [Writers -> Contents] /\ draft'[d] = viper
      /\ \A x \in Deployments \ {d} : draft'[x] = draft[x]
  BY DraftEffect DEF DestroyPart, Writers
<1>6. Effect(d)
  BY <1>3, <1>5, GotoEffect DEF DestroyPart, Points, Effect, FileTypeOK
<1> QED  BY <1>4, <1>6, EffectKeeps

LEMMA TruncateConfigKeeps ==
  ASSUME DestroyPart, NEW d \in Deployments, TruncateConfig(d)
  PROVE  DestroyPart'
<1>1. /\ pc[d] = "truncate" /\ file' = Empty /\ Goto(d, "write")
      /\ UNCHANGED <<viper, draft, cloud, commandVars, attempt, lock, failed>>
  BY DEF TruncateConfig, Truncate
<1>2. Runs(d)
  BY <1>1 DEF Runs
<1> USE <1>1, <1>2, RunsFacts
<1>3. OnlyKnown(Empty)
  BY DEF OnlyKnown, Empty
<1>4. Effect(d)
  BY <1>3, GotoEffect, EmptyContents DEF DestroyPart, Points, Effect, FileTypeOK
<1>5. Shrinks
  <2>1. CASE lock # d
    BY <1>4, <2>1, GotoEffect, UnlockedShrinks DEF DestroyPart, Points, Writing
  <2>2. CASE lock = d
    <3> SUFFICES ASSUME AllOfGCP, known # {}, ~failed', \A x \in Deployments : ~Pending(x)'
                 PROVE  Shrunk'
      BY DEF Shrinks
    <3>1. pc'[d] = "write" /\ \A x \in Deployments \ {d} : pc'[x] = pc[x]
      BY GotoEffect DEF DestroyPart, Points
    <3>2. \A x \in Deployments : ~Pending(x)
      BY <2>2, <3>1 DEF Pending, Writing, commandVars
    <3>3. Lacks(draft[d])
      BY <2>2, <3>2 DEF Runs, DestroyPart, ShrinkInv, Shrunk
    <3> QED  BY <2>2, <3>1, <3>3 DEF Shrunk, Lacks, commandVars
  <2> QED  BY <2>1, <2>2
<1> QED  BY <1>4, <1>5, EffectKeeps

LEMMA WriteConfigKeeps ==
  ASSUME DestroyPart, NEW d \in Deployments, WriteConfig(d)
  PROVE  DestroyPart'
<1> DEFINE to == IF lock = d THEN "reload" ELSE "delete"
<1>1. /\ pc[d] = "write" /\ Write(d) /\ Goto(d, to)
      /\ UNCHANGED <<viper, draft, cloud, commandVars, attempt, lock, failed>>
  BY DEF WriteConfig
<1>2. to \in Points /\ (lock = d => to = "reload") /\ (lock # d => to = "delete")
  BY DEF Points
<1> HIDE DEF to
<1>3. Runs(d)
  BY <1>1 DEF Runs
<1> USE <1>1, <1>2, <1>3, RunsFacts
<1>4. pc' \in [Deployments -> Points] /\ pc'[d] = to /\ \A x \in Deployments \ {d} : pc'[x] = pc[x]
  BY GotoEffect DEF DestroyPart
<1>5. /\ file' \in Contents \cup {Torn}
      /\ file = Empty => file' = draft[d]
      /\ file' # Torn =>
           \/ file'.records \subseteq draft[d].records
           \/ file # Torn /\ file'.records \subseteq file.records \cup draft[d].records
  BY WriteEffect DEF DestroyPart
<1>6. file' # Torn => OnlyKnown(file')
  BY <1>5 DEF OnlyKnown
<1>7. Effect(d)
  BY <1>4, <1>5, <1>6 DEF Effect, FileTypeOK
<1>8. Shrinks
  <2>1. CASE lock # d
    BY <1>4, <1>7, <2>1, UnlockedShrinks DEF Writing
  <2>2. CASE lock = d
    <3> SUFFICES ASSUME AllOfGCP, known # {}, ~failed', \A x \in Deployments : ~Pending(x)'
                 PROVE  Shrunk'
      BY DEF Shrinks
    <3>1. \A x \in Deployments : ~Pending(x)
      BY <1>4, <2>2 DEF Pending, Writing, commandVars
    <3>2. file = Empty /\ Lacks(draft[d])
      BY <2>2, <3>1 DEF Runs, DestroyPart, ShrinkInv, Shrunk
    <3>3. file' = draft[d] /\ file' # Torn
      BY <1>5, <3>2, TornAssumption
    <3> QED  BY <1>4, <2>2, <3>2, <3>3 DEF Shrunk, Lacks, commandVars
  <2> QED  BY <2>1, <2>2
<1> QED  BY <1>7, <1>8, EffectKeeps

\* The record goes with the mutex: of those that had one the last to come here leaves none
\* behind that could write it back.
LEMMA DeleteKeeps ==
  ASSUME DestroyPart, NEW d \in Deployments, DeleteUniqueIDFromConfig(d)
  PROVE  DestroyPart'
<1>1. pc[d] = "delete" /\ lock = NoOne /\ UNCHANGED <<file, viper, cloud, commandVars>>
  BY DEF DeleteUniqueIDFromConfig, LockIsFree
<1>2. Runs(d)
  BY <1>1 DEF Runs
<1> USE <1>1, <1>2, RunsFacts
<1>3. CASE Fail(d) /\ UNCHANGED lock
  <2>1. Effect(d)
    BY <1>3, ReturnEffect DEF Fail, DestroyPart, Effect, FileTypeOK
  <2>2. Shrinks
    BY <1>3 DEF Fail, Shrinks
  <2> QED  BY <2>1, <2>2, EffectKeeps
<1>4. CASE /\ file # Torn
           /\ Draft(d, [file EXCEPT !.records = @ \ ({d} \cap known)])
           /\ lock' = d
           /\ Goto(d, "truncate")
           /\ UNCHANGED <<attempt, failed>>
  <2> DEFINE c == [file EXCEPT !.records = @ \ ({d} \cap known)]
  <2>1. c \in Contents /\ c.records = file.records \ ({d} \cap known)
    BY <1>4 DEF Contents
  <2>2. Draft(d, c) /\ Deployments \subseteq Writers
    BY <1>4 DEF Writers
  <2> HIDE DEF c
  <2>3. OnlyKnown(c)
    BY <1>4, <2>1 DEF OnlyKnown
  <2>4. /\ draft' \in [Writers -> Contents] /\ draft'[d] = c
        /\ \A x \in Writers \ {d} : draft'[x] = draft[x]
    BY <2>1, <2>2, DraftEffect DEF DestroyPart
  <2>5. pc' \in [Deployments -> Points] /\ pc'[d] = "truncate"
        /\ \A x \in Deployments \ {d} : pc'[x] = pc[x]
    BY <1>4, GotoEffect DEF DestroyPart, Points
  <2>6. lock \notin Deployments /\ lock' = d
    BY <1>4, AttemptsAssumption
  <2>7. Effect(d)
    BY <1>4, <2>2, <2>3, <2>4, <2>5, <2>6 DEF Effect, FileTypeOK
  <2>8. Shrinks
    <3> SUFFICES ASSUME AllOfGCP, known # {}, ~failed', \A x \in Deployments : ~Pending(x)'
                 PROVE  Shrunk'
      BY DEF Shrinks
    <3>1. Lacks(c)
      <4>1. CASE d \in known
        BY <2>1, <4>1 DEF Lacks
      <4>2. CASE d \notin known
        <5>1. ASSUME NEW x \in Deployments PROVE ~Pending(x)
          <6>1. ~Pending(x)' /\ known' = known /\ todo' = todo
            BY DEF commandVars
          <6>2. CASE x = d
            BY <4>2, <6>2 DEF Pending
          <6>3. CASE x # d
            BY <2>5, <2>6, <6>1, <6>3 DEF Pending, Writing
          <6> QED  BY <6>2, <6>3
        <5>2. Shrunk
          BY <1>4, <5>1 DEF Runs, DestroyPart, ShrinkInv
        <5>3. Lacks(file)
          BY <5>2 DEF Shrunk
        <5> QED  BY <2>1, <5>3 DEF Lacks
      <4> QED  BY <4>1, <4>2
    <3> QED  BY <2>4, <2>5, <2>6, <3>1, AttemptsAssumption DEF Shrunk, Lacks, commandVars
  <2> QED  BY <2>7, <2>8, EffectKeeps
<1> QED  BY <1>3, <1>4 DEF DeleteUniqueIDFromConfig

LEMMA ReloadKeeps ==
  ASSUME DestroyPart, NEW d \in Deployments, Reload(d)
  PROVE  DestroyPart'
<1>1. pc[d] = "reload" /\ lock' = NoOne /\ UNCHANGED <<file, cloud, commandVars>>
  BY DEF Reload
<1>2. Runs(d)
  BY <1>1 DEF Runs
<1> USE <1>1, <1>2, RunsFacts
<1>3. lock = d /\ \A x \in Deployments : lock' # x
  BY AttemptsAssumption
<1>4. CASE Fail(d) /\ UNCHANGED viper
  <2>1. Effect(d)
    BY <1>3, <1>4, ReturnEffect DEF Fail, DestroyPart, Effect, FileTypeOK
  <2>2. Shrinks
    BY <1>4 DEF Fail, Shrinks
  <2> QED  BY <2>1, <2>2, EffectKeeps
<1>5. CASE file # Torn /\ viper' = file /\ Return(d) /\ UNCHANGED failed
  <2>1. /\ pc' \in [Deployments -> Points] /\ pc'[d] = "idle"
        /\ \A x \in Deployments \ {d} : pc'[x] = pc[x]
    BY <1>5, ReturnEffect DEF DestroyPart
  <2>2. Effect(d)
    BY <1>3, <1>5, ReturnEffect DEF DestroyPart, Effect, FileTypeOK
  <2>3. Shrinks
    <3> SUFFICES ASSUME AllOfGCP, known # {}, ~failed', \A x \in Deployments : ~Pending(x)'
                 PROVE  Shrunk'
      BY DEF Shrinks
    <3>1. ASSUME NEW x \in Deployments PROVE ~Pending(x)
      <4>1. ~Pending(x)' /\ known' = known /\ todo' = todo
        BY DEF commandVars
      <4>2. CASE x = d
        BY <1>3, <4>1, <4>2 DEF Pending, Writing
      <4>3. CASE x # d
        BY <1>3, <2>1, <4>1, <4>3 DEF Pending, Writing
      <4> QED  BY <4>2, <4>3
    <3>2. file # Torn /\ Lacks(file)
      BY <1>3, <1>5, <3>1 DEF Runs, DestroyPart, ShrinkInv, Shrunk
    <3> QED  BY <1>3, <3>2 DEF Shrunk, Lacks, commandVars
  <2> QED  BY <2>2, <2>3, EffectKeeps
<1> QED  BY <1>4, <1>5 DEF Reload

\* The command takes an entry.
LEMMA LaunchKeeps ==
  ASSUME DestroyPart, NEW e \in Deployments \X Keys, Launch(e)
  PROVE  DestroyPart'
<1> DEFINE d == e[1]
<1>1. /\ phase = "looping" /\ e \in todo /\ pc[d] = "idle" /\ todo' = todo \ {e}
      /\ key' = e[2] /\ Goto(d, "provider") /\ d \in Deployments /\ e[2] \in Keys
      /\ UNCHANGED <<file, viper, draft, cloud, phase, choice, known, attempt, lock, failed>>
  BY DEF Launch, fileVars
<1>2. \A x \in Deployments \ {d} : <<x, "whole">> \in todo <=> <<x, "whole">> \in todo'
  BY <1>1
<1> HIDE DEF d
<1> USE <1>1 DEF DestroyPart
<1>3. /\ pc' \in [Deployments -> Points] /\ pc'[d] = "provider"
      /\ \A x \in Deployments \ {d} : pc'[x] = pc[x]
  BY GotoEffect DEF Points
<1>4. lock # d /\ Provider[d] = choice.provider
  BY DEF GoroutineInv, d
<1>5. FileTypeOK'
  BY DEF FileTypeOK
<1>6. DestroyTypeOK'
  BY <1>3 DEF DestroyTypeOK, Points
<1>7. GoroutineInv'
  BY <1>3, <1>4 DEF GoroutineInv
<1>8. GoneInv'
  <2> SUFFICES ASSUME AllOfGCP, ~failed, NEW x \in DeploymentsOf("gcp"), cloud[x] = "active"
               PROVE  <<x, "whole">> \in todo' \/ pc'[x] \in {"provider", "cloud"}
    BY DEF GoneInv, AllOfGCP
  <2>1. x \in Deployments /\ (<<x, "whole">> \in todo \/ pc[x] \in {"provider", "cloud"})
    BY DEF GoneInv, DeploymentsOf
  <2> QED  BY <1>2, <1>3, <2>1
<1>9. RecordsInv'
  BY <1>3 DEF RecordsInv, OnlyKnown, Writing
<1>10. ShrinkInv'
  <2> SUFFICES ASSUME AllOfGCP, known # {}, ~failed, \A x \in Deployments : ~Pending(x)'
               PROVE  Shrunk'
    BY DEF ShrinkInv, AllOfGCP
  <2>1. ASSUME NEW x \in Deployments PROVE ~Pending(x)
    <3>1. d \notin known
      BY <1>3 DEF Pending
    <3>2. ~Pending(x)'
      OBVIOUS
    <3>3. CASE x = d
      BY <3>1, <3>3 DEF Pending
    <3>4. CASE x # d
      BY <1>2, <1>3, <3>2, <3>4 DEF Pending, Writing
    <3> QED  BY <3>3, <3>4
  <2>2. Shrunk
    BY <2>1 DEF ShrinkInv
  <2> QED  BY <1>3, <1>4, <2>2 DEF Shrunk, Lacks
<1> QED  BY <1>5, <1>6, <1>7, <1>8, <1>9, <1>10

LEMMA EndDestroyKeeps ==
  ASSUME DestroyPart, EndDestroy
  PROVE  DestroyPart' /\ phase # "off"
<1>1. /\ phase = "looping" /\ todo = {} /\ \A d \in Deployments : pc[d] = "idle"
      /\ phase' \in {"ok", "error"}
      /\ failed /\ choice.provider = "gcp" => phase' = "error"
      /\ failed' = FALSE
      /\ UNCHANGED <<file, viper, draft, cloud, choice, known, todo, key, pc, attempt, lock>>
  BY DEF EndDestroy, fileVars
<1> USE <1>1 DEF DestroyPart
<1>2. FileTypeOK' /\ DestroyTypeOK'
  BY DEF FileTypeOK, DestroyTypeOK
<1>3. lock = NoOne
  BY DEF GoroutineInv, DestroyTypeOK
<1>4. GoroutineInv' /\ RecordsInv'
  BY DEF GoroutineInv, RecordsInv
<1>5. GoneInv'
  <2> SUFFICES ASSUME AllOfGCP, NEW d \in DeploymentsOf("gcp"), cloud[d] = "active"
               PROVE  phase' = "error"
    BY DEF GoneInv, AllOfGCP
  <2>1. failed
    BY DEF GoneInv, DeploymentsOf
  <2> QED  BY <2>1 DEF AllOfGCP
<1>6. ShrinkInv'
  <2> SUFFICES ASSUME AllOfGCP, known # {}, phase' = "ok"
               PROVE  file # Torn /\ Lacks(file)
    BY DEF ShrinkInv, AllOfGCP, Lacks
  <2>1. ~failed
    BY DEF AllOfGCP
  <2>2. \A d \in Deployments : ~Pending(d)
    BY DEF Pending, Writing
  <2>3. Shrunk
    BY <2>1, <2>2 DEF ShrinkInv
  <2> QED  BY <1>3, <2>3 DEF Shrunk
<1> QED  BY <1>2, <1>4, <1>5, <1>6

LEMMA KillDestroyKeeps ==
  ASSUME DestroyPart, KillDestroy
  PROVE  DestroyPart' /\ phase # "off"
<1>1. /\ phase = "looping" /\ phase' = "error" /\ todo' = {} /\ lock' = NoOne
      /\ pc' = [d \in Deployments |-> "idle"] /\ failed' = FALSE
      /\ attempt' = [d \in Deployments |-> 1]
      /\ draft' = [w \in Writers |-> Empty]
      /\ UNCHANGED <<file, viper, cloud, choice, known, key>>
  BY DEF KillDestroy
<1> USE <1>1, AttemptsAssumption, EmptyContents DEF DestroyPart
<1>2. FileTypeOK'
  BY DEF FileTypeOK
<1>3. 1 \in 1..Attempts
  OBVIOUS
<1>4. DestroyTypeOK'
  BY <1>3 DEF DestroyTypeOK
<1>5. GoroutineInv' /\ GoneInv' /\ RecordsInv' /\ ShrinkInv'
  BY DEF GoroutineInv, GoneInv, RecordsInv, ShrinkInv
<1> QED  BY <1>2, <1>4, <1>5

\* The command begins with the records the file has: all of them are yet to come.
LEMMA RunDestroyKeeps ==
  ASSUME DestroyPart, phase = "off", NEW c \in Choices, RunDestroy(c)
  PROVE  DestroyPart'
<1> USE DEF DestroyPart
<1>1. PICK entries \in EntriesOf(c.provider, known') :
        \/ /\ c.all /\ c.provider = "gcp"
           /\ todo' = AppendAndaimeDeployments(entries)
        \/ c.all /\ c.provider # "gcp" /\ todo' \in {entries, {}}
        \/ ~c.all /\ todo' \in {{e} : e \in entries} \cup {{}}
  BY DEF RunDestroy
<1>2. /\ phase' \in {"looping", "error"} /\ choice' = c /\ file # Torn /\ viper' = file
      /\ known' = {d \in file.records : Provider[d] = c.provider}
      /\ UNCHANGED <<file, draft, cloud, key, pc, attempt, lock, failed>>
  BY DEF RunDestroy, Found, goroutineVars
<1>3. file \in Contents /\ known' \subseteq Deployments
      /\ \A d \in Deployments : pc[d] = "idle"
  BY <1>2 DEF FileTypeOK, Contents, GoroutineInv
<1>4. FileTypeOK'
  BY <1>2, <1>3 DEF FileTypeOK
<1>5. \A e \in entries : e \in Deployments \X Keys /\ e[1] \in known'
  BY <1>1, <1>3 DEF EntriesOf, Keys
<1>6. \A e \in todo' : e \in Deployments \X Keys /\ Provider[e[1]] = c.provider
  <2>1. \A e \in entries : e \in Deployments \X Keys /\ Provider[e[1]] = c.provider
    BY <1>2, <1>5
  <2>2. CASE c.provider = "gcp" /\ todo' = AppendAndaimeDeployments(entries)
    BY <2>1, <2>2 DEF AppendAndaimeDeployments, DeploymentsOf, Keys
  <2>3. CASE todo' \in {entries, {}}
    BY <2>1, <2>3
  <2>4. CASE todo' \in {{e} : e \in entries} \cup {{}}
    BY <2>1, <2>4
  <2> QED  BY <1>1, <2>2, <2>3, <2>4
<1>7. DestroyTypeOK'
  BY <1>2, <1>3, <1>6 DEF DestroyTypeOK
<1>8. GoroutineInv'
  BY <1>2, <1>3, <1>6 DEF GoroutineInv
<1>9. AllOfGCP' => /\ known' \X {"whole"} \subseteq todo'
                   /\ \A d \in DeploymentsOf("gcp") :
                        cloud[d] = "active" => <<d, "whole">> \in todo'
  <2> SUFFICES ASSUME c.all, c.provider = "gcp"
               PROVE  /\ known' \X {"whole"} \subseteq todo'
                      /\ \A d \in DeploymentsOf("gcp") :
                           cloud[d] = "active" => <<d, "whole">> \in todo'
    BY <1>2 DEF AllOfGCP
  <2>1. todo' = AppendAndaimeDeployments(entries) /\ entries = known' \X {"whole"}
    BY <1>1 DEF EntriesOf
  <2> QED  BY <2>1 DEF AppendAndaimeDeployments
<1>10. GoneInv'
  BY <1>2, <1>9 DEF GoneInv
<1>11. OnlyKnown(file)'
  BY <1>2, <1>3 DEF OnlyKnown, DeploymentsOf
<1>12. RecordsInv'
  BY <1>2, <1>3, <1>11 DEF RecordsInv, OnlyKnown, Writing
<1>13. ShrinkInv'
  <2> SUFFICES ASSUME AllOfGCP', known' # {} PROVE \E d \in Deployments : Pending(d)'
    BY <1>2 DEF ShrinkInv
  <2>1. PICK d \in known' : TRUE
    OBVIOUS
  <2>2. d \in Deployments /\ <<d, "whole">> \in todo'
    BY <1>3, <1>9, <2>1
  <2> QED  BY <2>1, <2>2 DEF Pending
<1> QED  BY <1>4, <1>7, <1>8, <1>10, <1>12, <1>13

LEMMA DestroySteps ==
  ASSUME DestroyPart, DestroyStep \/ KillDestroy
  PROVE  DestroyPart' /\ phase # "off"
<1>1. ASSUME NEW e \in Deployments \X Keys, Launch(e)
      PROVE  DestroyPart' /\ phase # "off"
  BY <1>1, LaunchKeeps DEF Launch
<1>2. ASSUME NEW d \in Deployments, DestroyDeployment(d)
      PROVE  DestroyPart' /\ phase # "off"
  <2>1. pc[d] # "idle"
    BY <1>2 DEF DestroyDeployment, CreateProvider, DestroyProject, ReadConfig, DestroyResources,
                DestroyAWS, TruncateConfig, WriteConfig, DeleteUniqueIDFromConfig, Reload
  <2>2. phase # "off"
    BY <2>1 DEF DestroyPart, GoroutineInv
  <2>3. CASE CreateProvider(d)
    BY <2>2, <2>3, CreateProviderKeeps
  <2>4. CASE DestroyProject(d)
    BY <2>2, <2>4, DestroyProjectKeeps
  <2>5. CASE ReadConfig(d)
    BY <2>2, <2>5, ReadConfigKeeps
  <2>6. CASE DestroyResources(d)
    BY <2>2, <2>6, DestroyResourcesKeeps
  <2>7. CASE DestroyAWS(d)
    BY <2>2, <2>7, DestroyAWSKeeps
  <2>8. CASE TruncateConfig(d)
    BY <2>2, <2>8, TruncateConfigKeeps
  <2>9. CASE WriteConfig(d)
    BY <2>2, <2>9, WriteConfigKeeps
  <2>10. CASE DeleteUniqueIDFromConfig(d)
    BY <2>2, <2>10, DeleteKeeps
  <2>11. CASE Reload(d)
    BY <2>2, <2>11, ReloadKeeps
  <2> QED  BY <1>2, <2>3, <2>4, <2>5, <2>6, <2>7, <2>8, <2>9, <2>10, <2>11 DEF DestroyDeployment
<1> QED  BY <1>1, <1>2, EndDestroyKeeps, KillDestroyKeeps DEF DestroyStep

LEMMA DestroyInvariance ==
  ASSUME IInv, \/ Destroying
               \/ KillDestroy /\ UNCHANGED <<createVars, provisionVars, commands>>
  PROVE  IInv'
<1>1. DestroyPart
  BY DEF IInv, TypeOK, DestroyPart
<1>2. UNCHANGED <<createVars, provisionVars, commands>> /\ (DestroyStep \/ KillDestroy)
  BY DEF Destroying
<1>3. DestroyPart' /\ phase # "off"
  BY <1>1, <1>2, DestroySteps
<1>4. main = "off" /\ step = "off"
  BY <1>3 DEF IInv, OneCommand
<1> QED  BY <1>2, <1>3, <1>4, DestroyFrame DEF IInv, TypeOK, DestroyPart

------------------------------------------------------------------------------
(* The beginning and the end of a command. *)

LEMMA BeginInvariance ==
  ASSUME IInv, \/ \E c \in Choices : BeginDestroy(c)
               \/ \E d \in Deployments : BeginCreate(d)
               \/ \E n \in Nodes : BeginProvision(n)
  PROVE  IInv'
<1>1. /\ phase = "off" /\ main = "off" /\ step = "off" /\ commands' = commands + 1
      /\ commands < MaxCommands
  BY DEF BeginDestroy, BeginCreate, BeginProvision, Ready, Prompt
<1>2. commands' \in 0..MaxCommands
  BY <1>1, MaxCommandsAssumption DEF IInv, TypeOK
<1>3. CASE \E c \in Choices : BeginDestroy(c)
  <2>1. PICK c \in Choices : RunDestroy(c)
    BY <1>3 DEF BeginDestroy
  <2>2. UNCHANGED <<createVars, provisionVars>>
    BY <1>3 DEF BeginDestroy
  <2>3. DestroyPart'
    BY <1>1, <2>1, RunDestroyKeeps DEF IInv, TypeOK, DestroyPart
  <2> QED  BY <1>1, <1>2, <2>2, <2>3, DestroyFrame DEF IInv, TypeOK, DestroyPart
<1>4. CASE \E d \in Deployments : BeginCreate(d)
  <2>1. PICK d \in Deployments : RunCreate(d)
    BY <1>4 DEF BeginCreate
  <2>2. UNCHANGED <<destroyVars, provisionVars>>
    BY <1>4 DEF BeginCreate
  <2>3. CreatePart'
    BY <2>1, RunCreateKeeps DEF IInv, TypeOK, CreatePart
  <2> QED  BY <1>1, <1>2, <2>2, <2>3, CreateFrame DEF IInv, TypeOK, CreatePart
<1>5. CASE \E n \in Nodes : BeginProvision(n)
  <2>1. PICK n \in Nodes : RunProvision(n)
    BY <1>5 DEF BeginProvision
  <2>2. UNCHANGED <<fileVars, cloud, destroyVars, createVars>>
    BY <1>5 DEF BeginProvision
  <2>3. ProvisionTypeOK' /\ MessagesInv'
    <3>1. /\ node' \in Nodes /\ step' \in {"connect", "error"}
          /\ UNCHANGED <<sent, printed, holding, closed>>
      BY <2>1 DEF RunProvision
    <3> QED  BY <1>1, <3>1 DEF IInv, TypeOK, ProvisionTypeOK, ProvisionSteps, MessagesInv,
                               ShownUpdates
  <2>4. /\ FileTypeOK' /\ DestroyTypeOK' /\ CreateTypeOK'
        /\ GoroutineInv' /\ GoneInv' /\ RecordsInv' /\ ShrinkInv'
        /\ CreateInv' /\ LastWriteInv'
    <3> USE <1>1, <2>2 DEF IInv, TypeOK, fileVars, destroyVars, commandVars, goroutineVars,
            createVars, mainVars, displayVars, contextVars
    <3>1. FileTypeOK' /\ DestroyTypeOK' /\ CreateTypeOK'
      BY DEF FileTypeOK, DestroyTypeOK, CreateTypeOK
    <3>2. GoroutineInv' /\ GoneInv' /\ RecordsInv' /\ ShrinkInv'
      BY DEF GoroutineInv, GoneInv, RecordsInv, ShrinkInv
    <3>3. CreateInv' /\ LastWriteInv'
      BY DEF CreateInv, LastWriteInv, NotAwaited
    <3> QED  BY <3>1, <3>2, <3>3
  <2>5. OneCommand'
    BY <1>1, <2>2 DEF OneCommand, destroyVars, commandVars, createVars, mainVars
  <2> QED  BY <1>2, <2>3, <2>4, <2>5 DEF IInv, TypeOK
<1> QED  BY <1>3, <1>4, <1>5

\* A process that ends leaves the file and the clouds, and nothing else.
LEMMA EndInvariance ==
  ASSUME IInv, EndOfProcess
  PROVE  IInv'
<1>1. /\ phase' = "off" /\ choice' = NoChoice /\ known' = {} /\ todo' = {} /\ key' = "whole"
      /\ pc' = [d \in Deployments |-> "idle"] /\ attempt' = [d \in Deployments |-> 1]
      /\ lock' = NoOne /\ failed' = FALSE
  BY DEF EndOfProcess, ForgetDestroy
<1>2. /\ main' = "off" /\ made' = Main /\ worker' = "none"
      /\ saving' = [w \in Savers |-> "no"]
      /\ receiver' = FALSE /\ asked' = FALSE /\ displayErr' = FALSE
      /\ deploymentErr' = FALSE /\ cancelled' = FALSE /\ signalled' = FALSE
  BY DEF EndOfProcess, ForgetCreate
<1>3. /\ node' = NoNode /\ step' = "off" /\ sent' = 0 /\ printed' = 0
      /\ holding' = FALSE /\ closed' = FALSE
  BY DEF EndOfProcess, ForgetProvision
<1>4. viper' = Empty /\ draft' = [w \in Writers |-> Empty] /\ UNCHANGED <<file, cloud, commands>>
  BY DEF EndOfProcess
<1>5. FileTypeOK' /\ commands' \in 0..MaxCommands
  BY <1>4, EmptyContents DEF IInv, TypeOK, FileTypeOK
<1>6. DestroyTypeOK'
  <2>1. NoChoice \in Choices /\ 1 \in 1..Attempts
    BY AttemptsAssumption DEF NoChoice, Choices, Providers
  <2> QED  BY <1>1, <2>1 DEF DestroyTypeOK, Keys
<1>7. CreateTypeOK'
  BY <1>2 DEF CreateTypeOK
<1>8. ProvisionTypeOK'
  <2>1. NoNode \in Nodes
    BY DEF NoNode, Nodes, LineKinds
  <2>2. 0 \in Nat /\ 0 <= 3 + MaxMessages
    BY MaxMessagesAssumption
  <2> QED  BY <1>3, <2>1, <2>2, MessageTypes
<1>9. OneCommand' /\ GoroutineInv'
  BY <1>1, <1>2, <1>3, AttemptsAssumption DEF OneCommand, GoroutineInv
<1>10. GoneInv' /\ RecordsInv' /\ ShrinkInv'
  BY <1>1 DEF GoneInv, RecordsInv, ShrinkInv
<1>11. CreateInv' /\ LastWriteInv'
  BY <1>2, SaversAreWriters DEF CreateInv, LastWriteInv
<1>12. MessagesInv'
  BY <1>3 DEF MessagesInv, ShownUpdates
<1> QED  BY <1>5, <1>6, <1>7, <1>8, <1>9, <1>10, <1>11, <1>12 DEF IInv, TypeOK

LEMMA StutterInvariance ==
  ASSUME IInv, UNCHANGED vars
  PROVE  IInv'
<1> USE DEF vars, fileVars, destroyVars, commandVars, goroutineVars, createVars, mainVars,
            displayVars, contextVars, provisionVars
<1>1. TypeOK'
  BY DEF IInv, TypeOK, FileTypeOK, DestroyTypeOK, CreateTypeOK, ProvisionTypeOK
<1>2. OneCommand' /\ GoroutineInv' /\ GoneInv' /\ RecordsInv'
  BY DEF IInv, OneCommand, GoroutineInv, GoneInv, AllOfGCP, RecordsInv, OnlyKnown, Writing
<1>3. ShrinkInv'
  BY DEF IInv, ShrinkInv, AllOfGCP, Pending, Writing, Shrunk, Lacks
<1>4. CreateInv' /\ LastWriteInv'
  BY DEF IInv, CreateInv, LastWriteInv, NotAwaited
<1>5. MessagesInv'
  BY DEF IInv, MessagesInv, ShownUpdates
<1> QED  BY <1>1, <1>2, <1>3, <1>4, <1>5 DEF IInv

------------------------------------------------------------------------------
(* The theorems. *)

\* The inductive invariant holds in every state that a user's commands reach.
THEOREM Invariance == Spec => []IInv
<1>1. IInv /\ [Next]_vars => IInv'
  BY BeginInvariance, EndInvariance, DestroyInvariance, CreateInvariance, ProvisionInvariance,
     StutterInvariance
     DEF Next, Done
<1> QED  BY InitInv, <1>1, PTL DEF Spec

\* Every variable keeps its type, whatever commands follow each other.
THEOREM CommandsTyping == Spec => []TypeOK
<1>1. IInv => TypeOK
  BY DEF IInv
<1> QED  BY <1>1, Invariance, PTL

\* A create command that returns, but for the two ways in which it does not wait, has waited
\* for its deployment and left the file as viper has it, with the new record.
THEOREM CreateIsWaitedFor == Spec => []CreateLeavesWholeFile
<1>1. IInv => CreateLeavesWholeFile
  BY DEF IInv, CreateInv, LastWriteInv, NotAwaited, CreateLeavesWholeFile
<1> QED  BY <1>1, Invariance, PTL

\* `destroy --all` of GCP reports success only when no labelled project is active.
THEOREM SuccessIsTruthful == Spec => []SuccessMeansAllGone
<1>1. IInv => SuccessMeansAllGone
  BY DEF IInv, TypeOK, FileTypeOK, GoneInv, AllOfGCP, SuccessMeansAllGone, DestroyedAll,
         DeploymentsOf
<1> QED  BY <1>1, Invariance, PTL

\* If it found records it leaves a whole file that lacks one of them, however its goroutines
\* interleave: the mutex orders the last removals, and nobody is left to undo them.
THEOREM SuccessRemovesRecord == Spec => []SuccessShrinksFile
<1>1. IInv => SuccessShrinksFile
  BY DEF IInv, ShrinkInv, AllOfGCP, Lacks, SuccessShrinksFile, DestroyedAll
<1> QED  BY <1>1, Invariance, PTL

\* The printing goroutine is at most one message behind, and has none left at a success.
THEOREM UpdatesAreShown == Spec => []ShownUpdates
<1>1. IInv => ShownUpdates
  BY DEF IInv, MessagesInv
<1> QED  BY <1>1, Invariance, PTL

====
