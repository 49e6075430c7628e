------------------------- MODULE GCPResources_proofs -------------------------
(***************************************************************************)
(* Theorems about GCPResources: types, addresses, records, the answer of   *)
(* createResources, that nothing is left running behind it, and that it    *)
(* implements VMCreation.                                                  *)
(***************************************************************************)
EXTENDS GCPResources, FiniteSetTheorems, TLAPS

------------------------------------------------------------------------------
(* The invariant. *)

\* What CreateAndConfigureVM has done for m, by the point it has reached.
VMState(m) ==
  /\ ip[m] \in {NoAddress} \cup ({m} \X (1..MaxRetries))
  /\ vmAddress[m] \in {NoAddress, ip[m]}
  /\ pc[m] \in {"idle", "find", "reserve", "create"} =>
       vmAddress[m] = NoAddress /\ result[m] = "none"
  /\ pc[m] = "create" => ip[m] # NoAddress
  /\ pc[m] = "configure" => vmAddress[m] # NoAddress /\ result[m] = "none"
  /\ pc[m] \in {"returned", "ended"} => result[m] # "none"
  /\ result[m] = "ok" => vmAddress[m] # NoAddress /\ publicIP[m] = vmAddress[m]
  /\ m \in failed => result[m] = "error"
  /\ m \in recorded => result[m] = "ok" /\ pc[m] = "ended"

VMInv == \A m \in Machines : VMState(m)

\* The goroutines whose result has not been received.
Owing == {m \in Machines \ orchestrators : pc[m] \notin {"idle", "ended"}}

\* Who runs, and what has been received, by the phase of createResources.
MainInv ==
  /\ Cardinality(orchestrators) <= 1
  /\ phase = "begin" => \A m \in Machines : pc[m] = "idle"
  /\ phase = "orchestrator" =>
       /\ orchestrators # {}
       /\ \A m \in Machines \ orchestrators : pc[m] = "idle"
  /\ phase = "collect" =>
       /\ orchestrators # {}
       /\ orchestrators \subseteq recorded
       /\ uncollected = Cardinality(Owing)
       /\ \A m \in machines \ orchestrators :
            pc[m] # "idle" /\ (pc[m] = "ended" => m \in recorded)

\* A machine is given up only when its goroutine has ended.
RunningInv == \A m \in Machines : pc[m] \notin {"idle", "ended"} => m \in machines

IInv == TypeOK /\ VMInv /\ MainInv /\ OkMeansCreated /\ NothingLeftRunning /\ RunningInv

------------------------------------------------------------------------------
(* The steps. *)

\* A step of CreateAndConfigureVM keeps the types and what VMState says of its machine;
\* it touches no other machine and nothing of createResources.
LEMMA VMStep ==
  ASSUME TypeOK, VMInv, NEW m \in Machines, CreateAndConfigureVM(m)
  PROVE  /\ TypeOK' /\ VMInv'
         /\ pc[m] \notin {"idle", "ended"} /\ pc'[m] \notin {"idle", "ended"}
         /\ \A n \in Machines \ {m} : pc'[n] = pc[n]
         /\ UNCHANGED <<machines, orchestrators, recorded, mainVars>>
<1> DEFINE Same(n) == /\ pc'[n] = pc[n] /\ ip'[n] = ip[n] /\ result'[n] = result[n]
                      /\ vmAddress'[n] = vmAddress[n] /\ publicIP'[n] = publicIP[n]
                      /\ (n \in failed' <=> n \in failed)
           Frame == /\ pc[m] \notin {"idle", "ended"}
                    /\ pc'[m] \notin {"idle", "ended"}
                    /\ \A n \in Machines \ {m} : Same(n)
                    /\ UNCHANGED <<machines, orchestrators, recorded, mainVars>>
<1>t. VMState(m)
  BY DEF VMInv
<1>n. <<m, attempt[m]>> \in NewAddresses /\ <<m, attempt[m]>> \in {m} \X (1..MaxRetries)
  BY DEF NewAddresses, TypeOK
<1>a. <<m, attempt[m]>> # NoAddress
  BY <1>n, NamesAssumption DEF Addresses
<1>r. \A n \in Machines : attempt[n] \in Nat
  BY RetriesAssumption DEF TypeOK
<1>1. CASE FindAvailableIP(m)
  <2>1. pc[m] = "find" /\ pc' = [pc EXCEPT ![m] = "reserve"]
    BY <1>1 DEF FindAvailableIP, Found, ListAddressesSucceeds, Goto
  <2>2. /\ UNCHANGED <<machines, orchestrators, failed, recorded, publicIP, phase>>
        /\ UNCHANGED <<uncollected, attempt, ip, result, cancelled, reserved, vmAddress>>
    BY <1>1 DEF FindAvailableIP, Found, ListAddressesSucceeds, deploymentVars, mainVars,
                cloudVars
  <2>3. TypeOK'  BY <2>1, <2>2 DEF TypeOK
  <2>4. Frame /\ VMState(m)'
    BY <2>1, <2>2, <1>t DEF TypeOK, VMState, mainVars
  <2> QED  BY <2>3, <2>4 DEF VMInv, VMState
<1>2. CASE CreateIP(m)
  <2>1. /\ pc[m] = "reserve" /\ pc' = [pc EXCEPT ![m] = "create"]
        /\ reserved' = reserved \cup {<<m, attempt[m]>>}
        /\ ip' = [ip EXCEPT ![m] = <<m, attempt[m]>>]
    BY <1>2 DEF CreateIP, Goto
  <2>2. /\ UNCHANGED <<machines, orchestrators, failed, recorded, publicIP, phase>>
        /\ UNCHANGED <<uncollected, attempt, result, cancelled, vmAddress>>
    BY <1>2 DEF CreateIP, deploymentVars, mainVars
  <2>3. TypeOK'  BY <2>1, <2>2, <1>n DEF TypeOK, Addresses
  <2>4. Frame /\ VMState(m)'
    BY <2>1, <2>2, <1>t, <1>n, <1>a DEF TypeOK, VMState, mainVars
  <2> QED  BY <2>3, <2>4 DEF VMInv, VMState
<1>3. CASE CreateIPFails(m)
  <2>1. /\ pc[m] = "reserve"
        /\ reserved' \in {reserved, reserved \cup {<<m, attempt[m]>>}}
        /\ \/ /\ pc' = [pc EXCEPT ![m] = "returned"]
              /\ result' = [result EXCEPT ![m] = "error"]
              /\ UNCHANGED attempt
           \/ /\ attempt[m] # MaxRetries
              /\ attempt' = [attempt EXCEPT ![m] = @ + 1]
              /\ pc' = [pc EXCEPT ![m] = "find"]
              /\ UNCHANGED result
    BY <1>3 DEF CreateIPFails, Goto, Returns
  <2>2. /\ UNCHANGED <<machines, orchestrators, failed, recorded, publicIP, phase>>
        /\ UNCHANGED <<uncollected, ip, cancelled, vmAddress>>
    BY <1>3 DEF CreateIPFails, deploymentVars, mainVars
  <2>3. attempt' \in [Machines -> 1..MaxRetries]
    BY <2>1, <1>r, RetriesAssumption DEF TypeOK
  <2>4. TypeOK'  BY <2>1, <2>2, <2>3, <1>n DEF TypeOK, Addresses
  <2>5. Frame /\ VMState(m)'
    BY <2>1, <2>2, <1>t DEF TypeOK, VMState, mainVars
  <2> QED  BY <2>4, <2>5 DEF VMInv, VMState
<1>4. CASE CreateVM(m)
  <2>1. /\ pc[m] = "create" /\ pc' = [pc EXCEPT ![m] = "configure"]
        /\ vmAddress' = [vmAddress EXCEPT ![m] = ip[m]]
    BY <1>4 DEF CreateVM, Goto
  <2>2. /\ UNCHANGED <<machines, orchestrators, failed, recorded, publicIP, phase>>
        /\ UNCHANGED <<uncollected, attempt, ip, result, cancelled, reserved>>
    BY <1>4 DEF CreateVM, deploymentVars, mainVars
  <2>3. TypeOK'  BY <2>1, <2>2 DEF TypeOK
  <2>4. Frame /\ VMState(m)'
    BY <2>1, <2>2, <1>t DEF TypeOK, VMState, mainVars
  <2> QED  BY <2>3, <2>4 DEF VMInv, VMState
<1>5. CASE CreateVMFails(m)
  <2>1. /\ pc[m] = "create" /\ pc' = [pc EXCEPT ![m] = "returned"]
        /\ result' = [result EXCEPT ![m] = "error"]
        /\ \/ UNCHANGED vmAddress
           \/ vmAddress' = [vmAddress EXCEPT ![m] = ip[m]]
        /\ reserved' \subseteq reserved
    BY <1>5 DEF CreateVMFails, Returns, Goto
  <2>2. /\ UNCHANGED <<machines, orchestrators, failed, recorded, publicIP, phase>>
        /\ UNCHANGED <<uncollected, attempt, ip, cancelled>>
    BY <1>5 DEF CreateVMFails, deploymentVars, mainVars
  <2>3. TypeOK'  BY <2>1, <2>2 DEF TypeOK
  <2>4. Frame /\ VMState(m)'
    BY <2>1, <2>2, <1>t DEF TypeOK, VMState, mainVars
  <2> QED  BY <2>3, <2>4 DEF VMInv, VMState
<1>6. CASE ConfigureVM(m)
  <2>1. /\ pc[m] = "configure" /\ pc' = [pc EXCEPT ![m] = "returned"]
        /\ \/ /\ publicIP' = [publicIP EXCEPT ![m] = vmAddress[m]]
              /\ result' = [result EXCEPT ![m] = "ok"]
              /\ UNCHANGED failed
           \/ /\ failed' = failed \cup {m}
              /\ result' = [result EXCEPT ![m] = "error"]
              /\ UNCHANGED publicIP
    BY <1>6 DEF ConfigureVM, Returns, Goto
  <2>2. /\ UNCHANGED <<machines, orchestrators, recorded, phase, uncollected>>
        /\ UNCHANGED <<attempt, ip, cancelled, reserved, vmAddress>>
    BY <1>6 DEF ConfigureVM, mainVars, cloudVars
  <2>3. TypeOK'  BY <2>1, <2>2 DEF TypeOK
  <2>4. Frame /\ VMState(m)'
    BY <2>1, <2>2, <1>t DEF TypeOK, VMState, mainVars
  <2> QED  BY <2>3, <2>4 DEF VMInv, VMState
<1> QED
  BY <1>1, <1>2, <1>3, <1>4, <1>5, <1>6 DEF CreateAndConfigureVM

\* One orchestrator at most: those there are, are one set of one machine.
LEMMA SingleOrchestrator ==
  ASSUME TypeOK, MainInv, NEW o \in orchestrators
  PROVE  orchestrators = {o} /\ Cardinality(orchestrators) = 1
<1>1. IsFiniteSet(orchestrators) /\ Cardinality(orchestrators) <= 1
  BY NamesAssumption, FS_Subset DEF TypeOK, MainInv
<1>2. Cardinality(orchestrators) \in Nat /\ Cardinality(orchestrators) # 0
  BY <1>1, FS_CardinalityType, FS_EmptySet
<1>3. Cardinality(orchestrators) = 1
  BY <1>1, <1>2
<1>4. PICK x : orchestrators = {x}
  BY <1>1, <1>3, FS_Singleton
<1> QED
  BY <1>3, <1>4

\* A step of createResources keeps the types and what VMState says of every machine: it
\* records only machines whose result it has received, and received as ok.
LEMMA MainStepTypes ==
  ASSUME IInv, CreateResources
  PROVE  TypeOK' /\ VMInv'
<1> USE DEF IInv
<1>1. CASE FindOrchestrator
  <2>1. /\ \A m \in Machines : pc[m] = "idle"
        /\ pc' \in [Machines -> {"idle", "find"}]
        /\ phase' \in {"error", "orchestrator"}
    BY <1>1 DEF FindOrchestrator, MainInv, TypeOK
  <2>2. /\ UNCHANGED <<machines, orchestrators, failed, recorded, publicIP, attempt>>
        /\ UNCHANGED <<uncollected, ip, result, cancelled, reserved, vmAddress>>
    BY <1>1 DEF FindOrchestrator, deploymentVars, cloudVars
  <2>3. TypeOK'  BY <2>1, <2>2 DEF TypeOK
  <2>4. VMInv'  BY <2>1, <2>2 DEF VMInv, VMState, TypeOK
  <2> QED  BY <2>3, <2>4
<1>2. ASSUME NEW o \in Machines, LaunchWorkers(o)
      PROVE  TypeOK' /\ VMInv'
  <2>1. /\ o \in orchestrators /\ pc[o] = "returned" /\ orchestrators = {o}
        /\ \A m \in Machines \ {o} : pc[m] = "idle"
    BY <1>2, SingleOrchestrator DEF LaunchWorkers, MainInv
  <2>2. /\ UNCHANGED <<machines, orchestrators, failed, publicIP, attempt>>
        /\ UNCHANGED <<ip, result, cancelled, reserved, vmAddress>>
    BY <1>2 DEF LaunchWorkers, cloudVars
  <2>3. VMState(o) /\ result[o] \in {"ok", "error"} /\ o \in machines
    BY <2>1 DEF VMInv, VMState, TypeOK
  <2>4. CASE result[o] = "error"
    <3>1. /\ phase' = "error" /\ pc' = [pc EXCEPT ![o] = "ended"]
          /\ UNCHANGED <<recorded, uncollected>>
      BY <1>2, <2>4 DEF LaunchWorkers
    <3>2. TypeOK'  BY <2>2, <3>1 DEF TypeOK
    <3>3. VMInv'  BY <2>1, <2>2, <3>1 DEF VMInv, VMState, TypeOK
    <3> QED  BY <3>2, <3>3
  <2>5. CASE result[o] = "ok"
    <3> DEFINE workers == GetMachines \ orchestrators
    <3>1. /\ phase' = "collect" /\ recorded' = recorded \cup ({o} \cap GetMachines)
          /\ uncollected' = Cardinality(workers)
          /\ pc' = [m \in Machines |-> IF m \in workers THEN "find"
                                       ELSE IF m = o THEN "ended" ELSE pc[m]]
      BY <1>2, <2>5 DEF LaunchWorkers, UpdateMachineConfig
    <3>2. IsFiniteSet(Machines) /\ workers \subseteq Machines
      BY NamesAssumption DEF TypeOK, GetMachines
    <3>3. uncollected' \in 0..Cardinality(Machines)
      BY <3>1, <3>2, FS_Subset, FS_CardinalityType
    <3>4. TypeOK'  BY <2>2, <3>1, <3>3 DEF TypeOK, GetMachines
    <3>5. \A m \in Machines : pc'[m] \in {"find", "idle", "ended"} /\ (pc'[m] = "ended" <=> m = o)
      BY <2>1, <3>1
    <3>6. \A m \in Machines : m \in recorded' => m = o
      BY <2>1, <3>1 DEF VMInv, VMState
    <3>7. VMInv'  BY <2>1, <2>2, <2>3, <2>5, <3>5, <3>6 DEF VMInv, VMState
    <3> QED  BY <3>4, <3>7
  <2> QED  BY <2>3, <2>4, <2>5
<1>3. ASSUME NEW m \in Machines, CollectResult(m)
      PROVE  TypeOK' /\ VMInv'
  <2>1. /\ m \notin orchestrators /\ pc[m] = "returned"
        /\ pc' = [pc EXCEPT ![m] = "ended"]
        /\ uncollected > 0 /\ uncollected' = uncollected - 1
        /\ phase' \in {"collect", "exited"}
        /\ \/ machines' = machines \ {m} /\ UNCHANGED recorded
           \/ /\ result[m] = "ok" /\ recorded' \subseteq recorded \cup {m}
              /\ UNCHANGED machines
    BY <1>3 DEF CollectResult, Goto, UpdateMachineConfig
  <2>2. /\ UNCHANGED <<orchestrators, failed, publicIP, attempt>>
        /\ UNCHANGED <<ip, result, cancelled, reserved, vmAddress>>
    BY <1>3 DEF CollectResult, cloudVars
  <2>3. uncollected' \in 0..Cardinality(Machines)
    <3>1. Cardinality(Machines) \in Nat
      BY NamesAssumption, FS_CardinalityType
    <3> QED  BY <2>1, <3>1 DEF TypeOK
  <2>4. TypeOK'  BY <2>1, <2>2, <2>3 DEF TypeOK
  <2>5. VMInv'  BY <2>1, <2>2 DEF VMInv, VMState, TypeOK
  <2> QED  BY <2>4, <2>5
<1>4. CASE CheckWorkers
  <2>1. /\ phase' \in {"ok", "error"}
        /\ UNCHANGED <<machines, orchestrators, failed, recorded, publicIP, attempt>>
        /\ UNCHANGED <<uncollected, pc, ip, result, cancelled, reserved, vmAddress>>
    BY <1>4 DEF CheckWorkers, deploymentVars, vmVars, cloudVars
  <2>2. TypeOK'  BY <2>1 DEF TypeOK
  <2>3. VMInv'  BY <2>1 DEF VMInv, VMState
  <2> QED  BY <2>2, <2>3
<1> QED
  BY <1>1, <1>2, <1>3, <1>4 DEF CreateResources

\* A step of createResources keeps the count: the goroutines it starts are those it will
\* wait for, a result received is one less owing, and when none is owing every machine
\* still in the deployment is recorded.
LEMMA MainStep ==
  ASSUME IInv, CreateResources
  PROVE  MainInv' /\ OkMeansCreated' /\ NothingLeftRunning'
<1> USE DEF IInv
<1>0. Cardinality(orchestrators)' <= 1
  BY DEF CreateResources, FindOrchestrator, LaunchWorkers, CollectResult, CheckWorkers,
         deploymentVars, MainInv
<1>f. /\ IsFiniteSet(Machines) /\ IsFiniteSet(Owing) /\ IsFiniteSet(GetMachines)
      /\ Cardinality(Owing) \in Nat
  <2>1. Owing \subseteq Machines /\ GetMachines \subseteq Machines
    BY DEF Owing, GetMachines, TypeOK
  <2> QED  BY <2>1, NamesAssumption, FS_Subset, FS_CardinalityType
<1>1. CASE FindOrchestrator
  <2>1. /\ \A m \in Machines : pc[m] = "idle"
        /\ UNCHANGED orchestrators
        /\ \/ phase' = "error" /\ UNCHANGED pc
           \/ /\ phase' = "orchestrator" /\ orchestrators # {}
              /\ pc' = [m \in Machines |-> IF m \in orchestrators THEN "find" ELSE "idle"]
    BY <1>1 DEF FindOrchestrator, MainInv, deploymentVars
  <2> QED  BY <2>1, <1>0 DEF MainInv, OkMeansCreated, NothingLeftRunning
<1>2. ASSUME NEW o \in Machines, LaunchWorkers(o)
      PROVE  MainInv' /\ OkMeansCreated' /\ NothingLeftRunning'
  <2>1. /\ orchestrators = {o} /\ pc[o] = "returned" /\ o \in machines
        /\ \A m \in Machines \ {o} : pc[m] = "idle" /\ result[m] = "none"
        /\ \A m \in failed : result[m] = "error"
    <3>1. o \in orchestrators /\ pc[o] = "returned" /\ phase = "orchestrator"
      BY <1>2 DEF LaunchWorkers
    <3>2. orchestrators = {o}
      BY <3>1, SingleOrchestrator
    <3> QED  BY <3>1, <3>2 DEF MainInv, VMInv, VMState, TypeOK
  <2>2. UNCHANGED <<machines, orchestrators, failed>>
    BY <1>2 DEF LaunchWorkers
  <2>3. CASE result[o] = "error"
    <3>1. phase' = "error" /\ pc' = [pc EXCEPT ![o] = "ended"]
      BY <1>2, <2>3 DEF LaunchWorkers
    <3> QED  BY <2>1, <3>1, <1>0 DEF MainInv, OkMeansCreated, NothingLeftRunning, TypeOK
  <2>4. CASE result[o] # "error"
    <3> DEFINE workers == GetMachines \ orchestrators
    <3>1. /\ phase' = "collect" /\ recorded' = recorded \cup ({o} \cap GetMachines)
          /\ uncollected' = Cardinality(workers)
          /\ pc' = [m \in Machines |-> IF m \in workers THEN "find"
                                       ELSE IF m = o THEN "ended" ELSE pc[m]]
      BY <1>2, <2>4 DEF LaunchWorkers, UpdateMachineConfig
    <3>2. workers = machines \ orchestrators /\ o \in GetMachines
      BY <2>1, <2>4 DEF GetMachines, TypeOK
    <3>3. Owing' = workers
      BY <2>1, <2>2, <3>1, <3>2 DEF Owing, TypeOK
    <3>4. \A m \in machines \ orchestrators : pc'[m] = "find"
      BY <3>1, <3>2 DEF TypeOK
    <3> QED
      BY <2>1, <2>2, <3>1, <3>2, <3>3, <3>4, <1>0
      DEF MainInv, OkMeansCreated, NothingLeftRunning
  <2> QED  BY <2>3, <2>4
<1>3. ASSUME NEW m \in Machines, CollectResult(m)
      PROVE  MainInv' /\ OkMeansCreated' /\ NothingLeftRunning'
  <2>1. /\ phase = "collect" /\ m \notin orchestrators /\ pc[m] = "returned"
        /\ pc' = [pc EXCEPT ![m] = "ended"] /\ uncollected' = uncollected - 1
        /\ UNCHANGED <<orchestrators, failed>>
        /\ phase' \in {"collect", "exited"}
        /\ \/ machines' = machines \ {m} /\ UNCHANGED recorded
           \/ /\ result[m] = "ok" /\ UNCHANGED machines
              /\ recorded' = recorded \cup ({m} \cap GetMachines)
    BY <1>3 DEF CollectResult, Goto, UpdateMachineConfig
  <2>2. m \in Owing /\ Owing' = Owing \ {m}
    BY <2>1 DEF Owing, TypeOK
  <2>3. uncollected' = Cardinality(Owing')
    BY <2>1, <2>2, <1>f, FS_RemoveElement DEF MainInv
  <2>4. \A n \in machines' \ orchestrators :
          pc'[n] # "idle" /\ (pc'[n] = "ended" => n \in recorded')
    <3>1. m \in failed => result[m] = "error"
      BY DEF VMInv, VMState
    <3> QED  BY <2>1, <3>1 DEF MainInv, GetMachines, TypeOK
  <2>5. orchestrators # {} /\ orchestrators \subseteq recorded'
    BY <2>1 DEF MainInv
  <2> QED
    BY <2>1, <2>3, <2>4, <2>5, <1>0 DEF MainInv, OkMeansCreated, NothingLeftRunning
<1>4. CASE CheckWorkers
  <2>1. /\ phase = "collect" /\ uncollected = 0 /\ phase' \in {"ok", "error"}
        /\ phase' = "ok" => ~(Cardinality(GetMachines) < 2)
        /\ UNCHANGED <<machines, orchestrators, failed, recorded, pc>>
    BY <1>4 DEF CheckWorkers, deploymentVars, vmVars
  <2>2. Owing = {}
    BY <2>1, <1>f, FS_EmptySet DEF MainInv
  <2>3. PICK o : o \in orchestrators
    BY <2>1 DEF MainInv
  <2>4. orchestrators = {o} /\ Cardinality(orchestrators) = 1
    BY <2>3, SingleOrchestrator
  <2>5. o \in recorded /\ o \in GetMachines /\ pc[o] = "ended"
    BY <2>1, <2>3, <2>4 DEF MainInv, VMInv, VMState, TypeOK, GetMachines
  <2>6. NothingLeftRunning'
    BY <2>1, <2>2, <2>4, <2>5 DEF Owing, NothingLeftRunning
  <2>7. GetMachines \subseteq recorded
    BY <2>1, <2>2, <2>4, <2>5 DEF Owing, MainInv, GetMachines, TypeOK
  <2>8. phase' = "ok" => GetMachines \ orchestrators # {}
    <3>1. SUFFICES ASSUME phase' = "ok", GetMachines \ orchestrators = {}
                   PROVE  FALSE
      OBVIOUS
    <3>2. GetMachines = {o}
      BY <3>1, <2>4, <2>5
    <3>3. Cardinality(GetMachines) = 1
      BY <3>2, FS_Singleton
    <3> QED  BY <2>1, <3>1, <3>3
  <2>9. GetMachines \cap orchestrators = orchestrators
    BY <2>4, <2>5
  <2>10. OkMeansCreated'
    BY <2>1, <2>4, <2>7, <2>8, <2>9 DEF OkMeansCreated, GetMachines
  <2> QED  BY <2>1, <2>6, <2>10, <1>0 DEF MainInv
<1> QED
  BY <1>1, <1>2, <1>3, <1>4 DEF CreateResources

\* A step of CreateAndConfigureVM belongs to a goroutine that is running, so it happens
\* only while createResources waits for it, and leaves it running.
LEMMA VMStepLeavesMain ==
  ASSUME IInv, NEW m \in Machines, CreateAndConfigureVM(m)
  PROVE  MainInv' /\ OkMeansCreated' /\ NothingLeftRunning'
<1> USE DEF IInv
<1>1. /\ pc[m] \notin {"idle", "ended"} /\ pc'[m] \notin {"idle", "ended"}
      /\ \A n \in Machines \ {m} : pc'[n] = pc[n]
      /\ UNCHANGED <<machines, orchestrators, recorded, phase, uncollected>>
  BY VMStep DEF mainVars
<1>2. phase \notin {"begin", "ok", "error"}
  BY <1>1 DEF MainInv, NothingLeftRunning
<1>3. Owing' = Owing
  BY <1>1 DEF Owing
<1>4. phase = "orchestrator" => m \in orchestrators
  BY <1>1 DEF MainInv
<1>5. MainInv'
  BY <1>1, <1>2, <1>3, <1>4 DEF MainInv, TypeOK
<1> QED
  BY <1>1, <1>2, <1>5 DEF OkMeansCreated, NothingLeftRunning

\* createResources starts goroutines for machines of the deployment, and gives up a machine
\* together with the goroutine it belongs to.
LEMMA MainStepRunning ==
  ASSUME IInv, CreateResources
  PROVE  RunningInv'
<1> USE DEF IInv
<1>1. CASE FindOrchestrator
  BY <1>1 DEF FindOrchestrator, deploymentVars, RunningInv, TypeOK
<1>2. ASSUME NEW o \in Machines, LaunchWorkers(o)
      PROVE  RunningInv'
  <2>1. UNCHANGED machines /\ pc[o] = "returned"
    BY <1>2 DEF LaunchWorkers
  <2>2. \A m \in Machines : m \in machines \/ pc'[m] \in {"ended", pc[m]}
    <3>1. \/ pc' = [pc EXCEPT ![o] = "ended"]
          \/ pc' = [m \in Machines |-> IF m \in GetMachines \ orchestrators THEN "find"
                                        ELSE IF m = o THEN "ended" ELSE pc[m]]
      BY <1>2 DEF LaunchWorkers
    <3> QED  BY <3>1 DEF GetMachines, TypeOK
  <2> QED  BY <2>1, <2>2 DEF RunningInv
<1>3. ASSUME NEW m \in Machines, CollectResult(m)
      PROVE  RunningInv'
  <2>1. pc' = [pc EXCEPT ![m] = "ended"] /\ machines \ {m} \subseteq machines'
    BY <1>3 DEF CollectResult, Goto
  <2> QED  BY <2>1 DEF RunningInv, TypeOK
<1>4. CASE CheckWorkers
  BY <1>4 DEF CheckWorkers, deploymentVars, vmVars, RunningInv
<1> QED
  BY <1>1, <1>2, <1>3, <1>4 DEF CreateResources

\* The invariant holds in every reachable state.
LEMMA Invariance == Spec => []IInv
<1>1. Init => IInv
  <2> SUFFICES ASSUME Init
               PROVE  IInv
    OBVIOUS
  <2>1. Cardinality(Machines) \in Nat
    BY NamesAssumption, FS_CardinalityType
  <2>2. TypeOK
    <3>1. machines \in SUBSET Machines /\ orchestrators \in SUBSET machines
      BY DEF Init
    <3>2. uncollected \in 0..Cardinality(Machines) /\ attempt \in [Machines -> 1..MaxRetries]
      BY <2>1, RetriesAssumption DEF Init
    <3>3. reserved \in SUBSET Addresses
      BY DEF Init, Addresses
    <3> QED  BY <3>1, <3>2, <3>3 DEF Init, TypeOK
  <2>3. VMInv
    BY DEF Init, VMInv, VMState
  <2>4. MainInv
    BY DEF Init, MainInv
  <2> QED  BY <2>2, <2>3, <2>4 DEF IInv, Init, OkMeansCreated, NothingLeftRunning, RunningInv
<1>2. IInv /\ [Next]_vars => IInv'
  <2> SUFFICES ASSUME IInv, [Next]_vars
               PROVE  IInv'
    OBVIOUS
  <2>1. ASSUME NEW m \in Machines, CreateAndConfigureVM(m)
        PROVE  IInv'
    <3>1. RunningInv'
      BY <2>1, VMStep DEF IInv, RunningInv, TypeOK
    <3> QED  BY <2>1, <3>1, VMStep, VMStepLeavesMain DEF IInv
  <2>2. CASE CreateResources
    BY <2>2, MainStepTypes, MainStep, MainStepRunning DEF IInv
  <2>3. CASE Cancel
    <3>1. /\ UNCHANGED <<machines, orchestrators, failed, recorded, publicIP, phase>>
          /\ UNCHANGED <<uncollected, pc, attempt, ip, result, reserved, vmAddress>>
          /\ cancelled' \in BOOLEAN
      BY <2>3 DEF Cancel, deploymentVars, mainVars, vmVars, cloudVars
    <3> QED
      BY <3>1 DEF IInv, TypeOK, VMInv, VMState, MainInv, Owing, OkMeansCreated,
                  NothingLeftRunning, RunningInv, GetMachines
  <2>4. CASE Exit
    <3>1. /\ UNCHANGED <<machines, orchestrators, failed, recorded, publicIP, cancelled>>
          /\ UNCHANGED <<uncollected, pc, attempt, ip, result, reserved, vmAddress>>
          /\ phase' = "exited"
      BY <2>4 DEF Exit, deploymentVars, vmVars, cloudVars
    <3>2. TypeOK'
      BY <3>1 DEF IInv, TypeOK
    <3> QED
      BY <3>1, <3>2 DEF IInv, VMInv, VMState, MainInv, OkMeansCreated, NothingLeftRunning,
                        RunningInv
  <2>5. CASE UNCHANGED vars
    <3>1. /\ UNCHANGED <<machines, orchestrators, failed, recorded, publicIP, phase>>
          /\ UNCHANGED <<uncollected, pc, attempt, ip, result, reserved, vmAddress>>
          /\ UNCHANGED cancelled
      BY <2>5 DEF vars, deploymentVars, mainVars, vmVars, cloudVars
    <3> QED
      BY <3>1 DEF IInv, TypeOK, VMInv, VMState, MainInv, Owing, OkMeansCreated,
                  NothingLeftRunning, RunningInv, GetMachines
  <2> QED
    BY <2>1, <2>2, <2>3, <2>4, <2>5 DEF Next
<1> QED
  BY <1>1, <1>2, PTL DEF Spec

------------------------------------------------------------------------------
(* The theorems. *)

\* Every variable of createResources has its type; the count of results never leaves
\* 0..Cardinality(Machines).
THEOREM GCPTyping == Spec => []TypeOK
<1>1. IInv => TypeOK
  BY DEF IInv
<1> QED
  BY <1>1, Invariance, PTL

\* However many goroutines allocate addresses and however their calls fail, no address
\* is meant for two VMs.
THEOREM AddressesNotShared == Spec => []AddressNotShared
<1>1. IInv => AddressNotShared
  <2> SUFFICES ASSUME IInv, NEW m \in Machines, NEW n \in Machines, m # n
               PROVE  Claims(m) \cap Claims(n) = {}
    BY DEF AddressNotShared
  <2>1. ASSUME NEW k \in Machines
        PROVE  Claims(k) \subseteq {k} \X (1..MaxRetries)
    BY DEF IInv, VMInv, VMState, Claims
  <2> QED  BY <2>1
<1> QED
  BY <1>1, Invariance, PTL

\* A machine in the configuration file has a VM, and is written with that VM's address.
THEOREM RecordsAreTrue == Spec => []RecordedHaveVMs
<1>1. IInv => RecordedHaveVMs
  BY DEF IInv, TypeOK, VMInv, VMState, RecordedHaveVMs
<1> QED
  BY <1>1, Invariance, PTL

\* createResources returns nil only when one orchestrator and at least one worker are
\* left, all of them recorded.
THEOREM GCPOkIsTruthful == Spec => []OkMeansCreated
<1>1. IInv => OkMeansCreated
  BY DEF IInv
<1> QED
  BY <1>1, Invariance, PTL

\* createResources leaves no goroutine behind, running or blocked in its send.
THEOREM NoGoroutineLeft == Spec => []NothingLeftRunning
<1>1. IInv => NothingLeftRunning
  BY DEF IInv
<1> QED
  BY <1>1, Invariance, PTL

------------------------------------------------------------------------------
(* Refinement. *)

\* What VMCreation sees of a step that leaves the VMs and the results alone.
LEMMA SameVMs ==
  ASSUME UNCHANGED <<vmAddress, result>>
  PROVE  UNCHANGED <<VMs, Made>>
<1> QED
  BY DEF VMs, Made

\* A machine a goroutine of which runs is due, and no answer has been given.
LEMMA RunningIsDue ==
  ASSUME IInv, phase # "exited", NEW m \in Machines, pc[m] \notin {"idle", "ended"}
  PROVE  m \in Creation!Due /\ m \in machines /\ Outcome = "pending"
<1> USE DEF IInv
<1>1. phase \in {"orchestrator", "collect"}
  BY DEF TypeOK, MainInv, NothingLeftRunning
<1>2. m \in machines
  BY DEF RunningInv
<1>3. m \in orchestrators \/ (orchestrators # {} /\ orchestrators \subseteq recorded)
  BY <1>1 DEF MainInv
<1> QED
  BY <1>1, <1>2, <1>3 DEF Creation!Due, Outcome

\* A step of CreateAndConfigureVM makes the VM, learns that it is made, fails, or is none
\* of VMCreation's.
LEMMA VMStepRefines ==
  ASSUME IInv, phase # "exited", NEW m \in Machines, CreateAndConfigureVM(m)
  PROVE  [Creation!Next]_(Creation!vars)
<1>1. /\ m \in Creation!Due /\ Outcome = "pending"
      /\ UNCHANGED <<machines, orchestrators, recorded, Outcome>>
  <2>1. pc[m] \notin {"idle", "ended"} /\ UNCHANGED <<machines, orchestrators, recorded, phase>>
    BY VMStep DEF IInv, mainVars
  <2> QED  BY <2>1, RunningIsDue DEF Outcome
<1>2. VMState(m) /\ TypeOK
  BY DEF IInv, VMInv
<1>3. ASSUME result[m] = "none", result' = [result EXCEPT ![m] = "error"],
             \/ UNCHANGED vmAddress
             \/ ip[m] # NoAddress /\ vmAddress' = [vmAddress EXCEPT ![m] = ip[m]]
      PROVE  Creation!Refuse(m)
  <2>1. Made[m] = "pending" /\ Made' = [Made EXCEPT ![m] = "error"]
    BY <1>2, <1>3 DEF Made, TypeOK
  <2>2. VMs' \in {VMs, VMs \cup {m}}
    BY <1>2, <1>3 DEF VMs, TypeOK
  <2> QED  BY <1>1, <2>1, <2>2 DEF Creation!Refuse
<1>4. CASE FindAvailableIP(m) \/ CreateIP(m)
  <2>1. UNCHANGED <<vmAddress, result>>
    BY <1>4 DEF FindAvailableIP, CreateIP, cloudVars
  <2> QED  BY <1>1, <2>1, SameVMs DEF Creation!vars
<1>5. CASE CreateIPFails(m)
  <2>1. /\ pc[m] = "reserve" /\ UNCHANGED vmAddress
        /\ UNCHANGED result \/ result' = [result EXCEPT ![m] = "error"]
    BY <1>5 DEF CreateIPFails, Returns
  <2>2. CASE UNCHANGED result
    BY <1>1, <2>1, <2>2, SameVMs DEF Creation!vars
  <2>3. CASE result' = [result EXCEPT ![m] = "error"]
    BY <1>2, <1>3, <2>1, <2>3 DEF VMState, Creation!Next
  <2> QED  BY <2>1, <2>2, <2>3
<1>6. CASE CreateVM(m)
  <2>1. /\ pc[m] = "create" /\ vmAddress' = [vmAddress EXCEPT ![m] = ip[m]]
        /\ UNCHANGED result
    BY <1>6 DEF CreateVM
  <2>2. ip[m] # NoAddress /\ vmAddress[m] = NoAddress /\ result[m] = "none"
    BY <1>2, <2>1 DEF VMState
  <2>3. m \notin VMs /\ VMs' = VMs \cup {m}
    BY <1>2, <2>1, <2>2 DEF VMs, TypeOK
  <2>4. Made[m] = "pending" /\ UNCHANGED Made
    BY <2>1, <2>2 DEF Made
  <2> QED  BY <1>1, <2>3, <2>4 DEF Creation!MakeVM, Creation!Next
<1>7. CASE CreateVMFails(m)
  <2>1. /\ pc[m] = "create" /\ result' = [result EXCEPT ![m] = "error"]
        /\ \/ UNCHANGED vmAddress
           \/ vmAddress' = [vmAddress EXCEPT ![m] = ip[m]]
    BY <1>7 DEF CreateVMFails, Returns
  <2> QED  BY <1>2, <1>3, <2>1 DEF VMState, Creation!Next
<1>8. CASE ConfigureVM(m)
  <2>1. /\ pc[m] = "configure" /\ UNCHANGED vmAddress
        /\ result' \in {[result EXCEPT ![m] = "ok"], [result EXCEPT ![m] = "error"]}
    BY <1>8 DEF ConfigureVM, Returns, cloudVars
  <2>2. vmAddress[m] # NoAddress /\ result[m] = "none"
    BY <1>2, <2>1 DEF VMState
  <2>3. CASE result' = [result EXCEPT ![m] = "ok"]
    <3>1. m \in VMs /\ UNCHANGED VMs
      BY <2>1, <2>2 DEF VMs
    <3>2. Made[m] = "pending" /\ Made' = [Made EXCEPT ![m] = "ok"]
      BY <1>2, <2>2, <2>3 DEF Made, TypeOK
    <3> QED  BY <1>1, <3>1, <3>2 DEF Creation!Confirm, Creation!Next
  <2>4. CASE result' = [result EXCEPT ![m] = "error"]
    BY <1>3, <2>1, <2>2, <2>4 DEF Creation!Next
  <2> QED  BY <2>1, <2>3, <2>4
<1> QED
  BY <1>4, <1>5, <1>6, <1>7, <1>8 DEF CreateAndConfigureVM

\* When createResources has every result, what it counts is what VMCreation asks for: whether
\* a follower is left.
LEMMA FewerThanTwo ==
  ASSUME IInv, NEW o, orchestrators = {o}, o \in recorded, machines \subseteq recorded
  PROVE  Cardinality(GetMachines) < 2 <=> machines \ orchestrators = {}
<1> USE DEF IInv
<1>1. GetMachines = machines /\ o \in machines
  BY DEF GetMachines, VMInv, VMState, TypeOK
<1>2. IsFiniteSet(machines) /\ Cardinality(machines) \in Nat
  BY NamesAssumption, FS_Subset, FS_CardinalityType DEF TypeOK
<1>3. ASSUME machines \ orchestrators = {}
      PROVE  Cardinality(machines) = 1
  <2>1. machines = {o}
    BY <1>1, <1>3
  <2> QED  BY <2>1, FS_Singleton
<1>4. ASSUME Cardinality(machines) < 2
      PROVE  machines \ orchestrators = {}
  <2>1. Cardinality(machines) = 1
    BY <1>1, <1>2, <1>4, FS_EmptySet
  <2>2. PICK x : machines = {x}
    BY <1>2, <2>1, FS_Singleton
  <2> QED  BY <1>1, <2>2
<1> QED
  BY <1>1, <1>3, <1>4

\* A step of createResources records, gives up, announces, or is none of VMCreation's.
LEMMA MainStepRefines ==
  ASSUME IInv, CreateResources
  PROVE  [Creation!Next]_(Creation!vars)
<1> USE DEF IInv
<1>1. CASE FindOrchestrator
  <2>1. /\ phase = "begin"
        /\ phase' = IF orchestrators = {} THEN "error" ELSE "orchestrator"
        /\ UNCHANGED <<machines, orchestrators, recorded, result, vmAddress>>
    BY <1>1 DEF FindOrchestrator, deploymentVars, cloudVars
  <2>2. UNCHANGED <<VMs, Made>>
    BY <2>1, SameVMs
  <2>3. CASE orchestrators = {}
    BY <2>1, <2>2, <2>3 DEF Outcome, Creation!Announce, Creation!NoLeader, Creation!Next
  <2>4. CASE orchestrators # {}
    BY <2>1, <2>2, <2>4 DEF Outcome, Creation!vars
  <2> QED  BY <2>3, <2>4
<1>2. ASSUME NEW o \in Machines, LaunchWorkers(o)
      PROVE  [Creation!Next]_(Creation!vars)
  <2>1. /\ phase = "orchestrator" /\ o \in orchestrators /\ pc[o] = "returned"
        /\ UNCHANGED <<machines, orchestrators, failed, result, vmAddress>>
    BY <1>2 DEF LaunchWorkers, cloudVars
  <2>2. /\ UNCHANGED <<VMs, Made>> /\ Made[o] = result[o] /\ result[o] \in {"ok", "error"}
        /\ o \in machines /\ (o \in failed => result[o] = "error")
    BY <2>1, SameVMs DEF Made, VMInv, VMState, TypeOK
  <2>3. CASE result[o] = "error"
    <3>1. phase' = "error" /\ UNCHANGED recorded
      BY <1>2, <2>3 DEF LaunchWorkers
    <3> QED
      BY <2>1, <2>2, <2>3, <3>1
      DEF Outcome, Creation!Announce, Creation!NoLeader, Creation!Next
  <2>4. CASE result[o] = "ok"
    <3>1. phase' = "collect" /\ recorded' = recorded \cup {o}
      BY <1>2, <2>2, <2>4 DEF LaunchWorkers, UpdateMachineConfig, GetMachines
    <3> QED
      BY <2>1, <2>2, <2>4, <3>1 DEF Outcome, Creation!Record, Creation!Next
  <2> QED  BY <2>2, <2>3, <2>4
<1>3. ASSUME NEW m \in Machines, CollectResult(m)
      PROVE  [Creation!Next]_(Creation!vars)
  <2>1. /\ phase = "collect" /\ m \notin orchestrators /\ pc[m] = "returned"
        /\ UNCHANGED <<orchestrators, failed, result, vmAddress>>
    BY <1>3 DEF CollectResult, cloudVars
  <2>2. /\ UNCHANGED <<VMs, Made>> /\ (result[m] # "none" => Made[m] = result[m])
        /\ m \in machines /\ (m \in failed => result[m] = "error")
    BY <2>1, SameVMs DEF Made, VMInv, VMState, RunningInv
  <2>3. CASE result[m] = "error"
    <3>1. /\ machines' = machines \ {m} /\ UNCHANGED recorded
          /\ phase' \in {"collect", "exited"}
      BY <1>3, <2>3 DEF CollectResult
    <3> QED
      BY <2>1, <2>2, <2>3, <3>1
      DEF Outcome, Creation!Followers, Creation!GiveUp, Creation!Next
  <2>4. CASE result[m] = "ok"
    <3>1. recorded' = recorded \cup {m} /\ UNCHANGED <<machines, phase>>
      BY <1>3, <2>2, <2>4 DEF CollectResult, UpdateMachineConfig, GetMachines
    <3> QED
      BY <2>1, <2>2, <2>4, <3>1 DEF Outcome, Creation!Record, Creation!Next
  <2> QED  BY <1>3, <2>3, <2>4 DEF CollectResult
<1>4. CASE CheckWorkers
  <2>1. /\ phase = "collect" /\ uncollected = 0
        /\ phase' = IF Cardinality(GetMachines) < 2 THEN "error" ELSE "ok"
        /\ UNCHANGED <<machines, orchestrators, recorded, result, vmAddress>>
    BY <1>4 DEF CheckWorkers, deploymentVars, vmVars, cloudVars
  <2>2. PICK o : o \in orchestrators
    BY <2>1 DEF MainInv
  <2>3. orchestrators = {o} /\ o \in recorded /\ o \in Machines
    BY <2>1, <2>2, SingleOrchestrator DEF MainInv, TypeOK
  <2>4. Owing = {}
    <3>1. Owing \subseteq Machines
      BY DEF Owing
    <3> QED  BY <2>1, <3>1, NamesAssumption, FS_Subset, FS_EmptySet DEF MainInv
  <2>5. machines \subseteq recorded
    BY <2>1, <2>3, <2>4 DEF Owing, MainInv, TypeOK
  <2>6. Made[o] # "error"
    BY <2>3 DEF Made, VMInv, VMState
  <2>7. phase' = IF machines \ orchestrators = {} THEN "error" ELSE "ok"
    BY <2>1, <2>3, <2>5, FewerThanTwo
  <2>8. UNCHANGED <<VMs, Made>>
    BY <2>1, SameVMs
  <2> QED
    BY <2>1, <2>3, <2>5, <2>6, <2>7, <2>8
    DEF Outcome, Creation!Announce, Creation!NoLeader, Creation!Followers, Creation!Next
<1> QED
  BY <1>1, <1>2, <1>3, <1>4 DEF CreateResources

\* createResources implements VMCreation: the orchestrator's VM is made and recorded before
\* a worker's is made, only a worker that failed is given up, and nothing is made after the
\* one answer.
THEOREM CreationRefinement == Spec => ImplementsVMCreation
<1>1. Init => Creation!Init
  <2> SUFFICES ASSUME Init
               PROVE  Creation!Init
    OBVIOUS
  <2>1. VMs = {} /\ Made = [m \in Machines |-> "pending"] /\ Outcome = "pending"
    BY DEF Init, VMs, Made, Outcome
  <2>2. orchestrators \in {{}} \cup {{o} : o \in machines}
    <3>1. IsFiniteSet(orchestrators) /\ Cardinality(orchestrators) <= 1
      BY NamesAssumption, FS_Subset DEF Init
    <3>2. orchestrators = {} \/ \E o : orchestrators = {o}
      BY <3>1, FS_CardinalityType, FS_EmptySet, FS_Singleton
    <3> QED  BY <3>2 DEF Init
  <2> QED  BY <2>1, <2>2 DEF Init, Creation!Init
<1>2. IInv /\ [Next]_vars => [Creation!Next]_(Creation!vars)
  <2> SUFFICES ASSUME IInv, [Next]_vars
               PROVE  [Creation!Next]_(Creation!vars)
    OBVIOUS
  <2>1. CASE phase # "exited" /\ \E m \in Machines : CreateAndConfigureVM(m)
    BY <2>1, VMStepRefines
  <2>2. CASE CreateResources
    BY <2>2, MainStepRefines
  <2>3. CASE Cancel \/ UNCHANGED vars
    <3>1. UNCHANGED <<machines, orchestrators, recorded, phase, result, vmAddress>>
      BY <2>3 DEF Cancel, vars, deploymentVars, mainVars, vmVars, cloudVars
    <3> QED  BY <3>1, SameVMs DEF Outcome, Creation!vars
  <2>4. CASE Running /\ Exit
    <3>1. /\ phase \notin {"ok", "error", "exited"} /\ phase' = "exited"
          /\ UNCHANGED <<machines, orchestrators, recorded, result, vmAddress>>
      BY <2>4 DEF Running, Exit, deploymentVars, vmVars, cloudVars
    <3> QED  BY <3>1, SameVMs DEF Outcome, Creation!Quit, Creation!Next
  <2> QED  BY <2>1, <2>2, <2>3, <2>4 DEF Next
<1> QED
  BY <1>1, <1>2, Invariance, PTL DEF Spec, Creation!Spec, ImplementsVMCreation
==============================================================================
