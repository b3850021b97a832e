------------------------ MODULE StagedDeploy_proofs ------------------------
(***************************************************************************)
(* TypeOK, ParsedPadRuns and ConstantsReachRuntime hold for any names,     *)
(* files, uploads, deploys and deaths.                                     *)
(***************************************************************************)
EXTENDS StagedDeploy, TLAPS

-----------------------------------------------------------------------------
(* The invariant.                                                          *)

\* A PAD has been parsed and nothing has gone wrong since.
Prepared == task.pc \in {"sync", "alter", "suspend", "resume", "await"}
            \/ (task.pc = "idle" /\ status = "READY")

\* The service works on what the deploy prepared, or is about to be made to.
Handed == task.pc = "await" \/ (task.pc = "idle" /\ status = "READY")

\* What is staged as current.zip is what the deploy looks at, or newer than
\* anything there was at the request.
CurrentOf(pad) == stage[CurrentZip] = 0 \/ stage[CurrentZip] = pad
                  \/ stage[CurrentZip] > task.newest

StageInv ==
  /\ \A f \in Files : stage[f] <= uploads
  /\ task.newest <= uploads
  /\ task.pc = "parse" => task.file \in Staged
  /\ task.pc = "parse" => task.file = CurrentZip \/ CurrentOf(0)
  /\ Prepared => task.pad \in Uploads /\ CurrentOf(task.pad)

ConstantInv ==
  /\ task.pc # "alter" => mounted = stored
  /\ Prepared /\ task.pc # "sync" => uses[task.pad] \subseteq stored

ContainerInv ==
  /\ task.pc = "resume" => svc = "down"
  /\ svc = "up" => exported = uses[boot] \cap mounted
  /\ Handed /\ svc = "up" => boot = task.pad \/ boot > task.newest

IInv == TypeOK /\ StageInv /\ ConstantInv /\ ContainerInv

-----------------------------------------------------------------------------
LEMMA InitIInv == Init => IInv
<1> SUFFICES ASSUME Init PROVE IInv OBVIOUS
<1> USE BoundsAssumption, InputsAssumption DEF Init
<1>1. TypeOK
  <2>1. task \in Task BY DEF Task, Files
  <2>2. stage \in [Files -> 0..MaxUploads] OBVIOUS
  <2> QED BY <2>1, <2>2 DEF TypeOK, Up
<1>2. StageInv BY DEF StageInv, Prepared, CurrentOf, Files
<1>3. ConstantInv BY DEF ConstantInv, Prepared
<1>4. ContainerInv BY DEF ContainerInv, Handed
<1> QED BY <1>1, <1>2, <1>3, <1>4 DEF IInv

-----------------------------------------------------------------------------
(* The operator and the deploy.                                            *)

\* A new zip is newer than all there was.
LEMMA UploadStep ==
  ASSUME IInv, NEW f \in Files, Upload(f) PROVE IInv'
<1> USE BoundsAssumption DEF IInv, Upload, container
<1>1. stage' \in [Files -> 0..MaxUploads]
      /\ uploads' = uploads + 1
      /\ \A g \in Files : stage'[g] = IF g = f THEN uploads + 1 ELSE stage[g]
  BY DEF TypeOK, Up
<1>2. TypeOK' BY <1>1 DEF TypeOK, Up
<1>3. CurrentZip \in Files BY DEF Files
<1>4. task.newest \in Nat /\ task.file \in Files BY DEF TypeOK, Task
<1>5. \A g \in Files : stage[g] \in Nat /\ stage[g] <= uploads
  BY DEF TypeOK, StageInv
<1>6. \A pad : CurrentOf(pad) => CurrentOf(pad)'
  BY <1>1, <1>3, <1>4, <1>5 DEF CurrentOf, StageInv, TypeOK
<1>7. StageInv'
  BY <1>1, <1>4, <1>5, <1>6 DEF StageInv, Prepared, Staged, TypeOK
<1>8. ConstantInv' BY DEF ConstantInv, Prepared
<1>9. ContainerInv' BY DEF ContainerInv, Handed, container
<1> QED BY <1>2, <1>7, <1>8, <1>9

LEMMA TriggerStep ==
  ASSUME IInv, NEW f \in Files, Trigger(f) PROVE IInv'
<1> USE DEF IInv, Trigger, container
<1>1. task' = [pc |-> "parse", file |-> f, pad |-> 0, newest |-> uploads]
  OBVIOUS
<1>2. TypeOK'
  <2>1. task' \in Task BY <1>1 DEF Task, TypeOK
  <2> QED BY <2>1 DEF TypeOK, Up
<1>3. f \in Staged /\ (f = CurrentZip \/ stage[CurrentZip] = 0)
  BY DEF Resolved, Latest, Staged, Files
<1>4. StageInv'
  BY <1>1, <1>3 DEF StageInv, Prepared, CurrentOf, Staged, TypeOK
<1>5. ConstantInv' BY <1>1 DEF ConstantInv, Prepared
<1>6. ContainerInv' BY <1>1 DEF ContainerInv, Handed
<1> QED BY <1>2, <1>4, <1>5, <1>6

LEMMA ParseStep ==
  ASSUME IInv, Parse PROVE IInv'
<1> USE DEF IInv, Parse, container, meter
<1> DEFINE pad == stage[task.file]
           next == IF ConstantsChanged(pad) THEN "sync" ELSE "suspend"
<1>1. task.file \in Files /\ pad \in Uploads /\ task.newest \in Nat
  BY BoundsAssumption DEF TypeOK, Task, StageInv, Staged, Uploads
<1>2. next \in {"sync", "suspend"} /\ pad \in Nat
  BY <1>1, BoundsAssumption DEF Uploads
<1> HIDE DEF next, pad
<1>3. /\ task' \in Task /\ task'.pad = pad /\ task'.pc = next
      /\ task'.newest = task.newest /\ task'.file = task.file
  <2>1. task' = [task EXCEPT !.pad = pad, !.pc = next] BY DEF Parse, pad, next
  <2> QED BY <2>1, <1>2 DEF TypeOK, Task
<1>4. TypeOK' BY <1>3 DEF TypeOK, Up
<1>5. CurrentOf(pad) BY DEF StageInv, CurrentOf, pad
<1>6. StageInv' BY <1>1, <1>3, <1>2, <1>5 DEF StageInv, Prepared, CurrentOf
<1>7. ConstantInv'
  BY <1>3, <1>2 DEF ConstantInv, Prepared, ConstantsChanged, next
<1>8. ContainerInv' BY <1>3 DEF ContainerInv, Handed
<1> QED BY <1>4, <1>6, <1>7, <1>8

LEMMA SyncStep ==
  ASSUME IInv, Sync PROVE IInv'
<1> USE DEF IInv, Sync, container, meter
<1>1. /\ task' \in Task /\ task'.pad = task.pad /\ task'.pc = "alter"
      /\ task'.newest = task.newest /\ task'.file = task.file
  BY DEF TypeOK, Task
<1>2. task.pad \in Uploads BY DEF StageInv, Prepared
<1>3. TypeOK' BY <1>1, <1>2 DEF TypeOK, Up
<1>4. StageInv' BY <1>1 DEF StageInv, Prepared, CurrentOf
<1>5. ConstantInv' BY <1>1 DEF ConstantInv, Prepared
<1>6. ContainerInv' BY <1>1 DEF ContainerInv, Handed
<1> QED BY <1>3, <1>4, <1>5, <1>6

\* Whatever ran before either predates the specification now or is gone.
LEMMA AlterStep ==
  ASSUME IInv, Alter PROVE IInv'
<1> USE DEF IInv, Alter, meter
<1>1. /\ task' \in Task /\ task'.pad = task.pad /\ task'.pc = "await"
      /\ task'.newest = task.newest /\ task'.file = task.file
  BY DEF TypeOK, Task
<1>2. TypeOK' BY <1>1, BoundsAssumption DEF TypeOK, Up, NoContainer
<1>3. StageInv' BY <1>1 DEF StageInv, Prepared, CurrentOf
<1>4. ConstantInv' BY <1>1 DEF ConstantInv, Prepared
<1>5. svc' # "up" BY DEF NoContainer
<1>6. ContainerInv' BY <1>1, <1>5 DEF ContainerInv
<1> QED BY <1>2, <1>3, <1>4, <1>6

LEMMA SuspendStep ==
  ASSUME IInv, Suspend PROVE IInv'
<1> USE DEF IInv, Suspend, Fail, meter
<1>1. /\ task' \in Task /\ task'.pad = task.pad
      /\ task'.newest = task.newest /\ task'.file = task.file
      /\ \/ task'.pc = "resume" /\ status' = status
         \/ task'.pc = "idle" /\ status' = "FAILED"
  BY DEF TypeOK, Task
<1>2. TypeOK' BY <1>1, BoundsAssumption DEF TypeOK, Up, NoContainer
<1>3. StageInv' BY <1>1 DEF StageInv, Prepared, CurrentOf
<1>4. ConstantInv' BY <1>1 DEF ConstantInv, Prepared
<1>5. svc' # "up" OBVIOUS
<1>6. ContainerInv' BY <1>1, <1>5 DEF ContainerInv
<1> QED BY <1>2, <1>3, <1>4, <1>6

LEMMA ResumeStep ==
  ASSUME IInv, Resume PROVE IInv'
<1> USE DEF IInv, Resume, meter
<1>1. /\ task' \in Task /\ task'.pad = task.pad /\ task'.pc = "await"
      /\ task'.newest = task.newest /\ task'.file = task.file
  BY DEF TypeOK, Task
<1>2. TypeOK' BY <1>1 DEF TypeOK, Up
<1>3. StageInv' BY <1>1 DEF StageInv, Prepared, CurrentOf
<1>4. ConstantInv' BY <1>1 DEF ConstantInv, Prepared
<1>5. svc' # "up" OBVIOUS
<1>6. ContainerInv' BY <1>1, <1>5 DEF ContainerInv
<1> QED BY <1>2, <1>3, <1>4, <1>6

LEMMA EndStep ==
  ASSUME IInv, Stamp \/ TimeOut PROVE IInv'
<1> USE DEF IInv, Stamp, TimeOut, Fail, container, meter
<1>1. /\ task' \in Task /\ task'.pad = task.pad /\ task'.pc = "idle"
      /\ task'.newest = task.newest /\ task'.file = task.file
  BY DEF TypeOK, Task
<1>2. TypeOK' BY <1>1 DEF TypeOK, Up
<1>3. StageInv' BY <1>1 DEF StageInv, Prepared, CurrentOf
<1>4. ConstantInv' BY <1>1 DEF ConstantInv, Prepared
<1>5. ContainerInv' BY <1>1 DEF ContainerInv, Handed
<1> QED BY <1>2, <1>3, <1>4, <1>5

-----------------------------------------------------------------------------
(* The container.                                                          *)

\* It unpacks what is current.zip now, with the secrets mounted now.
LEMMA BootStep ==
  ASSUME IInv, Boot PROVE IInv'
<1> USE DEF IInv, Boot, meter
<1>1. boot' \in Uploads
  BY BoundsAssumption DEF Staged, TypeOK, Uploads, Files
<1>2. TypeOK' BY <1>1, BoundsAssumption DEF TypeOK, Uploads
<1>3. StageInv' BY DEF StageInv, Prepared, CurrentOf, Staged
<1>4. ConstantInv' BY DEF ConstantInv, Prepared
<1>5. Handed => boot' = task.pad \/ boot' > task.newest
  BY DEF Handed, StageInv, Prepared, CurrentOf, Staged
<1>6. ContainerInv' BY <1>5 DEF ContainerInv, Handed
<1> QED BY <1>2, <1>3, <1>4, <1>6

LEMMA LossStep ==
  ASSUME IInv, Replace \/ Die PROVE IInv'
<1> USE DEF IInv, Replace, Die, NoContainer, meter
<1>1. TypeOK' BY BoundsAssumption DEF TypeOK, Up
<1>2. StageInv' BY DEF StageInv, Prepared, CurrentOf, Staged
<1>3. ConstantInv' BY DEF ConstantInv, Prepared
<1>4. svc' # "up" OBVIOUS
<1>5. ContainerInv' BY <1>4 DEF ContainerInv, Up
<1> QED BY <1>1, <1>2, <1>3, <1>5

LEMMA StutterStep ==
  ASSUME IInv, UNCHANGED vars PROVE IInv'
<1> USE DEF IInv, vars, container, meter
<1>1. TypeOK' BY DEF TypeOK, Up
<1>2. StageInv' BY DEF StageInv, Prepared, CurrentOf, Staged
<1>3. ConstantInv' BY DEF ConstantInv, Prepared
<1>4. ContainerInv' BY DEF ContainerInv, Handed
<1> QED BY <1>1, <1>2, <1>3, <1>4

LEMMA NextIInv == IInv /\ [Next]_vars => IInv'
<1> SUFFICES ASSUME IInv, [Next]_vars PROVE IInv' OBVIOUS
<1>1. ASSUME NEW f \in Files, Upload(f) \/ Trigger(f) PROVE IInv'
  BY <1>1, UploadStep, TriggerStep
<1>2. CASE Parse \/ Sync \/ Alter \/ Suspend \/ Resume \/ Stamp \/ TimeOut
  BY <1>2, ParseStep, SyncStep, AlterStep, SuspendStep, ResumeStep, EndStep
<1>3. CASE Boot \/ Replace \/ Die BY <1>3, BootStep, LossStep
<1>4. CASE AtRest \/ UNCHANGED vars BY <1>4, StutterStep DEF AtRest
<1> QED BY <1>1, <1>2, <1>3, <1>4 DEF Next

LEMMA Invariance == Spec => []IInv
<1> QED BY InitIInv, NextIInv, PTL DEF Spec

-----------------------------------------------------------------------------
(* The theorems.                                                           *)

\* Every variable has its type, and a container that is up has a PAD
\* (entrypoint.sh:10-13), for any names, files and bounds.
THEOREM TypeCorrect == Spec => []TypeOK
<1>1. IInv => TypeOK BY DEF IInv
<1> QED BY <1>1, Invariance, PTL

\* However uploads, requests and container deaths interleave, READY never stands
\* over a container with an older PAD than the one that was parsed
\* (main.py:182, 603-623, entrypoint.sh:10-19).
THEOREM ParsedRuns == Spec => []ParsedPadRuns
<1>1. IInv => ParsedPadRuns
  BY DEF IInv, ContainerInv, ParsedPadRuns, Deployed, Handed
<1> QED BY <1>1, Invariance, PTL

\* The PAD that was parsed runs with all its constants read from secrets
\* (main.py:569-580, entrypoint.sh:55-70).
THEOREM ConstantsReach == Spec => []ConstantsReachRuntime
<1>1. ASSUME IInv PROVE ConstantsReachRuntime
  <2> SUFFICES ASSUME Deployed, boot = task.pad
               PROVE  uses[boot] \subseteq exported
    BY DEF ConstantsReachRuntime
  <2>1. svc = "up" /\ Prepared /\ task.pc = "idle"
    BY DEF Deployed, Prepared
  <2>2. uses[boot] \subseteq mounted
    BY <1>1, <2>1 DEF IInv, ConstantInv
  <2> QED BY <1>1, <2>1, <2>2 DEF IInv, ContainerInv
<1> QED BY <1>1, Invariance, PTL

=============================================================================
