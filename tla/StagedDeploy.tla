---------------------------- MODULE StagedDeploy ----------------------------
(***************************************************************************)
(* From a staged PAD to a running one: trigger-deploy of                   *)
(* Controller/app/main.py and Mendix Base Image/entrypoint.sh, for one app *)
(* that is registered and whose service exists.                            *)
(*                                                                         *)
(* Three parties look at the stage directory apps/<name>/ at times of      *)
(* their own: the operator copies zips into it, the controller resolves    *)
(* one and parses its constants, and every container that starts unpacks   *)
(* current.zip and reads the constants' secrets its specification mounts.  *)
(*                                                                         *)
(* One deploy at a time and no statement fails: overlaps and failures are  *)
(* AppLifecycle's.  Left out: defaults (a new constant has one, or the     *)
(* request is refused), the values of constants, the database of the app,  *)
(* other variables of the environment.                                     *)
(***************************************************************************)
EXTENDS Naturals

CONSTANTS
  Names,                       \* Mendix constants
  Others,                      \* names a zip may have besides current.zip
  CurrentZip,
  MaxUploads, MaxDeploys, MaxDeaths      \* bounds of the model

ASSUME InputsAssumption == CurrentZip \notin Others

ASSUME BoundsAssumption ==
  MaxUploads \in Nat /\ MaxDeploys \in Nat /\ MaxDeaths \in Nat

Files   == Others \cup {CurrentZip}
Uploads == 1..MaxUploads       \* PADs, in the order in which they are staged

VARIABLES
  uses,       \* the constants of each PAD
  stage,      \* the PAD each file holds, 0: no such file
  stored,     \* the registry's constants; each has its secret
  mounted,    \* the constants whose secrets the service's specification mounts
  status,     \* last_deploy_status
  svc,        \* the service: "starting", "up", "down" (suspended) or "old" (up
              \* with a container that predates the specification)
  boot,       \* the PAD the container unpacked, 0: no container
  exported,   \* the constants it read from their secrets
  task,       \* the deploy
  uploads, deploys, deaths     \* what the model has used of its bounds

container == <<svc, boot, exported>>
meter     == <<uploads, deploys, deaths>>
vars      == <<uses, stage, stored, mounted, status, container, task, meter>>

Up     == {"up", "old"}
Staged == {f \in Files : stage[f] # 0}

\* os.path.getmtime: one PAD is as old as its number.
Latest == {f \in Staged : \A g \in Staged : stage[g] <= stage[f]}

\* pad: the PAD that was parsed; newest: the newest staged when the request came
\* (the last upload: no zip is removed).
Task == [pc : {"idle", "parse", "sync", "alter", "suspend", "resume", "await"},
         file : Files, pad : Nat, newest : Nat]

-----------------------------------------------------------------------------
(* The operator.                                                           *)

Upload(f) ==
  /\ uploads < MaxUploads
  /\ uploads' = uploads + 1
  /\ stage' = [stage EXCEPT ![f] = uploads']
  /\ UNCHANGED <<uses, stored, mounted, status, container, task, deploys,
                 deaths>>

-----------------------------------------------------------------------------
(* trigger-deploy.                                                         *)

\* Variant: the newest zip, whatever its name.
ResolvedNewest == Latest

\* _resolve_staged_pad: current.zip, or the zip with the latest mtime.
Resolved == IF CurrentZip \in Staged THEN {CurrentZip} ELSE Latest

\* No zip at all is a 400.
Trigger(f) ==
  /\ task.pc = "idle" /\ deploys < MaxDeploys
  /\ f \in Resolved
  /\ deploys' = deploys + 1
  /\ task' = [pc |-> "parse", file |-> f, pad |-> 0, newest |-> uploads]
  /\ UNCHANGED <<uses, stage, stored, mounted, status, container, uploads,
                 deaths>>

\* Variant: the merged constants are compared with themselves.
NothingChanged(pad) == FALSE

\* constants_changed: the PAD has a constant that the registry has not.
ConstantsChanged(pad) == ~(uses[pad] \subseteq stored)

\* parse_from_zip, and the status DEPLOYING.
Parse ==
  /\ task.pc = "parse"
  /\ LET pad == stage[task.file] IN
     task' = [task EXCEPT !.pad = pad,
                          !.pc = IF ConstantsChanged(pad) THEN "sync"
                                                          ELSE "suspend"]
  /\ status' = "DEPLOYING"
  /\ UNCHANGED <<uses, stage, stored, mounted, container, meter>>

\* _sync_constant_secrets, then the registry.
Sync ==
  /\ task.pc = "sync"
  /\ stored' = stored \cup uses[task.pad]
  /\ task' = [task EXCEPT !.pc = "alter"]
  /\ UNCHANGED <<uses, stage, mounted, status, container, meter>>

NoContainer == boot' = 0 /\ exported' = {}

\* ALTER SERVICE: a container that is up is replaced now, or a little later.
Alter ==
  /\ task.pc = "alter"
  /\ mounted' = stored
  /\ \/ svc \in Up /\ svc' = "old" /\ UNCHANGED <<boot, exported>>
     \/ svc' = (IF svc = "down" THEN "down" ELSE "starting") /\ NoContainer
  /\ task' = [task EXCEPT !.pc = "await"]
  /\ UNCHANGED <<uses, stage, stored, status, meter>>

Fail == /\ status' = "FAILED" /\ task' = [task EXCEPT !.pc = "idle"]

\* Suspend and wait for it; a poll that times out fails the deploy.
Suspend ==
  /\ task.pc = "suspend"
  /\ svc' = "down" /\ NoContainer
  /\ \/ task' = [task EXCEPT !.pc = "resume"] /\ UNCHANGED status
     \/ Fail
  /\ UNCHANGED <<uses, stage, stored, mounted, meter>>

Resume ==
  /\ task.pc = "resume"
  /\ svc' = "starting"
  /\ task' = [task EXCEPT !.pc = "await"]
  /\ UNCHANGED <<uses, stage, stored, mounted, status, boot, exported, meter>>

\* The poll for RUNNING sees it, and the deploy is stamped.
Stamp ==
  /\ task.pc = "await" /\ svc \in Up
  /\ status' = "READY"
  /\ task' = [task EXCEPT !.pc = "idle"]
  /\ UNCHANGED <<uses, stage, stored, mounted, container, meter>>

TimeOut ==
  /\ task.pc = "await"
  /\ Fail
  /\ UNCHANGED <<uses, stage, stored, mounted, container, meter>>

-----------------------------------------------------------------------------
(* The container.                                                          *)

\* Variant: without the test for the file.
BootUnchecked ==
  /\ svc = "starting"
  /\ svc' = "up"
  /\ boot' = stage[CurrentZip]
  /\ exported' = IF boot' = 0 THEN {} ELSE uses[boot'] \cap mounted
  /\ UNCHANGED <<uses, stage, stored, mounted, status, task, meter>>

\* entrypoint.sh: no current.zip ends the container, which is started again.
Boot ==
  /\ svc = "starting" /\ CurrentZip \in Staged
  /\ svc' = "up"
  /\ boot' = stage[CurrentZip]
  /\ exported' = uses[boot'] \cap mounted
  /\ UNCHANGED <<uses, stage, stored, mounted, status, task, meter>>

\* SPCS replaces a container that predates its specification.
Replace ==
  /\ svc = "old"
  /\ svc' = "starting" /\ NoContainer
  /\ UNCHANGED <<uses, stage, stored, mounted, status, task, meter>>

Die ==
  /\ svc \in Up /\ deaths < MaxDeaths
  /\ deaths' = deaths + 1
  /\ svc' = "starting" /\ NoContainer
  /\ UNCHANGED <<uses, stage, stored, mounted, status, task, uploads, deploys>>

\* Nobody deploys.
AtRest == task.pc = "idle" /\ UNCHANGED vars

\* The app was registered with some constants and has no PAD yet.
Init ==
  /\ uses \in [Uploads -> SUBSET Names]
  /\ stage = [f \in Files |-> 0]
  /\ stored \in SUBSET Names /\ mounted = stored
  /\ status = "NOT_DEPLOYED"
  /\ svc = "starting" /\ boot = 0 /\ exported = {}
  /\ task = [pc |-> "idle", file |-> CurrentZip, pad |-> 0, newest |-> 0]
  /\ uploads = 0 /\ deploys = 0 /\ deaths = 0

Next ==
  \/ \E f \in Files : Upload(f) \/ Trigger(f)
  \/ Parse \/ Sync \/ Alter \/ Suspend \/ Resume \/ Stamp \/ TimeOut
  \/ Boot \/ Replace \/ Die
  \/ AtRest

Spec == Init /\ [][Next]_vars

-----------------------------------------------------------------------------
(* Properties.                                                             *)

\* Every variable has its type, and a container that is up has a PAD.
TypeOK ==
  /\ uses \in [Uploads -> SUBSET Names]
  /\ stage \in [Files -> 0..MaxUploads]
  /\ stored \subseteq Names /\ mounted \subseteq Names
  /\ status \in {"NOT_DEPLOYED", "DEPLOYING", "READY", "FAILED"}
  /\ svc \in {"starting", "up", "old", "down"}
  /\ boot \in 0..MaxUploads /\ exported \subseteq Names
  /\ svc \in Up => boot # 0
  /\ task \in Task
  /\ uploads \in Nat /\ deploys \in Nat /\ deaths \in Nat

\* A deploy ended in READY and the service has caught up with it.
Deployed == task.pc = "idle" /\ status = "READY" /\ svc = "up"

\* What runs is the PAD whose constants the controller prepared, or one that
\* was staged as current.zip after the request (main.py:182, 603-623,
\* entrypoint.sh:10-19): never an older one.
ParsedPadRuns == Deployed => boot = task.pad \/ boot > task.newest

\* The runtime gets every constant of the PAD that was parsed from its secret,
\* not from the PAD's default, however often the container was replaced on the
\* way (main.py:569-580, entrypoint.sh:55-70).
ConstantsReachRuntime ==
  (Deployed /\ boot = task.pad) => uses[boot] \subseteq exported

\* A container that a deploy started finds the newest PAD of the request, or a
\* newer one: "accept the newest .zip in the directory, so the documented `snow
\* stage copy <yourpad>.zip @.../apps/<name>/` one-liner works without forcing
\* the consumer to rename the file first" (main.py:606-608), "The controller
\* deploys the newest .zip it finds there" (Admin UI/app/pages/4_Upload.py:66).
NewestIsDeployed ==
  (task.pc = "await" /\ svc = "starting") => stage[CurrentZip] >= task.newest

=============================================================================
