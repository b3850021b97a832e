---------------------------- MODULE AppLifecycle ----------------------------
(***************************************************************************)
(* The deploy controller: Controller/app/main.py over registry.py and      *)
(* snowflake_client.py.                                                    *)
(*                                                                         *)
(* Routes and their background tasks run in threads of one process.  The   *)
(* only thing that serialises them is the lock of execute_sql, held for    *)
(* one SQL statement, so one statement is one step here: a job is a        *)
(* request handler followed by the background task it schedules, Flow is   *)
(* the statements it runs in order, and the jobs interleave freely.        *)
(* A statement may be refused by Snowflake (the object it names is not     *)
(* there), fail, or run and lose its answer; a poll may time out; the      *)
(* controller may die.  Whatever a job knows of the app is the registry    *)
(* row it read when the request arrived.                                   *)
(*                                                                         *)
(* Requests here are those of a caller authorized for the app: a refused   *)
(* one changes nothing.  endpoint_url, pad_stage_path and the timestamps   *)
(* are left out: no decision of these routes reads them.                   *)
(***************************************************************************)
EXTENDS Naturals, FiniteSets

CONSTANTS
  Workers,      \* threads that run request handlers and background tasks
  Apps,         \* app names, up to case
  Names,        \* Mendix constant names; each has the secret of its own name
  Licenses,     \* license ids
  Tiers,        \* resource tiers
  Callers,      \* the values of use_caller_rights that are asked for
  Pads,         \* the PADs that may be staged: [Names -> PadEntry]
  Requests,     \* the requests that arrive, a subset of RequestNames
  FaultKinds,   \* what may go wrong, a subset of Faults
  MaxRequests, MaxFaults, MaxCrashes, MaxCreates,    \* bounds of the model
  NoLicense

\* What a PAD says of a constant: not there, there without a default, with a
\* default value, or with a default that is literally HIDDEN_VALUE.
PadEntry == {"absent", "empty", "value", "hidden"}

RequestNames == {"create", "deploy", "constants", "spec", "license",
                 "unlicense", "suspend", "resume", "delete"}

\* "object", "registry": a statement fails and does not run; "reply": it runs
\* and its answer is lost; "timeout": a poll ends before a status that would
\* have come; "container": a running container dies.
Faults == {"object", "registry", "reply", "timeout", "container"}

ASSUME InputsAssumption ==
  /\ Licenses # {} /\ NoLicense \notin Licenses
  /\ Callers \subseteq BOOLEAN
  /\ Pads \subseteq [Names -> PadEntry]
  /\ Requests \subseteq RequestNames
  /\ FaultKinds \subseteq Faults

ASSUME BoundsAssumption ==
  /\ MaxRequests \in Nat /\ MaxFaults \in Nat
  /\ MaxCrashes \in Nat /\ MaxCreates \in Nat

VARIABLES
  rows,      \* MENDIX_APPS: the rows of each app name; nothing keeps them unique
  objs,      \* each app's schema and the fixed objects in it
  secrets,   \* each app's MX_CONST_ secrets
  access,    \* each app's access role and the grants of its endpoint
  svc,       \* each app's service
  job,       \* what each thread is doing
  lost,      \* history: the last task of the app to end wrote no status
  requests, faults, crashes, creates   \* what the model has used of its bounds

db    == <<rows, objs, secrets, access, svc>>
meter == <<requests, faults, crashes, creates>>
vars  == <<rows, objs, secrets, access, svc, job, lost,
           requests, faults, crashes, creates>>

-----------------------------------------------------------------------------
(* The statements of each job, in order.  "mark" writes the transient      *)
(* status and is the last statement of the request handler: what follows   *)
(* it is the background task.  "deploy" and "restart" are the two branches *)
(* of _run_deploy, with and without constants_changed.                     *)

Flow == [
  create |-> [schema |-> "stage", stage |-> "pgPass", pgPass |-> "adminPass",
              adminPass |-> "licenseKey", licenseKey |-> "putSecrets",
              putSecrets |-> "service", service |-> "validity",
              validity |-> "role", role |-> "userGrant",
              userGrant |-> "adminGrant", adminGrant |-> "insert",
              insert |-> "done"],
  deploy |-> [mark |-> "syncSecrets", syncSecrets |-> "persist",
              persist |-> "alter", alter |-> "awaitRunning",
              awaitRunning |-> "endpoint", endpoint |-> "stamp",
              stamp |-> "done"],
  restart |-> [mark |-> "suspend", suspend |-> "awaitSuspended",
              awaitSuspended |-> "resume", resume |-> "awaitRunning",
              awaitRunning |-> "endpoint", endpoint |-> "stamp",
              stamp |-> "done"],
  constants |-> [putSecrets |-> "mark", mark |-> "persist",
              persist |-> "alter", alter |-> "awaitRunning",
              awaitRunning |-> "endpoint", endpoint |-> "stamp",
              stamp |-> "done"],
  spec |-> [mark |-> "alter", alter |-> "validity",
              validity |-> "awaitRunning", awaitRunning |-> "stamp",
              stamp |-> "done"],
  license |-> [licenseKey |-> "mark", mark |-> "persist",
              persist |-> "alter", alter |-> "awaitRunning",
              awaitRunning |-> "endpoint", endpoint |-> "stamp",
              stamp |-> "done"],
  unlicense |-> [mark |-> "persist", persist |-> "alter",
              alter |-> "awaitRunning", awaitRunning |-> "endpoint",
              endpoint |-> "stamp", stamp |-> "dropKey", dropKey |-> "done"],
  suspend |-> [mark |-> "suspend", suspend |-> "awaitSuspended",
              awaitSuspended |-> "stamp", stamp |-> "done"],
  resume |-> [mark |-> "resume", resume |-> "awaitRunning",
              awaitRunning |-> "stamp", stamp |-> "done"],
  delete |-> [suspend |-> "awaitSuspended", awaitSuspended |-> "dropService",
              dropService |-> "dropRole", dropRole |-> "dropSchema",
              dropSchema |-> "unregister", unregister |-> "done"]]

First == [create |-> "schema", deploy |-> "mark", restart |-> "mark",
          constants |-> "putSecrets", spec |-> "mark",
          license |-> "licenseKey", unlicense |-> "mark",
          suspend |-> "mark", resume |-> "mark", delete |-> "suspend"]

\* The status "mark" writes and the one "stamp" writes.
MarkStatus(op) == CASE op = "suspend" -> "SUSPENDING"
                    [] op = "resume"  -> "RESUMING"
                    [] OTHER          -> "DEPLOYING"
EndStatus(op) == IF op = "suspend" THEN "SUSPENDED" ELSE "READY"

Transient == {"DEPLOYING", "SUSPENDING", "RESUMING"}
Statuses  == Transient \cup {"NOT_DEPLOYED", "READY", "FAILED", "SUSPENDED"}

InApp     == {"schema", "stage", "pgPass", "adminPass", "licenseKey"}
Accesses  == {"role", "userGrant", "adminGrant"}
Cleanup   == {"dropService", "dropRole", "dropSchema"}
Registry  == {"mark", "persist", "stamp", "fail", "giveUp", "insert",
              "unregister"}
NeedsService == {"alter", "validity", "suspend", "resume", "endpoint",
                 "userGrant", "adminGrant"}

MaybeLicense == Licenses \cup {NoLicense}

\* What the registry row and the service specification are both made from.
Config == [consts : SUBSET Names, lic : MaybeLicense,
           tier : Tiers, caller : BOOLEAN]
Row == [id : Nat, status : Statuses, config : Config]

Service   == [status : {"PENDING", "RUNNING", "SUSPENDING", "SUSPENDED"},
              config : Config, validity : BOOLEAN]
NoService == [status |-> "NONE"]

Steps(op) == DOMAIN Flow[op] \cup {"fail", "giveUp"}

Job == {j \in [op : DOMAIN Flow, app : Apps, id : Nat, new : Config,
               flip : BOOLEAN, pc : UNION {Steps(op) : op \in DOMAIN Flow},
               todo : SUBSET Names, failed : SUBSET Cleanup]
          : j.pc \in Steps(j.op)}
NoJob == [op |-> "none"]

\* The jobs that leave their work to a background task.
Tasks == DOMAIN Flow \ {"create", "delete"}

\* A job past the 202 answer: only its background task is left.
InBackground(j) ==
  /\ j.op \in Tasks
  /\ j.pc \notin {"putSecrets", "licenseKey", "mark"}

\* Variant: a task without an "except".
UnguardedTask(j) == FALSE

\* A failure at this step reaches the task's own "except": the first registry
\* write of three of the tasks stands before their "try".
Guarded(j) ==
  /\ InBackground(j)
  /\ j.pc # "fail"
  /\ ~(j.pc = "persist" /\ j.op \in {"constants", "license", "unlicense"})

-----------------------------------------------------------------------------
(* Requests.  The handler's SELECT is the step that takes the job on.      *)

Begin(w, a, op, id, new, flip, todo) ==
  /\ job[w] = NoJob
  /\ requests < MaxRequests
  /\ requests' = requests + 1
  /\ job' = [job EXCEPT ![w] =
               [op |-> op, app |-> a, id |-> id, new |-> new, flip |-> flip,
                pc |-> First[op], todo |-> todo, failed |-> {}]]
  /\ UNCHANGED <<db, lost, faults, crashes>>

\* POST /apps: 409 when the name is taken.  The row is inserted last.
Register(w, a) ==
  /\ "create" \in Requests
  /\ rows[a] = {}
  /\ creates[a] < MaxCreates
  /\ creates' = [creates EXCEPT ![a] = @ + 1]
  /\ \E consts \in SUBSET Names, lic \in MaybeLicense,
        tier \in Tiers, caller \in Callers :
       Begin(w, a, "create", creates'[a],
             [consts |-> consts, lic |-> lic, tier |-> tier,
              caller |-> caller],
             caller, consts)

PadNames(pad) == {n \in Names : pad[n] # "absent"}

\* _prepare_deploy: new constants without a default are refused (422).
Missing(pad, stored) == {n \in PadNames(pad) \ stored : pad[n] = "empty"}

\* _sync_constant_secrets: stored constants read as HIDDEN_VALUE, and so does
\* a default that is literally that; both are skipped.
ToSync(pad, stored) == {n \in PadNames(pad) \ stored : pad[n] = "value"}

TriggerDeploy(w, a) ==
  /\ "deploy" \in Requests
  /\ \E r \in rows[a], pad \in Pads :
       LET stored == r.config.consts
           op     == IF PadNames(pad) \subseteq stored THEN "restart"
                                                       ELSE "deploy"
       IN  /\ Missing(pad, stored) = {}
           /\ Begin(w, a, op, r.id,
                    [r.config EXCEPT !.consts = stored \cup PadNames(pad)],
                    FALSE, ToSync(pad, stored))
  /\ UNCHANGED creates

\* Variant: a kept name that was never stored is let through.
AcceptsUnknown(given, kept, stored) == given # {}

\* PUT /constants sends real values for "given" and HIDDEN_VALUE for "kept";
\* a kept name must be stored (422), and with nothing given it is UNCHANGED.
Accepts(given, kept, stored) == given # {} /\ kept \subseteq stored

UpdateConstants(w, a) ==
  /\ "constants" \in Requests
  /\ \E r \in rows[a], given \in SUBSET Names, kept \in SUBSET Names :
       /\ given \cap kept = {}
       /\ Accepts(given, kept, r.config.consts)
       /\ Begin(w, a, "constants", r.id,
                [r.config EXCEPT !.consts = @ \cup given \cup kept],
                FALSE, given)
  /\ UNCHANGED creates

UpdateSpec(w, a) ==
  /\ "spec" \in Requests
  /\ \E r \in rows[a], tier \in Tiers, caller \in Callers :
       Begin(w, a, "spec", r.id,
             [r.config EXCEPT !.tier = tier, !.caller = caller],
             ~r.config.caller /\ caller, {})
  /\ UNCHANGED creates

UpdateLicense(w, a) ==
  /\ "license" \in Requests
  /\ \E r \in rows[a], lic \in Licenses :
       Begin(w, a, "license", r.id, [r.config EXCEPT !.lic = lic], FALSE, {})
  /\ UNCHANGED creates

DeleteLicense(w, a) ==
  /\ "unlicense" \in Requests
  /\ \E r \in rows[a] :
       Begin(w, a, "unlicense", r.id, [r.config EXCEPT !.lic = NoLicense],
             FALSE, {})
  /\ UNCHANGED creates

\* POST /suspend, POST /resume and DELETE /apps/{name}.
Plain(w, a, op) ==
  /\ op \in Requests
  /\ \E r \in rows[a] : Begin(w, a, op, r.id, r.config, FALSE, {})
  /\ UNCHANGED creates

Request(w, a) ==
  \/ Register(w, a)
  \/ TriggerDeploy(w, a)
  \/ UpdateConstants(w, a)
  \/ UpdateSpec(w, a)
  \/ UpdateLicense(w, a)
  \/ DeleteLicense(w, a)
  \/ \E op \in {"suspend", "resume", "delete"} : Plain(w, a, op)

-----------------------------------------------------------------------------
(* The effect of one statement on Snowflake.  The job's thread is w.       *)

\* Variant: CREATE SERVICE IF NOT EXISTS.
RefusedIfMissing(w) ==
  \/ job[w].pc \in NeedsService /\ svc[job[w].app] = NoService
  \/ job[w].pc \in (InApp \ {"schema"}) \cup {"putSecrets", "syncSecrets"}
       /\ "schema" \notin objs[job[w].app]

\* Snowflake refuses a statement whose object is not there; only CREATE
\* SERVICE has no IF NOT EXISTS, every DROP has IF EXISTS, and an UPDATE or
\* DELETE that matches no row succeeds.
Refused(w) ==
  LET j == job[w]
      a == job[w].app
  IN  \/ j.pc \in (InApp \ {"schema"}) \cup {"putSecrets", "syncSecrets"}
         /\ "schema" \notin objs[a]
      \/ j.pc = "service" /\ svc[a] # NoService
      \/ j.pc \in NeedsService /\ svc[a] = NoService
      \/ j.pc = "userGrant" /\ "role" \notin access[a]

\* CREATE SCHEMA / STAGE IF NOT EXISTS, CREATE OR REPLACE SECRET.
CreateInApp(w) ==
  LET j == job[w] IN
  /\ j.pc \in InApp
  /\ objs' = [objs EXCEPT ![j.app] = @ \cup {j.pc}]
  /\ UNCHANGED <<rows, secrets, access, svc>>

WriteSecret(w, n) ==
  LET j == job[w] IN
  /\ j.pc \in {"putSecrets", "syncSecrets"}
  /\ n \in j.todo
  /\ secrets' = [secrets EXCEPT ![j.app] = @ \cup {n}]
  /\ UNCHANGED <<rows, objs, access, svc>>

CreateService(w) ==
  LET j == job[w] IN
  /\ j.pc = "service"
  /\ svc' = [svc EXCEPT ![j.app] = [status |-> "PENDING", config |-> j.new,
                                    validity |-> FALSE]]
  /\ UNCHANGED <<rows, objs, secrets, access>>

\* CREATE APPLICATION ROLE IF NOT EXISTS and the two GRANT SERVICE ROLE.
GrantAccess(w) ==
  LET j == job[w] IN
  /\ j.pc \in Accesses
  /\ access' = [access EXCEPT ![j.app] = @ \cup {j.pc}]
  /\ UNCHANGED <<rows, objs, secrets, svc>>

SetCallerValidity(w) ==
  LET j == job[w] IN
  /\ j.pc = "validity"
  /\ svc' = [svc EXCEPT ![j.app].validity = TRUE]
  /\ UNCHANGED <<rows, objs, secrets, access>>

Insert(w) ==
  LET j == job[w] IN
  /\ j.pc = "insert"
  /\ rows' = [rows EXCEPT ![j.app] = @ \cup
                {[id |-> j.id, status |-> "NOT_DEPLOYED", config |-> j.new]}]
  /\ UNCHANGED <<objs, secrets, access, svc>>

Mark(w) ==
  LET j == job[w] IN
  /\ j.pc = "mark"
  /\ rows' = [rows EXCEPT ![j.app] =
                {[r EXCEPT !.status = MarkStatus(j.op)] : r \in @}]
  /\ UNCHANGED <<objs, secrets, access, svc>>

\* The registry write that comes before the service is altered.
Persisted(r, j) ==
  IF j.op \in {"license", "unlicense"}
  THEN [r EXCEPT !.config.lic = j.new.lic]
  ELSE [r EXCEPT !.config.consts = j.new.consts]

Persist(w) ==
  LET j == job[w] IN
  /\ j.pc = "persist"
  /\ rows' = [rows EXCEPT ![j.app] = {Persisted(r, j) : r \in @}]
  /\ UNCHANGED <<objs, secrets, access, svc>>

\* ALTER SERVICE ... FROM SPECIFICATION restarts the container, or leaves the
\* service in the status it is in while the new one comes up.
Alter(w) ==
  LET j == job[w] IN
  /\ j.pc = "alter"
  /\ \E status \in {svc[j.app].status, "PENDING"} :
       svc' = [svc EXCEPT ![j.app].config = j.new, ![j.app].status = status]
  /\ UNCHANGED <<rows, objs, secrets, access>>

SuspendService(w) ==
  LET j == job[w] IN
  /\ j.pc = "suspend"
  /\ svc' = [svc EXCEPT ![j.app].status =
               IF @ = "SUSPENDED" THEN @ ELSE "SUSPENDING"]
  /\ UNCHANGED <<rows, objs, secrets, access>>

ResumeService(w) ==
  LET j == job[w] IN
  /\ j.pc = "resume"
  /\ svc' = [svc EXCEPT ![j.app].status =
               IF @ = "RUNNING" THEN @ ELSE "PENDING"]
  /\ UNCHANGED <<rows, objs, secrets, access>>

\* SHOW ENDPOINTS of _stamp_deploy_success: a read that can fail.
ReadEndpoint(w) == job[w].pc = "endpoint" /\ UNCHANGED db

\* Variants: only the status is written; the service's status is written.
StampedStatusOnly(r, j) == [r EXCEPT !.status = EndStatus(j.op)]
StampedRunning(r, j)    == [r EXCEPT !.status = "RUNNING"]

\* The last registry write of a task that succeeded.
Stamped(r, j) ==
  LET c == r.config IN
  [r EXCEPT !.status = EndStatus(j.op),
            !.config = CASE j.op \in {"deploy", "restart"} ->
                              [c EXCEPT !.consts = j.new.consts]
                         [] j.op = "spec" ->
                              [c EXCEPT !.tier = j.new.tier,
                                        !.caller = j.new.caller]
                         [] OTHER -> c]

Stamp(w) ==
  LET j == job[w] IN
  /\ j.pc = "stamp"
  /\ rows' = [rows EXCEPT ![j.app] = {Stamped(r, j) : r \in @}]
  /\ UNCHANGED <<objs, secrets, access, svc>>

WriteFailed(w) ==
  LET j == job[w] IN
  /\ j.pc \in {"fail", "giveUp"}
  /\ rows' = [rows EXCEPT ![j.app] =
                {[r EXCEPT !.status = "FAILED"] : r \in @}]
  /\ UNCHANGED <<objs, secrets, access, svc>>

DropKey(w) ==
  LET j == job[w] IN
  /\ j.pc = "dropKey"
  /\ objs' = [objs EXCEPT ![j.app] = @ \ {"licenseKey"}]
  /\ UNCHANGED <<rows, secrets, access, svc>>

\* DROP SERVICE takes its service role, and so both grants, with it.
DropService(w) ==
  LET j == job[w] IN
  /\ j.pc = "dropService"
  /\ svc' = [svc EXCEPT ![j.app] = NoService]
  /\ access' = [access EXCEPT ![j.app] = @ \ {"userGrant", "adminGrant"}]
  /\ UNCHANGED <<rows, objs, secrets>>

DropRole(w) ==
  LET j == job[w] IN
  /\ j.pc = "dropRole"
  /\ access' = [access EXCEPT ![j.app] = @ \ {"role", "userGrant"}]
  /\ UNCHANGED <<rows, objs, secrets, svc>>

DropSchema(w) ==
  LET j == job[w] IN
  /\ j.pc = "dropSchema"
  /\ objs' = [objs EXCEPT ![j.app] = {}]
  /\ secrets' = [secrets EXCEPT ![j.app] = {}]
  /\ UNCHANGED <<rows, access, svc>>

Unregister(w) ==
  LET j == job[w] IN
  /\ j.pc = "unregister"
  /\ rows' = [rows EXCEPT ![j.app] = {}]
  /\ UNCHANGED <<objs, secrets, access, svc>>

\* Variant: delete drops the row whatever failed before.
NothingToRunAnyway(j) ==
  \/ j.pc = "licenseKey" /\ j.new.lic = NoLicense
  \/ j.pc = "validity" /\ ~j.flip
  \/ j.pc \in {"putSecrets", "syncSecrets"} /\ j.todo = {}

\* Steps with nothing to run: no license at birth, no caller rights switched
\* on, no constant left to write, and the 502 of a delete that kept the row.
NothingToRun(j) ==
  \/ j.pc = "licenseKey" /\ j.new.lic = NoLicense
  \/ j.pc = "validity" /\ ~j.flip
  \/ j.pc \in {"putSecrets", "syncSecrets"} /\ j.todo = {}
  \/ j.pc = "unregister" /\ j.failed # {}

Statement(w) ==
  \/ CreateInApp(w) \/ CreateService(w) \/ GrantAccess(w)
  \/ SetCallerValidity(w) \/ Insert(w) \/ Mark(w) \/ Persist(w) \/ Alter(w)
  \/ SuspendService(w) \/ ResumeService(w) \/ ReadEndpoint(w) \/ Stamp(w)
  \/ WriteFailed(w) \/ DropKey(w) \/ DropService(w) \/ DropRole(w)
  \/ DropSchema(w) \/ Unregister(w)

-----------------------------------------------------------------------------
(* Running a job.                                                          *)

\* Variant: the license secret goes before the service stops mounting it.
AfterKeyFirst(j) ==
  CASE j.op = "unlicense" /\ j.pc = "mark"    -> "dropKey"
    [] j.op = "unlicense" /\ j.pc = "dropKey" -> "persist"
    [] (j.op = "unlicense" /\ j.pc = "stamp") \/ j.pc \in {"fail", "giveUp"}
         -> "done"
    [] OTHER -> Flow[j.op][j.pc]

\* FAILED is a task's last word: "fail" and "giveUp" are in no Flow.
After(j) == IF j.pc \in {"fail", "giveUp"} THEN "done" ELSE Flow[j.op][j.pc]

Goto(w, j, pc) ==
  job' = [job EXCEPT ![w] = IF pc = "done" THEN NoJob
                                           ELSE [j EXCEPT !.pc = pc]]

Polls == {"awaitRunning", "awaitSuspended"}

RunsStatement(j) == j # NoJob /\ ~NothingToRun(j) /\ j.pc \notin Polls

Skip(w) ==
  /\ job[w] # NoJob /\ NothingToRun(job[w])
  /\ Goto(w, job[w], After(job[w]))
  /\ UNCHANGED <<db, lost, meter>>

Execute(w) ==
  LET j == job[w] IN
  /\ RunsStatement(j) /\ ~Refused(w)
  /\ \/ \E n \in j.todo :
          /\ WriteSecret(w, n)
          /\ job' = [job EXCEPT ![w] = [j EXCEPT !.todo = @ \ {n}]]
     \/ Statement(w) /\ Goto(w, j, After(j))
  /\ lost' = [lost EXCEPT ![j.app] =
                @ /\ j.pc \notin {"stamp", "fail", "giveUp"}]
  /\ UNCHANGED meter

\* What an exception at the job's present statement leads to.  Validity and
\* delete's steps swallow it, a task's "except" writes FAILED, and everywhere
\* else it ends the job: a request with a 500, a task without a word.
AfterError(j) ==
  CASE j.pc = "validity"                      -> After(j)
    [] j.op = "delete" /\ j.pc = "suspend"    -> "dropService"
    [] j.op = "delete" /\ j.pc \in Cleanup    -> After(j)
    [] Guarded(j) /\ j.pc # "validity"        -> "fail"
    [] OTHER                                  -> "done"

HandleError(w, ran) ==
  LET j == job[w]
      k == IF j.pc \in Cleanup THEN [j EXCEPT !.failed = @ \cup {j.pc}]
                               ELSE j
  IN  /\ Goto(w, k, AfterError(j))
      /\ lost' = [lost EXCEPT ![j.app] =
           \/ @
           \/ /\ AfterError(j) = "done"
              /\ InBackground(j) \/ (ran /\ j.pc = "mark")]

Refuse(w) ==
  /\ RunsStatement(job[w]) /\ Refused(w)
  /\ HandleError(w, FALSE)
  /\ UNCHANGED <<db, meter>>

Spend(kind) ==
  /\ kind \in FaultKinds /\ faults < MaxFaults
  /\ faults' = faults + 1
  /\ UNCHANGED <<requests, crashes, creates>>

FailStatement(w) ==
  /\ RunsStatement(job[w]) /\ ~Refused(w)
  /\ Spend(IF job[w].pc \in Registry THEN "registry" ELSE "object")
  /\ HandleError(w, FALSE)
  /\ UNCHANGED db

\* The statement ran and execute_sql raised all the same.
LoseReply(w) ==
  /\ RunsStatement(job[w]) /\ ~Refused(w)
  /\ Spend("reply")
  /\ Statement(w) \/ \E n \in job[w].todo : WriteSecret(w, n)
  /\ HandleError(w, TRUE)

Observe(w) ==
  LET j == job[w] IN
  /\ j # NoJob
  /\ \/ j.pc = "awaitRunning" /\ svc[j.app].status = "RUNNING"
     \/ j.pc = "awaitSuspended" /\ svc[j.app].status = "SUSPENDED"
  /\ Goto(w, j, After(j))
  /\ UNCHANGED <<db, lost, meter>>

\* A poll that nothing on its way will answer always ends by its deadline.
Hopeless(j) ==
  \/ /\ j.pc = "awaitRunning"
     /\ svc[j.app].status \notin {"PENDING", "RUNNING"}
  \/ /\ j.pc = "awaitSuspended"
     /\ svc[j.app].status \notin {"SUSPENDING", "SUSPENDED"}

\* Variants: a poll without a deadline; a time-out that is not written down.
WaitForever(w) == FALSE
TimeOutSilently(w) ==
  LET j == job[w] IN
  /\ j # NoJob /\ j.pc \in Polls
  /\ "timeout" \in FaultKinds \/ Hopeless(j)
  /\ Goto(w, j, IF j.op = "delete" THEN "dropService" ELSE "done")
  /\ UNCHANGED <<db, lost, meter>>

\* Delete goes on regardless; _run_deploy raises; the others write FAILED.
TimeOut(w) ==
  LET j == job[w] IN
  /\ j # NoJob /\ j.pc \in Polls
  /\ "timeout" \in FaultKinds \/ Hopeless(j)
  /\ Goto(w, j, CASE j.op = "delete" -> "dropService"
                  [] j.op = "restart" /\ j.pc = "awaitSuspended" -> "fail"
                  [] OTHER -> "giveUp")
  /\ UNCHANGED <<db, lost, meter>>

Step(w) ==
  \/ Skip(w) \/ Execute(w) \/ Refuse(w) \/ FailStatement(w) \/ LoseReply(w)
  \/ Observe(w) \/ TimeOut(w)

-----------------------------------------------------------------------------
(* Snowflake and the controller's own container.                           *)

Settle(a) ==
  /\ \/ /\ svc[a].status = "PENDING"
        /\ svc' = [svc EXCEPT ![a].status = "RUNNING"]
     \/ /\ svc[a].status = "SUSPENDING"
        /\ svc' = [svc EXCEPT ![a].status = "SUSPENDED"]
  /\ UNCHANGED <<rows, objs, secrets, access, job, lost, meter>>

ContainerDies(a) ==
  /\ svc[a].status = "RUNNING"
  /\ Spend("container")
  /\ svc' = [svc EXCEPT ![a].status = "PENDING"]
  /\ UNCHANGED <<rows, objs, secrets, access, job, lost>>

\* The controller restarts: no job survives it, and nothing resumes one.
Crash ==
  /\ crashes < MaxCrashes
  /\ crashes' = crashes + 1
  /\ \E w \in Workers : job[w] # NoJob
  /\ job' = [w \in Workers |-> NoJob]
  /\ lost' = [a \in Apps |->
                \/ lost[a]
                \/ \E w \in Workers : job[w] # NoJob /\ job[w].app = a
                                      /\ InBackground(job[w])]
  /\ UNCHANGED <<db, requests, faults, creates>>

\* Nothing to do until the next request.
AtRest == (\A w \in Workers : job[w] = NoJob) /\ UNCHANGED vars

Init ==
  /\ rows    = [a \in Apps |-> {}]
  /\ objs    = [a \in Apps |-> {}]
  /\ secrets = [a \in Apps |-> {}]
  /\ access  = [a \in Apps |-> {}]
  /\ svc     = [a \in Apps |-> NoService]
  /\ job     = [w \in Workers |-> NoJob]
  /\ lost    = [a \in Apps |-> FALSE]
  /\ requests = 0 /\ faults = 0 /\ crashes = 0
  /\ creates = [a \in Apps |-> 0]

Next ==
  \/ \E w \in Workers : Step(w) \/ \E a \in Apps : Request(w, a)
  \/ \E a \in Apps : Settle(a) \/ ContainerDies(a)
  \/ Crash
  \/ AtRest

Spec == Init /\ [][Next]_vars

\* A thread that can go on does: statements return or raise, and a poll ends
\* by its deadline.  Snowflake settles a service.  Nobody has to send requests.
Fairness ==
  /\ \A w \in Workers : WF_vars(Step(w))
  /\ \A a \in Apps : WF_vars(Settle(a))

FairSpec == Spec /\ Fairness

-----------------------------------------------------------------------------
(* Properties.                                                             *)

\* Every variable has its type.
TypeOK ==
  /\ rows \in [Apps -> SUBSET Row]
  /\ objs \in [Apps -> SUBSET InApp]
  /\ secrets \in [Apps -> SUBSET Names]
  /\ access \in [Apps -> SUBSET Accesses]
  /\ svc \in [Apps -> Service \cup {NoService}]
  /\ job \in [Workers -> Job \cup {NoJob}]
  /\ lost \in [Apps -> BOOLEAN]
  /\ requests \in Nat /\ faults \in Nat /\ crashes \in Nat
  /\ creates \in [Apps -> Nat]

\* A task of app a is running in the background.
TaskRunning(a) ==
  \E w \in Workers : job[w] # NoJob /\ job[w].app = a /\ InBackground(job[w])

\* A transient status, which switches the console's buttons off, always has a
\* task behind it, unless a task of that app ended without its closing write:
\* "Deploy stuck in DEPLOYING ... Background task failed and could not update
\* the registry" (mendix-spcs-howto.md:214), and nothing else does it.
StrandedOnlyByLostWrite ==
  \A a \in Apps : \A r \in rows[a] :
    r.status \in Transient => lost[a] \/ TaskRunning(a)

\* Every constant the registry or the service specification names has its
\* secret while the app's schema stands: neither a failure nor another task
\* leaves the three "out of step" (main.py:574-576, 646-648, 672-674).
SecretsBacked ==
  \A a \in Apps : "schema" \in objs[a] =>
    /\ \A r \in rows[a] : r.config.consts \subseteq secrets[a]
    /\ svc[a] # NoService => svc[a].config.consts \subseteq secrets[a]

\* A licensed specification mounts MX_LICENSE_KEY, so the secret is there:
\* _run_delete_license drops "the now-unused secret" (main.py:775-777).
LicenseKeyBacked ==
  \A a \in Apps :
    ("schema" \in objs[a] /\ svc[a] # NoService) =>
      (svc[a].config.lic # NoLicense => "licenseKey" \in objs[a])

\* A registry row goes only when service, role and schema are gone: "the row is
\* the operator's only handle for retrying" (main.py:876-880).
RowOutlivesResources ==
  [][\A a \in Apps : (rows[a] # {} /\ rows'[a] = {}) =>
       svc'[a] = NoService /\ objs'[a] = {} /\ access'[a] = {}]_vars

\* One app, one row, however many registrations race: nothing in the table
\* enforces it, CREATE SERVICE without IF NOT EXISTS does.
OneRowPerApp == \A a \in Apps : Cardinality(rows[a]) <= 1

\* Nothing runs for the app and it is READY: then the service it has mounts
\* every constant the registry shows.
ReadyMountsConstants ==
  \A a \in Apps : \A r \in rows[a] :
    (r.status = "READY" /\ \A w \in Workers : job[w] = NoJob) =>
      svc[a] # NoService /\ r.config.consts \subseteq svc[a].config.consts

\* Tasks that gave the service a new specification.
Altering == {"deploy", "constants", "spec", "license", "unlicense"}

\* The READY that w's job writes after it altered the service stands over a row
\* and a service that agree.
StampsInStep(w) ==
  (job[w] # NoJob /\ job[w].op \in Altering /\ job[w].pc = "stamp") =>
    \A r \in rows'[job[w].app] :
      (r.status = "READY" /\ job'[w] # job[w]) =>
        svc'[job[w].app] # NoService /\ svc'[job[w].app].config = r.config

\* When a task that altered the service writes READY, service and registry agree
\* on all that the operator configured, whatever earlier tasks left half done.
AlteredMeansInStep == [][\A w \in Workers : StampsInStep(w)]_vars

\* Every request is answered and every task it left ends.
JobsEnd == \A w \in Workers : job[w] # NoJob ~> job[w] = NoJob

\* A status the API calls transient does not last.
StatusSettles ==
  \A a \in Apps :
    (\E r \in rows[a] : r.status \in Transient)
      ~> (\A r \in rows[a] : r.status \notin Transient)

=============================================================================
