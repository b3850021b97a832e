------------------------ MODULE AppLifecycle_proofs -------------------------
(***************************************************************************)
(* Theorems about AppLifecycle, for any number of threads, apps, constants *)
(* and requests, and with every fault of Faults allowed.                   *)
(***************************************************************************)
EXTENDS AppLifecycle, TLAPS

Ops == {"create", "deploy", "restart", "constants", "spec", "license",
        "unlicense", "suspend", "resume", "delete"}

(***************************************************************************)
(* Facts about Flow, one operation at a time; Flow is not unfolded after   *)
(* them.                                                                   *)
(***************************************************************************)

\* The operations are those of the table.
LEMMA FlowOps == DOMAIN Flow = Ops
BY DEF Flow, Ops

\* The first and the next statement of a job are statements of its operation.
LEMMA FlowClosed ==
  ASSUME NEW op \in Ops
  PROVE  /\ First[op] \in DOMAIN Flow[op]
         /\ \A pc \in DOMAIN Flow[op] :
              Flow[op][pc] \in DOMAIN Flow[op] \cup {"done"}
<1>1. CASE op = "create"     BY <1>1 DEF Flow, First
<1>2. CASE op = "deploy"     BY <1>2 DEF Flow, First
<1>3. CASE op = "restart"    BY <1>3 DEF Flow, First
<1>4. CASE op = "constants"  BY <1>4 DEF Flow, First
<1>5. CASE op = "spec"       BY <1>5 DEF Flow, First
<1>6. CASE op = "license"    BY <1>6 DEF Flow, First
<1>7. CASE op = "unlicense"  BY <1>7 DEF Flow, First
<1>8. CASE op = "suspend"    BY <1>8 DEF Flow, First
<1>9. CASE op = "resume"     BY <1>9 DEF Flow, First
<1>10. CASE op = "delete"    BY <1>10 DEF Flow, First
<1> QED BY <1>1, <1>2, <1>3, <1>4, <1>5, <1>6, <1>7, <1>8, <1>9, <1>10 DEF Ops

\* A task ends its Flow by "stamp" or "dropKey", reaches "dropKey" only from
\* "stamp", and once past the handler's statements never returns to them.
LEMMA FlowTasks ==
  ASSUME NEW op \in Ops \ {"create", "delete"}, NEW pc \in DOMAIN Flow[op]
  PROVE  /\ Flow[op][pc] = "done" => pc \in {"stamp", "dropKey"}
         /\ Flow[op][pc] = "dropKey" => pc = "stamp"
         /\ pc \notin {"putSecrets", "licenseKey"} =>
              Flow[op][pc] \notin {"putSecrets", "licenseKey", "mark"}
<1>1. CASE op = "deploy"     BY <1>1 DEF Flow
<1>2. CASE op = "restart"    BY <1>2 DEF Flow
<1>3. CASE op = "constants"  BY <1>3 DEF Flow
<1>4. CASE op = "spec"       BY <1>4 DEF Flow
<1>5. CASE op = "license"    BY <1>5 DEF Flow
<1>6. CASE op = "unlicense"  BY <1>6 DEF Flow
<1>7. CASE op = "suspend"    BY <1>7 DEF Flow
<1>8. CASE op = "resume"     BY <1>8 DEF Flow
<1> QED BY <1>1, <1>2, <1>3, <1>4, <1>5, <1>6, <1>7, <1>8 DEF Ops

\* Only a task's statements include the registry writes of a task.
LEMMA FlowWrites ==
  ASSUME NEW op \in {"create", "delete"}
  PROVE  DOMAIN Flow[op] \cap {"mark", "persist", "stamp"} = {}
<1>1. CASE op = "create"  BY <1>1 DEF Flow
<1>2. CASE op = "delete"  BY <1>2 DEF Flow
<1> QED BY <1>1, <1>2

\* Delete, and no other operation, runs the cleanup steps.
LEMMA FlowDelete ==
  /\ {"suspend", "dropService", "awaitSuspended"} \subseteq Steps("delete")
  /\ "validity" \notin DOMAIN Flow["delete"]
BY DEF Flow, Steps

-----------------------------------------------------------------------------
(* Types.                                                                  *)

\* What a job record is made of.
LEMMA JobFields ==
  ASSUME NEW j \in Job
  PROVE  /\ j.op \in Ops /\ j.app \in Apps /\ j.id \in Nat
         /\ j.new \in Config /\ j.flip \in BOOLEAN
         /\ j.todo \in SUBSET Names /\ j.failed \in SUBSET Cleanup
         /\ j.pc \in Steps(j.op)
         /\ j # NoJob
<1>1. j.op \in Ops  BY FlowOps DEF Job
<1>2. j # NoJob     BY <1>1 DEF NoJob, Ops
<1> QED BY <1>1, <1>2 DEF Job

\* The statement after a job's present one, on success and on an error.
LEMMA AfterType ==
  ASSUME NEW j \in Job
  PROVE  /\ After(j) \in Steps(j.op) \cup {"done"}
         /\ AfterError(j) \in Steps(j.op) \cup {"done"}
<1>1. After(j) \in Steps(j.op) \cup {"done"}
  BY JobFields, FlowClosed DEF After, Steps
<1>2. j.op = "delete" => "dropService" \in Steps(j.op)
  BY FlowDelete
<1>3. "fail" \in Steps(j.op)
  BY DEF Steps
<1> QED BY <1>1, <1>2, <1>3 DEF AfterError

\* Moving a job on, or ending it, keeps the types of all jobs.
LEMMA GotoType ==
  ASSUME job \in [Workers -> Job \cup {NoJob}],
         NEW w \in Workers, NEW j \in Job,
         NEW pc \in Steps(j.op) \cup {"done"}, Goto(w, j, pc)
  PROVE  job' \in [Workers -> Job \cup {NoJob}]
<1>1. pc # "done" => [j EXCEPT !.pc = pc] \in Job
  BY FlowOps DEF Job
<1> QED BY <1>1 DEF Goto

\* An error handler keeps the types of the jobs and of the history.
LEMMA HandleErrorType ==
  ASSUME TypeOK, NEW w \in Workers, job[w] \in Job, NEW ran \in BOOLEAN,
         HandleError(w, ran)
  PROVE  /\ job' \in [Workers -> Job \cup {NoJob}]
         /\ lost' \in [Apps -> BOOLEAN]
<1> DEFINE j == job[w]
           k == IF j.pc \in Cleanup
                THEN [j EXCEPT !.failed = @ \cup {j.pc}] ELSE j
<1>1. j \in Job /\ k \in Job /\ k.op = j.op
  BY JobFields DEF Job
<1>2. Goto(w, k, AfterError(j))
  BY DEF HandleError
<1>3. AfterError(j) \in Steps(k.op) \cup {"done"}
  BY <1>1, AfterType
<1>4. job' \in [Workers -> Job \cup {NoJob}]
  <2> HIDE DEF k, j
  <2> QED BY <1>1, <1>2, <1>3, GotoType DEF TypeOK
<1>5. lost' \in [Apps -> BOOLEAN]
  BY DEF HandleError, TypeOK
<1> QED BY <1>4, <1>5

DbType ==
  /\ rows \in [Apps -> SUBSET Row]
  /\ objs \in [Apps -> SUBSET InApp]
  /\ secrets \in [Apps -> SUBSET Names]
  /\ access \in [Apps -> SUBSET Accesses]
  /\ svc \in [Apps -> Service \cup {NoService}]

\* The registry writes keep each row a row.
LEMMA RowTypes ==
  ASSUME NEW r \in Row, NEW j \in Job
  PROVE  /\ \A s \in Statuses : [r EXCEPT !.status = s] \in Row
         /\ Persisted(r, j) \in Row
         /\ Stamped(r, j) \in Row
<1> DEFINE c == r.config
<1>1. c \in Config /\ j.new \in Config
  BY JobFields DEF Row
<1>2. /\ [c EXCEPT !.consts = j.new.consts] \in Config
      /\ [c EXCEPT !.lic = j.new.lic] \in Config
      /\ [c EXCEPT !.tier = j.new.tier, !.caller = j.new.caller] \in Config
  BY <1>1 DEF Config
<1>3. \A s \in Statuses, d \in Config :
        [r EXCEPT !.status = s, !.config = d] \in Row
  BY DEF Row
<1>4. /\ [r EXCEPT !.config.lic = j.new.lic]
           = [r EXCEPT !.config = [c EXCEPT !.lic = j.new.lic]]
      /\ [r EXCEPT !.config.consts = j.new.consts]
           = [r EXCEPT !.config = [c EXCEPT !.consts = j.new.consts]]
  BY DEF Row
<1>5. \A d \in Config : [r EXCEPT !.config = d] \in Row
  BY DEF Row
<1>6. Persisted(r, j) \in Row
  BY <1>2, <1>4, <1>5 DEF Persisted
<1>7. EndStatus(j.op) \in Statuses
  BY DEF EndStatus, Statuses
<1>8. Stamped(r, j) \in Row
  <2>1. CASE j.op \in {"deploy", "restart"}
    BY <2>1, <1>2, <1>3, <1>7 DEF Stamped
  <2>2. CASE j.op = "spec"
    BY <2>2, <1>2, <1>3, <1>7 DEF Stamped
  <2>3. CASE j.op \notin {"deploy", "restart", "spec"}
    BY <2>3, <1>1, <1>3, <1>7 DEF Stamped
  <2> QED BY <2>1, <2>2, <2>3
<1>9. \A s \in Statuses : [r EXCEPT !.status = s] \in Row
  BY DEF Row
<1> QED BY <1>6, <1>8, <1>9

\* A statement keeps the types of what Snowflake holds.
LEMMA StatementType ==
  ASSUME DbType, NEW w \in Workers, job[w] \in Job, ~Refused(w),
         Statement(w) \/ \E n \in job[w].todo : WriteSecret(w, n)
  PROVE  DbType'
<1> DEFINE j == job[w]
           a == j.app
<1>0. /\ j \in Job /\ a \in Apps /\ j.new \in Config /\ j.todo \in SUBSET Names
      /\ j.id \in Nat
  BY JobFields
<1>1. CASE CreateInApp(w)
  BY <1>0, <1>1 DEF CreateInApp, DbType
<1>2. CASE CreateService(w)
  BY <1>0, <1>2 DEF CreateService, DbType, Service
<1>3. CASE GrantAccess(w)
  BY <1>0, <1>3 DEF GrantAccess, DbType
<1>4. CASE SetCallerValidity(w)
  <2>1. svc[a] \in Service
    BY <1>0, <1>4 DEF SetCallerValidity, Refused, NeedsService, DbType
  <2>2. [svc[a] EXCEPT !.validity = TRUE] \in Service
    BY <2>1 DEF Service
  <2>3. svc' = [svc EXCEPT ![a] = [svc[a] EXCEPT !.validity = TRUE]]
    BY <1>4 DEF SetCallerValidity
  <2> QED BY <1>0, <1>4, <2>2, <2>3 DEF SetCallerValidity, DbType
<1>5. CASE Insert(w)
  <2>1. [id |-> j.id, status |-> "NOT_DEPLOYED", config |-> j.new] \in Row
    BY <1>0 DEF Row, Statuses
  <2> QED BY <1>0, <1>5, <2>1 DEF Insert, DbType
<1>6. CASE Mark(w)
  <2>1. MarkStatus(j.op) \in Statuses
    BY DEF MarkStatus, Statuses, Transient
  <2>2. \A r \in rows[a] : [r EXCEPT !.status = MarkStatus(j.op)] \in Row
    BY <1>0, <2>1, RowTypes DEF DbType
  <2> QED BY <1>0, <1>6, <2>2 DEF Mark, DbType
<1>7. CASE Persist(w)
  <2>1. \A r \in rows[a] : Persisted(r, j) \in Row
    BY <1>0, RowTypes DEF DbType
  <2> QED BY <1>0, <1>7, <2>1 DEF Persist, DbType
<1>8. CASE Alter(w)
  <2>1. svc[a] \in Service
    BY <1>0, <1>8 DEF Alter, Refused, NeedsService, DbType
  <2>2. PICK status \in {svc[a].status, "PENDING"} :
          svc' = [svc EXCEPT ![a].config = j.new, ![a].status = status]
    BY <1>8 DEF Alter
  <2>3. svc' = [svc EXCEPT ![a] =
                  [svc[a] EXCEPT !.config = j.new, !.status = status]]
    BY <1>0, <2>2 DEF DbType
  <2>4. [svc[a] EXCEPT !.config = j.new, !.status = status] \in Service
    BY <1>0, <2>1 DEF Service
  <2> QED BY <1>0, <1>8, <2>3, <2>4 DEF Alter, DbType
<1>9. CASE SuspendService(w)
  <2>1. svc[a] \in Service
    BY <1>0, <1>9 DEF SuspendService, Refused, NeedsService, DbType
  <2>2. \A s \in {"SUSPENDED", "SUSPENDING"} :
          [svc[a] EXCEPT !.status = s] \in Service
    BY <2>1 DEF Service
  <2> QED BY <1>0, <1>9, <2>1, <2>2 DEF SuspendService, DbType
<1>10. CASE ResumeService(w)
  <2>1. svc[a] \in Service
    BY <1>0, <1>10 DEF ResumeService, Refused, NeedsService, DbType
  <2>2. \A s \in {"RUNNING", "PENDING"} :
          [svc[a] EXCEPT !.status = s] \in Service
    BY <2>1 DEF Service
  <2> QED BY <1>0, <1>10, <2>1, <2>2 DEF ResumeService, DbType
<1>11. CASE ReadEndpoint(w)
  BY <1>11 DEF ReadEndpoint, DbType, db
<1>12. CASE Stamp(w)
  <2>1. \A r \in rows[a] : Stamped(r, j) \in Row
    BY <1>0, RowTypes DEF DbType
  <2> QED BY <1>0, <1>12, <2>1 DEF Stamp, DbType
<1>13. CASE WriteFailed(w)
  <2>1. \A r \in rows[a] : [r EXCEPT !.status = "FAILED"] \in Row
    BY <1>0, RowTypes DEF DbType, Statuses
  <2> QED BY <1>0, <1>13, <2>1 DEF WriteFailed, DbType
<1>14. CASE DropKey(w)
  BY <1>0, <1>14 DEF DropKey, DbType
<1>15. CASE DropService(w)
  BY <1>0, <1>15 DEF DropService, DbType
<1>16. CASE DropRole(w)
  BY <1>0, <1>16 DEF DropRole, DbType
<1>17. CASE DropSchema(w)
  BY <1>0, <1>17 DEF DropSchema, DbType
<1>18. CASE Unregister(w)
  BY <1>0, <1>18 DEF Unregister, DbType
<1>19. CASE \E n \in j.todo : WriteSecret(w, n)
  BY <1>0, <1>19 DEF WriteSecret, DbType
<1> QED
  BY <1>1, <1>2, <1>3, <1>4, <1>5, <1>6, <1>7, <1>8, <1>9, <1>10, <1>11,
     <1>12, <1>13, <1>14, <1>15, <1>16, <1>17, <1>18, <1>19 DEF Statement

\* A request starts a job of the right type and changes nothing else.
LEMMA BeginType ==
  ASSUME TypeOK, NEW w \in Workers, NEW a \in Apps, NEW op \in Ops,
         NEW id \in Nat, NEW new \in Config, NEW flip \in BOOLEAN,
         NEW todo \in SUBSET Names, creates' \in [Apps -> Nat],
         Begin(w, a, op, id, new, flip, todo)
  PROVE  TypeOK'
<1> DEFINE j == [op |-> op, app |-> a, id |-> id, new |-> new, flip |-> flip,
                 pc |-> First[op], todo |-> todo, failed |-> {}]
<1>1. First[op] \in Steps(op)
  BY FlowClosed DEF Steps
<1>2. j \in Job
  BY <1>1, FlowOps DEF Job
<1>3. job' = [job EXCEPT ![w] = j]
  BY DEF Begin
<1>4. job' \in [Workers -> Job \cup {NoJob}]
  <2> HIDE DEF j
  <2> QED BY <1>2, <1>3 DEF TypeOK
<1> QED BY <1>4 DEF TypeOK, Begin, db

\* What a request's job starts from is a configuration.
LEMMA RequestType ==
  ASSUME TypeOK, NEW w \in Workers, NEW a \in Apps, Request(w, a)
  PROVE  TypeOK'
<1>0. \A r \in rows[a] : r \in Row /\ r.id \in Nat /\ r.config \in Config
  BY DEF TypeOK, Row
<1>a. {} \in SUBSET Names /\ FALSE \in BOOLEAN
  OBVIOUS
<1>b. RequestNames \subseteq Ops
  BY DEF RequestNames, Ops
<1>1. CASE Register(w, a)
  <2>1. PICK consts \in SUBSET Names, lic \in MaybeLicense,
             tier \in Tiers, caller \in Callers :
          Begin(w, a, "create", creates'[a],
                [consts |-> consts, lic |-> lic, tier |-> tier,
                 caller |-> caller],
                caller, consts)
    BY <1>1 DEF Register
  <2>2. creates' \in [Apps -> Nat] /\ creates'[a] \in Nat
    BY <1>1 DEF Register, TypeOK
  <2>3. caller \in BOOLEAN
    BY InputsAssumption
  <2>4. [consts |-> consts, lic |-> lic, tier |-> tier, caller |-> caller]
          \in Config
    BY <2>3 DEF Config
  <2> QED BY <2>1, <2>2, <2>3, <2>4, BeginType DEF Ops
<1>2. CASE TriggerDeploy(w, a)
  <2>1. PICK r \in rows[a], pad \in Pads :
          Begin(w, a, IF PadNames(pad) \subseteq r.config.consts
                      THEN "restart" ELSE "deploy", r.id,
                [r.config EXCEPT !.consts = r.config.consts \cup PadNames(pad)],
                FALSE, ToSync(pad, r.config.consts))
    BY <1>2 DEF TriggerDeploy
  <2>2. PadNames(pad) \subseteq Names
    BY DEF PadNames
  <2>3. ToSync(pad, r.config.consts) \in SUBSET Names
    BY <2>2 DEF ToSync
  <2>4. [r.config EXCEPT !.consts = r.config.consts \cup PadNames(pad)]
          \in Config
    BY <1>0, <2>2 DEF Config
  <2>5. creates' \in [Apps -> Nat]
    BY <1>2 DEF TriggerDeploy, TypeOK
  <2> QED BY <1>0, <2>1, <2>3, <2>4, <2>5, BeginType DEF Ops
<1>3. CASE UpdateConstants(w, a)
  <2>1. PICK r \in rows[a], given \in SUBSET Names, kept \in SUBSET Names :
          Begin(w, a, "constants", r.id,
                [r.config EXCEPT !.consts = r.config.consts \cup given \cup kept],
                FALSE, given)
    BY <1>3 DEF UpdateConstants
  <2>2. [r.config EXCEPT !.consts = r.config.consts \cup given \cup kept]
          \in Config
    BY <1>0 DEF Config
  <2>3. creates' \in [Apps -> Nat]
    BY <1>3 DEF UpdateConstants, TypeOK
  <2> QED BY <1>0, <1>a, <1>b, <2>1, <2>2, <2>3, BeginType DEF RequestNames
<1>4. CASE UpdateSpec(w, a)
  <2>1. PICK r \in rows[a], tier \in Tiers, caller \in Callers :
          Begin(w, a, "spec", r.id,
                [r.config EXCEPT !.tier = tier, !.caller = caller],
                ~r.config.caller /\ caller, {})
    BY <1>4 DEF UpdateSpec
  <2>2. [r.config EXCEPT !.tier = tier, !.caller = caller] \in Config
    BY <1>0, InputsAssumption DEF Config
  <2>3. (~r.config.caller /\ caller) \in BOOLEAN
    BY <1>0, InputsAssumption DEF Config
  <2>4. creates' \in [Apps -> Nat]
    BY <1>4 DEF UpdateSpec, TypeOK
  <2> QED BY <1>0, <1>a, <1>b, <2>1, <2>2, <2>3, <2>4, BeginType DEF RequestNames
<1>5. CASE UpdateLicense(w, a)
  <2>1. PICK r \in rows[a], lic \in Licenses :
          Begin(w, a, "license", r.id, [r.config EXCEPT !.lic = lic], FALSE, {})
    BY <1>5 DEF UpdateLicense
  <2>2. [r.config EXCEPT !.lic = lic] \in Config
    BY <1>0 DEF Config, MaybeLicense
  <2>3. creates' \in [Apps -> Nat]
    BY <1>5 DEF UpdateLicense, TypeOK
  <2> QED BY <1>0, <1>a, <1>b, <2>1, <2>2, <2>3, BeginType DEF RequestNames
<1>6. CASE DeleteLicense(w, a)
  <2>1. PICK r \in rows[a] :
          Begin(w, a, "unlicense", r.id, [r.config EXCEPT !.lic = NoLicense],
                FALSE, {})
    BY <1>6 DEF DeleteLicense
  <2>2. [r.config EXCEPT !.lic = NoLicense] \in Config
    BY <1>0 DEF Config, MaybeLicense
  <2>3. creates' \in [Apps -> Nat]
    BY <1>6 DEF DeleteLicense, TypeOK
  <2> QED BY <1>0, <1>a, <1>b, <2>1, <2>2, <2>3, BeginType DEF RequestNames
<1>7. CASE \E op \in {"suspend", "resume", "delete"} : Plain(w, a, op)
  <2>1. PICK op \in {"suspend", "resume", "delete"} : Plain(w, a, op)
    BY <1>7
  <2>2. PICK r \in rows[a] : Begin(w, a, op, r.id, r.config, FALSE, {})
    BY <2>1 DEF Plain
  <2>3. creates' \in [Apps -> Nat]
    BY <2>1 DEF Plain, TypeOK
  <2> QED BY <1>0, <1>a, <1>b, <2>2, <2>3, BeginType DEF RequestNames
<1> QED BY <1>1, <1>2, <1>3, <1>4, <1>5, <1>6, <1>7 DEF Request

\* Every way a job moves on keeps the types.
LEMMA StepType ==
  ASSUME TypeOK, NEW w \in Workers, Step(w)
  PROVE  TypeOK'
<1> DEFINE j == job[w]
<1>0. j \in Job /\ j.app \in Apps
  <2>1. j # NoJob
    BY DEF Step, Skip, Execute, Refuse, FailStatement, LoseReply, Observe,
           TimeOut, RunsStatement
  <2> QED BY <2>1, JobFields DEF TypeOK
<1>1. DbType
  BY DEF TypeOK, DbType
<1>2. CASE Skip(w)
  <2>1. job' \in [Workers -> Job \cup {NoJob}]
    BY <1>0, <1>2, AfterType, GotoType DEF Skip, TypeOK
  <2> QED BY <1>2, <2>1 DEF Skip, TypeOK, db, meter
<1>3. CASE Execute(w)
  <2>1. DbType'
    BY <1>0, <1>1, <1>3, StatementType DEF Execute
  <2>2. job' \in [Workers -> Job \cup {NoJob}]
    <3>1. CASE \E n \in j.todo :
                 job' = [job EXCEPT ![w] = [j EXCEPT !.todo = @ \ {n}]]
      <4>1. PICK n \in j.todo :
              job' = [job EXCEPT ![w] = [j EXCEPT !.todo = @ \ {n}]]
        BY <3>1
      <4>2. [j EXCEPT !.todo = @ \ {n}] \in Job
        BY <1>0 DEF Job
      <4> QED BY <4>1, <4>2 DEF TypeOK
    <3>2. CASE Goto(w, j, After(j))
      BY <1>0, <3>2, AfterType, GotoType DEF TypeOK
    <3> QED BY <1>3, <3>1, <3>2 DEF Execute
  <2>3. lost' \in [Apps -> BOOLEAN] /\ UNCHANGED meter
    BY <1>3 DEF Execute, TypeOK
  <2> QED BY <2>1, <2>2, <2>3 DEF TypeOK, DbType, meter
<1>4. CASE Refuse(w)
  <2>1. job' \in [Workers -> Job \cup {NoJob}] /\ lost' \in [Apps -> BOOLEAN]
    BY <1>0, <1>4, HandleErrorType DEF Refuse
  <2> QED BY <1>4, <2>1 DEF Refuse, TypeOK, db, meter
<1>5. CASE FailStatement(w)
  <2>1. job' \in [Workers -> Job \cup {NoJob}] /\ lost' \in [Apps -> BOOLEAN]
    BY <1>0, <1>5, HandleErrorType DEF FailStatement
  <2> QED BY <1>5, <2>1 DEF FailStatement, Spend, TypeOK, db
<1>6. CASE LoseReply(w)
  <2>1. job' \in [Workers -> Job \cup {NoJob}] /\ lost' \in [Apps -> BOOLEAN]
    BY <1>0, <1>6, HandleErrorType DEF LoseReply
  <2>2. DbType'
    BY <1>0, <1>1, <1>6, StatementType DEF LoseReply
  <2> QED BY <1>6, <2>1, <2>2 DEF LoseReply, Spend, TypeOK, DbType
<1>7. CASE Observe(w)
  <2>1. job' \in [Workers -> Job \cup {NoJob}]
    BY <1>0, <1>7, AfterType, GotoType DEF Observe, TypeOK
  <2> QED BY <1>7, <2>1 DEF Observe, TypeOK, db, meter
<1>8. CASE TimeOut(w)
  <2> DEFINE pc == CASE j.op = "delete" -> "dropService"
                     [] j.op = "restart" /\ j.pc = "awaitSuspended" -> "fail"
                     [] OTHER -> "giveUp"
  <2>1. pc \in Steps(j.op) \cup {"done"}
    BY FlowDelete DEF Steps
  <2>2. Goto(w, j, pc)
    BY <1>8 DEF TimeOut
  <2>3. job' \in [Workers -> Job \cup {NoJob}]
    <3> HIDE DEF pc
    <3> QED BY <1>0, <2>1, <2>2, GotoType DEF TypeOK
  <2> QED BY <1>8, <2>3 DEF TimeOut, TypeOK, db, meter
<1> QED BY <1>2, <1>3, <1>4, <1>5, <1>6, <1>7, <1>8 DEF Step

\* Snowflake and a crash of the controller keep the types.
LEMMA EnvironmentType ==
  ASSUME TypeOK,
         (\E a \in Apps : Settle(a) \/ ContainerDies(a)) \/ Crash
  PROVE  TypeOK'
<1>1. ASSUME NEW a \in Apps, Settle(a) \/ ContainerDies(a)
      PROVE  TypeOK'
  <2>1. svc[a] \in Service
    BY <1>1 DEF Settle, ContainerDies, TypeOK, NoService
  <2>2. \A s \in {"RUNNING", "SUSPENDED", "PENDING"} :
          [svc[a] EXCEPT !.status = s] \in Service
    BY <2>1 DEF Service
  <2>3. \E s \in {"RUNNING", "SUSPENDED", "PENDING"} :
          svc' = [svc EXCEPT ![a].status = s]
    BY <1>1 DEF Settle, ContainerDies
  <2>4. svc' \in [Apps -> Service \cup {NoService}]
    BY <2>2, <2>3 DEF TypeOK
  <2> QED BY <1>1, <2>4 DEF Settle, ContainerDies, Spend, TypeOK, meter
<1>2. CASE Crash
  BY <1>2 DEF Crash, TypeOK, db
<1> QED BY <1>1, <1>2

\* Every reachable state is well typed.
THEOREM TypeCorrect == Spec => []TypeOK
<1>1. Init => TypeOK
  BY DEF Init, TypeOK
<1>2. TypeOK /\ [Next]_vars => TypeOK'
  <2> SUFFICES ASSUME TypeOK, [Next]_vars PROVE TypeOK'
    OBVIOUS
  <2>1. CASE \E w \in Workers : Step(w) \/ \E a \in Apps : Request(w, a)
    BY <2>1, StepType, RequestType
  <2>2. CASE (\E a \in Apps : Settle(a) \/ ContainerDies(a)) \/ Crash
    BY <2>2, EnvironmentType
  <2>3. CASE AtRest \/ UNCHANGED vars
    BY <2>3 DEF AtRest, vars, TypeOK
  <2> QED BY <2>1, <2>2, <2>3 DEF Next
<1> QED BY <1>1, <1>2, PTL DEF Spec

-----------------------------------------------------------------------------
(* StrandedOnlyByLostWrite.  It is not inductive as it stands: the task    *)
(* that removes a license has one statement left, "dropKey", after the one *)
(* that writes READY, so while it runs it owes the app no status.          *)

Owing(j) == j # NoJob /\ InBackground(j) /\ j.pc # "dropKey"

Owed(a) == \E w \in Workers : job[w].app = a /\ Owing(job[w])

StrandedInv ==
  \A a \in Apps : \A r \in rows[a] :
    r.status \in Transient => lost[a] \/ Owed(a)

Closing == {"stamp", "fail", "giveUp"}

\* A row turns transient only by "mark", and no row of the app is transient
\* after the closing write of a task.
LEMMA TransientRows ==
  ASSUME DbType, NEW w \in Workers, job[w] \in Job,
         Statement(w) \/ \E n \in job[w].todo : WriteSecret(w, n),
         NEW b \in Apps, NEW s \in rows'[b], s.status \in Transient
  PROVE  \/ b = job[w].app /\ job[w].pc = "mark"
         \/ /\ \E r \in rows[b] : r.status \in Transient
            /\ ~(b = job[w].app /\ job[w].pc \in Closing)
<1> DEFINE j == job[w]
           a == j.app
<1>0. j \in Job /\ a \in Apps
  BY JobFields
<1>1. CASE /\ rows' = rows
           /\ j.pc \notin Closing
  BY <1>1
<1>2. CASE Insert(w)
  <2>1. b = a => rows'[b] = rows[b] \cup
          {[id |-> j.id, status |-> "NOT_DEPLOYED", config |-> j.new]}
    BY <1>0, <1>2 DEF Insert, DbType
  <2>2. b # a => rows'[b] = rows[b]
    BY <1>0, <1>2 DEF Insert, DbType
  <2>3. s \in rows[b]
    BY <2>1, <2>2 DEF Transient
  <2> QED BY <1>2, <2>3 DEF Insert, Closing
<1>3. CASE Mark(w)
  BY <1>0, <1>3 DEF Mark, DbType, Closing
<1>4. CASE Persist(w)
  <2>1. ASSUME NEW r \in Row PROVE Persisted(r, j).status = r.status
    BY DEF Persisted, Row
  <2>2. b = a => rows'[b] = {Persisted(r, j) : r \in rows[b]}
    BY <1>0, <1>4 DEF Persist, DbType
  <2>3. b # a => rows'[b] = rows[b]
    BY <1>0, <1>4 DEF Persist, DbType
  <2>4. rows[b] \subseteq Row
    BY DEF DbType
  <2>5. \E r \in rows[b] : r.status = s.status
    BY <2>1, <2>2, <2>3, <2>4
  <2> QED BY <1>4, <2>5 DEF Persist, Closing
<1>5. CASE Stamp(w)
  <2>1. ASSUME NEW r \in Row PROVE Stamped(r, j).status \notin Transient
    BY DEF Stamped, EndStatus, Row, Transient
  <2>2. b = a => rows'[b] = {Stamped(r, j) : r \in rows[b]}
    BY <1>0, <1>5 DEF Stamp, DbType
  <2>3. b # a => rows'[b] = rows[b]
    BY <1>0, <1>5 DEF Stamp, DbType
  <2>4. rows[b] \subseteq Row
    BY DEF DbType
  <2> QED BY <2>1, <2>2, <2>3, <2>4
<1>6. CASE WriteFailed(w)
  <2>1. ASSUME NEW r \in Row
        PROVE  [r EXCEPT !.status = "FAILED"].status \notin Transient
    BY DEF Row, Transient
  <2>2. b = a => rows'[b] = {[r EXCEPT !.status = "FAILED"] : r \in rows[b]}
    BY <1>0, <1>6 DEF WriteFailed, DbType
  <2>3. b # a => rows'[b] = rows[b]
    BY <1>0, <1>6 DEF WriteFailed, DbType
  <2>4. rows[b] \subseteq Row
    BY DEF DbType
  <2> QED BY <2>1, <2>2, <2>3, <2>4
<1>7. CASE Unregister(w)
  <2>1. b # a /\ rows'[b] = rows[b]
    BY <1>0, <1>7 DEF Unregister, DbType
  <2> QED BY <2>1
<1>8. \/ Insert(w) \/ Mark(w) \/ Persist(w) \/ Stamp(w) \/ WriteFailed(w)
      \/ Unregister(w)
      \/ rows' = rows /\ j.pc \notin Closing
  BY DEF Statement, CreateInApp, CreateService, GrantAccess,
     SetCallerValidity, Alter, SuspendService, ResumeService, ReadEndpoint,
     DropKey, DropService, DropRole, DropSchema, WriteSecret, Closing, InApp,
     Accesses, db
<1> QED BY <1>1, <1>2, <1>3, <1>4, <1>5, <1>6, <1>7, <1>8

\* A job that owes a status still owes it after any other statement, and owes
\* it once it has marked the app.
LEMMA KeepsOwing ==
  ASSUME NEW j \in Job, Owing(j) \/ j.pc = "mark", j.pc \notin Closing
  PROVE  After(j) # "done" /\ Owing([j EXCEPT !.pc = After(j)])
<1> DEFINE k == [j EXCEPT !.pc = After(j)]
<1>0. j.op \in Ops /\ j.pc \in Steps(j.op)
  BY JobFields
<1>1. j.pc \in DOMAIN Flow[j.op] /\ After(j) = Flow[j.op][j.pc]
  BY <1>0 DEF Steps, Closing, After
<1>2. j.op \in Ops \ {"create", "delete"} /\ j.op \in Tasks
  BY <1>0, <1>1, FlowOps, FlowWrites DEF Owing, InBackground, Tasks
<1>3. /\ j.pc \notin {"stamp", "dropKey", "putSecrets", "licenseKey"}
  BY DEF Owing, InBackground, Closing
<1>4. After(j) \notin {"done", "dropKey", "putSecrets", "licenseKey", "mark"}
  BY <1>1, <1>2, <1>3, FlowTasks
<1>5. k.op = j.op /\ k.pc = After(j)
  BY <1>0 DEF Job
<1>6. k # NoJob
  BY <1>0, <1>5 DEF NoJob, Ops
<1> QED BY <1>2, <1>4, <1>5, <1>6 DEF Owing, InBackground

\* The same for an error: an owing job goes on owing, or is recorded in lost.
LEMMA ErrorOwing ==
  ASSUME TypeOK, NEW w \in Workers, job[w] \in Job, NEW ran \in BOOLEAN,
         HandleError(w, ran)
  PROVE  /\ \A b \in Apps : lost[b] => lost'[b]
         /\ Owing(job[w]) =>
              \/ lost'[job[w].app]
              \/ Owing(job'[w]) /\ job'[w].app = job[w].app
         /\ ran /\ job[w].pc = "mark" => lost'[job[w].app]
         /\ \A v \in Workers \ {w} : job'[v] = job[v]
<1> DEFINE j == job[w]
           k == IF j.pc \in Cleanup
                THEN [j EXCEPT !.failed = @ \cup {j.pc}] ELSE j
           pc == AfterError(j)
<1>0. j \in Job /\ j.app \in Apps /\ j.op \in Ops /\ j.pc \in Steps(j.op)
  BY JobFields
<1>1. Goto(w, k, pc)
  BY DEF HandleError
<1>2. lost' = [lost EXCEPT ![j.app] =
                 \/ @
                 \/ /\ pc = "done"
                    /\ InBackground(j) \/ (ran /\ j.pc = "mark")]
  BY DEF HandleError
<1>3. /\ lost'[j.app] = (\/ lost[j.app]
                         \/ /\ pc = "done"
                            /\ InBackground(j) \/ (ran /\ j.pc = "mark"))
      /\ \A b \in Apps \ {j.app} : lost'[b] = lost[b]
  BY <1>0, <1>2 DEF TypeOK
<1>4. \A b \in Apps : lost[b] => lost'[b]
  BY <1>3
<1>5. ASSUME j.pc = "mark" PROVE pc = "done"
  <2>1. j.op # "delete"
    BY <1>0, <1>5, FlowWrites DEF Steps
  <2>2. ~Guarded(j)
    BY <1>5 DEF Guarded, InBackground
  <2> QED BY <1>5, <2>1, <2>2 DEF AfterError
<1>6. k.app = j.app /\ k.op = j.op /\ k \in Job
  BY <1>0 DEF Job
<1>7. ASSUME Owing(j), pc # "done"
      PROVE  Owing(job'[w]) /\ job'[w].app = j.app
  <2>1. job'[w] = [k EXCEPT !.pc = pc]
    BY <1>1, <1>7 DEF Goto, TypeOK
  <2>2. j.op # "delete" /\ j.op \in Tasks
    BY <1>7 DEF Owing, InBackground, Tasks
  <2>3. pc = "fail" \/ (j.pc = "validity" /\ pc = After(j))
    BY <1>7, <2>2 DEF AfterError
  <2>4. pc \notin {"putSecrets", "licenseKey", "mark", "dropKey"}
    <3>1. CASE pc = "fail"
      BY <3>1
    <3>2. CASE j.pc = "validity" /\ pc = After(j)
      <4>1. j.op \in Ops \ {"create", "delete"}
        BY <1>0, <2>2 DEF Tasks
      <4>2. j.pc \in DOMAIN Flow[j.op] /\ pc = Flow[j.op][j.pc]
        BY <1>0, <3>2 DEF Steps, After
      <4> QED BY <3>2, <4>1, <4>2, FlowTasks
    <3> QED BY <2>3, <3>1, <3>2
  <2>5. /\ job'[w].op = j.op /\ job'[w].pc = pc /\ job'[w].app = j.app
    <3> HIDE DEF pc, k, j
    <3> QED BY <1>6, <2>1 DEF Job
  <2>6. job'[w] # NoJob
    BY <1>0, <2>5 DEF NoJob, Ops
  <2> QED BY <2>2, <2>4, <2>5, <2>6 DEF Owing, InBackground
<1>8. Owing(j) => InBackground(j)
  BY DEF Owing
<1>9. \A v \in Workers \ {w} : job'[v] = job[v]
  BY <1>1 DEF Goto, TypeOK
<1> QED BY <1>3, <1>4, <1>5, <1>7, <1>8, <1>9

\* Every way a job moves on keeps StrandedInv.
LEMMA StepStranded ==
  ASSUME TypeOK, StrandedInv, NEW w \in Workers, Step(w)
  PROVE  StrandedInv'
<1> DEFINE j == job[w]
           a == j.app
<1>0. j \in Job /\ j.app \in Apps /\ DbType
  <2>1. j # NoJob
    BY DEF Step, Skip, Execute, Refuse, FailStatement, LoseReply, Observe,
           TimeOut, RunsStatement
  <2> QED BY <2>1, JobFields DEF TypeOK, DbType
\* It is enough that what was owed is owed, or recorded as lost.
<1>1. ASSUME \A v \in Workers \ {w} : job'[v] = job[v],
             \A b \in Apps : rows'[b] = rows[b],
             \A b \in Apps : lost[b] => lost'[b],
             Owing(j) => \/ lost'[a]
                         \/ Owing(job'[w]) /\ job'[w].app = a
      PROVE  StrandedInv'
  <2> SUFFICES ASSUME NEW b \in Apps, NEW r \in rows[b],
                      r.status \in Transient
               PROVE  lost'[b] \/ Owed(b)'
    BY <1>1 DEF StrandedInv
  <2>1. CASE lost[b]
    BY <1>1, <2>1
  <2>2. CASE Owed(b)
    <3>1. PICK v \in Workers : job[v].app = b /\ Owing(job[v])
      BY <2>2 DEF Owed
    <3>2. CASE v = w
      BY <1>1, <3>1, <3>2 DEF Owed, Owing, InBackground
    <3>3. CASE v # w
      BY <1>1, <3>1, <3>3 DEF Owed, Owing, InBackground
    <3> QED BY <3>2, <3>3
  <2> QED BY <2>1, <2>2 DEF StrandedInv
<1>2. ASSUME NEW pc \in Steps(j.op), Goto(w, j, pc),
             UNCHANGED <<db, lost>>, pc # "done",
             Owing(j) => Owing([j EXCEPT !.pc = pc])
      PROVE  StrandedInv'
  <2>1. job'[w] = [j EXCEPT !.pc = pc]
        /\ \A v \in Workers \ {w} : job'[v] = job[v]
    BY <1>2 DEF Goto, TypeOK
  <2>2. job'[w].app = a
    BY <1>0, <2>1 DEF Job
  <2>3. Owing(j) => Owing(job'[w])
    BY <1>2, <2>1 DEF Owing, InBackground
  <2> QED BY <1>1, <1>2, <2>1, <2>2, <2>3 DEF db
<1>3. CASE Skip(w) \/ Observe(w)
  <2>1. /\ Goto(w, j, After(j)) /\ UNCHANGED <<db, lost>>
        /\ j.pc \notin Closing
    BY <1>3 DEF Skip, Observe, NothingToRun, Closing
  <2>2. CASE After(j) = "done"
    <3>1. ~Owing(j)
      BY <1>0, <2>1, <2>2, KeepsOwing
    <3>2. \A v \in Workers \ {w} : job'[v] = job[v]
      BY <2>1 DEF Goto, TypeOK
    <3> QED BY <1>1, <2>1, <3>1, <3>2 DEF db
  <2>3. CASE After(j) # "done"
    <3>1. After(j) \in Steps(j.op)
      BY <1>0, <2>3, AfterType
    <3>2. Owing(j) => Owing([j EXCEPT !.pc = After(j)])
      BY <1>0, <2>1, KeepsOwing
    <3> QED BY <1>2, <2>1, <2>3, <3>1, <3>2
  <2> QED BY <2>2, <2>3
<1>4. CASE TimeOut(w)
  <2>1. PICK pc : /\ Goto(w, j, pc)
                  /\ IF j.op = "delete" THEN pc = "dropService"
                                        ELSE pc \in {"fail", "giveUp"}
    BY <1>4 DEF TimeOut
  <2>2. UNCHANGED <<db, lost>> /\ pc # "done"
    BY <1>4, <2>1 DEF TimeOut
  <2>3. pc \in Steps(j.op)
    BY <2>1, FlowDelete DEF Steps
  <2>4. ASSUME Owing(j) PROVE Owing([j EXCEPT !.pc = pc])
    <3> DEFINE k == [j EXCEPT !.pc = pc]
    <3>1. j.op \in Tasks /\ pc \in {"fail", "giveUp"}
      BY <2>1, <2>4 DEF Owing, InBackground, Tasks
    <3>2. k.op = j.op /\ k.pc = pc
      BY <1>0 DEF Job
    <3>3. k # NoJob
      BY <1>0, <3>2, JobFields DEF NoJob, Ops
    <3> QED BY <3>1, <3>2, <3>3 DEF Owing, InBackground
  <2> QED BY <1>2, <2>1, <2>2, <2>3, <2>4
<1>5. CASE Refuse(w) \/ FailStatement(w)
  <2>1. HandleError(w, FALSE) /\ UNCHANGED db
    BY <1>5 DEF Refuse, FailStatement
  <2>2. FALSE \in BOOLEAN
    OBVIOUS
  <2> QED BY <1>0, <1>1, <2>1, <2>2, ErrorOwing DEF db
<1>6. CASE LoseReply(w)
  <2>1. /\ HandleError(w, TRUE)
        /\ Statement(w) \/ \E n \in j.todo : WriteSecret(w, n)
    BY <1>6 DEF LoseReply
  <2>2. TRUE \in BOOLEAN
    OBVIOUS
  <2> SUFFICES ASSUME NEW b \in Apps, NEW s \in rows'[b],
                      s.status \in Transient
               PROVE  lost'[b] \/ Owed(b)'
    BY DEF StrandedInv
  <2>3. CASE b = a /\ j.pc = "mark"
    BY <1>0, <2>1, <2>2, <2>3, ErrorOwing
  <2>4. CASE \E r \in rows[b] : r.status \in Transient
    <3>1. CASE lost[b]
      BY <1>0, <2>1, <2>2, <3>1, ErrorOwing
    <3>2. CASE Owed(b)
      <4>1. PICK v \in Workers : job[v].app = b /\ Owing(job[v])
        BY <3>2 DEF Owed
      <4>2. CASE v = w
        BY <1>0, <2>1, <2>2, <4>1, <4>2, ErrorOwing
           DEF Owed, Owing, InBackground
      <4>3. CASE v # w
        <5>1. job'[v] = job[v]
          BY <1>0, <2>1, <2>2, <4>3, ErrorOwing
        <5> QED BY <4>1, <5>1 DEF Owed, Owing, InBackground
      <4> QED BY <4>2, <4>3
    <3> QED BY <2>4, <3>1, <3>2 DEF StrandedInv
  <2> QED BY <1>0, <2>1, <2>3, <2>4, TransientRows
<1>7. CASE Execute(w)
  <2>1. /\ Statement(w) \/ \E n \in j.todo : WriteSecret(w, n)
        /\ lost' = [lost EXCEPT ![a] = @ /\ j.pc \notin Closing]
    BY <1>7 DEF Execute, Closing
  <2>2. \A v \in Workers \ {w} : job'[v] = job[v]
    BY <1>7 DEF Execute, Goto, TypeOK
  <2>3. \A b \in Apps : lost[b] /\ ~(b = a /\ j.pc \in Closing) => lost'[b]
    BY <1>0, <2>1 DEF TypeOK
  <2>4. ASSUME Owing(j) \/ j.pc = "mark", j.pc \notin Closing
        PROVE  Owing(job'[w]) /\ job'[w].app = a
    <3>1. CASE \E n \in j.todo :
                 /\ WriteSecret(w, n)
                 /\ job' = [job EXCEPT ![w] = [j EXCEPT !.todo = @ \ {n}]]
      <4>1. PICK n \in j.todo :
              job' = [job EXCEPT ![w] = [j EXCEPT !.todo = @ \ {n}]]
        BY <3>1
      <4>2. j.pc # "mark"
        BY <3>1 DEF WriteSecret
      <4> DEFINE k == [j EXCEPT !.todo = @ \ {n}]
      <4>3. job'[w] = k
        BY <4>1 DEF TypeOK
      <4>4. k.op = j.op /\ k.pc = j.pc /\ k.app = a
        BY <1>0 DEF Job
      <4>5. k # NoJob
        BY <1>0, <4>4, JobFields DEF NoJob, Ops
      <4> QED BY <2>4, <4>2, <4>3, <4>4, <4>5 DEF Owing, InBackground
    <3>2. CASE Goto(w, j, After(j))
      <4>1. After(j) # "done" /\ Owing([j EXCEPT !.pc = After(j)])
        BY <1>0, <2>4, KeepsOwing
      <4>2. job'[w] = [j EXCEPT !.pc = After(j)]
        BY <3>2, <4>1 DEF Goto, TypeOK
      <4>3. job'[w].app = a
        BY <1>0, <4>2 DEF Job
      <4> QED BY <4>1, <4>2, <4>3 DEF Owing, InBackground
    <3> QED BY <1>7, <3>1, <3>2 DEF Execute
  <2> SUFFICES ASSUME NEW b \in Apps, NEW s \in rows'[b],
                      s.status \in Transient
               PROVE  lost'[b] \/ Owed(b)'
    BY DEF StrandedInv
  <2>5. CASE b = a /\ j.pc = "mark"
    <3>1. j.pc \notin Closing
      BY <2>5 DEF Closing
    <3> QED BY <2>4, <2>5, <3>1 DEF Owed, Owing, InBackground
  <2>6. CASE /\ \E r \in rows[b] : r.status \in Transient
             /\ ~(b = a /\ j.pc \in Closing)
    <3>1. CASE lost[b]
      BY <2>3, <2>6, <3>1
    <3>2. CASE Owed(b)
      <4>1. PICK v \in Workers : job[v].app = b /\ Owing(job[v])
        BY <3>2 DEF Owed
      <4>2. CASE v = w
        BY <2>4, <2>6, <4>1, <4>2 DEF Owed, Owing, InBackground
      <4>3. CASE v # w
        <5>1. job'[v] = job[v]
          BY <2>2, <4>3
        <5> QED BY <4>1, <5>1 DEF Owed, Owing, InBackground
      <4> QED BY <4>2, <4>3
    <3> QED BY <2>6, <3>1, <3>2 DEF StrandedInv
  <2> QED BY <1>0, <2>1, <2>5, <2>6, TransientRows
<1> QED BY <1>3, <1>4, <1>5, <1>6, <1>7 DEF Step

\* Snowflake changes no row; a crash records what was owed.
LEMMA EnvironmentStranded ==
  ASSUME TypeOK, StrandedInv,
         (\E a \in Apps : Settle(a) \/ ContainerDies(a)) \/ Crash
  PROVE  StrandedInv'
<1>1. CASE \E a \in Apps : Settle(a) \/ ContainerDies(a)
  BY <1>1 DEF Settle, ContainerDies, Spend, StrandedInv, Owed, Owing,
              InBackground
<1>2. CASE Crash
  <2> SUFFICES ASSUME NEW b \in Apps, NEW r \in rows[b],
                      r.status \in Transient
               PROVE  lost'[b]
    BY <1>2 DEF Crash, StrandedInv, db
  <2>1. lost'[b] = (\/ lost[b]
                    \/ \E w \in Workers : job[w] # NoJob /\ job[w].app = b
                                          /\ InBackground(job[w]))
    BY <1>2 DEF Crash
  <2> QED BY <2>1 DEF StrandedInv, Owed, Owing
<1> QED BY <1>1, <1>2

\* A new request takes on an idle thread and touches no row.
LEMMA RequestStranded ==
  ASSUME TypeOK, StrandedInv, NEW w \in Workers, NEW a \in Apps,
         Request(w, a)
  PROVE  StrandedInv'
<1>1. /\ job[w] = NoJob /\ UNCHANGED <<rows, lost>>
      /\ \A v \in Workers \ {w} : job'[v] = job[v]
  BY DEF Request, Register, TriggerDeploy, UpdateConstants, UpdateSpec,
         UpdateLicense, DeleteLicense, Plain, Begin, TypeOK, db
<1> SUFFICES ASSUME NEW b \in Apps, NEW r \in rows[b],
                    r.status \in Transient
             PROVE  lost'[b] \/ Owed(b)'
  BY <1>1 DEF StrandedInv
<1>2. CASE lost[b]
  BY <1>1, <1>2
<1>3. CASE Owed(b)
  <2>1. PICK v \in Workers : job[v].app = b /\ Owing(job[v])
    BY <1>3 DEF Owed
  <2>2. v # w
    BY <1>1, <2>1 DEF Owing
  <2> QED BY <1>1, <2>1, <2>2 DEF Owed, Owing, InBackground
<1> QED BY <1>2, <1>3 DEF StrandedInv

\* The strengthened invariant of every reachable state.
LEMMA Stranded == Spec => []StrandedInv
<1>1. Init => StrandedInv
  BY DEF Init, StrandedInv
<1>2. TypeOK /\ StrandedInv /\ [Next]_vars => StrandedInv'
  <2> SUFFICES ASSUME TypeOK, StrandedInv, [Next]_vars PROVE StrandedInv'
    OBVIOUS
  <2>1. CASE \E w \in Workers : Step(w) \/ \E a \in Apps : Request(w, a)
    BY <2>1, StepStranded, RequestStranded
  <2>2. CASE (\E a \in Apps : Settle(a) \/ ContainerDies(a)) \/ Crash
    BY <2>2, EnvironmentStranded
  <2>3. CASE AtRest \/ UNCHANGED vars
    BY <2>3 DEF AtRest, vars, StrandedInv, Owed, Owing, InBackground
  <2> QED BY <2>1, <2>2, <2>3 DEF Next
<1> QED BY <1>1, <1>2, TypeCorrect, PTL DEF Spec

\* Whatever interleaves, fails, times out or crashes: a transient status is
\* always backed by a running task or explained by a lost closing write.
THEOREM NoSilentStranding == Spec => []StrandedOnlyByLostWrite
<1>1. StrandedInv => StrandedOnlyByLostWrite
  BY DEF StrandedInv, StrandedOnlyByLostWrite, Owed, Owing, TaskRunning
<1> QED BY <1>1, Stranded, PTL

-----------------------------------------------------------------------------
(***************************************************************************)
(* What one step does to each variable, without the tables Flow and First: *)
(* the proofs of Registration_proofs and Configuration_proofs start here.  *)
(***************************************************************************)

\* The statement of w's job runs.
Ran(w) ==
  /\ ~NothingToRun(job[w]) /\ ~Refused(w)
  /\ Statement(w) \/ \E n \in job[w].todo : WriteSecret(w, n)

\* What a registry write makes of a row.
Written(r, j) ==
  CASE j.pc = "mark"    -> [r EXCEPT !.status = MarkStatus(j.op)]
    [] j.pc = "persist" -> Persisted(r, j)
    [] j.pc = "stamp"   -> Stamped(r, j)
    [] j.pc \in {"fail", "giveUp"} -> [r EXCEPT !.status = "FAILED"]
    [] OTHER            -> r

\* The effect of a statement on the rows, by what the job's pc says.
LEMMA RowsWritten ==
  ASSUME TypeOK, NEW w \in Workers, job[w] \in Job,
         Statement(w) \/ \E n \in job[w].todo : WriteSecret(w, n)
  PROVE  LET j == job[w]
             a == job[w].app
         IN  /\ \A b \in Apps \ {a} : rows'[b] = rows[b]
             /\ j.pc = "insert" =>
                  rows'[a] = rows[a] \cup {[id |-> j.id, config |-> j.new,
                                            status |-> "NOT_DEPLOYED"]}
             /\ j.pc = "unregister" => rows'[a] = {}
             /\ j.pc \notin {"insert", "unregister"} =>
                  /\ \A s \in rows'[a] : \E r \in rows[a] : s = Written(r, j)
                  /\ \A r \in rows[a] : Written(r, j) \in rows'[a]
<1> DEFINE j == job[w]
           a == job[w].app
           Writes == {"insert", "mark", "persist", "stamp", "fail", "giveUp",
                      "unregister"}
<1>1. a \in Apps /\ rows \in [Apps -> SUBSET Row]
  BY JobFields DEF TypeOK
<1>2. CASE Insert(w)      BY <1>1, <1>2 DEF Insert
<1>3. CASE Unregister(w)  BY <1>1, <1>3 DEF Unregister
<1>4. CASE Mark(w)
  <2>1. /\ \A b \in Apps \ {a} : rows'[b] = rows[b]
        /\ rows'[a] = {[r EXCEPT !.status = MarkStatus(j.op)] : r \in rows[a]}
    BY <1>1, <1>4 DEF Mark
  <2> DEFINE marked(r) == [r EXCEPT !.status = MarkStatus(j.op)]
  <2>2. \A r : Written(r, j) = marked(r)
    BY <1>4 DEF Mark, Written
  <2>3. rows'[a] = {marked(r) : r \in rows[a]}
    BY <2>1
  <2> HIDE DEF marked
  <2> QED BY <1>4, <2>1, <2>2, <2>3 DEF Mark
<1>5. CASE Persist(w)
  <2>1. /\ \A b \in Apps \ {a} : rows'[b] = rows[b]
        /\ rows'[a] = {Persisted(r, j) : r \in rows[a]}
    BY <1>1, <1>5 DEF Persist
  <2>2. \A r : Written(r, j) = Persisted(r, j)
    BY <1>5 DEF Persist, Written
  <2> QED BY <1>5, <2>1, <2>2 DEF Persist
<1>6. CASE Stamp(w)
  <2>1. /\ \A b \in Apps \ {a} : rows'[b] = rows[b]
        /\ rows'[a] = {Stamped(r, j) : r \in rows[a]}
    BY <1>1, <1>6 DEF Stamp
  <2>2. \A r : Written(r, j) = Stamped(r, j)
    BY <1>6 DEF Stamp, Written
  <2> QED BY <1>6, <2>1, <2>2 DEF Stamp
<1>7. CASE WriteFailed(w)
  <2>1. /\ \A b \in Apps \ {a} : rows'[b] = rows[b]
        /\ rows'[a] = {[r EXCEPT !.status = "FAILED"] : r \in rows[a]}
    BY <1>1, <1>7 DEF WriteFailed
  <2> DEFINE failed(r) == [r EXCEPT !.status = "FAILED"]
  <2>2. \A r : Written(r, j) = failed(r)
    BY <1>7 DEF WriteFailed, Written
  <2>3. rows'[a] = {failed(r) : r \in rows[a]} /\ j.pc \in {"fail", "giveUp"}
    BY <1>7, <2>1 DEF WriteFailed
  <2> HIDE DEF failed
  <2> QED BY <2>1, <2>2, <2>3
<1>8. CASE rows' = rows /\ j.pc \notin Writes
  <2>1. \A r : Written(r, j) = r
    BY <1>8 DEF Written
  <2> QED BY <1>8, <2>1
<1>9. \/ Insert(w) \/ Mark(w) \/ Persist(w) \/ Stamp(w) \/ WriteFailed(w)
      \/ Unregister(w)
      \/ rows' = rows /\ j.pc \notin Writes
  BY DEF Statement, CreateInApp, CreateService, GrantAccess,
     SetCallerValidity, Alter, SuspendService, ResumeService, ReadEndpoint,
     DropKey, DropService, DropRole, DropSchema, WriteSecret, InApp,
     Accesses, db
<1> QED BY <1>2, <1>3, <1>4, <1>5, <1>6, <1>7, <1>8, <1>9

\* What a write leaves of the row, field by field.
LEMMA WrittenFields ==
  ASSUME NEW r \in Row, NEW j \in Job
  PROVE  LET s == Written(r, j)
             c == r.config
             d == Written(r, j).config
         IN  /\ s \in Row /\ c \in Config /\ d \in Config /\ j.new \in Config
             /\ d.lic = IF j.pc = "persist" /\ j.op \in {"license", "unlicense"}
                        THEN j.new.lic ELSE c.lic
             /\ d.consts = IF \/ j.pc = "persist" /\ j.op \notin {"license", "unlicense"}
                              \/ j.pc = "stamp" /\ j.op \in {"deploy", "restart"}
                           THEN j.new.consts ELSE c.consts
             /\ j.pc = "stamp" /\ j.op = "spec" =>
                  d.tier = j.new.tier /\ d.caller = j.new.caller
             /\ ~(j.pc = "stamp" /\ j.op = "spec") =>
                  d.tier = c.tier /\ d.caller = c.caller
             /\ j.pc \notin {"mark", "stamp", "fail", "giveUp"} => s.status = r.status
             /\ j.pc = "mark" => s.status \in Transient
             /\ j.pc \in {"stamp", "fail", "giveUp"} => s.status \notin Transient
<1> DEFINE c == r.config
           n == j.new
           s == Written(r, j)
<1>1. c \in Config /\ n \in Config /\ r.status \in Statuses
  BY JobFields DEF Row
<1>2. MarkStatus(j.op) \in Statuses \cap Transient
  BY DEF MarkStatus, Transient, Statuses
<1>3. CASE j.pc \in {"mark", "fail", "giveUp"}
  <2>1. \E st \in Statuses : /\ s = [r EXCEPT !.status = st]
                             /\ st \in Transient <=> j.pc = "mark"
    BY <1>2, <1>3 DEF Written, Statuses, Transient
  <2>2. PICK st \in Statuses : /\ s = [r EXCEPT !.status = st]
                               /\ st \in Transient <=> j.pc = "mark"
    BY <2>1
  <2>3. s \in Row /\ s.config = c /\ s.status = st
    BY <2>2 DEF Row
  <2> HIDE DEF s
  <2> QED BY <1>1, <1>3, <2>2, <2>3 DEF s
<1>4. CASE j.pc = "persist"
  <2> DEFINE d == IF j.op \in {"license", "unlicense"}
                  THEN [c EXCEPT !.lic = n.lic] ELSE [c EXCEPT !.consts = n.consts]
  <2>1. s = [r EXCEPT !.config = d]
    BY <1>4 DEF Written, Persisted, Row
  <2>2. /\ d \in Config /\ d.tier = c.tier /\ d.caller = c.caller
        /\ d.lic = IF j.op \in {"license", "unlicense"} THEN n.lic ELSE c.lic
        /\ d.consts = IF j.op \in {"license", "unlicense"} THEN c.consts ELSE n.consts
    BY <1>1 DEF Config
  <2>3. s \in Row /\ s.config = d /\ s.status = r.status
    <3> HIDE DEF s, d
    <3> QED BY <2>1, <2>2 DEF Row
  <2> HIDE DEF s, d
  <2> QED BY <1>1, <1>4, <2>2, <2>3 DEF s
<1>5. CASE j.pc = "stamp"
  <2> DEFINE d == CASE j.op \in {"deploy", "restart"} -> [c EXCEPT !.consts = n.consts]
                    [] j.op = "spec" -> [c EXCEPT !.tier = n.tier, !.caller = n.caller]
                    [] OTHER -> c
  <2>1. s = [r EXCEPT !.status = EndStatus(j.op), !.config = d]
    BY <1>5 DEF Written, Stamped
  <2>2. /\ d \in Config /\ d.lic = c.lic
        /\ j.op = "spec" => d.tier = n.tier /\ d.caller = n.caller
        /\ j.op # "spec" => d.tier = c.tier /\ d.caller = c.caller
        /\ d.consts = IF j.op \in {"deploy", "restart"} THEN n.consts ELSE c.consts
    BY <1>1 DEF Config
  <2>3. EndStatus(j.op) \in Statuses /\ EndStatus(j.op) \notin Transient
    BY DEF EndStatus, Statuses, Transient
  <2>4. s \in Row /\ s.config = d /\ s.status = EndStatus(j.op)
    <3> HIDE DEF s, d
    <3> QED BY <2>1, <2>2, <2>3 DEF Row
  <2> HIDE DEF s, d
  <2> QED BY <1>1, <1>5, <2>2, <2>3, <2>4 DEF s
<1>6. CASE j.pc \notin {"mark", "persist", "stamp", "fail", "giveUp"}
  <2>1. s = r
    BY <1>6 DEF Written
  <2> HIDE DEF s
  <2> QED BY <1>1, <1>6, <2>1 DEF s
<1> QED BY <1>3, <1>4, <1>5, <1>6

\* On the schema with its fixed objects, and on the secrets of the constants.
LEMMA ObjectsOf ==
  ASSUME TypeOK, NEW w \in Workers, job[w] \in Job,
         Statement(w) \/ \E n \in job[w].todo : WriteSecret(w, n)
  PROVE  LET j == job[w]
             a == job[w].app
         IN  /\ \A b \in Apps \ {a} : objs'[b] = objs[b] /\ secrets'[b] = secrets[b]
             /\ j.pc \notin InApp \cup {"dropKey", "dropSchema"} => objs' = objs
             /\ j.pc \in InApp => objs'[a] = objs[a] \cup {j.pc}
             /\ j.pc = "dropKey" => objs'[a] = objs[a] \ {"licenseKey"}
             /\ j.pc = "dropSchema" => objs'[a] = {} /\ secrets'[a] = {}
             /\ j.pc # "dropSchema" => secrets[a] \subseteq secrets'[a]
<1>1. /\ job[w].app \in Apps /\ objs \in [Apps -> SUBSET InApp]
      /\ secrets \in [Apps -> SUBSET Names]
  BY JobFields DEF TypeOK
<1>2. CASE CreateInApp(w) BY <1>1, <1>2 DEF CreateInApp, InApp
<1>3. CASE DropKey(w)     BY <1>1, <1>3 DEF DropKey, InApp
<1>4. CASE DropSchema(w)  BY <1>1, <1>4 DEF DropSchema, InApp
<1>5. CASE \E n \in job[w].todo : WriteSecret(w, n)
  BY <1>1, <1>5 DEF WriteSecret, InApp
<1>6. \/ CreateInApp(w) \/ DropKey(w) \/ DropSchema(w)
      \/ \E n \in job[w].todo : WriteSecret(w, n)
      \/ /\ objs' = objs /\ secrets' = secrets
         /\ job[w].pc \notin InApp \cup {"dropKey", "dropSchema"}
  BY DEF Statement, CreateService, GrantAccess, Insert, Mark, Persist, Stamp,
     SetCallerValidity, Alter, SuspendService, ResumeService, ReadEndpoint,
     WriteFailed, Unregister, DropService, DropRole, InApp, Accesses, db
<1> QED BY <1>2, <1>3, <1>4, <1>5, <1>6

\* On the role and the grants of its endpoint.
LEMMA AccessOf ==
  ASSUME TypeOK, NEW w \in Workers, job[w] \in Job,
         Statement(w) \/ \E n \in job[w].todo : WriteSecret(w, n)
  PROVE  LET j == job[w]
             a == job[w].app
         IN  /\ \A b \in Apps \ {a} : access'[b] = access[b]
             /\ j.pc \notin Accesses => access'[a] \subseteq access[a]
             /\ j.pc = "dropService" => access'[a] \subseteq {"role"}
             /\ j.pc = "dropRole" => access'[a] = access[a] \ {"role", "userGrant"}
<1>1. job[w].app \in Apps /\ access \in [Apps -> SUBSET Accesses]
  BY JobFields DEF TypeOK
<1>2. CASE GrantAccess(w) BY <1>1, <1>2 DEF GrantAccess, Accesses
<1>3. CASE DropService(w) BY <1>1, <1>3 DEF DropService, Accesses
<1>4. CASE DropRole(w)    BY <1>1, <1>4 DEF DropRole, Accesses
<1>5. \/ GrantAccess(w) \/ DropService(w) \/ DropRole(w)
      \/ /\ access' = access
         /\ job[w].pc \notin Accesses \cup {"dropService", "dropRole"}
  BY DEF Statement, CreateInApp, CreateService, Insert, Mark, Persist, Stamp,
     SetCallerValidity, Alter, SuspendService, ResumeService, ReadEndpoint,
     WriteFailed, Unregister, DropKey, DropSchema, WriteSecret, InApp,
     Accesses, db
<1> QED BY <1>2, <1>3, <1>4, <1>5

\* On the service: whether there is one, and what it was configured with.
LEMMA ServiceOf ==
  ASSUME TypeOK, NEW w \in Workers, job[w] \in Job, ~Refused(w),
         Statement(w) \/ \E n \in job[w].todo : WriteSecret(w, n)
  PROVE  LET j == job[w]
             a == job[w].app
         IN  /\ \A b \in Apps \ {a} : svc'[b] = svc[b]
             /\ j.pc \notin {"service", "alter", "dropService"} =>
                  /\ svc'[a] = NoService <=> svc[a] = NoService
                  /\ svc[a] # NoService => svc'[a].config = svc[a].config
             /\ j.pc = "service" => svc[a] = NoService
             /\ j.pc = "alter" => svc[a] # NoService
             /\ j.pc \in {"service", "alter"} =>
                  svc'[a] # NoService /\ svc'[a].config = j.new
             /\ j.pc = "dropService" => svc'[a] = NoService
<1>1. job[w].app \in Apps /\ svc \in [Apps -> Service \cup {NoService}]
  BY JobFields DEF TypeOK
<1>2. NoService \notin Service /\ \A s \in Service : s.status # "NONE"
  BY DEF NoService, Service
<1> DEFINE a == job[w].app
<1>3. CASE CreateService(w)
  <2>1. svc'[a] # NoService /\ svc'[a].config = job[w].new
    BY <1>1, <1>3 DEF CreateService, NoService
  <2> QED BY <1>1, <1>3, <2>1 DEF CreateService, Refused
<1>4. CASE Alter(w)
  <2>1. svc[a] \in Service
    BY <1>1, <1>4 DEF Alter, Refused, NeedsService
  <2>2. PICK status \in {svc[a].status, "PENDING"} :
          svc' = [svc EXCEPT ![a].config = job[w].new, ![a].status = status]
    BY <1>4 DEF Alter
  <2>3. svc'[a] = [svc[a] EXCEPT !.config = job[w].new, !.status = status]
        /\ \A b \in Apps \ {a} : svc'[b] = svc[b]
    BY <1>1, <2>2
  <2>4. svc'[a].config = job[w].new /\ svc'[a].status \in {svc[a].status, "PENDING"}
    BY <2>1, <2>3 DEF Service
  <2>5. svc'[a] # NoService /\ svc[a] # NoService
    BY <1>2, <2>1, <2>4 DEF NoService
  <2> QED BY <1>4, <2>3, <2>4, <2>5 DEF Alter
<1>5. CASE SetCallerValidity(w) \/ SuspendService(w) \/ ResumeService(w)
  <2>1. svc[a] \in Service
    BY <1>1, <1>5 DEF SetCallerValidity, SuspendService, ResumeService,
                      Refused, NeedsService
  <2>2. \/ svc'[a] = [svc[a] EXCEPT !.validity = TRUE]
        \/ \E s \in {"SUSPENDED", "SUSPENDING", "RUNNING", "PENDING"} :
             svc'[a] = [svc[a] EXCEPT !.status = s]
    BY <1>1, <1>5 DEF SetCallerValidity, SuspendService, ResumeService
  <2>3. svc'[a] \in Service /\ svc'[a].config = svc[a].config
    BY <2>1, <2>2 DEF Service
  <2>4. \A b \in Apps \ {a} : svc'[b] = svc[b]
    BY <1>1, <1>5 DEF SetCallerValidity, SuspendService, ResumeService
  <2> QED
    BY <1>2, <1>5, <2>1, <2>3, <2>4
       DEF SetCallerValidity, SuspendService, ResumeService
<1>6. CASE DropService(w) BY <1>1, <1>6 DEF DropService
<1>7. \/ CreateService(w) \/ Alter(w) \/ SetCallerValidity(w)
      \/ SuspendService(w) \/ ResumeService(w) \/ DropService(w)
      \/ svc' = svc /\ job[w].pc \notin {"service", "alter", "dropService"}
  BY DEF Statement, CreateInApp, GrantAccess, Insert, Mark, Persist, Stamp,
     ReadEndpoint, WriteFailed, Unregister, DropKey, DropRole, DropSchema,
     WriteSecret, InApp, Accesses, db
<1> QED BY <1>3, <1>4, <1>5, <1>6, <1>7

(***************************************************************************)
(* What one step does to the job of its thread.                            *)
(***************************************************************************)

\* Which operations a statement belongs to.
LEMMA FlowOwners ==
  ASSUME NEW op \in Ops, NEW pc \in DOMAIN Flow[op]
  PROVE  /\ pc \in (InApp \ {"licenseKey"}) \cup Accesses \cup {"service", "insert"}
              => op = "create"
         /\ pc = "licenseKey" => op \in {"create", "license"}
         /\ pc \in Cleanup \cup {"unregister"} => op = "delete"
         /\ pc = "dropKey" => op = "unlicense"
         /\ pc \in Polls => op # "create"
         /\ pc = "validity" => op \in {"create", "spec"}
         /\ pc = "persist" => op \in {"deploy", "constants", "license", "unlicense"}
         /\ pc = "alter" => op \in Altering
         /\ pc \in {"mark", "stamp"} => op \in Tasks
<1>0. Tasks = Ops \ {"create", "delete"}
  BY FlowOps DEF Tasks
<1> USE <1>0 DEF InApp, Accesses, Cleanup, Polls, Altering
<1>1. CASE op = "create"     BY <1>1 DEF Flow
<1>2. CASE op = "deploy"     BY <1>2 DEF Flow
<1>3. CASE op = "restart"    BY <1>3 DEF Flow
<1>4. CASE op = "constants"  BY <1>4 DEF Flow
<1>5. CASE op = "spec"       BY <1>5 DEF Flow
<1>6. CASE op = "license"    BY <1>6 DEF Flow
<1>7. CASE op = "unlicense"  BY <1>7 DEF Flow
<1>8. CASE op = "suspend"    BY <1>8 DEF Flow
<1>9. CASE op = "resume"     BY <1>9 DEF Flow
<1>10. CASE op = "delete"    BY <1>10 DEF Flow
<1> QED BY <1>1, <1>2, <1>3, <1>4, <1>5, <1>6, <1>7, <1>8, <1>9, <1>10 DEF Ops

\* What one step of w's thread can do to its job: write one of the secrets it
\* has to write, go on to the next statement of its flow, or recover from an
\* error.  In the last two "todo" stays as it is.
Continues(w) ==
  /\ job'[w].op = job[w].op /\ job'[w].app = job[w].app
  /\ job'[w].id = job[w].id /\ job'[w].new = job[w].new

WritesOne(w) ==
  /\ job'[w].pc = job[w].pc /\ job'[w].failed = job[w].failed
  /\ \E n \in job[w].todo :
       WriteSecret(w, n) /\ job'[w].todo = job[w].todo \ {n}

Advances(w) ==
  /\ job'[w].pc = After(job[w]) /\ job'[w].failed = job[w].failed
  /\ job'[w].todo = job[w].todo
  /\ \/ Ran(w) /\ Statement(w)
     \/ UNCHANGED db /\ (NothingToRun(job[w]) \/ job[w].pc \in Polls)

Recovers(w) ==
  /\ job'[w].todo = job[w].todo
  /\ \/ InBackground(job[w]) /\ job'[w].pc \in {"fail", "giveUp"}
     \/ job[w].pc = "validity" /\ job'[w].pc = After(job[w])
     \/ /\ job[w].op = "delete" /\ job[w].pc \in {"suspend", "awaitSuspended"}
        /\ job'[w].pc = "dropService"
     \/ /\ job[w].op = "delete" /\ job[w].pc \in Cleanup
        /\ job'[w].pc = After(job[w]) /\ job[w].pc \in job'[w].failed

StepShape(w) ==
  /\ \A v \in Workers \ {w} : job'[v] = job[v]
  /\ UNCHANGED creates
  /\ UNCHANGED db \/ Ran(w)
  /\ job'[w] # NoJob =>
       Continues(w) /\ (WritesOne(w) \/ Advances(w) \/ Recovers(w))

\* A job record after Goto.
LEMMA GotoRecord ==
  ASSUME TypeOK, NEW w \in Workers, NEW j \in Job, NEW pc, Goto(w, j, pc)
  PROVE  /\ \A v \in Workers \ {w} : job'[v] = job[v]
         /\ pc = "done" => job'[w] = NoJob
         /\ pc # "done" =>
              /\ job'[w] # NoJob
              /\ job'[w].op = j.op /\ job'[w].app = j.app /\ job'[w].id = j.id
              /\ job'[w].new = j.new /\ job'[w].todo = j.todo
              /\ job'[w].failed = j.failed /\ job'[w].pc = pc
<1>1. [j EXCEPT !.pc = pc].op \in Ops
  BY JobFields DEF Job
<1> QED BY <1>1 DEF Goto, TypeOK, NoJob, Ops, Job

\* An error ends the job or makes it recover.
LEMMA ErrorShape ==
  ASSUME TypeOK, NEW w \in Workers, job[w] \in Job, NEW ran \in BOOLEAN,
         HandleError(w, ran)
  PROVE  /\ \A v \in Workers \ {w} : job'[v] = job[v]
         /\ job'[w] # NoJob => Continues(w) /\ Recovers(w)
<1> DEFINE j == job[w]
           k == IF j.pc \in Cleanup THEN [j EXCEPT !.failed = @ \cup {j.pc}] ELSE j
           pc == AfterError(j)
<1>0. /\ j \in Job /\ j.op \in Ops /\ j.pc \in DOMAIN Flow[j.op] \cup {"fail", "giveUp"}
  BY JobFields DEF Steps
<1>1. /\ k \in Job /\ k.op = j.op /\ k.app = j.app /\ k.id = j.id /\ k.new = j.new
      /\ k.todo = j.todo
      /\ j.pc \in Cleanup => j.pc \in k.failed
      /\ j.pc \notin Cleanup => k.failed = j.failed
  BY JobFields DEF Job
<1>2. Goto(w, k, pc)
  BY DEF HandleError
<1>3. j.pc \in Cleanup => j.op = "delete"
  BY <1>0, FlowOwners DEF Cleanup
<1>4. pc # "done" =>
        \/ Guarded(j) /\ pc = "fail"
        \/ j.pc = "validity" /\ pc = After(j)
        \/ j.op = "delete" /\ j.pc = "suspend" /\ pc = "dropService"
        \/ j.op = "delete" /\ j.pc \in Cleanup /\ pc = After(j)
  BY DEF AfterError
<1> HIDE DEF k, pc
<1>5. /\ \A v \in Workers \ {w} : job'[v] = job[v]
      /\ pc = "done" => job'[w] = NoJob
      /\ pc # "done" =>
           /\ job'[w].op = k.op /\ job'[w].app = k.app /\ job'[w].id = k.id
           /\ job'[w].new = k.new /\ job'[w].todo = k.todo
           /\ job'[w].failed = k.failed /\ job'[w].pc = pc
  BY <1>1, <1>2, GotoRecord
<1>6. SUFFICES ASSUME job'[w] # NoJob PROVE Continues(w) /\ Recovers(w)
  BY <1>5
<1>7. pc # "done"
  BY <1>5, <1>6
<1>8. Continues(w) /\ job'[w].todo = job[w].todo /\ job'[w].pc = pc
      /\ (j.pc \in Cleanup => j.pc \in job'[w].failed)
  BY <1>1, <1>5, <1>7 DEF Continues
<1> QED BY <1>4, <1>7, <1>8 DEF Recovers, Guarded

\* A step of a thread is of one of these shapes, and what it changes of
\* Snowflake and the registry its statement changed.
LEMMA StepHasShape ==
  ASSUME TypeOK, NEW w \in Workers, Step(w)
  PROVE  job[w] \in Job /\ StepShape(w)
<1> DEFINE j == job[w]
<1>0. j \in Job
  <2>1. j # NoJob
    BY DEF Step, Skip, Execute, Refuse, FailStatement, LoseReply, Observe,
           TimeOut, RunsStatement
  <2> QED BY <2>1 DEF TypeOK
<1>1. /\ j \in Job /\ j.op \in Ops /\ j # NoJob
      /\ j.pc \in DOMAIN Flow[j.op] \cup {"fail", "giveUp"}
  BY <1>0, JobFields DEF Steps
<1>2. CASE Skip(w) \/ Observe(w)
  <2>1. /\ Goto(w, j, After(j)) /\ UNCHANGED <<db, creates>>
        /\ NothingToRun(j) \/ j.pc \in Polls
    BY <1>2 DEF Skip, Observe, meter, Polls
  <2>2. /\ \A v \in Workers \ {w} : job'[v] = job[v]
        /\ job'[w] # NoJob => Continues(w) /\ Advances(w)
    BY <1>1, <2>1, GotoRecord DEF Continues, Advances
  <2> QED BY <1>1, <2>1, <2>2 DEF StepShape
<1>3. CASE Execute(w)
  <2>1. /\ UNCHANGED creates
        /\ Ran(w)
    BY <1>3 DEF Execute, meter, Ran, RunsStatement
  <2>2. CASE \E n \in j.todo :
               /\ WriteSecret(w, n)
               /\ job' = [job EXCEPT ![w] = [j EXCEPT !.todo = @ \ {n}]]
    <3>1. PICK n \in j.todo :
            /\ WriteSecret(w, n)
            /\ job' = [job EXCEPT ![w] = [j EXCEPT !.todo = @ \ {n}]]
      BY <2>2
    <3>2. /\ job'[w] = [j EXCEPT !.todo = @ \ {n}]
          /\ \A v \in Workers \ {w} : job'[v] = job[v]
      BY <3>1 DEF TypeOK
    <3>3. Continues(w) /\ WritesOne(w)
      BY <1>1, <3>1, <3>2 DEF Continues, WritesOne, Job
    <3> QED BY <1>1, <2>1, <3>2, <3>3 DEF StepShape
  <2>3. CASE Statement(w) /\ Goto(w, j, After(j))
    <3>1. /\ \A v \in Workers \ {w} : job'[v] = job[v]
          /\ job'[w] # NoJob => Continues(w) /\ Advances(w)
      BY <1>1, <2>1, <2>3, GotoRecord DEF Continues, Advances
    <3> QED BY <1>1, <2>1, <3>1 DEF StepShape
  <2> QED BY <1>3, <2>2, <2>3 DEF Execute
<1>4. CASE Refuse(w) \/ FailStatement(w)
  <2>1. HandleError(w, FALSE) /\ UNCHANGED <<db, creates>>
    BY <1>4 DEF Refuse, FailStatement, Spend, meter
  <2>2. FALSE \in BOOLEAN
    OBVIOUS
  <2> QED BY <1>1, <2>1, <2>2, ErrorShape DEF StepShape
<1>5. CASE LoseReply(w)
  <2>1. HandleError(w, TRUE) /\ UNCHANGED creates /\ Ran(w)
    BY <1>5 DEF LoseReply, Spend, Ran, RunsStatement
  <2>2. TRUE \in BOOLEAN
    OBVIOUS
  <2> QED BY <1>1, <2>1, <2>2, ErrorShape DEF StepShape
<1>6. CASE TimeOut(w)
  <2> DEFINE pc == CASE j.op = "delete" -> "dropService"
                     [] j.op = "restart" /\ j.pc = "awaitSuspended" -> "fail"
                     [] OTHER -> "giveUp"
  <2>1. Goto(w, j, pc) /\ UNCHANGED <<db, creates>> /\ j.pc \in Polls
    BY <1>6 DEF TimeOut, meter
  <2>2. j.op # "create"
    BY <1>1, <2>1, FlowOwners DEF Polls
  <2>3. \/ j.op = "delete" /\ j.pc = "awaitSuspended" /\ pc = "dropService"
        \/ j.op # "delete" /\ pc \in {"fail", "giveUp"}
    <3>1. "awaitRunning" \notin DOMAIN Flow["delete"]
      BY DEF Flow
    <3> QED BY <1>1, <2>1, <3>1 DEF Polls
  <2>4. j.op # "delete" => InBackground(j)
    BY <1>1, <2>1, <2>2, FlowOps DEF InBackground, Tasks, Polls
  <2> HIDE DEF pc
  <2>5. /\ \A v \in Workers \ {w} : job'[v] = job[v]
        /\ job'[w] # NoJob => Continues(w) /\ Recovers(w)
    BY <1>1, <2>1, <2>3, <2>4, GotoRecord DEF Continues, Recovers
  <2> QED BY <1>1, <2>1, <2>5 DEF StepShape
<1> QED BY <1>1, <1>2, <1>3, <1>4, <1>5, <1>6 DEF Step

(***************************************************************************)
(* What Snowflake, a crash and a new request do.                           *)
(***************************************************************************)

\* What Snowflake does by itself: no service comes, goes or is configured.
LEMMA SettleShape ==
  ASSUME TypeOK, \E a \in Apps : Settle(a) \/ ContainerDies(a)
  PROVE  /\ UNCHANGED <<rows, objs, secrets, access, job, creates>>
         /\ \A b \in Apps : /\ svc'[b] = NoService <=> svc[b] = NoService
                            /\ svc[b] # NoService => svc'[b].config = svc[b].config
<1>1. PICK a \in Apps : Settle(a) \/ ContainerDies(a)
  OBVIOUS
<1>2. \A s \in Service : s # NoService
  BY DEF NoService, Service
<1>3. svc[a] \in Service
  BY <1>1 DEF Settle, ContainerDies, TypeOK, NoService
<1>4. PICK st \in {"PENDING", "RUNNING", "SUSPENDED"} :
        svc' = [svc EXCEPT ![a].status = st]
  BY <1>1 DEF Settle, ContainerDies
<1>5. /\ svc'[a] = [svc[a] EXCEPT !.status = st]
      /\ \A b \in Apps \ {a} : svc'[b] = svc[b]
  BY <1>4 DEF TypeOK
<1>6. svc'[a] \in Service /\ svc'[a].config = svc[a].config
  BY <1>3, <1>5 DEF Service
<1> QED BY <1>1, <1>2, <1>3, <1>5, <1>6 DEF Settle, ContainerDies, Spend, meter

\* A crash forgets the jobs and leaves Snowflake and the registry alone.
LEMMA CrashShape ==
  ASSUME Crash
  PROVE  UNCHANGED <<db, creates>> /\ \A w \in Workers : job'[w] = NoJob
BY DEF Crash

\* What the job of a request other than "create" starts from: the row it read.
StartsFrom(r, j) ==
  LET c == r.config
      n == j.new
  IN  \/ /\ j.op \in {"deploy", "restart"}
         /\ \E pad \in Pads :
              /\ n = [c EXCEPT !.consts = c.consts \cup PadNames(pad)]
              /\ j.todo = ToSync(pad, c.consts) /\ Missing(pad, c.consts) = {}
              /\ j.op = "restart" => PadNames(pad) \subseteq c.consts
      \/ /\ j.op = "constants"
         /\ \E kept \in SUBSET c.consts :
              n = [c EXCEPT !.consts = c.consts \cup j.todo \cup kept]
      \/ /\ j.op = "spec" /\ j.todo = {}
         /\ \E tier \in Tiers : \E caller \in Callers :
              n = [c EXCEPT !.tier = tier, !.caller = caller]
      \/ /\ j.op = "license" /\ j.todo = {}
         /\ \E lic \in Licenses : n = [c EXCEPT !.lic = lic]
      \/ /\ j.op = "unlicense" /\ j.todo = {} /\ "unlicense" \in Requests
         /\ n = [c EXCEPT !.lic = NoLicense]
      \/ /\ j.op \in {"suspend", "resume"} /\ j.todo = {} /\ n = c
      \/ /\ j.op = "delete" /\ j.todo = {} /\ "delete" \in Requests /\ n = c

\* The job of a new request.
RequestShape(w, a) ==
  /\ job[w] = NoJob /\ UNCHANGED db
  /\ \A v \in Workers \ {w} : job'[v] = job[v]
  /\ job'[w] \in Job /\ job'[w].app = a /\ job'[w].failed = {}
  /\ job'[w].pc = First[job'[w].op]
  /\ \/ /\ job'[w].op = "create" /\ job'[w].todo = job'[w].new.consts
        /\ rows[a] = {} /\ creates[a] < MaxCreates
        /\ creates' = [creates EXCEPT ![a] = @ + 1]
     \/ /\ UNCHANGED creates
        /\ \E r \in rows[a] : StartsFrom(r, job'[w])

\* The job record that Begin makes.
LEMMA BeginRecord ==
  ASSUME TypeOK, NEW w \in Workers, NEW a \in Apps, NEW op, NEW id, NEW new,
         NEW flip, NEW todo, op \in Ops, Begin(w, a, op, id, new, flip, todo)
  PROVE  /\ job[w] = NoJob /\ UNCHANGED db
         /\ \A v \in Workers \ {w} : job'[v] = job[v]
         /\ job'[w] # NoJob
         /\ job'[w].op = op /\ job'[w].app = a /\ job'[w].new = new
         /\ job'[w].todo = todo /\ job'[w].failed = {}
         /\ job'[w].pc = First[op]
<1> DEFINE j == [op |-> op, app |-> a, id |-> id, new |-> new, flip |-> flip,
                 pc |-> First[op], todo |-> todo, failed |-> {}]
<1>1. job'[w] = j /\ \A v \in Workers \ {w} : job'[v] = job[v]
  BY DEF Begin, TypeOK
<1>2. /\ j.op = op /\ j.app = a /\ j.new = new /\ j.todo = todo
      /\ j.failed = {} /\ j.pc = First[op]
  OBVIOUS
<1>3. j # NoJob
  BY <1>2 DEF NoJob, Ops
<1> HIDE DEF j
<1> QED BY <1>1, <1>2, <1>3 DEF Begin

\* A request begins a job of this shape, and does nothing else.
LEMMA RequestHasShape ==
  ASSUME TypeOK, NEW w \in Workers, NEW a \in Apps, Request(w, a)
  PROVE  RequestShape(w, a)
<1> DEFINE k == job'[w]
           Other(r, op, new, todo) ==
             \E id, flip : Begin(w, a, op, id, new, flip, todo)
<1>1. /\ {"create", "deploy", "restart", "constants", "spec", "license",
          "unlicense", "suspend", "resume", "delete"} \subseteq Ops
  BY DEF Ops
<1>2. job' \in [Workers -> Job \cup {NoJob}]
  BY RequestType DEF TypeOK
<1>3. ASSUME NEW op \in Ops, NEW new, NEW todo,
             \E id, flip : Begin(w, a, op, id, new, flip, todo)
      PROVE  /\ job[w] = NoJob /\ UNCHANGED db
             /\ \A v \in Workers \ {w} : job'[v] = job[v]
             /\ k \in Job /\ k.app = a /\ k.failed = {} /\ k.pc = First[k.op]
             /\ k.op = op /\ k.new = new /\ k.todo = todo
  BY <1>2, <1>3, BeginRecord
<1> HIDE DEF k
<1>4. CASE Register(w, a)
  <2>1. /\ rows[a] = {} /\ creates[a] < MaxCreates
        /\ creates' = [creates EXCEPT ![a] = @ + 1]
    BY <1>4 DEF Register
  <2>2. PICK consts \in SUBSET Names, lic \in MaybeLicense,
             tier \in Tiers, caller \in Callers :
          Begin(w, a, "create", creates'[a],
                [consts |-> consts, lic |-> lic, tier |-> tier,
                 caller |-> caller],
                caller, consts)
    BY <1>4 DEF Register
  <2> DEFINE new == [consts |-> consts, lic |-> lic, tier |-> tier,
                     caller |-> caller]
  <2>3. new.consts = consts
    OBVIOUS
  <2> HIDE DEF new
  <2>4. \E id, flip : Begin(w, a, "create", id, new, flip, consts)
    BY <2>2 DEF new
  <2>5. /\ job[w] = NoJob /\ UNCHANGED db
        /\ \A v \in Workers \ {w} : job'[v] = job[v]
        /\ k \in Job /\ k.app = a /\ k.failed = {} /\ k.pc = First[k.op]
        /\ k.op = "create" /\ k.new = new /\ k.todo = consts
    BY <1>1, <1>3, <2>4
  <2>6. k.todo = k.new.consts
    BY <2>3, <2>5
  <2> QED BY <2>1, <2>5, <2>6 DEF RequestShape, k
<1>5. ASSUME UNCHANGED creates, NEW r \in rows[a], NEW op \in Ops, NEW new, NEW todo,
             \E id, flip : Begin(w, a, op, id, new, flip, todo),
             k.op = op /\ k.new = new /\ k.todo = todo => StartsFrom(r, k)
      PROVE  RequestShape(w, a)
  BY <1>3, <1>5 DEF RequestShape, k
<1>6. CASE TriggerDeploy(w, a)
  <2>1. PICK r \in rows[a], pad \in Pads :
          /\ Missing(pad, r.config.consts) = {}
          /\ Begin(w, a, IF PadNames(pad) \subseteq r.config.consts
                         THEN "restart" ELSE "deploy", r.id,
                   [r.config EXCEPT !.consts = r.config.consts \cup PadNames(pad)],
                   FALSE, ToSync(pad, r.config.consts))
    BY <1>6 DEF TriggerDeploy
  <2> DEFINE op   == IF PadNames(pad) \subseteq r.config.consts
                     THEN "restart" ELSE "deploy"
             new  == [r.config EXCEPT !.consts = r.config.consts \cup PadNames(pad)]
             todo == ToSync(pad, r.config.consts)
  <2>2. \E id, flip : Begin(w, a, op, id, new, flip, todo)
    BY <2>1
  <2>3. k.op = op /\ k.new = new /\ k.todo = todo => StartsFrom(r, k)
    BY <2>1 DEF StartsFrom
  <2>4. op \in Ops /\ UNCHANGED creates
    BY <1>1, <1>6 DEF TriggerDeploy
  <2> HIDE DEF op, new, todo
  <2> QED BY <1>5, <2>2, <2>3, <2>4
<1>7. CASE UpdateConstants(w, a)
  <2>1. PICK r \in rows[a], given \in SUBSET Names, kept \in SUBSET Names :
          /\ Accepts(given, kept, r.config.consts)
          /\ Begin(w, a, "constants", r.id,
                   [r.config EXCEPT !.consts = r.config.consts \cup given \cup kept],
                   FALSE, given)
    BY <1>7 DEF UpdateConstants
  <2>2. kept \in SUBSET r.config.consts
    BY <2>1 DEF Accepts
  <2> DEFINE new == [r.config EXCEPT !.consts = r.config.consts \cup given \cup kept]
  <2>3. \E id, flip : Begin(w, a, "constants", id, new, flip, given)
    BY <2>1
  <2>4. k.op = "constants" /\ k.new = new /\ k.todo = given => StartsFrom(r, k)
    BY <2>2 DEF StartsFrom
  <2>5. UNCHANGED creates
    BY <1>7 DEF UpdateConstants
  <2> HIDE DEF new
  <2> QED BY <1>1, <1>5, <2>3, <2>4, <2>5
<1>8. CASE UpdateSpec(w, a)
  <2>1. PICK r \in rows[a], tier \in Tiers, caller \in Callers :
          Begin(w, a, "spec", r.id,
                [r.config EXCEPT !.tier = tier, !.caller = caller],
                ~r.config.caller /\ caller, {})
    BY <1>8 DEF UpdateSpec
  <2> DEFINE new == [r.config EXCEPT !.tier = tier, !.caller = caller]
  <2>2. \E id, flip : Begin(w, a, "spec", id, new, flip, {})
    BY <2>1
  <2>3. k.op = "spec" /\ k.new = new /\ k.todo = {} => StartsFrom(r, k)
    BY DEF StartsFrom
  <2>4. UNCHANGED creates
    BY <1>8 DEF UpdateSpec
  <2> HIDE DEF new
  <2> QED BY <1>1, <1>5, <2>2, <2>3, <2>4
<1>9. CASE UpdateLicense(w, a)
  <2>1. PICK r \in rows[a], lic \in Licenses :
          Begin(w, a, "license", r.id, [r.config EXCEPT !.lic = lic], FALSE, {})
    BY <1>9 DEF UpdateLicense
  <2> DEFINE new == [r.config EXCEPT !.lic = lic]
  <2>2. \E id, flip : Begin(w, a, "license", id, new, flip, {})
    BY <2>1
  <2>3. k.op = "license" /\ k.new = new /\ k.todo = {} => StartsFrom(r, k)
    BY DEF StartsFrom
  <2>4. UNCHANGED creates
    BY <1>9 DEF UpdateLicense
  <2> HIDE DEF new
  <2> QED BY <1>1, <1>5, <2>2, <2>3, <2>4
<1>10. CASE DeleteLicense(w, a)
  <2>1. PICK r \in rows[a] :
          Begin(w, a, "unlicense", r.id, [r.config EXCEPT !.lic = NoLicense],
                FALSE, {})
    BY <1>10 DEF DeleteLicense
  <2> DEFINE new == [r.config EXCEPT !.lic = NoLicense]
  <2>2. \E id, flip : Begin(w, a, "unlicense", id, new, flip, {})
    BY <2>1
  <2>3. k.op = "unlicense" /\ k.new = new /\ k.todo = {} => StartsFrom(r, k)
    BY <1>10 DEF StartsFrom, DeleteLicense
  <2>4. UNCHANGED creates
    BY <1>10 DEF DeleteLicense
  <2> HIDE DEF new
  <2> QED BY <1>1, <1>5, <2>2, <2>3, <2>4
<1>11. CASE \E op \in {"suspend", "resume", "delete"} : Plain(w, a, op)
  BY <1>1, <1>5, <1>11 DEF Plain, StartsFrom
<1> QED BY <1>4, <1>6, <1>7, <1>8, <1>9, <1>10, <1>11 DEF Request

=============================================================================
