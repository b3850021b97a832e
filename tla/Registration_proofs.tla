------------------------ MODULE Registration_proofs -------------------------
(***************************************************************************)
(* Registering and deleting, for any number of threads, apps, constants and*)
(* requests and with every fault of Faults allowed: an app has one registry*)
(* row (RegistrationsAgree), and the row goes only when nothing else of the*)
(* app is left (RowStaysForRetry).                                         *)
(***************************************************************************)
EXTENDS AppLifecycle_proofs, FiniteSetTheorems

\* Thread w runs a job of the app; the job registers it.
Has(w, a)      == job[w] # NoJob /\ job[w].app = a

\* The jobs of an app take turns.  Nothing in main.py makes them: handlers and
\* background tasks of one app run in whatever threads are free.
TakesTurns(a) == \A v, w \in Workers : Has(v, a) /\ Has(w, a) => v = w

TakeTurns == \A a \in Apps : TakesTurns(a)

\* No job of an app outlives it into its next registration: nothing is deleted,
\* or a name is registered once, or its jobs take turns.  Without it a task
\* works with the record of the app that had the name before (main.py:639),
\* and a delete drops what a registration has just made (main.py:906).
OneLife == "delete" \notin Requests \/ MaxCreates <= 1 \/ TakeTurns

Creating(w, a) == Has(w, a) /\ job[w].op = "create"

\* One thread has its jobs take turns.
LEMMA OneThreadTakesTurns ==
  ASSUME \A v, w \in Workers : v = w
  PROVE  Spec => []TakeTurns
<1>1. TakeTurns
  BY DEF TakeTurns, TakesTurns
<1> QED BY <1>1, PTL

\* A job of an operation that not every instance has was asked for.
AskedFor ==
  \A w \in Workers : job[w].op \in {"delete", "unlicense"} => job[w].op \in Requests

\* Who creates the app is alone with it, and creates it before its first row.
CreatesAlone(a) ==
  /\ \A v, w \in Workers : Creating(v, a) /\ Has(w, a) => v = w
  /\ rows[a] # {} => \A w \in Workers : ~Creating(w, a)
  /\ (MaxCreates <= 1 /\ creates[a] = 0) =>
       rows[a] = {} /\ \A w \in Workers : ~Has(w, a)

\* A delete that no statement has failed in has dropped what it is past.
Cleaned(w, a) ==
  (Has(w, a) /\ job[w].op = "delete" /\ job[w].failed = {}) =>
    /\ job[w].pc \in {"dropRole", "dropSchema", "unregister"} =>
         svc[a] = NoService /\ access[a] \subseteq {"role"}
    /\ job[w].pc \in {"dropSchema", "unregister"} => access[a] = {}
    /\ job[w].pc = "unregister" => objs[a] = {}

\* An app without a row and without a schema, or whose row a delete took, has
\* no service.
NothingLeft(a) ==
  /\ \A w \in Workers :
       Creating(w, a) /\ job[w].pc # "schema" => "schema" \in objs[a]
  /\ rows[a] = {} /\ ("schema" \notin objs[a] \/
       \E w \in Workers : Has(w, a) /\ job[w].op # "create") => svc[a] = NoService

\* The inductive invariant of registering and deleting.
AloneInv == "delete" \in Requests =>
  \A a \in Apps :
    CreatesAlone(a) /\ NothingLeft(a) /\ \A w \in Workers : Cleaned(w, a)

-----------------------------------------------------------------------------

\* A step in the terms of this module: whose job it is, and of which app.
LEMMA StepFacts ==
  ASSUME TypeOK, TypeOK', NEW w \in Workers, Step(w)
  PROVE  /\ job[w] \in Job /\ job[w] # NoJob /\ job[w].app \in Apps /\ job[w].op \in Ops
         /\ job[w].pc \in DOMAIN Flow[job[w].op] \cup {"fail", "giveUp"}
         /\ StepShape(w)
         /\ Ran(w) => Statement(w) \/ \E n \in job[w].todo : WriteSecret(w, n)
         /\ \A b \in Apps \ {job[w].app} :
              /\ rows'[b] = rows[b] /\ objs'[b] = objs[b] /\ secrets'[b] = secrets[b]
              /\ access'[b] = access[b] /\ svc'[b] = svc[b]
         /\ \A v \in Workers, b \in Apps : Has(v, b)' => Has(v, b)
         /\ \A v \in Workers : job'[v] # NoJob => job'[v].op = job[v].op
         /\ \A v \in Workers, b \in Apps : Creating(v, b)' => Creating(v, b)
<1>1. job[w] \in Job /\ StepShape(w)
  BY StepHasShape
<1>2. /\ job[w] # NoJob /\ job[w].app \in Apps /\ job[w].op \in Ops
      /\ job[w].pc \in DOMAIN Flow[job[w].op] \cup {"fail", "giveUp"}
  BY <1>1, JobFields DEF Steps
<1>3. Ran(w) => /\ Statement(w) \/ \E n \in job[w].todo : WriteSecret(w, n)
                /\ ~Refused(w)
  BY DEF Ran
<1>4. UNCHANGED db \/ Ran(w)
  BY <1>1 DEF StepShape
<1>5. \A b \in Apps \ {job[w].app} :
        /\ rows'[b] = rows[b] /\ objs'[b] = objs[b] /\ secrets'[b] = secrets[b]
        /\ access'[b] = access[b] /\ svc'[b] = svc[b]
  <2>1. CASE UNCHANGED db
    BY <2>1 DEF db
  <2>2. CASE Ran(w)
    BY <1>1, <1>3, <2>2, RowsWritten, ObjectsOf, AccessOf, ServiceOf
  <2> QED BY <1>4, <2>1, <2>2
<1>6. \A v \in Workers : job'[v] # NoJob =>
        job[v] # NoJob /\ job'[v].op = job[v].op /\ job'[v].app = job[v].app
  BY <1>1, <1>2 DEF StepShape, Continues
<1>7. \A v \in Workers, b \in Apps : Has(v, b)' => Has(v, b)
  BY <1>6 DEF Has
<1>8. \A v \in Workers, b \in Apps : Creating(v, b)' => Creating(v, b)
  BY <1>6 DEF Has, Creating
<1> QED BY <1>1, <1>2, <1>3, <1>5, <1>6, <1>7, <1>8

\* A job that does not create brings no service, no grant and no schema.
LEMMA NothingNew ==
  ASSUME TypeOK, NEW w \in Workers, job[w] \in Job, Ran(w), job[w].op # "create"
  PROVE  LET a == job[w].app
         IN  /\ svc[a] = NoService => svc'[a] = NoService
             /\ access'[a] \subseteq access[a]
             /\ "schema" \notin objs[a] => objs'[a] \subseteq objs[a]
             /\ rows[a] = {} => rows'[a] = {}
<1> DEFINE j == job[w]
           a == job[w].app
<1>1. /\ Statement(w) \/ \E n \in j.todo : WriteSecret(w, n)
      /\ ~Refused(w)
  BY DEF Ran
<1>2. /\ j.op \in Ops /\ a \in Apps
      /\ j.pc \in DOMAIN Flow[j.op] \cup {"fail", "giveUp"}
  BY JobFields DEF Steps
<1>3. j.pc \notin (InApp \ {"licenseKey"}) \cup Accesses \cup {"service", "insert"}
  BY <1>2, FlowOwners DEF InApp, Accesses
<1>4. j.pc # "licenseKey" \/ "schema" \in objs[a]
  BY <1>1 DEF Refused, InApp
<1>5. svc[a] = NoService => svc'[a] = NoService
  BY <1>1, <1>3, ServiceOf
<1>6. access'[a] \subseteq access[a]
  BY <1>1, <1>3, AccessOf
<1>7. "schema" \notin objs[a] => objs'[a] \subseteq objs[a]
  BY <1>1, <1>3, <1>4, ObjectsOf
<1>8. rows[a] = {} => rows'[a] = {}
  BY <1>1, <1>3, RowsWritten
<1> QED BY <1>5, <1>6, <1>7, <1>8

(***************************************************************************)
(* Who creates the app is alone with it.                                   *)
(***************************************************************************)

\* The statements of a create after its service and of a delete, in order.
AfterService == {"validity", "role", "userGrant", "adminGrant", "insert"}

\* "schema" comes first in a create, the statements of AfterService come last,
\* and a delete drops the service, the role, the schema and then the row.
LEMMA FlowOrder ==
  /\ \A op \in Ops : "done" \notin DOMAIN Flow[op]
  /\ Flow["create"]["insert"] = "done" /\ Flow["delete"]["unregister"] = "done"
  /\ \A pc \in DOMAIN Flow["create"] :
       /\ Flow["create"][pc] # "schema"
       /\ Flow["create"][pc] \in AfterService => pc \in AfterService \cup {"service"}
  /\ \A pc \in DOMAIN Flow["delete"] :
       /\ Flow["delete"][pc] = "dropRole" => pc = "dropService"
       /\ Flow["delete"][pc] = "dropSchema" => pc = "dropRole"
       /\ Flow["delete"][pc] = "unregister" => pc = "dropSchema"
<1>1. \A op \in Ops : "done" \notin DOMAIN Flow[op]
  BY DEF Flow, Ops
<1>2. /\ Flow["create"]["insert"] = "done"
      /\ \A pc \in DOMAIN Flow["create"] :
           /\ Flow["create"][pc] # "schema"
           /\ Flow["create"][pc] \in AfterService => pc \in AfterService \cup {"service"}
  BY DEF Flow, AfterService
<1>3. /\ Flow["delete"]["unregister"] = "done"
      /\ \A pc \in DOMAIN Flow["delete"] :
           /\ Flow["delete"][pc] = "dropRole" => pc = "dropService"
           /\ Flow["delete"][pc] = "dropSchema" => pc = "dropRole"
           /\ Flow["delete"][pc] = "unregister" => pc = "dropSchema"
  BY DEF Flow
<1> QED BY <1>1, <1>2, <1>3

\* FAILED is written outside the flows.
LEMMA FlowFailed ==
  ASSUME NEW op \in Ops
  PROVE  {"fail", "giveUp"} \cap DOMAIN Flow[op] = {}
BY DEF Flow, Ops

\* The job that a step moves on, without the table of statements.
LEMMA Moved ==
  ASSUME TypeOK, TypeOK', NEW w \in Workers, Step(w), job'[w] # NoJob
  PROVE  LET j == job[w]
             k == job'[w]
         IN  /\ k \in Job /\ k.op = j.op /\ k.app = j.app /\ k.new = j.new
             /\ j.pc \notin {"insert", "unregister"}
             /\ \/ WritesOne(w) /\ k.pc = j.pc /\ k.failed = j.failed
                \/ /\ Advances(w) /\ k.todo = j.todo /\ k.failed = j.failed
                   /\ j.pc \in DOMAIN Flow[j.op] /\ k.pc = Flow[j.op][j.pc]
                   /\ k.pc \in DOMAIN Flow[j.op]
                \/ /\ Recovers(w) /\ k.todo = j.todo
                   /\ k.pc \notin {"fail", "giveUp"} =>
                        /\ j.pc \in DOMAIN Flow[j.op]
                        /\ \/ k.pc = Flow[j.op][j.pc]
                           \/ j.op = "delete" /\ k.pc = "dropService"
<1> DEFINE j == job[w]
           k == job'[w]
<1>1. /\ j \in Job /\ j.op \in Ops
      /\ j.pc \in DOMAIN Flow[j.op] \cup {"fail", "giveUp"}
      /\ StepShape(w)
  BY StepFacts
<1>2. Continues(w) /\ (WritesOne(w) \/ Advances(w) \/ Recovers(w))
  BY <1>1 DEF StepShape
<1>3. k \in Job /\ k.pc \in DOMAIN Flow[k.op] \cup {"fail", "giveUp"}
  BY JobFields DEF TypeOK, Steps
<1>4. k.op = j.op /\ k.app = j.app /\ k.new = j.new
  BY <1>2 DEF Continues
<1>5. k.pc # "done"
  BY <1>1, <1>3, <1>4, FlowOrder
<1>6. CASE WritesOne(w)
  <2>1. j.pc \in {"putSecrets", "syncSecrets"}
    BY <1>6 DEF WritesOne, WriteSecret
  <2> QED BY <1>3, <1>4, <1>6, <2>1 DEF WritesOne
<1>7. CASE Advances(w)
  <2>1. k.pc = After(j) /\ k.todo = j.todo /\ k.failed = j.failed
    BY <1>7 DEF Advances
  <2>2. j.pc \notin {"fail", "giveUp"}
    BY <1>5, <2>1 DEF After
  <2>3. k.pc = Flow[j.op][j.pc] /\ j.pc \in DOMAIN Flow[j.op]
    BY <1>1, <2>1, <2>2 DEF After
  <2>4. k.pc \in DOMAIN Flow[j.op]
    BY <1>1, <1>5, <2>3, FlowClosed
  <2>5. j.pc \notin {"insert", "unregister"}
    <3>1. j.pc = "insert" => j.op = "create"
      BY <1>1, <2>3, FlowOwners
    <3>2. j.pc = "unregister" => j.op = "delete"
      BY <1>1, <2>3, FlowOwners
    <3> QED BY <1>5, <2>3, <3>1, <3>2, FlowOrder
  <2> QED BY <1>3, <1>4, <1>7, <2>1, <2>3, <2>4, <2>5
<1>8. CASE Recovers(w)
  <2>1. j.pc \notin {"insert", "unregister"}
    <3>1. j.pc \in {"insert", "unregister"} => j.op \notin Tasks
      BY <1>1, FlowOwners, FlowOps DEF Tasks
    <3> QED BY <1>8, <3>1 DEF Recovers, InBackground, Cleanup
  <2>2. k.todo = j.todo
    BY <1>8 DEF Recovers
  <2>3. ASSUME k.pc \notin {"fail", "giveUp"}
        PROVE  /\ j.pc \in DOMAIN Flow[j.op]
               /\ \/ k.pc = Flow[j.op][j.pc]
                  \/ j.op = "delete" /\ k.pc = "dropService"
    <3>1. j.pc \in {"validity", "suspend", "awaitSuspended"} \cup Cleanup
      BY <1>8, <2>3 DEF Recovers
    <3>2. j.pc \in DOMAIN Flow[j.op]
      BY <1>1, <3>1 DEF Cleanup
    <3> QED BY <1>8, <2>3, <3>1, <3>2 DEF Recovers, After, Cleanup
  <2> QED BY <1>3, <1>4, <1>8, <2>1, <2>2, <2>3
<1> QED BY <1>2, <1>6, <1>7, <1>8

-----------------------------------------------------------------------------
\* CreatesAlone.

\* A statement, or what becomes of it, lets nobody in: only a request does.
LEMMA CreatesAloneStep ==
  ASSUME TypeOK, TypeOK', NEW w \in Workers, Step(w), NEW a \in Apps, CreatesAlone(a)
  PROVE  CreatesAlone(a)'
<1>1. /\ job[w] \in Job /\ StepShape(w)
      /\ \A b \in Apps \ {job[w].app} : rows'[b] = rows[b]
      /\ \A v \in Workers : Has(v, a)' => Has(v, a)
      /\ \A v \in Workers : Creating(v, a)' => Creating(v, a)
      /\ creates' = creates
  BY StepFacts DEF StepShape
\* A row appears where there was none only by the insert of the app's creator.
<1>2. ASSUME rows[a] = {}, rows'[a] # {}
      PROVE  Creating(w, a) /\ job[w].pc = "insert"
  <2>1. Ran(w) /\ job[w].app = a
    BY <1>1, <1>2 DEF StepShape, db
  <2>2. job[w].op = "create" /\ Has(w, a)
    BY <1>1, <1>2, <2>1, NothingNew, JobFields DEF Has
  <2>3. job[w].pc = "insert"
    <3>1. Statement(w) \/ \E n \in job[w].todo : WriteSecret(w, n)
      BY <2>1 DEF Ran
    <3>2. rows[job[w].app] = {} /\ job[w].pc # "insert" => rows'[job[w].app] = {}
      BY <1>1, <3>1, RowsWritten
    <3> QED BY <1>2, <2>1, <3>2
  <2> QED BY <2>2, <2>3 DEF Creating
<1>3. rows'[a] # {} => \A v \in Workers : ~Creating(v, a)'
  <2>1. CASE rows[a] # {}
    BY <1>1, <2>1 DEF CreatesAlone
  <2>2. CASE rows[a] = {} /\ rows'[a] # {}
    <3>1. job'[w] = NoJob
      BY <1>2, <2>2, Moved
    <3>2. \A v \in Workers : Creating(v, a)' => v = w
      BY <1>1, <1>2, <2>2 DEF CreatesAlone, Creating
    <3> QED BY <3>1, <3>2 DEF Creating, Has
  <2> QED BY <2>1, <2>2
<1>4. rows[a] = {} /\ (\A v \in Workers : ~Has(v, a)) => rows'[a] = {}
  BY <1>2 DEF Creating
<1>5. \A u, v \in Workers : Creating(u, a)' /\ Has(v, a)' => u = v
  BY <1>1 DEF CreatesAlone
<1>6. (MaxCreates <= 1 /\ creates'[a] = 0) =>
         rows'[a] = {} /\ \A v \in Workers : ~Has(v, a)'
  BY <1>1, <1>4 DEF CreatesAlone
<1> QED BY <1>3, <1>5, <1>6 DEF CreatesAlone

\* A request to register an app comes when no job of it is left: it was never
\* registered, or its jobs take turns.
LEMMA CreatesAloneRequest ==
  ASSUME TypeOK, NEW w \in Workers, NEW b \in Apps, RequestShape(w, b),
         NEW a \in Apps, CreatesAlone(a), MaxCreates <= 1 \/ TakesTurns(a)'
  PROVE  CreatesAlone(a)'
<1>1. /\ job[w] = NoJob /\ rows' = rows
      /\ \A v \in Workers \ {w} : job'[v] = job[v]
      /\ job'[w].app = b /\ job'[w] # NoJob
  BY JobFields DEF RequestShape, db
<1>2. CASE a # b
  <2>1. \A v \in Workers : Has(v, a)' <=> Has(v, a)
    BY <1>1, <1>2 DEF Has
  <2>2. \A v \in Workers : Creating(v, a)' <=> Creating(v, a)
    BY <1>1, <1>2 DEF Has, Creating
  <2>3. creates'[a] = creates[a]
    BY <1>2 DEF RequestShape, TypeOK
  <2> QED BY <1>1, <2>1, <2>2, <2>3 DEF CreatesAlone
<1>3. CASE a = b /\ job'[w].op # "create"
  <2>1. creates' = creates /\ rows[a] # {}
    BY <1>3 DEF RequestShape
  <2>2. \A v \in Workers : ~Creating(v, a)'
    BY <1>1, <1>3, <2>1 DEF CreatesAlone, Creating, Has
  <2> QED BY <1>1, <2>1, <2>2 DEF CreatesAlone
<1>4. CASE a = b /\ job'[w].op = "create"
  <2>1. /\ rows[a] = {} /\ creates[a] < MaxCreates
        /\ creates' = [creates EXCEPT ![a] = @ + 1]
    <3>1. \A r : ~StartsFrom(r, job'[w])
      BY <1>4 DEF StartsFrom
    <3> QED BY <1>4, <3>1 DEF RequestShape
  <2>2. creates'[a] = creates[a] + 1 /\ creates[a] \in Nat /\ MaxCreates \in Nat
    BY <2>1, BoundsAssumption DEF TypeOK
  <2>3. \A v \in Workers : Has(v, a)' => v = w
    <3>1. CASE TakesTurns(a)'
      BY <1>1, <1>4, <3>1 DEF TakesTurns, Has
    <3>2. CASE MaxCreates <= 1
      <4>1. creates[a] = 0
        BY <2>1, <2>2, <3>2
      <4>2. \A v \in Workers : ~Has(v, a)
        BY <3>2, <4>1 DEF CreatesAlone
      <4> QED BY <1>1, <4>2 DEF Has
    <3> QED BY <3>1, <3>2
  <2>4. \A u, v \in Workers : Creating(u, a)' /\ Has(v, a)' => u = v
    BY <2>3 DEF Creating
  <2> QED BY <1>1, <2>1, <2>2, <2>4 DEF CreatesAlone
<1> QED BY <1>2, <1>3, <1>4

(***************************************************************************)
(* A delete drops what it is past.                                         *)
(***************************************************************************)

\* A row goes only by the "unregister" of a delete in which nothing failed.
LEMMA RowsGo ==
  ASSUME TypeOK, NEW w \in Workers, job[w] \in Job, Ran(w),
         rows[job[w].app] # {}, rows'[job[w].app] = {}
  PROVE  job[w].op = "delete" /\ job[w].pc = "unregister" /\ job[w].failed = {}
<1> DEFINE j == job[w]
<1>1. /\ Statement(w) \/ \E n \in j.todo : WriteSecret(w, n)
      /\ ~NothingToRun(j)
  BY DEF Ran
<1>2. /\ j.op \in Ops
      /\ j.pc \in DOMAIN Flow[j.op] \cup {"fail", "giveUp"}
  BY JobFields DEF Steps
<1>3. j.pc = "unregister"
  BY <1>1, RowsWritten
<1>4. j.op = "delete"
  BY <1>2, <1>3, FlowOwners
<1>5. j.failed = {}
  BY <1>1, <1>3 DEF NothingToRun
<1> QED BY <1>3, <1>4, <1>5

\* While a delete goes on without a failure, nothing comes back that it dropped.
LEMMA CleanedStep ==
  ASSUME TypeOK, TypeOK', NEW w \in Workers, Step(w), NEW a \in Apps,
         CreatesAlone(a), NEW v \in Workers, Cleaned(v, a)
  PROVE  Cleaned(v, a)'
<1> DEFINE j == job[w]
           k == job'[w]
<1>1. /\ j \in Job /\ j # NoJob /\ j.op \in Ops /\ StepShape(w)
      /\ j.pc \in DOMAIN Flow[j.op] \cup {"fail", "giveUp"}
      /\ \A b \in Apps \ {j.app} :
           objs'[b] = objs[b] /\ access'[b] = access[b] /\ svc'[b] = svc[b]
      /\ Has(v, a)' => Has(v, a)
  BY StepFacts
<1>2. SUFFICES ASSUME Has(v, a)', job'[v].op = "delete", job'[v].failed = {}
               PROVE  Cleaned(v, a)'
  BY DEF Cleaned
<1>3. CASE v # w
  <2>1. job'[v] = job[v] /\ Has(v, a)
    BY <1>1, <1>2, <1>3 DEF StepShape
  <2>2. CASE Ran(w) /\ j.app = a
    <3>1. j.op # "create"
      BY <1>1, <1>3, <2>1, <2>2 DEF CreatesAlone, Creating, Has
    <3>2. /\ svc[a] = NoService => svc'[a] = NoService
          /\ access'[a] \subseteq access[a]
          /\ "schema" \notin objs[a] => objs'[a] \subseteq objs[a]
      BY <1>1, <2>2, <3>1, NothingNew
    <3> QED BY <1>2, <2>1, <3>2 DEF Cleaned
  <2>3. CASE ~(Ran(w) /\ j.app = a)
    <3>1. objs'[a] = objs[a] /\ access'[a] = access[a] /\ svc'[a] = svc[a]
      BY <1>1, <2>3 DEF StepShape, db
    <3> QED BY <1>2, <2>1, <3>1 DEF Cleaned
  <2> QED BY <2>2, <2>3
<1>4. CASE v = w
  <2>1. /\ k # NoJob /\ j.op = "delete" /\ j.app = a /\ Has(w, a) /\ k.op = "delete"
    BY <1>1, <1>2, <1>4, Moved DEF Has
  <2>2. CASE WritesOne(w)
    <3>1. k.pc \in {"putSecrets", "syncSecrets"}
      BY <2>2 DEF WritesOne, WriteSecret
    <3> QED BY <1>4, <3>1 DEF Cleaned
  <2>3. CASE Advances(w) /\ k.failed = j.failed /\ j.pc \in DOMAIN Flow[j.op]
             /\ k.pc = Flow[j.op][j.pc]
    <3>1. k.pc \in {"dropRole", "dropSchema", "unregister"} => Ran(w)
      BY <2>1, <2>3, FlowOrder DEF Advances, NothingToRun, Polls
    <3>2. ASSUME Ran(w)
          PROVE  /\ svc[a] = NoService => svc'[a] = NoService
                 /\ access'[a] \subseteq access[a]
                 /\ j.pc = "dropService" =>
                      svc'[a] = NoService /\ access'[a] \subseteq {"role"}
                 /\ j.pc = "dropRole" =>
                      access'[a] = access[a] \ {"role", "userGrant"}
                 /\ j.pc = "dropSchema" => objs'[a] = {}
      <4>1. /\ Statement(w) \/ \E n \in j.todo : WriteSecret(w, n)
            /\ ~Refused(w)
        BY <3>2 DEF Ran
      <4>2. /\ svc[a] = NoService => svc'[a] = NoService
            /\ access'[a] \subseteq access[a]
        BY <1>1, <2>1, <3>2, NothingNew
      <4>3. j.pc = "dropService" => svc'[a] = NoService
        BY <1>1, <2>1, <4>1, ServiceOf
      <4>4. /\ j.pc = "dropService" => access'[a] \subseteq {"role"}
            /\ j.pc = "dropRole" => access'[a] = access[a] \ {"role", "userGrant"}
        BY <1>1, <2>1, <4>1, AccessOf
      <4>5. j.pc = "dropSchema" => objs'[a] = {}
        BY <1>1, <2>1, <4>1, ObjectsOf
      <4> QED BY <4>2, <4>3, <4>4, <4>5
    <3>3. CASE k.pc = "dropRole"
      <4>1. j.pc = "dropService"
        BY <2>1, <2>3, <3>3, FlowOrder
      <4> QED BY <1>4, <3>1, <3>2, <3>3, <4>1 DEF Cleaned
    <3>4. CASE k.pc = "dropSchema"
      <4>1. j.pc = "dropRole"
        BY <2>1, <2>3, <3>4, FlowOrder
      <4>2. svc[a] = NoService /\ access[a] \subseteq {"role"}
        BY <1>2, <1>4, <2>1, <2>3, <4>1 DEF Cleaned
      <4>3. access'[a] = {} /\ svc'[a] = NoService
        BY <3>1, <3>2, <3>4, <4>1, <4>2
      <4> QED BY <1>4, <3>4, <4>3 DEF Cleaned
    <3>5. CASE k.pc = "unregister"
      <4>1. j.pc = "dropSchema"
        BY <2>1, <2>3, <3>5, FlowOrder
      <4>2. svc[a] = NoService /\ access[a] = {}
        BY <1>2, <1>4, <2>1, <2>3, <4>1 DEF Cleaned
      <4>3. access'[a] = {} /\ svc'[a] = NoService /\ objs'[a] = {}
        BY <3>1, <3>2, <3>5, <4>1, <4>2
      <4> QED BY <1>4, <3>5, <4>3 DEF Cleaned
    <3> QED BY <1>4, <3>3, <3>4, <3>5 DEF Cleaned
  <2>4. CASE Recovers(w)
    <3>1. /\ ~InBackground(j) /\ j.pc # "validity"
      BY <1>1, <2>1, FlowOwners DEF InBackground, Tasks
    <3>2. k.pc = "dropService"
      BY <1>2, <1>4, <2>4, <3>1 DEF Recovers
    <3> QED BY <1>4, <3>2 DEF Cleaned
  <2> QED BY <2>1, <2>2, <2>3, <2>4, Moved
<1> QED BY <1>3, <1>4

\* A service comes only with the create that made the schema, and is gone
\* before a schema or a row goes.
LEMMA NothingLeftStep ==
  ASSUME TypeOK, TypeOK', NEW w \in Workers, Step(w), NEW a \in Apps,
         CreatesAlone(a), NothingLeft(a), Cleaned(w, a)
  PROVE  NothingLeft(a)'
<1> DEFINE j == job[w]
           k == job'[w]
<1>1. /\ j \in Job /\ j # NoJob /\ j.op \in Ops /\ StepShape(w)
      /\ j.pc \in DOMAIN Flow[j.op] \cup {"fail", "giveUp"}
      /\ \A b \in Apps \ {j.app} :
           rows'[b] = rows[b] /\ objs'[b] = objs[b] /\ svc'[b] = svc[b]
      /\ \A v \in Workers : Has(v, a)' => Has(v, a)
      /\ \A v \in Workers : Creating(v, a)' => Creating(v, a)
      /\ \A v \in Workers : job'[v] # NoJob => job'[v].op = job[v].op
  BY StepFacts
<1>2. CASE ~(Ran(w) /\ j.app = a)
  <2>1. rows'[a] = rows[a] /\ objs'[a] = objs[a] /\ svc'[a] = svc[a]
    BY <1>1, <1>2 DEF StepShape, db
  <2>2. ASSUME NEW v \in Workers, Creating(v, a)', job'[v].pc # "schema"
        PROVE  job[v].pc # "schema"
    <3>1. CASE v # w
      BY <1>1, <2>2, <3>1 DEF StepShape
    <3>2. CASE v = w
      <4>1. k # NoJob /\ j.op = "create" /\ j.app = a
        BY <1>1, <2>2, <3>2 DEF Creating, Has
      <4>2. ~Recovers(w) \/ j.pc = "validity"
        BY <4>1 DEF Recovers, InBackground, Tasks
      <4>3. j.pc = "schema" => ~Advances(w)
        BY <1>2, <4>1 DEF Advances, NothingToRun, Polls
      <4> QED BY <2>2, <3>2, <4>1, <4>2, <4>3, Moved
    <3> QED BY <3>1, <3>2
  <2>3. \A v \in Workers : Creating(v, a)' /\ job'[v].pc # "schema" => "schema" \in objs[a]
    BY <1>1, <2>2 DEF NothingLeft
  <2>4. (\E v \in Workers : Has(v, a)' /\ job'[v].op # "create") =>
          \E v \in Workers : Has(v, a) /\ job[v].op # "create"
    BY <1>1 DEF Has
  <2> QED BY <2>1, <2>3, <2>4 DEF NothingLeft
<1>3. CASE Ran(w) /\ j.app = a /\ j.op = "create"
  <2>1. Creating(w, a) /\ \A v \in Workers : Has(v, a) => v = w
    BY <1>1, <1>3 DEF CreatesAlone, Creating, Has
  <2>2. "schema" \in objs'[a]
    <3>1. /\ Statement(w) \/ \E n \in j.todo : WriteSecret(w, n)
      BY <1>3 DEF Ran
    <3>2. j.pc \notin {"dropKey", "dropSchema"}
      BY <1>1, <1>3, FlowOwners DEF Cleanup
    <3>3. j.pc = "schema" \/ "schema" \in objs[a]
      BY <2>1 DEF NothingLeft
    <3>4. a \in Apps
      OBVIOUS
    <3>5. CASE j.pc \in InApp
      BY <1>1, <1>3, <3>1, <3>3, <3>5, ObjectsOf
    <3>6. CASE j.pc \notin InApp
      BY <1>1, <1>3, <3>1, <3>2, <3>3, <3>6, ObjectsOf DEF InApp
    <3> QED BY <3>5, <3>6
  <2>3. \A v \in Workers : Has(v, a)' => job'[v].op = "create"
    BY <1>1, <1>3, <2>1 DEF Has
  <2> QED BY <2>2, <2>3 DEF NothingLeft
<1>4. CASE Ran(w) /\ j.app = a /\ j.op # "create"
  <2>1. Has(w, a)
    BY <1>1, <1>4 DEF Has
  <2>2. \A v \in Workers : ~Creating(v, a)'
    BY <1>1, <1>4, <2>1 DEF CreatesAlone, Creating
  <2>3. ASSUME rows'[a] = {} PROVE svc'[a] = NoService
    <3>1. svc[a] = NoService => svc'[a] = NoService
      BY <1>1, <1>4, NothingNew
    <3>2. CASE rows[a] = {}
      BY <1>4, <2>1, <3>1, <3>2 DEF NothingLeft
    <3>3. CASE rows[a] # {}
      BY <1>1, <1>4, <2>1, <2>3, <3>1, <3>3, RowsGo DEF Cleaned
    <3> QED BY <3>2, <3>3
  <2> QED BY <2>2, <2>3 DEF NothingLeft
<1> QED BY <1>2, <1>3, <1>4

(***************************************************************************)
(* The invariant of registering and deleting.                              *)
(***************************************************************************)

\* A new request touches nothing but its own job.
LEMMA RequestFrame ==
  ASSUME TypeOK, NEW w \in Workers, NEW b \in Apps, RequestShape(w, b)
  PROVE  /\ rows' = rows /\ objs' = objs /\ secrets' = secrets
         /\ access' = access /\ svc' = svc
         /\ \A v \in Workers, a \in Apps :
              v # w \/ a # b => /\ Has(v, a)' <=> Has(v, a)
                                /\ Has(v, a) => job'[v] = job[v]
         /\ Has(w, b)' /\ job[w] = NoJob /\ job'[w] \in Job
         /\ job'[w].op = "create" =>
              rows[b] = {} /\ job'[w].pc = "schema"
         /\ job'[w].op # "create" => rows[b] # {}
         /\ job'[w].op = "delete" => job'[w].pc = "suspend"
<1>1. /\ job[w] = NoJob /\ UNCHANGED db /\ job'[w] \in Job /\ job'[w].app = b
      /\ \A v \in Workers \ {w} : job'[v] = job[v]
      /\ job'[w] # NoJob
  BY JobFields DEF RequestShape
<1>2. job'[w].pc = First[job'[w].op]
  BY DEF RequestShape
<1>3. \A r : StartsFrom(r, job'[w]) => job'[w].op # "create"
  BY DEF StartsFrom
<1>4. /\ job'[w].op = "create" => rows[b] = {}
      /\ job'[w].op # "create" => rows[b] # {}
  BY <1>3 DEF RequestShape
<1>5. First["create"] = "schema" /\ First["delete"] = "suspend"
  BY DEF First
<1> QED BY <1>1, <1>2, <1>4, <1>5 DEF Has, db

\* A request keeps the invariant if it finds the app's jobs taking turns.
LEMMA AloneRequest ==
  ASSUME TypeOK, OneLife', NEW w \in Workers, NEW b \in Apps, RequestShape(w, b),
         AloneInv
  PROVE  AloneInv'
<1> SUFFICES ASSUME "delete" \in Requests, NEW a \in Apps
             PROVE  /\ CreatesAlone(a)' /\ NothingLeft(a)'
                    /\ \A v \in Workers : Cleaned(v, a)'
  BY DEF AloneInv
<1>1. /\ CreatesAlone(a) /\ NothingLeft(a) /\ \A v \in Workers : Cleaned(v, a)
  BY DEF AloneInv
<1>2. CreatesAlone(a)'
  BY <1>1, CreatesAloneRequest DEF OneLife, TakeTurns
<1>3. \A v \in Workers : Has(v, a)' /\ ~Has(v, a) => v = w /\ a = b
  BY RequestFrame
<1>4. NothingLeft(a)'
  <2>1. \A v \in Workers : Creating(v, a)' /\ job'[v].pc # "schema" => "schema" \in objs[a]
    BY <1>1, <1>3, RequestFrame DEF NothingLeft, Creating
  <2>2. rows[a] = {} /\ (\E v \in Workers : Has(v, a)' /\ job'[v].op # "create") =>
          \E v \in Workers : Has(v, a) /\ job[v].op # "create"
    BY <1>3, RequestFrame
  <2> QED BY <1>1, <2>1, <2>2, RequestFrame DEF NothingLeft
<1>5. ASSUME NEW v \in Workers PROVE Cleaned(v, a)'
  <2>1. CASE v = w /\ a = b
    BY <2>1, RequestFrame DEF Cleaned
  <2>2. CASE v # w \/ a # b
    BY <1>1, <2>2, RequestFrame DEF Cleaned
  <2> QED BY <2>1, <2>2
<1> QED BY <1>2, <1>4, <1>5

\* So does every step of a thread, by the lemmas on its three parts.
LEMMA AloneStep ==
  ASSUME TypeOK, TypeOK', NEW w \in Workers, Step(w), AloneInv
  PROVE  AloneInv'
BY CreatesAloneStep, NothingLeftStep, CleanedStep DEF AloneInv

\* Snowflake's own steps bring no service.
LEMMA AloneSettle ==
  ASSUME TypeOK, \E a \in Apps : Settle(a) \/ ContainerDies(a), AloneInv
  PROVE  AloneInv'
<1>1. /\ UNCHANGED <<rows, objs, access, job, creates>>
      /\ \A b \in Apps : svc'[b] = NoService <=> svc[b] = NoService
  BY SettleShape
<1> QED BY <1>1 DEF AloneInv, CreatesAlone, NothingLeft, Cleaned, Creating, Has

\* A crash leaves no job to say anything about.
LEMMA AloneCrash ==
  ASSUME Crash, AloneInv
  PROVE  AloneInv'
<1>1. UNCHANGED <<db, creates>> /\ \A w \in Workers : job'[w] = NoJob
  BY CrashShape
<1> QED BY <1>1 DEF AloneInv, CreatesAlone, NothingLeft, Cleaned, Creating, Has, db

\* Next, for any invariant of these modules: it is enough to look at a step of
\* a thread, a request, Snowflake and a crash.
LEMMA NextCases ==
  ASSUME TypeOK, [Next]_vars
  PROVE  \/ \E w \in Workers : Step(w)
         \/ \E w \in Workers : \E a \in Apps : RequestShape(w, a)
         \/ \E a \in Apps : Settle(a) \/ ContainerDies(a)
         \/ Crash
         \/ UNCHANGED vars
BY RequestHasShape DEF Next, AtRest

\* An app whose jobs take turns is registered by one thread at a time, whatever
\* becomes of the others.
LEMMA CreatesAloneNext ==
  ASSUME TypeOK, TypeOK', [Next]_vars, NEW a \in Apps, CreatesAlone(a),
         TakesTurns(a)'
  PROVE  CreatesAlone(a)'
<1>1. CASE \E b \in Apps : Settle(b) \/ ContainerDies(b)
  BY <1>1, SettleShape DEF CreatesAlone, Creating, Has
<1>2. CASE Crash
  BY <1>2, CrashShape DEF CreatesAlone, Creating, Has, db
<1>3. CASE UNCHANGED vars
  BY <1>3 DEF vars, CreatesAlone, Creating, Has
<1> QED BY <1>1, <1>2, <1>3, NextCases, CreatesAloneStep, CreatesAloneRequest

\* Jobs come from requests and keep their operation.
LEMMA AskedInvariant == Spec => []AskedFor
<1>1. Init => AskedFor
  BY DEF Init, AskedFor, NoJob
<1>2. TypeOK /\ TypeOK' /\ AskedFor /\ [Next]_vars => AskedFor'
  <2> SUFFICES ASSUME TypeOK, TypeOK', AskedFor, [Next]_vars PROVE AskedFor'
    OBVIOUS
  <2>1. ASSUME NEW w \in Workers, Step(w) PROVE AskedFor'
    BY <2>1, StepFacts DEF AskedFor, NoJob
  <2>2. ASSUME NEW w \in Workers, NEW b \in Apps, RequestShape(w, b) PROVE AskedFor'
    <3>1. job'[w].op \in {"delete", "unlicense"} => job'[w].op \in Requests
      BY <2>2 DEF RequestShape, StartsFrom
    <3> QED BY <2>2, <3>1 DEF RequestShape, AskedFor
  <2>3. CASE \E a \in Apps : Settle(a) \/ ContainerDies(a)
    BY <2>3, SettleShape DEF AskedFor
  <2>4. CASE Crash
    BY <2>4, CrashShape DEF AskedFor, NoJob
  <2>5. CASE UNCHANGED vars
    BY <2>5 DEF vars, AskedFor
  <2> QED BY <2>1, <2>2, <2>3, <2>4, <2>5, NextCases
<1> QED BY <1>1, <1>2, TypeCorrect, PTL DEF Spec

\* The inductive invariant, as long as no job meets its app's next registration.
LEMMA AloneInvariant == Spec /\ []OneLife => []AloneInv
<1>1. Init => AloneInv
  BY DEF Init, AloneInv, CreatesAlone, NothingLeft, Cleaned, Creating, Has
<1>2. TypeOK /\ TypeOK' /\ OneLife' /\ AloneInv /\ [Next]_vars => AloneInv'
  <2> SUFFICES ASSUME TypeOK, TypeOK', OneLife', AloneInv, [Next]_vars PROVE AloneInv'
    OBVIOUS
  <2>1. CASE UNCHANGED vars
    BY <2>1 DEF vars, AloneInv, CreatesAlone, NothingLeft, Cleaned, Creating, Has
  <2> QED BY <2>1, NextCases, AloneStep, AloneRequest, AloneSettle, AloneCrash
<1> QED BY <1>1, <1>2, TypeCorrect, PTL DEF Spec

\* delete_app keeps the row, "the operator's only handle for retrying", until
\* service, role and schema are gone (main.py:875-906), whichever drop fails,
\* loses its reply or is cut off by a crash: in every step that takes an app's
\* last row nothing else of the app is left.
THEOREM RowStaysForRetry ==
  Spec /\ []OneLife => RowOutlivesResources
<1>1. TypeOK /\ TypeOK' /\ AskedFor /\ AloneInv /\ [Next]_vars =>
        [\A a \in Apps : (rows[a] # {} /\ rows'[a] = {}) =>
           svc'[a] = NoService /\ objs'[a] = {} /\ access'[a] = {}]_vars
  <2> SUFFICES ASSUME TypeOK, TypeOK', AskedFor, AloneInv, [Next]_vars,
                      NEW a \in Apps, rows[a] # {}, rows'[a] = {}
               PROVE  svc'[a] = NoService /\ objs'[a] = {} /\ access'[a] = {}
    OBVIOUS
  <2>1. ASSUME NEW w \in Workers, Step(w)
        PROVE  svc'[a] = NoService /\ objs'[a] = {} /\ access'[a] = {}
    <3>1. /\ job[w] \in Job /\ StepShape(w) /\ job[w] # NoJob
          /\ \A b \in Apps \ {job[w].app} : rows'[b] = rows[b]
      BY <2>1, StepFacts
    <3>2. Ran(w) /\ job[w].app = a
      BY <3>1 DEF StepShape, db
    <3>3. job[w].op = "delete" /\ job[w].pc = "unregister" /\ job[w].failed = {}
      BY <3>1, <3>2, RowsGo
    <3>4. svc[a] = NoService /\ access[a] = {} /\ objs[a] = {}
      BY <3>1, <3>2, <3>3 DEF AskedFor, AloneInv, Cleaned, Has
    <3> QED BY <3>1, <3>2, <3>3, <3>4, NothingNew
  <2>2. ~\E w \in Workers : \E b \in Apps : RequestShape(w, b)
    BY RequestFrame
  <2>3. ~\E b \in Apps : Settle(b) \/ ContainerDies(b)
    BY SettleShape
  <2>4. ~Crash /\ ~UNCHANGED vars
    BY CrashShape DEF db, vars
  <2> QED BY <2>1, <2>2, <2>3, <2>4, NextCases
<1> QED BY <1>1, AloneInvariant, AskedInvariant, TypeCorrect, PTL DEF Spec, RowOutlivesResources

(***************************************************************************)
(* One row for an app.                                                     *)
(***************************************************************************)

\* A create past its service.
Past(w, a) == Creating(w, a) /\ job[w].pc \in AfterService

RowsUnique(a) == \A r, q \in rows[a] : r = q

\* Without deletes, the service stands for the registration that created it.
Served(a) ==
  /\ \A v, w \in Workers : Past(v, a) /\ Past(w, a) => v = w
  /\ rows[a] # {} => \A w \in Workers : ~Past(w, a)
  /\ rows[a] # {} \/ (\E w \in Workers : Past(w, a)) => svc[a] # NoService

\* The inductive invariant where nothing is deleted.
ServedInv == "delete" \notin Requests => \A a \in Apps : Served(a)

UniqueInv == \A a \in Apps : RowsUnique(a)

\* A create gets past its service only by creating it, so alone.
LEMMA ServedStep ==
  ASSUME TypeOK, TypeOK', AskedFor, "delete" \notin Requests,
         NEW w \in Workers, Step(w), NEW a \in Apps, Served(a)
  PROVE  Served(a)'
<1> DEFINE j == job[w]
           k == job'[w]
<1>1. /\ j \in Job /\ j # NoJob /\ j.op \in Ops /\ StepShape(w) /\ j.app \in Apps
      /\ j.pc \in DOMAIN Flow[j.op] \cup {"fail", "giveUp"}
      /\ \A b \in Apps \ {j.app} : rows'[b] = rows[b] /\ svc'[b] = svc[b]
      /\ \A v \in Workers : Creating(v, a)' => Creating(v, a)
  BY StepFacts
<1>2. j.op # "delete" /\ j.pc \notin {"dropService", "unregister"}
  BY <1>1, FlowOwners DEF AskedFor, Cleanup
<1>3. svc[a] # NoService => svc'[a] # NoService
  <2>1. CASE Ran(w) /\ j.app = a
    BY <1>1, <1>2, <2>1, ServiceOf DEF Ran
  <2>2. CASE ~(Ran(w) /\ j.app = a)
    BY <1>1, <2>2 DEF StepShape, db
  <2> QED BY <2>1, <2>2
\* A create gets past its service by creating it, and stays past it.
<1>4. ASSUME NEW v \in Workers, Past(v, a)', ~Past(v, a)
      PROVE  v = w /\ j.app = a /\ Ran(w) /\ j.pc = "service"
  <2>1. v = w
    BY <1>1, <1>4 DEF StepShape, Past, Creating, Has
  <2>2. k # NoJob /\ j.op = "create" /\ k.pc \in AfterService /\ Creating(w, a)
        /\ j.pc \notin AfterService
    BY <1>1, <1>4, <2>1 DEF Past, Creating, Has
  <2>3. ~WritesOne(w)
    BY <2>2 DEF WritesOne
  <2>4. Recovers(w) => j.pc \in AfterService
    BY <1>1, <2>2 DEF Recovers, InBackground, Tasks, AfterService
  <2>5. /\ Advances(w) /\ j.pc \in DOMAIN Flow[j.op] /\ k.pc = Flow[j.op][j.pc]
    BY <2>2, <2>3, <2>4, Moved
  <2>6. j.pc = "service"
    BY <2>2, <2>5, FlowOrder
  <2>7. Ran(w)
    BY <2>5, <2>6 DEF Advances, NothingToRun, Polls
  <2> QED BY <2>1, <2>2, <2>6, <2>7 DEF Creating, Has
<1>5. CASE j.app = a /\ Ran(w) /\ j.pc = "service"
  <2>1. svc[a] = NoService /\ svc'[a] # NoService
    BY <1>1, <1>5, ServiceOf DEF Ran
  <2>2. rows[a] = {} /\ \A v \in Workers : ~Past(v, a)
    BY <2>1 DEF Served
  <2>3. rows'[a] = {}
    BY <1>1, <1>5, <2>2, RowsWritten DEF Ran
  <2> QED BY <1>4, <2>1, <2>2, <2>3 DEF Served
<1>6. CASE j.app = a /\ Ran(w) /\ j.pc = "insert"
  <2>1. Past(w, a)
    <3>1. j.op = "create"
      BY <1>1, <1>6, FlowOwners
    <3> QED BY <1>1, <1>6, <3>1 DEF Past, Creating, Has, AfterService
  <2>2. k = NoJob
    BY <1>6, Moved
  <2>3. \A v \in Workers : ~Past(v, a)'
    BY <1>4, <1>6, <2>1, <2>2 DEF Served, Past, Creating, Has
  <2> QED BY <1>3, <2>1, <2>3 DEF Served
<1>7. CASE ~(j.app = a /\ Ran(w) /\ j.pc \in {"service", "insert"})
  <2>1. rows'[a] # {} => rows[a] # {}
    <3>1. CASE Ran(w) /\ j.app = a
      BY <1>1, <1>7, <3>1, RowsWritten DEF Ran
    <3>2. CASE ~(Ran(w) /\ j.app = a)
      BY <1>1, <3>2 DEF StepShape, db
    <3> QED BY <3>1, <3>2
  <2>2. \A v \in Workers : Past(v, a)' => Past(v, a)
    BY <1>4, <1>7
  <2> QED BY <1>3, <2>1, <2>2 DEF Served
<1> QED BY <1>5, <1>6, <1>7

\* A row is inserted only where there is none.
LEMMA UniqueStep ==
  ASSUME TypeOK, TypeOK', NEW w \in Workers, Step(w), NEW a \in Apps,
         RowsUnique(a),
         \/ CreatesAlone(a)
         \/ Served(a)
  PROVE  RowsUnique(a)'
<1> DEFINE j == job[w]
<1>1. /\ j \in Job /\ j # NoJob /\ j.op \in Ops /\ StepShape(w)
      /\ j.pc \in DOMAIN Flow[j.op] \cup {"fail", "giveUp"}
      /\ \A b \in Apps \ {j.app} : rows'[b] = rows[b]
  BY StepFacts
<1>2. CASE Ran(w) /\ j.app = a /\ j.pc = "insert"
  <2>1. j.op = "create"
    BY <1>1, <1>2, FlowOwners
  <2>2. Past(w, a) /\ Creating(w, a)
    BY <1>1, <1>2, <2>1 DEF Past, Creating, Has, AfterService
  <2>3. rows[a] = {}
    BY <2>2 DEF CreatesAlone, Served
  <2> QED BY <1>1, <1>2, <2>3, RowsWritten DEF Ran, RowsUnique
<1>3. CASE Ran(w) /\ j.app = a /\ j.pc # "insert"
  BY <1>1, <1>3, RowsWritten DEF Ran, RowsUnique
<1>4. CASE ~(Ran(w) /\ j.app = a)
  BY <1>1, <1>4 DEF StepShape, db, RowsUnique
<1> QED BY <1>2, <1>3, <1>4

\* Without deletes the service tells the registrations apart.
LEMMA ServedInvariant == Spec => []ServedInv
<1>1. Init => ServedInv
  BY DEF Init, ServedInv, Served, Past, Creating, Has
<1>2. TypeOK /\ TypeOK' /\ AskedFor /\ ServedInv /\ [Next]_vars => ServedInv'
  <2> SUFFICES ASSUME TypeOK, TypeOK', AskedFor, "delete" \notin Requests,
                      [Next]_vars, NEW a \in Apps, Served(a)
               PROVE  Served(a)'
    BY DEF ServedInv
  <2>1. ASSUME NEW w \in Workers, NEW b \in Apps, RequestShape(w, b) PROVE Served(a)'
    <3>1. \A v \in Workers : Past(v, a)' => Past(v, a)
      BY <2>1, RequestFrame DEF Past, Creating, AfterService
    <3> QED BY <2>1, <3>1, RequestFrame DEF Served
  <2>2. CASE \E b \in Apps : Settle(b) \/ ContainerDies(b)
    BY <2>2, SettleShape DEF Served, Past, Creating, Has
  <2>3. CASE Crash
    BY <2>3, CrashShape DEF Served, Past, Creating, Has, db
  <2>4. CASE UNCHANGED vars
    BY <2>4 DEF vars, Served, Past, Creating, Has
  <2> QED BY <2>1, <2>2, <2>3, <2>4, NextCases, ServedStep
<1> QED BY <1>1, <1>2, AskedInvariant, TypeCorrect, PTL DEF Spec

\* The rows are unique as long as a create is alone, or the only one to have got
\* past its service.
LEMMA UniqueNext ==
  ASSUME TypeOK, TypeOK', [Next]_vars, NEW a \in Apps, RowsUnique(a),
         CreatesAlone(a) \/ Served(a)
  PROVE  RowsUnique(a)'
<1>1. CASE UNCHANGED rows
  BY <1>1 DEF RowsUnique
<1>2. (\E w \in Workers : Step(w)) \/ UNCHANGED rows
  BY NextCases, RequestFrame, SettleShape, CrashShape DEF vars, db
<1> QED BY <1>1, <1>2, UniqueStep

\* The rows are unique in either case: with deletes by AloneInv, without by
\* ServedInv.
LEMMA UniqueInvariant == Spec /\ []OneLife => []UniqueInv
<1>1. Init => UniqueInv
  BY DEF Init, UniqueInv, RowsUnique
<1>2. TypeOK /\ TypeOK' /\ AloneInv /\ ServedInv /\ UniqueInv
        /\ [Next]_vars => UniqueInv'
  BY UniqueNext DEF UniqueInv, AloneInv, ServedInv
<1> QED BY <1>1, <1>2, AloneInvariant, ServedInvariant, TypeCorrect, PTL DEF Spec

\* However many POST /apps for one name race past get_app (main.py:377), an
\* app has one row: nothing in the table enforces it, CREATE SERVICE without
\* IF NOT EXISTS lets one of them through (main.py:420).
THEOREM RegistrationsAgree ==
  Spec /\ []OneLife => []OneRowPerApp
<1>1. UniqueInv => OneRowPerApp
  <2> SUFFICES ASSUME NEW a \in Apps, RowsUnique(a) PROVE Cardinality(rows[a]) <= 1
    BY DEF UniqueInv, OneRowPerApp
  <2>1. CASE rows[a] = {}
    BY <2>1, FS_EmptySet
  <2>2. CASE rows[a] # {}
    <3>1. PICK r \in rows[a] : TRUE
      BY <2>2
    <3>2. rows[a] = {r}
      BY <3>1 DEF RowsUnique
    <3>3. Cardinality({r}) = 1
      BY FS_Singleton
    <3> QED BY <3>2, <3>3
  <2> QED BY <2>1, <2>2
<1> QED BY <1>1, UniqueInvariant, PTL

=============================================================================
