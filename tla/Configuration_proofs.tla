------------------------ MODULE Configuration_proofs ------------------------
(***************************************************************************)
(* The configuration of an app, for any number of threads, apps, constants *)
(* and requests and with every fault of Faults allowed: the secrets of its *)
(* constants and of its license are there (SecretsStayBacked,              *)
(* LicenseKeyStaysBacked), and a task that altered the service writes READY*)
(* over a registry and a service that agree (ReadyMeansInStep).            *)
(***************************************************************************)
EXTENDS Registration_proofs

(***************************************************************************)
(* The secrets a job has still to write.                                   *)
(***************************************************************************)

\* No PAD has a default that is literally HIDDEN_VALUE.  Such a default means
\* "keep the secret" to _sync_constant_secrets, also where there is none
\* (main.py:277), and the service is then given a constant without a secret.
NoHiddenDefault == \A pad \in Pads : \A n \in Names : pad[n] # "hidden"

\* A job still has secrets to write only where it is on its way to write them.
Unwritten(j) ==
  \/ j.pc \in {"putSecrets", "syncSecrets", "fail", "giveUp"}
  \/ j.op = "create" /\ j.pc \in InApp
  \/ j.op = "deploy" /\ j.pc = "mark"

\* Past the statements that write them, no secret is left to write.
TodoInv == \A w \in Workers :
  job[w] # NoJob /\ ~Unwritten(job[w]) => job[w].todo = {}

\* The app's schema is gone and nobody registers it again: its row, its service
\* and late tasks may still name what was dropped with the schema.
Dropped(a) ==
  "delete" \in Requests /\ "schema" \notin objs[a] /\ \A w \in Workers : ~Creating(w, a)

\* What the registry, the service and every job of the app name has a secret,
\* or is a secret the job has still to write.
ConstsReady(a) ==
  /\ \A r \in rows[a] : r.config.consts \subseteq secrets[a]
  /\ svc[a] # NoService => svc[a].config.consts \subseteq secrets[a]
  /\ \A w \in Workers :
       Has(w, a) => job[w].new.consts \subseteq secrets[a] \cup job[w].todo

\* The inductive invariant of the constants' secrets.
ConstsInv == \A a \in Apps : ConstsReady(a) \/ Dropped(a)

-----------------------------------------------------------------------------

\* A flow leaves the statements of Unwritten by the one that writes secrets.
LEMMA FlowSecrets ==
  ASSUME NEW op \in Ops, NEW pc \in DOMAIN Flow[op]
  PROVE  \/ pc \in {"putSecrets", "syncSecrets"}
         \/ /\ op = "create" /\ pc \in InApp =>
                 Flow[op][pc] \in InApp \cup {"putSecrets"}
            /\ op = "deploy" /\ pc = "mark" => Flow[op][pc] = "syncSecrets"
<1>1. CASE op = "create"  BY <1>1 DEF Flow, InApp
<1>2. CASE op = "deploy"  BY <1>2 DEF Flow
<1> QED BY <1>1, <1>2

\* A step leaves no secret behind unwritten, except on the way to FAILED.
LEMMA TodoStep ==
  ASSUME TypeOK, TypeOK', TodoInv, NEW w \in Workers, Step(w)
  PROVE  TodoInv'
<1> DEFINE j == job[w]
           k == job'[w]
<1>1. /\ j \in Job /\ j # NoJob /\ j.op \in Ops /\ StepShape(w)
      /\ j.pc \in DOMAIN Flow[j.op] \cup {"fail", "giveUp"}
  BY StepFacts
<1>2. SUFFICES ASSUME k # NoJob, ~Unwritten(k) PROVE k.todo = {}
  BY <1>1 DEF TodoInv, StepShape
<1>3. k.op = j.op /\ k.pc \notin {"putSecrets", "syncSecrets", "fail", "giveUp"}
  BY <1>2, Moved DEF Unwritten
<1>4. CASE WritesOne(w)
  <2>1. k.pc \in {"putSecrets", "syncSecrets"}
    BY <1>4 DEF WritesOne, WriteSecret
  <2> QED BY <1>3, <2>1
<1>5. CASE Advances(w) /\ k.todo = j.todo /\ j.pc \in DOMAIN Flow[j.op]
           /\ k.pc = Flow[j.op][j.pc]
  <2>1. CASE Unwritten(j) /\ j.pc \notin {"fail", "giveUp"}
    <3>1. j.pc \in {"putSecrets", "syncSecrets"}
      BY <1>1, <1>2, <1>3, <1>5, <2>1, FlowSecrets DEF Unwritten
    <3>2. ~Statement(w)
      BY <3>1 DEF Statement, CreateInApp, CreateService, GrantAccess,
         SetCallerValidity, Insert, Mark, Persist, Alter, SuspendService,
         ResumeService, ReadEndpoint, Stamp, WriteFailed, DropKey, DropService,
         DropRole, DropSchema, Unregister, InApp, Accesses
    <3>3. NothingToRun(j)
      BY <1>5, <3>1, <3>2 DEF Advances, Polls
    <3> QED BY <1>5, <3>1, <3>3 DEF NothingToRun
  <2>2. CASE j.pc \in {"fail", "giveUp"}
    BY <1>1, <1>5, <2>2, FlowFailed
  <2>3. CASE ~Unwritten(j)
    BY <1>1, <1>5, <2>3 DEF TodoInv
  <2> QED BY <2>1, <2>2, <2>3
<1>6. CASE Recovers(w) /\ k.todo = j.todo
  <2>1. ~Unwritten(j)
    BY <1>3, <1>6 DEF Recovers, Unwritten, Cleanup, InApp
  <2> QED BY <1>1, <1>6, <2>1 DEF TodoInv
<1> QED BY <1>2, <1>4, <1>5, <1>6, Moved

\* The first statement of each request.
LEMMA FirstOf ==
  ASSUME TypeOK, NEW w \in Workers, NEW b \in Apps, RequestShape(w, b)
  PROVE  LET k == job'[w]
         IN  /\ k.op \in Ops
             /\ k.op = "create" => k.pc = "schema"
             /\ k.op = "constants" => k.pc = "putSecrets"
             /\ k.op = "license" => k.pc = "licenseKey"
             /\ k.op = "delete" => k.pc = "suspend"
             /\ k.op \notin {"create", "constants", "license", "delete"} =>
                  k.pc = "mark"
<1>1. job'[w].op \in Ops /\ job'[w].pc = First[job'[w].op]
  BY JobFields DEF RequestShape
<1> QED BY <1>1 DEF First, Ops

\* A request starts on its way to its secrets, or has none to write.
LEMMA TodoRequest ==
  ASSUME TypeOK, TodoInv, NEW w \in Workers, NEW b \in Apps, RequestShape(w, b)
  PROVE  TodoInv'
<1> DEFINE k == job'[w]
<1>1. SUFFICES ASSUME ~Unwritten(k) PROVE k.todo = {}
  BY DEF TodoInv, RequestShape
<1>2. k.op \notin {"create", "deploy", "constants"}
  BY <1>1, FirstOf DEF Unwritten, InApp
<1>3. PICK r \in rows[b] : StartsFrom(r, k)
  BY <1>2 DEF RequestShape
<1>4. CASE k.op = "restart"
  <2>1. PICK pad \in Pads : k.todo = ToSync(pad, r.config.consts)
                            /\ PadNames(pad) \subseteq r.config.consts
    BY <1>3, <1>4 DEF StartsFrom
  <2> QED BY <2>1 DEF ToSync
<1>5. CASE k.op # "restart"
  BY <1>2, <1>3, <1>5 DEF StartsFrom
<1> QED BY <1>4, <1>5

\* Needs no hypothesis.
LEMMA TodoInvariant == Spec => []TodoInv
<1>1. Init => TodoInv
  BY DEF Init, TodoInv
<1>2. TypeOK /\ TypeOK' /\ TodoInv /\ [Next]_vars => TodoInv'
  <2>1. ASSUME TypeOK, TodoInv, \E a \in Apps : Settle(a) \/ ContainerDies(a)
        PROVE  TodoInv'
    BY <2>1, SettleShape DEF TodoInv
  <2>2. ASSUME TodoInv, Crash PROVE TodoInv'
    BY <2>2, CrashShape DEF TodoInv
  <2>3. ASSUME TodoInv, UNCHANGED vars PROVE TodoInv'
    BY <2>3 DEF TodoInv, vars
  <2> QED BY <2>1, <2>2, <2>3, NextCases, TodoStep, TodoRequest
<1> QED BY <1>1, <1>2, TypeCorrect, PTL DEF Spec

(***************************************************************************)
(* The secrets of the constants.                                           *)
(***************************************************************************)

\* What EXCEPT changes of a configuration, and what it leaves.
LEMMA ConfigFields ==
  ASSUME NEW c \in Config, NEW s, NEW l, NEW t, NEW u
  PROVE  /\ [c EXCEPT !.consts = s].consts = s /\ [c EXCEPT !.consts = s].lic = c.lic
         /\ [c EXCEPT !.consts = s].tier = c.tier /\ [c EXCEPT !.consts = s].caller = c.caller
         /\ [c EXCEPT !.lic = l].consts = c.consts /\ [c EXCEPT !.lic = l].lic = l
         /\ [c EXCEPT !.lic = l].tier = c.tier /\ [c EXCEPT !.lic = l].caller = c.caller
         /\ [c EXCEPT !.tier = t, !.caller = u].consts = c.consts
         /\ [c EXCEPT !.tier = t, !.caller = u].lic = c.lic
BY DEF Config

\* An app that is being dropped stays so until somebody registers it again.
LEMMA DroppedStep ==
  ASSUME TypeOK, TypeOK', NEW w \in Workers, Step(w), NEW a \in Apps, Dropped(a)
  PROVE  Dropped(a)'
<1>1. /\ job[w] \in Job /\ job[w] # NoJob /\ StepShape(w)
      /\ \A b \in Apps \ {job[w].app} : objs'[b] = objs[b]
      /\ \A v \in Workers : Creating(v, a)' => Creating(v, a)
  BY StepFacts
<1>2. "schema" \notin objs'[a]
  <2>1. CASE Ran(w) /\ job[w].app = a
    <3>1. job[w].op # "create"
      BY <1>1, <2>1 DEF Dropped, Creating, Has
    <3> QED BY <1>1, <2>1, <3>1, NothingNew DEF Dropped
  <2>2. CASE ~(Ran(w) /\ job[w].app = a)
    BY <1>1, <2>2 DEF StepShape, db, Dropped
  <2> QED BY <2>1, <2>2
<1> QED BY <1>1, <1>2 DEF Dropped

\* A schema goes only with a delete, whose app nobody is creating.
LEMMA SchemaGoes ==
  ASSUME TypeOK, TypeOK', AloneInv, AskedFor,
         NEW w \in Workers, Step(w), Ran(w), job[w].pc = "dropSchema",
         NEW a \in Apps, job[w].app = a
  PROVE  Dropped(a)'
<1> DEFINE j == job[w]
<1>1. /\ j \in Job /\ j # NoJob /\ j.op \in Ops
      /\ j.pc \in DOMAIN Flow[j.op] \cup {"fail", "giveUp"}
      /\ \A v \in Workers : Creating(v, a)' => Creating(v, a)
  BY StepFacts
<1>2. j.op = "delete"
  BY <1>1, FlowOwners DEF Cleanup
<1>3. "delete" \in Requests
  BY <1>2 DEF AskedFor
<1>4. \A v \in Workers : ~Creating(v, a)
  BY <1>1, <1>2, <1>3 DEF AloneInv, CreatesAlone, Creating, Has
<1>5. objs'[a] = {}
  BY <1>1, ObjectsOf DEF Ran
<1> QED BY <1>1, <1>3, <1>4, <1>5 DEF Dropped

\* Secrets are replaced, never dropped but with the schema; what a step gives
\* to the registry or the service is what its job was to have.
LEMMA ConstsStep ==
  ASSUME TypeOK, TypeOK', TodoInv, NEW w \in Workers, Step(w),
         ~(Ran(w) /\ job[w].pc = "dropSchema"),
         NEW a \in Apps, ConstsReady(a)
  PROVE  ConstsReady(a)'
<1> DEFINE j == job[w]
           k == job'[w]
<1>1. /\ j \in Job /\ j # NoJob /\ j.op \in Ops /\ StepShape(w) /\ j.app \in Apps
      /\ \A b \in Apps \ {j.app} :
           rows'[b] = rows[b] /\ secrets'[b] = secrets[b] /\ svc'[b] = svc[b]
      /\ \A v \in Workers : Has(v, a)' => Has(v, a)
  BY StepFacts
<1>2. secrets[a] \subseteq secrets'[a]
  <2>1. CASE Ran(w) /\ j.app = a
    BY <1>1, <2>1, ObjectsOf DEF Ran
  <2>2. CASE ~(Ran(w) /\ j.app = a)
    BY <1>1, <2>2 DEF StepShape, db
  <2> QED BY <2>1, <2>2
<1>3. ASSUME j.app = a, j.pc \in {"insert", "persist", "stamp", "service", "alter"}
      PROVE  j.new.consts \subseteq secrets[a]
  <2>1. ~Unwritten(j)
    BY <1>3 DEF Unwritten, InApp
  <2>2. j.todo = {}
    BY <1>1, <2>1 DEF TodoInv
  <2> QED BY <1>1, <1>3, <2>2 DEF ConstsReady, Has
<1>4. ASSUME NEW s \in rows'[a] PROVE s.config.consts \subseteq secrets[a]
  <2>1. CASE ~(Ran(w) /\ j.app = a)
    BY <1>1, <2>1 DEF StepShape, db, ConstsReady
  <2>2. CASE Ran(w) /\ j.app = a /\ j.pc = "insert"
    <3>1. s \in rows[a] \/ s.config = j.new
      BY <1>1, <1>4, <2>2, RowsWritten DEF Ran
    <3> QED BY <1>3, <2>2, <3>1 DEF ConstsReady
  <2>3. CASE Ran(w) /\ j.app = a /\ j.pc \notin {"insert", "unregister"}
    <3>1. PICK r \in rows[a] : s = Written(r, j)
      BY <1>1, <1>4, <2>3, RowsWritten DEF Ran
    <3>2. r \in Row
      BY DEF TypeOK
    <3>3. s.config.consts = r.config.consts
          \/ (s.config.consts = j.new.consts /\ j.pc \in {"persist", "stamp"})
      BY <1>1, <3>1, <3>2, WrittenFields
    <3> QED BY <1>3, <2>3, <3>3 DEF ConstsReady
  <2>4. CASE Ran(w) /\ j.app = a /\ j.pc = "unregister"
    BY <1>1, <1>4, <2>4, RowsWritten DEF Ran
  <2> QED BY <2>1, <2>2, <2>3, <2>4
<1>5. ASSUME svc'[a] # NoService PROVE svc'[a].config.consts \subseteq secrets[a]
  <2>1. CASE ~(Ran(w) /\ j.app = a)
    BY <1>1, <1>5, <2>1 DEF StepShape, db, ConstsReady
  <2>2. CASE Ran(w) /\ j.app = a
    <3>1. \/ svc'[a].config = j.new /\ j.pc \in {"service", "alter"}
          \/ svc[a] # NoService /\ svc'[a].config = svc[a].config
      BY <1>1, <1>5, <2>2, ServiceOf DEF Ran
    <3> QED BY <1>3, <2>2, <3>1 DEF ConstsReady
  <2> QED BY <2>1, <2>2
<1>6. ASSUME NEW v \in Workers, Has(v, a)'
      PROVE  job'[v].new.consts \subseteq secrets'[a] \cup job'[v].todo
  <2>1. CASE v # w
    BY <1>1, <1>2, <1>6, <2>1 DEF StepShape, ConstsReady
  <2>2. CASE v = w
    <3>1. /\ k # NoJob /\ k.new = j.new /\ j.app = a
          /\ j.new.consts \subseteq secrets[a] \cup j.todo
      BY <1>1, <1>6, <2>2, Moved DEF ConstsReady, Has
    <3>2. CASE WritesOne(w)
      <4>1. PICK n \in j.todo : WriteSecret(w, n) /\ k.todo = j.todo \ {n}
        BY <3>2 DEF WritesOne
      <4>2. secrets'[a] = secrets[a] \cup {n}
        BY <1>1, <3>1, <4>1 DEF WriteSecret, TypeOK
      <4> QED BY <2>2, <3>1, <4>1, <4>2
    <3>3. CASE k.todo = j.todo
      BY <1>2, <2>2, <3>1, <3>3
    <3> QED BY <3>1, <3>2, <3>3, Moved
  <2> QED BY <2>1, <2>2
<1> QED BY <1>2, <1>4, <1>5, <1>6 DEF ConstsReady

\* The constants of a new job have their secrets, or are still to be written:
\* a deploy refuses new constants without a default.
LEMMA AskedConsts ==
  ASSUME TypeOK, NoHiddenDefault, NEW w \in Workers, NEW b \in Apps,
         RequestShape(w, b)
  PROVE  LET k == job'[w]
         IN  \/ k.new.consts = k.todo
             \/ \E r \in rows[b] : k.new.consts \subseteq r.config.consts \cup k.todo
<1> DEFINE k == job'[w]
<1>1. k.op = "create" => k.new.consts = k.todo
  BY DEF RequestShape, StartsFrom
<1>2. ASSUME k.op # "create" PROVE \E r \in rows[b] : k.new.consts \subseteq r.config.consts \cup k.todo
  <2>1. PICK r \in rows[b] : StartsFrom(r, k)
    BY <1>2 DEF RequestShape
  <2>2. r.config \in Config
    BY DEF TypeOK, Row
  <2>3. CASE k.op \in {"deploy", "restart"}
    <3>1. PICK pad \in Pads :
            /\ k.new = [r.config EXCEPT !.consts = r.config.consts \cup PadNames(pad)]
            /\ k.todo = ToSync(pad, r.config.consts)
            /\ Missing(pad, r.config.consts) = {}
      BY <2>1, <2>3 DEF StartsFrom
    <3>2. k.new.consts = r.config.consts \cup PadNames(pad)
      BY <2>2, <3>1, ConfigFields
    <3>3. \A n \in Names : pad[n] \in PadEntry /\ pad[n] # "hidden"
      BY InputsAssumption DEF NoHiddenDefault
    <3>4. PadNames(pad) \ r.config.consts \subseteq k.todo
      BY <3>1, <3>3 DEF PadNames, Missing, ToSync, PadEntry
    <3> QED BY <3>2, <3>4
  <2>4. CASE k.op = "constants"
    <3>1. PICK kept \in SUBSET r.config.consts :
            k.new = [r.config EXCEPT !.consts = r.config.consts \cup k.todo \cup kept]
      BY <2>1, <2>4 DEF StartsFrom
    <3>2. k.new.consts = r.config.consts \cup k.todo \cup kept
      BY <2>2, <3>1, ConfigFields
    <3> QED BY <3>2
  <2>5. CASE k.op \notin {"deploy", "restart", "constants"}
    <3>1. \/ k.new = r.config
          \/ \E lic : k.new = [r.config EXCEPT !.lic = lic]
          \/ \E tier, caller : k.new = [r.config EXCEPT !.tier = tier, !.caller = caller]
      BY <2>1, <2>5 DEF StartsFrom
    <3>2. k.new.consts = r.config.consts
      BY <2>2, <3>1 DEF Config
    <3> QED BY <3>2
  <2> QED BY <2>3, <2>4, <2>5
<1> QED BY <1>1, <1>2

\* Registered again, a dropped app starts from nothing.
LEMMA FreshStart ==
  ASSUME TypeOK, AloneInv, AloneInv', NEW w \in Workers, NEW b \in Apps,
         RequestShape(w, b), job'[w].op = "create", Dropped(b)
  PROVE  /\ rows[b] = {} /\ svc[b] = NoService
         /\ \A v \in Workers : Has(v, b)' => v = w
<1>1. rows[b] = {}
  BY RequestFrame
<1>2. svc[b] = NoService
  BY <1>1 DEF AloneInv, NothingLeft, Dropped
<1>3. Creating(w, b)'
  BY RequestFrame DEF Creating
<1> QED BY <1>1, <1>2, <1>3 DEF AloneInv, CreatesAlone, Dropped

\* A request reads what is there, or starts from nothing.
LEMMA ConstsRequest ==
  ASSUME TypeOK, NoHiddenDefault, AloneInv, AloneInv',
         NEW w \in Workers, NEW b \in Apps, RequestShape(w, b),
         NEW a \in Apps, ConstsReady(a) \/ Dropped(a)
  PROVE  (ConstsReady(a) \/ Dropped(a))'
<1>1. /\ rows' = rows /\ objs' = objs /\ secrets' = secrets /\ svc' = svc
      /\ \A v \in Workers : v # w \/ a # b =>
           /\ Has(v, a)' <=> Has(v, a)
           /\ Has(v, a) => job'[v] = job[v]
  BY RequestFrame
<1>2. CASE Dropped(a) /\ (a # b \/ job'[w].op # "create")
  BY <1>1, <1>2 DEF Dropped, Creating
<1>3. CASE Dropped(a) /\ a = b /\ job'[w].op = "create"
  <2>1. /\ rows[b] = {} /\ svc[b] = NoService
        /\ \A v \in Workers : Has(v, b)' => v = w
    BY <1>3, FreshStart DEF Dropped
  <2>2. job'[w].new.consts \subseteq job'[w].todo
    BY <2>1, AskedConsts
  <2> QED BY <1>1, <1>3, <2>1, <2>2 DEF ConstsReady
<1>4. CASE ConstsReady(a)
  <2>1. a = b => job'[w].new.consts \subseteq secrets[a] \cup job'[w].todo
    BY <1>4, AskedConsts DEF ConstsReady
  <2>2. ASSUME NEW v \in Workers, Has(v, a)'
        PROVE  job'[v].new.consts \subseteq secrets[a] \cup job'[v].todo
    BY <1>1, <1>4, <2>1, <2>2 DEF ConstsReady
  <2> QED BY <1>1, <1>4, <2>2 DEF ConstsReady
<1> QED BY <1>2, <1>3, <1>4

\* The inductive invariant.
LEMMA ConstsInvariant ==
  ASSUME NoHiddenDefault
  PROVE  Spec /\ []OneLife => []ConstsInv
<1>1. Init => ConstsInv
  BY DEF Init, ConstsInv, ConstsReady, Has
<1>2. /\ TypeOK /\ TypeOK' /\ TodoInv /\ AskedFor
      /\ AloneInv /\ AloneInv'
      /\ ConstsInv /\ [Next]_vars
      => ConstsInv'
  <2> SUFFICES ASSUME TypeOK, TypeOK', TodoInv, AskedFor,
                      AloneInv, AloneInv',
                      [Next]_vars, NEW a \in Apps, ConstsReady(a) \/ Dropped(a)
               PROVE  (ConstsReady(a) \/ Dropped(a))'
    BY DEF ConstsInv
  <2>1. ASSUME NEW w \in Workers, Step(w)
        PROVE  (ConstsReady(a) \/ Dropped(a))'
    <3>1. CASE Dropped(a)
      BY <2>1, <3>1, DroppedStep
    <3>2. CASE ConstsReady(a) /\ ~(Ran(w) /\ job[w].pc = "dropSchema")
      BY <2>1, <3>2, ConstsStep
    <3>3. CASE ConstsReady(a) /\ Ran(w) /\ job[w].pc = "dropSchema"
      <4>1. CASE job[w].app = a
        BY <2>1, <3>3, <4>1, SchemaGoes
      <4>2. CASE job[w].app # a
        <5>1. /\ rows'[a] = rows[a] /\ secrets'[a] = secrets[a] /\ svc'[a] = svc[a]
              /\ \A v \in Workers : Has(v, a)' => Has(v, a)
              /\ job[w].app = a \/ ~Has(w, a)
          BY <2>1, <4>2, StepFacts DEF Has
        <5>2. \A v \in Workers : Has(v, a)' => job'[v] = job[v]
          BY <2>1, <4>2, <5>1, StepFacts DEF StepShape
        <5> QED BY <3>3, <5>1, <5>2 DEF ConstsReady
      <4> QED BY <4>1, <4>2
    <3> QED BY <3>1, <3>2, <3>3
  <2>2. ASSUME NEW w \in Workers, NEW b \in Apps, RequestShape(w, b)
        PROVE  (ConstsReady(a) \/ Dropped(a))'
    BY <2>2, ConstsRequest
  <2>3. CASE \E b \in Apps : Settle(b) \/ ContainerDies(b)
    BY <2>3, SettleShape DEF ConstsReady, Dropped, Creating, Has
  <2>4. CASE Crash
    BY <2>4, CrashShape DEF ConstsReady, Dropped, Creating, Has, db
  <2>5. CASE UNCHANGED vars
    BY <2>5 DEF ConstsReady, Dropped, Creating, Has, vars
  <2> QED BY <2>1, <2>2, <2>3, <2>4, <2>5, NextCases
<1> QED BY <1>1, <1>2, AloneInvariant, TypeCorrect, TodoInvariant,
            AskedInvariant, PTL DEF Spec

\* Every constant that the registry or the service of an app names has its
\* secret, as long as the app's schema is there: secrets are written before the
\* registry and the service name them (main.py:411-420, 575-580, 689-692), and
\* a statement that fails, a crash or another task comes too late to undo it.
THEOREM SecretsStayBacked ==
  ASSUME NoHiddenDefault
  PROVE  Spec /\ []OneLife => []SecretsBacked
<1>1. ConstsInv => SecretsBacked
  BY DEF ConstsInv, ConstsReady, Dropped, SecretsBacked
<1> QED BY <1>1, ConstsInvariant, PTL

(***************************************************************************)
(* The registry and the service in step.                                   *)
(***************************************************************************)

\* The statements after the one that alters the service.
AfterAlter == {"validity", "awaitRunning", "endpoint", "stamp", "dropKey"}

\* What a task does not change is as it read it.
KeepsRest(c, j) ==
  /\ j.op # "spec" => c.tier = j.new.tier /\ c.caller = j.new.caller
  /\ j.op \in {"deploy", "constants", "spec"} => c.lic = j.new.lic
  /\ j.op \in {"license", "unlicense", "spec"} => c.consts = j.new.consts

\* The row says that the task runs.
Owes(j) == InBackground(j) /\ j.pc \notin {"dropKey", "fail", "giveUp"}

\* The row agrees with the task as far as it has come.
RowInStep(r, j) ==
  /\ Owes(j) => r.status \in Transient
  /\ KeepsRest(r.config, j)
  /\ j.op # "spec" /\ j.pc \in AfterAlter \cup {"alter"} => r.config = j.new

\* A task that alters the service has the registry, and then the service, in
\* step with what it was asked for.
InStep(w, a) ==
  (Has(w, a) /\ job[w].op \in Altering) =>
    /\ job[w].op = "unlicense" => job[w].new.lic = NoLicense
    /\ \A r \in rows[a] : RowInStep(r, job[w])
    /\ job[w].pc \in AfterAlter =>
         svc[a] # NoService /\ svc[a].config = job[w].new

\* The inductive invariant of a task that alters the service.
InStepInv == \A w \in Workers, a \in Apps : InStep(w, a)

\* A configuration is its four fields.
LEMMA SameConfig ==
  ASSUME NEW c \in Config, NEW d \in Config,
         c.consts = d.consts, c.lic = d.lic, c.tier = d.tier, c.caller = d.caller
  PROVE  c = d
BY DEF Config

\* A task persists before it alters, and stamps after.
LEMMA FlowAlter ==
  ASSUME NEW op \in Altering, NEW pc \in DOMAIN Flow[op]
  PROVE  /\ op \in Ops \cap Tasks
         /\ Flow[op][pc] \in AfterAlter => pc \in AfterAlter \cup {"alter"}
         /\ op # "spec" /\ Flow[op][pc] \in AfterAlter \cup {"alter"} =>
              pc \in AfterAlter \cup {"alter", "persist"}
         /\ Flow[op][pc] \notin {"putSecrets", "licenseKey", "mark", "dropKey", "done"} =>
              pc \notin {"putSecrets", "licenseKey", "dropKey", "stamp"}
<1>0. Tasks = Ops \ {"create", "delete"}
  BY FlowOps DEF Tasks
<1> USE <1>0 DEF Ops, AfterAlter
<1>1. CASE op = "deploy"     BY <1>1 DEF Flow
<1>2. CASE op = "constants"  BY <1>2 DEF Flow
<1>3. CASE op = "spec"       BY <1>3 DEF Flow
<1>4. CASE op = "license"    BY <1>4 DEF Flow
<1>5. CASE op = "unlicense"  BY <1>5 DEF Flow
<1> QED BY <1>1, <1>2, <1>3, <1>4, <1>5 DEF Altering

\* A write by a task that alters the service keeps the row in step, and what
\* it has written or was there agrees with what the task was asked for.
LEMMA WrittenInStep ==
  ASSUME NEW r \in Row, NEW j \in Job, j.op \in Altering, RowInStep(r, j)
  PROVE  LET s == Written(r, j)
         IN  /\ KeepsRest(s.config, j)
             /\ \/ j.pc = "stamp"
                \/ j.op # "spec" /\ j.pc \in AfterAlter \cup {"alter", "persist"}
                => s.config = j.new
<1> DEFINE c == r.config
           d == Written(r, j).config
           n == j.new
<1>1. /\ c \in Config /\ d \in Config /\ n \in Config
      /\ d.lic = IF j.pc = "persist" /\ j.op \in {"license", "unlicense"}
                 THEN n.lic ELSE c.lic
      /\ d.consts = IF \/ j.pc = "persist" /\ j.op \notin {"license", "unlicense"}
                       \/ j.pc = "stamp" /\ j.op \in {"deploy", "restart"}
                    THEN n.consts ELSE c.consts
      /\ j.pc = "stamp" /\ j.op = "spec" => d.tier = n.tier /\ d.caller = n.caller
      /\ ~(j.pc = "stamp" /\ j.op = "spec") => d.tier = c.tier /\ d.caller = c.caller
  BY WrittenFields
<1>2. KeepsRest(c, j)
      /\ (j.op # "spec" /\ j.pc \in AfterAlter \cup {"alter"} => c = n)
  BY DEF RowInStep
<1> HIDE DEF c, d, n
<1>3. KeepsRest(d, j)
  <2>1. CASE j.op = "spec"
    BY <1>1, <1>2, <2>1 DEF KeepsRest, n
  <2>2. CASE j.op \in {"deploy", "constants"}
    BY <1>1, <1>2, <2>2 DEF KeepsRest, n
  <2>3. CASE j.op \in {"license", "unlicense"}
    BY <1>1, <1>2, <2>3 DEF KeepsRest, n
  <2> QED BY <2>1, <2>2, <2>3 DEF Altering
<1>4. ASSUME \/ j.pc = "stamp"
             \/ j.op # "spec" /\ j.pc \in AfterAlter \cup {"alter", "persist"}
      PROVE  d = n
  <2>1. d.consts = n.consts /\ d.lic = n.lic /\ d.tier = n.tier /\ d.caller = n.caller
    <3>1. CASE j.op = "spec"
      BY <1>1, <1>2, <1>4, <3>1 DEF KeepsRest, n
    <3>2. CASE j.op \in {"deploy", "constants"}
      BY <1>1, <1>2, <1>4, <3>2 DEF KeepsRest, n, AfterAlter
    <3>3. CASE j.op \in {"license", "unlicense"}
      BY <1>1, <1>2, <1>4, <3>3 DEF KeepsRest, n, AfterAlter
    <3> QED BY <3>1, <3>2, <3>3 DEF Altering
  <2> QED BY <1>1, <2>1, SameConfig
<1> QED BY <1>3, <1>4 DEF d, n

\* The app's own job keeps it in step.
LEMMA InStepStep ==
  ASSUME TypeOK, TypeOK', NEW w \in Workers, Step(w), NEW a \in Apps, InStep(w, a)
  PROVE  InStep(w, a)'
<1> DEFINE j == job[w]
           k == job'[w]
<1>1. /\ j \in Job /\ j # NoJob /\ j.op \in Ops /\ StepShape(w)
      /\ j.pc \in DOMAIN Flow[j.op] \cup {"fail", "giveUp"}
      /\ Has(w, a)' => Has(w, a)
  BY StepFacts
<1>2. SUFFICES ASSUME Has(w, a)', k.op \in Altering
               PROVE  /\ k.op = "unlicense" => k.new.lic = NoLicense
                      /\ \A s \in rows'[a] : RowInStep(s, k)
                      /\ k.pc \in AfterAlter =>
                           svc'[a] # NoService /\ svc'[a].config = k.new
  BY DEF InStep
<1>3. /\ k # NoJob /\ k.op = j.op /\ k.new = j.new /\ j.app = a
      /\ j.op = "unlicense" => j.new.lic = NoLicense
      /\ \A r \in rows[a] : RowInStep(r, j)
      /\ j.pc \in AfterAlter => svc[a] # NoService /\ svc[a].config = j.new
      /\ j.op \in Altering
  BY <1>1, <1>2, Moved DEF InStep, Has
<1>4. j.pc \notin {"insert", "unregister", "service", "dropService"}
  BY <1>1, <1>3, FlowOwners DEF Cleanup, Altering
\* Where the job can have come from.
<1>5. /\ k.pc \in AfterAlter =>
           \/ j.pc \in AfterAlter
           \/ j.pc = "alter" /\ Ran(w)
      /\ j.op # "spec" /\ k.pc \in AfterAlter \cup {"alter"} =>
           \/ j.pc \in AfterAlter \cup {"alter"}
           \/ j.pc = "persist" /\ Ran(w)
      /\ Owes(k) => \/ Owes(j) /\ j.pc # "stamp"
                    \/ j.pc = "mark" /\ Ran(w)
  <2>1. CASE WritesOne(w) /\ k.pc = j.pc
    <3>1. k.pc \in {"putSecrets", "syncSecrets"}
      BY <2>1 DEF WritesOne, WriteSecret
    <3>2. Owes(k) => Owes(j) /\ j.pc # "stamp"
      BY <1>3, <2>1, <3>1 DEF Owes, InBackground
    <3> QED BY <3>1, <3>2 DEF AfterAlter
  <2>2. CASE Advances(w) /\ j.pc \in DOMAIN Flow[j.op] /\ k.pc = Flow[j.op][j.pc]
             /\ k.pc \in DOMAIN Flow[j.op]
    <3>1. j.pc \in {"alter", "persist", "mark"} => Ran(w)
      BY <2>2 DEF Advances, NothingToRun, Polls
    <3>2. /\ k.pc \in AfterAlter => j.pc \in AfterAlter \cup {"alter"}
          /\ j.op # "spec" /\ k.pc \in AfterAlter \cup {"alter"} =>
               j.pc \in AfterAlter \cup {"alter", "persist"}
          /\ k.pc \notin {"putSecrets", "licenseKey", "mark", "dropKey", "done"} =>
               j.pc \notin {"putSecrets", "licenseKey", "dropKey", "stamp"}
          /\ j.op \in Tasks
      BY <1>3, <2>2, FlowAlter
    <3>3. k.pc # "done" /\ j.pc \notin {"fail", "giveUp"}
      BY <1>1, <2>2, FlowOrder, FlowFailed
    <3>4. Owes(k) => (Owes(j) /\ j.pc # "stamp") \/ (j.pc = "mark" /\ Ran(w))
      BY <1>3, <3>1, <3>2, <3>3 DEF Owes, InBackground
    <3> QED BY <3>1, <3>2, <3>4
  <2>3. CASE Recovers(w)
    <3>1. k.pc \in {"fail", "giveUp"} \/ (j.pc = "validity" /\ k.pc = After(j))
      BY <1>3, <2>3 DEF Recovers, Altering
    <3>2. CASE k.pc \in {"fail", "giveUp"}
      BY <3>2 DEF Owes, AfterAlter
    <3>3. CASE j.pc = "validity"
      <4>1. j.op \in Tasks
        BY <1>1, <1>3, <3>3, FlowAlter
      <4>2. Owes(j)
        BY <3>3, <4>1 DEF Owes, InBackground
      <4> QED BY <3>3, <4>2 DEF AfterAlter
    <3> QED BY <3>1, <3>2, <3>3
  <2> QED BY <1>3, <2>1, <2>2, <2>3, Moved
\* The row is the old one, or the old one written.
<1>6. ASSUME NEW s \in rows'[a] PROVE RowInStep(s, k)
  <2>1. CASE ~Ran(w)
    <3>1. s \in rows[a]
      BY <1>1, <1>6, <2>1 DEF StepShape, db
    <3> QED BY <1>3, <1>5, <2>1, <3>1 DEF RowInStep, KeepsRest
  <2>2. CASE Ran(w)
    <3>1. PICK r \in rows[a] : s = Written(r, j)
      BY <1>1, <1>3, <1>4, <1>6, <2>2, RowsWritten DEF Ran
    <3>2. r \in Row /\ RowInStep(r, j)
      BY <1>3 DEF TypeOK
    <3>3. /\ KeepsRest(s.config, j)
          /\ j.op # "spec" /\ j.pc \in AfterAlter \cup {"alter", "persist"} =>
               s.config = j.new
      BY <1>1, <1>3, <3>1, <3>2, WrittenInStep
    <3>4. Owes(k) => s.status \in Transient
      <4>1. CASE j.pc = "mark"
        BY <1>1, <3>1, <3>2, <4>1, WrittenFields
      <4>2. CASE Owes(j) /\ j.pc # "stamp"
        <5>1. r.status \in Transient /\ j.pc \notin {"mark", "stamp", "fail", "giveUp"}
          BY <3>2, <4>2 DEF RowInStep, Owes, InBackground
        <5> QED BY <1>1, <3>1, <3>2, <5>1, WrittenFields
      <4> QED BY <1>5, <4>1, <4>2
    <3> QED BY <1>3, <1>5, <3>3, <3>4 DEF RowInStep, KeepsRest
  <2> QED BY <2>1, <2>2
<1>7. ASSUME k.pc \in AfterAlter
      PROVE  svc'[a] # NoService /\ svc'[a].config = k.new
  <2>1. CASE ~Ran(w)
    BY <1>1, <1>3, <1>5, <1>7, <2>1 DEF StepShape, db
  <2>2. CASE Ran(w)
    BY <1>1, <1>3, <1>4, <1>5, <1>7, <2>2, ServiceOf DEF Ran
  <2> QED BY <2>1, <2>2
<1> QED BY <1>3, <1>6, <1>7

\* A new job read the one row there is.
LEMMA InStepRequest ==
  ASSUME TypeOK, NEW w \in Workers, NEW b \in Apps, RequestShape(w, b),
         NEW v \in Workers, NEW a \in Apps, InStep(v, a), RowsUnique(a)
  PROVE  InStep(v, a)'
<1> DEFINE k == job'[w]
<1>1. /\ rows' = rows /\ svc' = svc /\ k \in Job
      /\ v # w \/ a # b => /\ Has(v, a)' <=> Has(v, a)
                           /\ Has(v, a) => job'[v] = job[v]
  BY RequestFrame
<1>2. CASE v # w \/ a # b
  BY <1>1, <1>2 DEF InStep
<1>3. CASE v = w /\ a = b
  <2>1. SUFFICES ASSUME k.op \in Altering
                 PROVE  /\ k.op = "unlicense" => k.new.lic = NoLicense
                        /\ \A r \in rows[b] : RowInStep(r, k)
                        /\ k.pc \notin AfterAlter
    BY <1>1, <1>3 DEF InStep
  <2>2. k.pc \in {"mark", "putSecrets", "licenseKey"}
    BY <2>1, FirstOf DEF Altering
  <2>3. PICK r \in rows[b] : StartsFrom(r, k)
    BY <2>1 DEF RequestShape, Altering
  <2>4. r.config \in Config /\ \A q \in rows[b] : q = r
    BY <1>3 DEF TypeOK, Row, RowsUnique
  <2>5. /\ KeepsRest(r.config, k)
        /\ k.op = "unlicense" => k.new.lic = NoLicense
    <3>1. CASE k.op = "deploy"
      <4>1. PICK s : k.new = [r.config EXCEPT !.consts = s]
        BY <2>3, <3>1 DEF StartsFrom
      <4> QED BY <2>4, <3>1, <4>1, ConfigFields DEF KeepsRest
    <3>2. CASE k.op = "constants"
      <4>1. PICK s : k.new = [r.config EXCEPT !.consts = s]
        BY <2>3, <3>2 DEF StartsFrom
      <4> QED BY <2>4, <3>2, <4>1, ConfigFields DEF KeepsRest
    <3>3. CASE k.op = "spec"
      <4>1. \E t, u : k.new = [r.config EXCEPT !.tier = t, !.caller = u]
        BY <2>3, <3>3 DEF StartsFrom
      <4>2. PICK t : \E u : k.new = [r.config EXCEPT !.tier = t, !.caller = u]
        BY <4>1
      <4>3. PICK u : k.new = [r.config EXCEPT !.tier = t, !.caller = u]
        BY <4>2
      <4> QED BY <2>4, <3>3, <4>3, ConfigFields DEF KeepsRest
    <3>4. CASE k.op \in {"license", "unlicense"}
      <4>1. PICK l : /\ k.new = [r.config EXCEPT !.lic = l]
                     /\ k.op = "unlicense" => l = NoLicense
        BY <2>3, <3>4 DEF StartsFrom
      <4> QED BY <2>4, <3>4, <4>1, ConfigFields DEF KeepsRest
    <3> QED BY <2>1, <3>1, <3>2, <3>3, <3>4 DEF Altering
  <2>6. ~Owes(k) /\ k.pc \notin AfterAlter \cup {"alter"}
    BY <2>2 DEF Owes, InBackground, AfterAlter
  <2> QED BY <2>4, <2>5, <2>6 DEF RowInStep
<1> QED BY <1>2, <1>3

\* An app whose jobs take turns is kept in step: nobody else writes the row or
\* the service meanwhile.
LEMMA InStepNext ==
  ASSUME TypeOK, TypeOK', [Next]_vars, NEW a \in Apps, TakesTurns(a),
         RowsUnique(a), \A w \in Workers : InStep(w, a), NEW v \in Workers
  PROVE  InStep(v, a)'
<1>1. ASSUME NEW w \in Workers, Step(w) PROVE InStep(v, a)'
  <2>1. CASE job[w].app = a
    <3>1. Has(w, a) /\ (Has(v, a)' => v = w)
      BY <1>1, <2>1, StepFacts DEF TakesTurns, Has
    <3> QED BY <1>1, <3>1, InStepStep DEF InStep
  <2>2. CASE job[w].app # a
    <3>1. /\ rows'[a] = rows[a] /\ svc'[a] = svc[a]
          /\ Has(v, a)' => Has(v, a)
          /\ StepShape(w) /\ ~Has(w, a)
      BY <1>1, <2>2, StepFacts DEF Has
    <3>2. Has(v, a)' => job'[v] = job[v]
      BY <3>1 DEF StepShape
    <3> QED BY <3>1, <3>2 DEF InStep
  <2> QED BY <2>1, <2>2
<1>2. CASE \E b \in Apps : Settle(b) \/ ContainerDies(b)
  BY <1>2, SettleShape DEF InStep, Has
<1>3. CASE Crash
  BY <1>3, CrashShape DEF InStep, Has
<1>4. CASE UNCHANGED vars
  BY <1>4 DEF vars, InStep, Has
<1> QED BY <1>1, <1>2, <1>3, <1>4, NextCases, InStepRequest

\* The inductive invariant.
LEMMA InStepInvariant == Spec /\ []TakeTurns => []InStepInv
<1>0. TakeTurns => OneLife
  BY DEF OneLife
<1>1. Init => InStepInv
  BY DEF Init, InStepInv, InStep, Has
<1>2. TypeOK /\ TypeOK' /\ TakeTurns /\ UniqueInv /\ InStepInv /\ [Next]_vars
        => InStepInv'
  BY InStepNext DEF TakeTurns, UniqueInv, InStepInv
<1> QED BY <1>0, <1>1, <1>2, UniqueInvariant, TypeCorrect, PTL DEF Spec

\* So the READY a task of the app writes stands over what it was asked for.
LEMMA StampedInStep ==
  ASSUME TypeOK, TypeOK', [Next]_vars, NEW w \in Workers, job[w] # NoJob,
         InStep(w, job[w].app)
  PROVE  StampsInStep(w)
<1> SUFFICES ASSUME job[w].op \in Altering, job[w].pc = "stamp",
                    NEW s \in rows'[job[w].app], s.status = "READY",
                    job'[w] # job[w]
             PROVE  svc'[job[w].app] # NoService /\ svc'[job[w].app].config = s.config
  BY DEF StampsInStep
<1> DEFINE j == job[w]
<1>1. j \in Job /\ j.app \in Apps
  BY JobFields DEF TypeOK
<1>2. /\ \A r \in rows[j.app] : RowInStep(r, j)
      /\ svc[j.app] # NoService /\ svc[j.app].config = j.new
  BY <1>1 DEF InStep, Has, AfterAlter
<1>3. s \notin rows[j.app]
  <2>1. Owes(j)
    <3>1. j.pc \in DOMAIN Flow[j.op] /\ j.op \in Ops
      BY <1>1, JobFields DEF Steps
    <3>2. j.op \in Tasks
      BY <3>1, FlowOwners
    <3> QED BY <3>2 DEF Owes, InBackground
  <2> QED BY <1>2, <2>1 DEF RowInStep, Transient
<1>4. \E v \in Workers : Step(v)
  <2>1. ~\E v \in Workers : \E b \in Apps : RequestShape(v, b)
    BY <1>1, <1>3, RequestFrame
  <2> QED BY <1>3, <2>1, NextCases, SettleShape, CrashShape DEF vars, db
<1>5. PICK v \in Workers : Step(v)
  BY <1>4
<1>6. StepShape(v) /\ job[v] \in Job /\ (\A b \in Apps \ {job[v].app} : rows'[b] = rows[b])
  BY <1>5, StepFacts
<1>7. v = w
  BY <1>6 DEF StepShape
<1>8. Ran(w)
  BY <1>3, <1>6, <1>7 DEF StepShape, db
<1>9. PICK r \in rows[j.app] : s = Written(r, j)
  BY <1>1, <1>8, RowsWritten DEF Ran
<1>10. r \in Row
  BY <1>1 DEF TypeOK
<1>11. s.config = j.new
  BY <1>1, <1>2, <1>9, <1>10, WrittenInStep
<1>12. svc'[j.app] # NoService /\ svc'[j.app].config = j.new
  BY <1>1, <1>2, <1>8, ServiceOf DEF Ran
<1> QED BY <1>11, <1>12

\* The write of READY that ends a deploy, a change of constants, of the tier or
\* of the license finds the registry and the service agreeing in every field,
\* although each task writes the registry, alters the service and stamps the
\* row in an order of its own (main.py:574-595, 649-660, 703-713, 745-757,
\* 778-788).
THEOREM ReadyMeansInStep ==
  Spec /\ []TakeTurns => AlteredMeansInStep
<1>1. TypeOK /\ TypeOK' /\ InStepInv /\ [Next]_vars =>
        [\A w \in Workers : StampsInStep(w)]_vars
  <2> SUFFICES ASSUME TypeOK, TypeOK', InStepInv, [Next]_vars, NEW w \in Workers,
                      job[w] # NoJob
               PROVE  StampsInStep(w)
    BY DEF StampsInStep
  <2>1. job[w].app \in Apps
    BY JobFields DEF TypeOK
  <2> QED BY <2>1, StampedInStep DEF InStepInv
<1> QED BY <1>1, InStepInvariant, TypeCorrect, PTL DEF Spec, AlteredMeansInStep

(***************************************************************************)
(* The secret of the license.                                              *)
(***************************************************************************)

\* Removing a license takes turns with the app's other jobs, or is not asked
\* for: _run_delete_license drops the secret for good when its own restart has
\* happened (main.py:775-788), whatever another task has configured by then.
LicenseTurns == TakeTurns \/ ("unlicense" \notin Requests /\ OneLife)

\* A specification with a license mounts its secret.
NeedsKey(c) == c.lic # NoLicense

\* Who needs the license's secret has it; a job that needs it may still be on
\* its way to create it.
KeyReady(a) ==
  /\ \A r \in rows[a] : NeedsKey(r.config) => "licenseKey" \in objs[a]
  /\ svc[a] # NoService /\ NeedsKey(svc[a].config) => "licenseKey" \in objs[a]
  /\ \A w \in Workers : Has(w, a) /\ NeedsKey(job[w].new) =>
       "licenseKey" \in objs[a] \/ job[w].pc \in InApp

\* The inductive invariant of the license's secret.
KeyInv == \A a \in Apps : KeyReady(a) \/ Dropped(a)

\* A flow leaves the statements that create objects in the schema by the one
\* that creates the license's secret.
LEMMA FlowKey ==
  ASSUME NEW op \in Ops, NEW pc \in DOMAIN Flow[op] \cap InApp
  PROVE  /\ op \in {"create", "license"}
         /\ op \in Tasks => pc = "licenseKey"
         /\ pc = "licenseKey" \/ Flow[op][pc] \in InApp
<1>1. op \in {"create", "license"} /\ (op # "create" => pc = "licenseKey")
  BY FlowOwners DEF InApp
<1>2. "create" \notin Tasks
  BY DEF Tasks
<1>3. CASE op = "create"   BY <1>1, <1>2, <1>3 DEF Flow, InApp
<1>4. CASE op = "license"  BY <1>1, <1>4 DEF Flow, InApp
<1> QED BY <1>1, <1>3, <1>4

\* The secret is written before anybody is given a license, and goes with the
\* last statement of the task that took it.
LEMMA KeyStep ==
  ASSUME TypeOK, TypeOK', AskedFor, LicenseTurns,
         "unlicense" \in Requests => InStepInv,
         NEW w \in Workers, Step(w), ~(Ran(w) /\ job[w].pc = "dropSchema"),
         NEW a \in Apps, KeyReady(a)
  PROVE  KeyReady(a)'
<1> DEFINE j == job[w]
           k == job'[w]
           Key  == "licenseKey" \in objs[a]
           Key2 == "licenseKey" \in objs'[a]
<1>1. /\ j \in Job /\ j # NoJob /\ j.op \in Ops /\ StepShape(w) /\ j.app \in Apps
      /\ j.pc \in DOMAIN Flow[j.op] \cup {"fail", "giveUp"}
      /\ \A b \in Apps \ {j.app} :
           rows'[b] = rows[b] /\ objs'[b] = objs[b] /\ svc'[b] = svc[b]
      /\ \A v \in Workers : Has(v, a)' => Has(v, a)
      /\ \A v \in Workers \ {w} : job'[v] = job[v]
  BY StepFacts DEF StepShape
<1>2. CASE ~(Ran(w) /\ j.app = a)
  <2>1. rows'[a] = rows[a] /\ objs'[a] = objs[a] /\ svc'[a] = svc[a]
    BY <1>1, <1>2 DEF StepShape, db
  <2>2. ASSUME NEW v \in Workers, Has(v, a)', NeedsKey(job'[v].new)
        PROVE  Key \/ job'[v].pc \in InApp
    <3>1. CASE v # w
      BY <1>1, <2>2, <3>1 DEF KeyReady
    <3>2. CASE v = w
      <4>1. k # NoJob /\ k.new = j.new /\ Has(w, a) /\ j.app = a
        BY <1>1, <2>2, <3>2, Moved DEF Has
      <4>2. Key \/ j.pc \in InApp
        BY <2>2, <3>2, <4>1 DEF KeyReady
      <4>3. ASSUME j.pc \in InApp PROVE FALSE
        <5>1. j.pc \in DOMAIN Flow[j.op] \cap InApp
          BY <1>1, <4>3 DEF InApp
        <5>2. ~WritesOne(w)
          BY <4>3 DEF WritesOne, WriteSecret, InApp
        <5>3. ~Recovers(w)
          BY <1>1, <4>3, <5>1, FlowKey DEF Recovers, InBackground, InApp, Cleanup
        <5>4. ~Advances(w)
          <6>1. ~NothingToRun(j)
            BY <2>2, <3>2, <4>1, <4>3 DEF NothingToRun, NeedsKey, InApp
          <6> QED BY <1>2, <4>1, <4>3, <6>1 DEF Advances, Polls, InApp
        <5> QED BY <4>1, <5>2, <5>3, <5>4, Moved
      <4> QED BY <4>2, <4>3
    <3> QED BY <3>1, <3>2
  <2> QED BY <2>1, <2>2 DEF KeyReady
\* The secret goes with the last statement of the task that took the license:
\* by then the registry, the service and the only job there is name none.
<1>3. CASE Ran(w) /\ j.app = a /\ j.pc = "dropKey"
  <2>1. j.op = "unlicense"
    BY <1>1, <1>3, FlowOwners
  <2>2. TakeTurns /\ InStepInv
    BY <2>1 DEF LicenseTurns, AskedFor
  <2>3. /\ j.new.lic = NoLicense
        /\ \A r \in rows[a] : r.config = j.new
        /\ svc[a] # NoService /\ svc[a].config = j.new
    BY <1>1, <1>3, <2>1, <2>2
       DEF InStepInv, InStep, Has, RowInStep, Altering, AfterAlter
  <2>4. \A s \in rows'[a] : ~NeedsKey(s.config)
    <3> SUFFICES ASSUME NEW s \in rows'[a] PROVE s.config = j.new
      BY <2>3 DEF NeedsKey
    <3>1. PICK r \in rows[a] : s = Written(r, j)
      BY <1>1, <1>3, RowsWritten DEF Ran
    <3>2. s = r
      BY <1>3, <3>1 DEF Written
    <3> QED BY <2>3, <3>2
  <2>5. svc'[a].config = j.new
    BY <1>1, <1>3, <2>3, ServiceOf DEF Ran
  <2>6. \A v \in Workers : Has(v, a)' => ~NeedsKey(job'[v].new)
    <3> SUFFICES ASSUME NEW v \in Workers, Has(v, a)' PROVE job'[v].new = j.new
      BY <2>3 DEF NeedsKey
    <3>1. v = w
      BY <1>1, <1>3, <2>2 DEF TakeTurns, TakesTurns, Has
    <3> QED BY <3>1, Moved DEF Has
  <2> QED BY <2>3, <2>4, <2>5, <2>6 DEF KeyReady, NeedsKey
<1>4. CASE Ran(w) /\ j.app = a /\ j.pc # "dropKey"
  <2>1. Key => Key2
    BY <1>1, <1>4, ObjectsOf DEF Ran
  <2>2. NeedsKey(j.new) /\ j.pc \notin InApp => Key2
    BY <1>1, <1>4, <2>1 DEF KeyReady, Has
  <2>3. ASSUME NEW s \in rows'[a], NeedsKey(s.config) PROVE Key2
    <3>1. CASE j.pc = "insert"
      <4>1. s \in rows[a] \/ s.config = j.new
        BY <1>1, <1>4, <2>3, <3>1, RowsWritten DEF Ran
      <4> QED BY <2>1, <2>2, <2>3, <3>1, <4>1 DEF KeyReady, InApp
    <3>2. CASE j.pc = "unregister"
      BY <1>1, <1>4, <2>3, <3>2, RowsWritten DEF Ran
    <3>3. CASE j.pc \notin {"insert", "unregister"}
      <4>1. PICK r \in rows[a] : s = Written(r, j)
        BY <1>1, <1>4, <2>3, <3>3, RowsWritten DEF Ran
      <4>2. r \in Row
        BY DEF TypeOK
      <4>3. s.config.lic = r.config.lic
            \/ (s.config.lic = j.new.lic /\ j.pc = "persist")
        BY <1>1, <4>1, <4>2, WrittenFields
      <4> QED BY <2>1, <2>2, <2>3, <4>3 DEF KeyReady, NeedsKey, InApp
    <3> QED BY <3>1, <3>2, <3>3
  <2>4. svc'[a] # NoService /\ NeedsKey(svc'[a].config) => Key2
    <3>1. svc'[a] # NoService =>
            \/ svc'[a].config = j.new /\ j.pc \in {"service", "alter"}
            \/ svc[a] # NoService /\ svc'[a].config = svc[a].config
      BY <1>1, <1>4, ServiceOf DEF Ran
    <3> QED BY <2>1, <2>2, <3>1 DEF KeyReady, InApp
  <2>5. ASSUME NEW v \in Workers, Has(v, a)', NeedsKey(job'[v].new)
        PROVE  Key2 \/ job'[v].pc \in InApp
    <3>1. CASE v # w
      BY <1>1, <2>1, <2>5, <3>1 DEF KeyReady
    <3>2. CASE v = w
      <4>1. k # NoJob /\ k.new = j.new /\ NeedsKey(j.new)
        BY <2>5, <3>2, Moved DEF Has
      <4>2. CASE j.pc \notin InApp
        BY <2>2, <4>1, <4>2
      <4>3. CASE j.pc = "licenseKey"
        BY <1>1, <1>4, <4>3, ObjectsOf DEF Ran, InApp
      <4>4. CASE j.pc \in InApp \ {"licenseKey"}
        <5>1. j.pc \in DOMAIN Flow[j.op] \cap InApp
          BY <1>1, <4>4 DEF InApp
        <5>2. ~WritesOne(w)
          BY <4>4 DEF WritesOne, WriteSecret, InApp
        <5>3. ~Recovers(w)
          BY <1>1, <4>4, <5>1, FlowKey DEF Recovers, InBackground, InApp, Cleanup
        <5>4. k.pc = Flow[j.op][j.pc]
          BY <4>1, <5>2, <5>3, Moved
        <5> QED BY <1>1, <3>2, <4>4, <5>1, <5>4, FlowKey
      <4> QED BY <4>2, <4>3, <4>4
    <3> QED BY <3>1, <3>2
  <2> QED BY <2>3, <2>4, <2>5 DEF KeyReady
<1> QED BY <1>2, <1>3, <1>4

\* A request reads what is there, or starts from nothing.
LEMMA KeyRequest ==
  ASSUME TypeOK, AloneInv, AloneInv',
         NEW w \in Workers, NEW b \in Apps, RequestShape(w, b),
         NEW a \in Apps, KeyReady(a) \/ Dropped(a)
  PROVE  (KeyReady(a) \/ Dropped(a))'
<1> DEFINE k == job'[w]
<1>1. /\ rows' = rows /\ objs' = objs /\ svc' = svc
      /\ \A v \in Workers : v # w \/ a # b =>
           /\ Has(v, a)' <=> Has(v, a)
           /\ Has(v, a) => job'[v] = job[v]
      /\ k.op = "create" => k.pc = "schema"
  BY RequestFrame
<1>2. CASE Dropped(a) /\ (a # b \/ k.op # "create")
  BY <1>1, <1>2, RequestFrame DEF Dropped, Creating
<1>3. CASE Dropped(a) /\ a = b /\ k.op = "create"
  <2>1. /\ rows[b] = {} /\ svc[b] = NoService
        /\ \A v \in Workers : Has(v, b)' => v = w
    BY <1>3, FreshStart DEF Dropped
  <2> QED BY <1>1, <1>3, <2>1 DEF KeyReady, InApp
<1>4. CASE KeyReady(a)
  <2>1. ASSUME a = b, NeedsKey(k.new), k.pc \notin InApp
        PROVE  "licenseKey" \in objs[a]
    <3>1. k.op \notin {"create", "license"}
      BY <2>1, FirstOf DEF InApp
    <3>2. PICK r \in rows[b] : StartsFrom(r, k)
      BY <3>1 DEF RequestShape
    <3>3. r.config \in Config
      BY DEF TypeOK, Row
    <3>4. \/ k.new = r.config
          \/ \E s : k.new = [r.config EXCEPT !.consts = s]
          \/ \E t, u : k.new = [r.config EXCEPT !.tier = t, !.caller = u]
          \/ k.new = [r.config EXCEPT !.lic = NoLicense]
      BY <3>1, <3>2 DEF StartsFrom
    <3>5. NeedsKey(r.config)
      BY <2>1, <3>3, <3>4 DEF NeedsKey, Config
    <3> QED BY <1>4, <2>1, <3>5 DEF KeyReady
  <2>2. ASSUME NEW v \in Workers, Has(v, a)', NeedsKey(job'[v].new)
        PROVE  "licenseKey" \in objs[a] \/ job'[v].pc \in InApp
    BY <1>1, <1>4, <2>1, <2>2 DEF KeyReady
  <2> QED BY <1>1, <1>4, <2>2 DEF KeyReady
<1> QED BY <1>2, <1>3, <1>4

\* The inductive invariant.
LEMMA KeyInvariant == Spec /\ []LicenseTurns => []KeyInv
<1>0. LicenseTurns => OneLife
  BY DEF LicenseTurns, OneLife
<1>1. Init => KeyInv
  BY DEF Init, KeyInv, KeyReady, Has
<1>2. /\ TypeOK /\ TypeOK' /\ AskedFor
      /\ AloneInv /\ AloneInv' /\ LicenseTurns
      /\ "unlicense" \in Requests => InStepInv
      /\ KeyInv /\ [Next]_vars
      => KeyInv'
  <2> SUFFICES ASSUME TypeOK, TypeOK', AskedFor, AloneInv, AloneInv', LicenseTurns,
                      "unlicense" \in Requests => InStepInv,
                      [Next]_vars, NEW a \in Apps, KeyReady(a) \/ Dropped(a)
               PROVE  (KeyReady(a) \/ Dropped(a))'
    BY DEF KeyInv
  <2>1. ASSUME NEW w \in Workers, Step(w)
        PROVE  (KeyReady(a) \/ Dropped(a))'
    <3>1. CASE Dropped(a)
      BY <2>1, <3>1, DroppedStep
    <3>2. CASE KeyReady(a) /\ ~(Ran(w) /\ job[w].pc = "dropSchema")
      BY <2>1, <3>2, KeyStep
    <3>3. CASE KeyReady(a) /\ Ran(w) /\ job[w].pc = "dropSchema"
      <4>1. CASE job[w].app = a
        BY <2>1, <3>3, <4>1, SchemaGoes
      <4>2. CASE job[w].app # a
        <5>1. /\ rows'[a] = rows[a] /\ objs'[a] = objs[a] /\ svc'[a] = svc[a]
              /\ \A v \in Workers : Has(v, a)' => Has(v, a)
              /\ ~Has(w, a)
          BY <2>1, <4>2, StepFacts DEF Has
        <5>2. \A v \in Workers : Has(v, a)' => job'[v] = job[v]
          BY <2>1, <4>2, <5>1, StepFacts DEF StepShape
        <5> QED BY <3>3, <5>1, <5>2 DEF KeyReady
      <4> QED BY <4>1, <4>2
    <3> QED BY <3>1, <3>2, <3>3
  <2>2. ASSUME NEW w \in Workers, NEW b \in Apps, RequestShape(w, b)
        PROVE  (KeyReady(a) \/ Dropped(a))'
    BY <2>2, KeyRequest
  <2>3. CASE \E b \in Apps : Settle(b) \/ ContainerDies(b)
    BY <2>3, SettleShape DEF KeyReady, Dropped, Creating, Has
  <2>4. CASE Crash
    BY <2>4, CrashShape DEF KeyReady, Dropped, Creating, Has, db
  <2>5. CASE UNCHANGED vars
    BY <2>5 DEF KeyReady, Dropped, Creating, Has, vars
  <2> QED BY <2>1, <2>2, <2>3, <2>4, <2>5, NextCases
<1>3. CASE "unlicense" \in Requests
  <2>1. LicenseTurns => TakeTurns
    BY <1>3 DEF LicenseTurns
  <2> QED BY <1>0, <1>1, <1>2, <2>1, AloneInvariant, InStepInvariant,
             TypeCorrect, AskedInvariant, PTL DEF Spec
<1>4. CASE "unlicense" \notin Requests
  <2>1. "unlicense" \in Requests => InStepInv
    BY <1>4
  <2> QED BY <1>0, <1>1, <1>2, <2>1, AloneInvariant, TypeCorrect, AskedInvariant,
             PTL DEF Spec
<1> QED BY <1>3, <1>4

\* The service of a licensed app mounts MX_LICENSE_KEY, and the secret is there:
\* it is written before the registry and the service name the license
\* (main.py:407-408, 769) and dropped after both have forgotten it.
THEOREM LicenseKeyStaysBacked ==
  Spec /\ []LicenseTurns => []LicenseKeyBacked
<1>1. KeyInv => LicenseKeyBacked
  BY DEF KeyInv, KeyReady, Dropped, LicenseKeyBacked, NeedsKey
<1> QED BY <1>1, KeyInvariant, PTL

=============================================================================
