------------------------ MODULE AdminConsole_proofs -------------------------
(***************************************************************************)
(* Proof that the buttons of one panel keep an app's tasks apart           *)
(* (GatesKeepTasksApart), and with them the registry and the service in    *)
(* step (GatesKeepInStep), for any number of sessions, threads, apps and   *)
(* requests and any fault but a lost reply.  Both are about apps whose     *)
(* calls were all answered in time and run over an open gate: neither      *)
(* holds once the second half of a double click has run over a closed one. *)
(***************************************************************************)
EXTENDS AdminConsole, Configuration_proofs

-----------------------------------------------------------------------------
(* What one step of a thread does to its job and to the row's status.      *)

InTask(j) == j # NoJob /\ InBackground(j)

LEMMA StepsOf ==
  ASSUME NEW j \in Job
  PROVE  /\ j.op \in Ops /\ j.app \in Apps /\ j # NoJob
         /\ j.pc \in DOMAIN Flow[j.op] \cup {"fail", "giveUp"}
         /\ j.pc \in DOMAIN Flow[j.op] /\ j.pc \notin {"fail", "giveUp"}
              => After(j) = Flow[j.op][j.pc]
         /\ j.pc \in {"fail", "giveUp"} => After(j) = "done"
BY JobFields DEF Steps, After

\* The statements that close a flow, and those of its handler.
LEMMA FlowEnds ==
  ASSUME NEW op \in Ops
  PROVE  /\ {"fail", "giveUp"} \cap DOMAIN Flow[op] = {}
         /\ \A pc \in {"insert", "unregister"} \cap DOMAIN Flow[op] :
              op \notin Tasks /\ Flow[op][pc] = "done"
         /\ op # "unlicense" /\ "stamp" \in DOMAIN Flow[op]
              => Flow[op]["stamp"] = "done"
         /\ op \in Tasks =>
              \A pc \in {"putSecrets", "licenseKey"} \cap DOMAIN Flow[op] :
                Flow[op][pc] = "mark"
<1>0. Tasks = Ops \ {"create", "delete"}
  BY FlowOps DEF Tasks
<1>1. CASE op = "create"     BY <1>0, <1>1 DEF Flow
<1>2. CASE op = "deploy"     BY <1>0, <1>2 DEF Flow
<1>3. CASE op = "restart"    BY <1>0, <1>3 DEF Flow
<1>4. CASE op = "constants"  BY <1>0, <1>4 DEF Flow
<1>5. CASE op = "spec"       BY <1>0, <1>5 DEF Flow
<1>6. CASE op = "license"    BY <1>0, <1>6 DEF Flow
<1>7. CASE op = "unlicense"  BY <1>0, <1>7 DEF Flow
<1>8. CASE op = "suspend"    BY <1>0, <1>8 DEF Flow
<1>9. CASE op = "resume"     BY <1>0, <1>9 DEF Flow
<1>10. CASE op = "delete"    BY <1>0, <1>10 DEF Flow
<1> QED BY <1>1, <1>2, <1>3, <1>4, <1>5, <1>6, <1>7, <1>8, <1>9, <1>10 DEF Ops

\* A statement's effect on the rows, by what the job's pc says.
LEMMA RowsOf ==
  ASSUME TypeOK, NEW w \in Workers, job[w] \in Job,
         Statement(w) \/ \E n \in job[w].todo : WriteSecret(w, n)
  PROVE  /\ \A b \in Apps \ {job[w].app} : rows'[b] = rows[b]
         /\ job[w].pc \notin {"insert", "mark", "persist", "stamp", "fail",
                              "giveUp", "unregister"} => rows' = rows
         /\ job[w].pc = "persist" =>
              rows'[job[w].app] = {Persisted(r, job[w]) : r \in rows[job[w].app]}
         /\ job[w].pc = "mark" =>
              rows'[job[w].app] =
                {[r EXCEPT !.status = MarkStatus(job[w].op)] :
                   r \in rows[job[w].app]}
<1>1. job[w].app \in Apps /\ rows \in [Apps -> SUBSET Row]
  BY JobFields DEF TypeOK
<1>2. CASE Insert(w)      BY <1>1, <1>2 DEF Insert
<1>3. CASE Mark(w)        BY <1>1, <1>3 DEF Mark
<1>4. CASE Persist(w)     BY <1>1, <1>4 DEF Persist
<1>5. CASE Stamp(w)       BY <1>1, <1>5 DEF Stamp
<1>6. CASE WriteFailed(w) BY <1>1, <1>6 DEF WriteFailed
<1>7. CASE Unregister(w)  BY <1>1, <1>7 DEF Unregister
<1>8. \/ Insert(w) \/ Mark(w) \/ Persist(w) \/ Stamp(w) \/ WriteFailed(w)
      \/ Unregister(w)
      \/ /\ rows' = rows
         /\ job[w].pc \notin {"insert", "mark", "persist", "stamp", "fail",
                              "giveUp", "unregister"}
  BY DEF Statement, CreateInApp, CreateService, GrantAccess,
     SetCallerValidity, Alter, SuspendService, ResumeService, ReadEndpoint,
     DropKey, DropService, DropRole, DropSchema, WriteSecret, InApp,
     Accesses, db
<1> QED BY <1>2, <1>3, <1>4, <1>5, <1>6, <1>7, <1>8

\* Where a job goes, and whether it is a task then.
LEMMA GotoFacts ==
  ASSUME TypeOK, NEW w \in Workers, NEW j \in Job, NEW pc, Goto(w, j, pc)
  PROVE  /\ \A v \in Workers \ {w} : job'[v] = job[v]
         /\ pc = "done" => job'[w] = NoJob
         /\ pc # "done" => /\ job'[w] # NoJob
                           /\ job'[w].app = j.app /\ job'[w].op = j.op
                           /\ job'[w].pc = pc
<1>1. [j EXCEPT !.pc = pc].op \in Ops
  BY JobFields DEF Job
<1> QED BY <1>1 DEF Goto, TypeOK, NoJob, Ops, Job

\* Whatever the operation, a step concerns its own job and its own app.
LEMMA StepFrame ==
  ASSUME TypeOK, NEW w \in Workers, job[w] \in Job, Step(w)
  PROVE  /\ \A v \in Workers \ {w} : job'[v] = job[v]
         /\ \A b \in Apps \ {job[w].app} : rows'[b] = rows[b]
         /\ job'[w] # NoJob => job'[w].app = job[w].app
<1> DEFINE j == job[w]
<1>1. \A b \in Apps \ {j.app} : rows'[b] = rows[b]
  <2>1. CASE Statement(w) \/ \E n \in j.todo : WriteSecret(w, n)
    BY <2>1, RowsOf
  <2>2. CASE UNCHANGED rows
    BY <2>2
  <2> QED BY <2>1, <2>2 DEF Step, Skip, Execute, Refuse, FailStatement,
          LoseReply, Observe, TimeOut, db
<1>2. CASE \E k \in Job : \E pc : k.app = j.app /\ Goto(w, k, pc)
  <2>0. PICK k \in Job : \E pc : k.app = j.app /\ Goto(w, k, pc)
    BY <1>2
  <2>1. PICK pc : k.app = j.app /\ Goto(w, k, pc)
    BY <2>0
  <2>2. /\ \A v \in Workers \ {w} : job'[v] = job[v]
        /\ pc = "done" => job'[w] = NoJob
        /\ pc # "done" => job'[w].app = k.app
    BY <2>1, GotoFacts
  <2> QED BY <1>1, <2>1, <2>2
<1>3. CASE \E n \in j.todo : job' = [job EXCEPT ![w] = [j EXCEPT !.todo = @ \ {n}]]
  <2>1. PICK n \in j.todo : job' = [job EXCEPT ![w] = [j EXCEPT !.todo = @ \ {n}]]
    BY <1>3
  <2>2. /\ \A v \in Workers \ {w} : job'[v] = job[v]
        /\ job'[w] = [j EXCEPT !.todo = @ \ {n}]
    BY <2>1 DEF TypeOK
  <2>3. job'[w].app = j.app
    BY <2>2 DEF Job
  <2> QED BY <1>1, <2>2, <2>3
<1>4. CASE \E ran \in BOOLEAN : HandleError(w, ran)
  <2> DEFINE k == IF j.pc \in Cleanup THEN [j EXCEPT !.failed = @ \cup {j.pc}] ELSE j
  <2>1. k \in Job /\ k.app = j.app
    BY JobFields DEF Job
  <2>2. Goto(w, k, AfterError(j))
    BY <1>4 DEF HandleError
  <2> HIDE DEF k
  <2> QED BY <1>2, <2>1, <2>2
<1>5. \/ \E k \in Job : \E pc : k.app = j.app /\ Goto(w, k, pc)
      \/ \E n \in j.todo : job' = [job EXCEPT ![w] = [j EXCEPT !.todo = @ \ {n}]]
      \/ \E ran \in BOOLEAN : HandleError(w, ran)
  BY DEF Step, Skip, Execute, Refuse, FailStatement, LoseReply, Observe, TimeOut
<1> QED BY <1>2, <1>3, <1>4, <1>5

\* The step of a thread in the terms the invariant needs.  A task keeps the
\* status until it ends; a handler that hands over has marked the row; one that
\* does not leaves the rows to its last step.
StepEffect(w) ==
  LET j == job[w]
      k == job'[w]
      a == job[w].app
  IN  /\ \A v \in Workers \ {w} : job'[v] = job[v]
      /\ \A b \in Apps \ {a} : rows'[b] = rows[b]
      /\ k # NoJob => k.app = a /\ k.op = j.op
      /\ (k # NoJob /\ InTask(j)) =>
            /\ InTask(k)
            /\ \A r \in rows'[a] : \E q \in rows[a] : r.status = q.status
            /\ rows[a] # {} => rows'[a] # {}
      /\ (k # NoJob /\ ~InTask(j) /\ InTask(k)) =>
            /\ j.op # "create"
            /\ \A r \in rows'[a] : r.status \in Transient
            /\ rows[a] # {} => rows'[a] # {}
      /\ (k # NoJob /\ ~InTask(j) /\ ~InTask(k)) => rows'[a] = rows[a]

\* A step that leaves the rows alone and goes on at pc.
LEMMA QuietEffect ==
  ASSUME TypeOK, NEW w \in Workers, job[w] \in Job, UNCHANGED rows, NEW pc,
         NEW k \in Job, k.op = job[w].op, k.app = job[w].app, Goto(w, k, pc),
         InTask(job[w]) => pc \notin {"putSecrets", "licenseKey", "mark"},
         ~InTask(job[w]) /\ job[w].op \in Tasks =>
           pc \in {"putSecrets", "licenseKey", "mark", "done"}
  PROVE  StepEffect(w)
<1>1. /\ \A v \in Workers \ {w} : job'[v] = job[v]
      /\ pc = "done" => job'[w] = NoJob
      /\ pc # "done" => /\ job'[w] # NoJob
                        /\ job'[w].app = k.app /\ job'[w].op = k.op
                        /\ job'[w].pc = pc
  BY GotoFacts
<1>2. InTask(job[w]) => job[w].op \in Tasks
  BY DEF InTask, InBackground
<1>3. job'[w] # NoJob /\ InTask(job[w]) => InTask(job'[w])
  BY <1>1, <1>2 DEF InTask, InBackground
<1>4. job'[w] # NoJob /\ ~InTask(job[w]) => ~InTask(job'[w])
  BY <1>1 DEF InTask, InBackground
<1> QED BY <1>1, <1>3, <1>4 DEF StepEffect

LEMMA ErrorEffect ==
  ASSUME TypeOK, NEW w \in Workers, job[w] \in Job, NEW ran \in BOOLEAN,
         UNCHANGED rows, HandleError(w, ran)
  PROVE  StepEffect(w)
<1> DEFINE j == job[w]
           k == IF j.pc \in Cleanup THEN [j EXCEPT !.failed = @ \cup {j.pc}] ELSE j
<1>1. k \in Job /\ k.op = j.op /\ k.app = j.app
  BY JobFields DEF Job
<1>2. Goto(w, k, AfterError(j))
  BY DEF HandleError
<1>3. /\ j.op \in Ops /\ j # NoJob
      /\ j.pc \in DOMAIN Flow[j.op] \cup {"fail", "giveUp"}
      /\ j.pc \in DOMAIN Flow[j.op] /\ j.pc \notin {"fail", "giveUp"}
           => After(j) = Flow[j.op][j.pc]
      /\ j.pc \in {"fail", "giveUp"} => After(j) = "done"
  BY StepsOf
<1>4. InTask(j) => AfterError(j) \notin {"putSecrets", "licenseKey", "mark"}
  <2> SUFFICES ASSUME InTask(j)
               PROVE  AfterError(j) \notin {"putSecrets", "licenseKey", "mark"}
    OBVIOUS
  <2>1. /\ j.op \in Ops \ {"create", "delete"}
        /\ j.pc \notin {"putSecrets", "licenseKey", "mark"}
    BY <1>3, FlowOps DEF InTask, InBackground, Tasks
  <2>2. After(j) \notin {"putSecrets", "licenseKey", "mark"}
    BY <1>3, <2>1, FlowTasks
  <2> QED BY <2>1, <2>2 DEF AfterError
<1>5. ~InTask(j) /\ j.op \in Tasks => AfterError(j) = "done"
  BY <1>3 DEF InTask, InBackground, AfterError, Guarded, Tasks
<1> HIDE DEF k
<1> QED BY <1>1, <1>2, <1>4, <1>5, QuietEffect

LEMMA ExecuteEffect ==
  ASSUME TypeOK, NEW w \in Workers, job[w] \in Job, job[w].op # "unlicense",
         Execute(w)
  PROVE  StepEffect(w)
<1> DEFINE j == job[w]
<1>1. /\ j.op \in Ops /\ j.app \in Apps /\ j # NoJob
      /\ j.pc \in DOMAIN Flow[j.op] \cup {"fail", "giveUp"}
      /\ j.pc \in DOMAIN Flow[j.op] /\ j.pc \notin {"fail", "giveUp"}
           => After(j) = Flow[j.op][j.pc]
      /\ j.pc \in {"fail", "giveUp"} => After(j) = "done"
  BY StepsOf
<1>2. CASE \E n \in j.todo : /\ WriteSecret(w, n)
                             /\ job' = [job EXCEPT ![w] = [j EXCEPT !.todo = @ \ {n}]]
  <2>1. PICK n \in j.todo :
          /\ WriteSecret(w, n)
          /\ job' = [job EXCEPT ![w] = [j EXCEPT !.todo = @ \ {n}]]
    BY <1>2
  <2>2. /\ UNCHANGED rows
        /\ \A v \in Workers \ {w} : job'[v] = job[v]
        /\ job'[w] = [j EXCEPT !.todo = @ \ {n}]
    BY <2>1 DEF WriteSecret, TypeOK
  <2>a. job'[w].app = j.app /\ job'[w].op = j.op /\ job'[w].pc = j.pc
    BY <2>2 DEF Job
  <2>b. job'[w] # NoJob
    <3>1. job'[w].op \in Ops
      BY <1>1, <2>a
    <3> QED BY <1>1, <2>2 DEF Job, NoJob
  <2>3. InTask(j) <=> InTask(job'[w])
    BY <1>1, <2>a, <2>b DEF InTask, InBackground
  <2> QED BY <2>2, <2>a, <2>3 DEF StepEffect
<1>3. CASE Statement(w) /\ Goto(w, j, After(j))
  <2>1. /\ \A b \in Apps \ {j.app} : rows'[b] = rows[b]
        /\ j.pc \notin {"insert", "mark", "persist", "stamp", "fail",
                        "giveUp", "unregister"} => rows' = rows
        /\ j.pc = "persist" =>
             rows'[j.app] = {Persisted(r, j) : r \in rows[j.app]}
        /\ j.pc = "mark" =>
             rows'[j.app] =
               {[r EXCEPT !.status = MarkStatus(j.op)] : r \in rows[j.app]}
    BY <1>3, RowsOf
  <2>2. /\ \A v \in Workers \ {w} : job'[v] = job[v]
        /\ After(j) = "done" => job'[w] = NoJob
        /\ After(j) # "done" => /\ job'[w] # NoJob
                                /\ job'[w].app = j.app /\ job'[w].op = j.op
                                /\ job'[w].pc = After(j)
    BY <1>3, GotoFacts
  <2>3. After(j) # "done" =>
          j.pc \notin {"insert", "stamp", "fail", "giveUp", "unregister"}
    BY <1>1, FlowEnds
  <2>4. rows[j.app] \in SUBSET Row
    BY <1>1 DEF TypeOK
  <2>5. ASSUME After(j) # "done", InTask(j)
        PROVE  /\ InTask(job'[w])
               /\ \A r \in rows'[j.app] : \E q \in rows[j.app] : r.status = q.status
               /\ rows[j.app] # {} => rows'[j.app] # {}
    <3>1. /\ j.op \in Ops \ {"create", "delete"} /\ j.op \in Tasks
          /\ j.pc \notin {"putSecrets", "licenseKey", "mark"}
      BY <1>1, <2>5, FlowOps DEF InTask, InBackground, Tasks
    <3>2. After(j) \notin {"putSecrets", "licenseKey", "mark"}
      BY <1>1, <2>3, <2>5, <3>1, FlowTasks
    <3>3. InTask(job'[w])
      BY <2>2, <2>5, <3>1, <3>2 DEF InTask, InBackground
    <3>4. \A r \in Row : Persisted(r, j).status = r.status
      BY DEF Persisted, Row, Config
    <3>5. CASE j.pc = "persist"
      BY <2>1, <2>4, <3>3, <3>4, <3>5
    <3>6. CASE j.pc # "persist"
      BY <2>1, <2>3, <2>5, <3>1, <3>3, <3>6
    <3> QED BY <3>5, <3>6
  <2>6. ASSUME After(j) # "done", ~InTask(j), InTask(job'[w])
        PROVE  /\ j.op # "create"
               /\ \A r \in rows'[j.app] : r.status \in Transient
               /\ rows[j.app] # {} => rows'[j.app] # {}
    <3>1. j.op \in Tasks /\ j.pc \in {"putSecrets", "licenseKey", "mark"}
      BY <1>1, <2>2, <2>6 DEF InTask, InBackground
    <3>2. After(j) \notin {"putSecrets", "licenseKey", "mark"}
      BY <2>2, <2>6 DEF InTask, InBackground
    <3>3. j.pc = "mark"
      BY <1>1, <3>1, <3>2, FlowEnds
    <3>4. \A r \in Row : [r EXCEPT !.status = MarkStatus(j.op)].status \in Transient
      BY DEF MarkStatus, Transient, Row
    <3>5. rows'[j.app] =
            {[r EXCEPT !.status = MarkStatus(j.op)] : r \in rows[j.app]}
      BY <2>1, <3>3
    <3>6. \A r \in rows'[j.app] : r.status \in Transient
      BY <2>4, <3>4, <3>5
    <3>7. rows[j.app] # {} => rows'[j.app] # {}
      BY <3>5
    <3>8. j.op # "create"
      BY <3>1 DEF Tasks
    <3> QED BY <3>6, <3>7, <3>8
  <2>7. ASSUME After(j) # "done", ~InTask(j), ~InTask(job'[w])
        PROVE  rows' = rows
    <3>1. CASE j.op \in Tasks
      <4>1. j.pc \in {"putSecrets", "licenseKey", "mark"}
        BY <1>1, <2>7, <3>1 DEF InTask, InBackground
      <4>2. After(j) \in {"putSecrets", "licenseKey", "mark"}
        BY <2>2, <2>7, <3>1 DEF InTask, InBackground
      <4>3. j.pc # "mark"
        BY <1>1, <3>1, <4>2, FlowTasks, FlowOps DEF Tasks
      <4> QED BY <2>1, <4>1, <4>3
    <3>2. CASE j.op \notin Tasks
      <4>1. j.op \in {"create", "delete"}
        BY <1>1, <3>2, FlowOps DEF Tasks
      <4>2. j.pc \notin {"mark", "persist", "stamp"}
        BY <1>1, <2>7, <4>1, FlowWrites
      <4> QED BY <2>1, <2>3, <2>7, <4>2
    <3> QED BY <3>1, <3>2
  <2> QED BY <2>1, <2>2, <2>5, <2>6, <2>7 DEF StepEffect
<1> QED BY <1>2, <1>3 DEF Execute

LEMMA StepHasEffect ==
  ASSUME TypeOK, "reply" \notin FaultKinds, NEW w \in Workers,
         job[w].op # "unlicense", Step(w)
  PROVE  job[w] \in Job /\ StepEffect(w)
<1> DEFINE j == job[w]
<1>1. j \in Job
  <2>1. j # NoJob
    BY DEF Step, Skip, Execute, Refuse, FailStatement, LoseReply, Observe,
           TimeOut, RunsStatement
  <2> QED BY <2>1 DEF TypeOK
<1>2. /\ j.op \in Ops /\ j # NoJob
      /\ j.pc \in DOMAIN Flow[j.op] \cup {"fail", "giveUp"}
      /\ j.pc \in DOMAIN Flow[j.op] /\ j.pc \notin {"fail", "giveUp"}
           => After(j) = Flow[j.op][j.pc]
      /\ j.pc \in {"fail", "giveUp"} => After(j) = "done"
  BY <1>1, StepsOf
<1>3. InTask(j) => After(j) \notin {"putSecrets", "licenseKey", "mark"}
  <2> SUFFICES ASSUME InTask(j)
               PROVE  After(j) \notin {"putSecrets", "licenseKey", "mark"}
    OBVIOUS
  <2>1. /\ j.op \in Ops \ {"create", "delete"}
        /\ j.pc \notin {"putSecrets", "licenseKey", "mark"}
    BY <1>2, FlowOps DEF InTask, InBackground, Tasks
  <2> QED BY <1>2, <2>1, FlowTasks
<1>4. ~InTask(j) /\ j.op \in Tasks /\ j.pc # "mark" => After(j) = "mark"
  BY <1>2, FlowEnds DEF InTask, InBackground
<1>5. CASE Skip(w)
  <2>1. j.pc # "mark" /\ Goto(w, j, After(j)) /\ UNCHANGED rows
    BY <1>5 DEF Skip, NothingToRun, db
  <2> QED BY <1>1, <1>3, <1>4, <2>1, QuietEffect
<1>6. CASE Execute(w)
  BY <1>1, <1>6, ExecuteEffect
<1>7. CASE Refuse(w) \/ FailStatement(w)
  <2>1. UNCHANGED rows /\ HandleError(w, FALSE)
    BY <1>7 DEF Refuse, FailStatement, db
  <2> QED BY <1>1, <2>1, ErrorEffect
<1>8. ~LoseReply(w)
  BY DEF LoseReply, Spend
<1>9. CASE Observe(w)
  <2>1. j.pc \in {"awaitRunning", "awaitSuspended"} /\ Goto(w, j, After(j))
        /\ UNCHANGED rows
    BY <1>9 DEF Observe, db
  <2> QED BY <1>1, <1>3, <1>4, <2>1, QuietEffect
<1>10. CASE TimeOut(w)
  <2> DEFINE pc == CASE j.op = "delete" -> "dropService"
                     [] j.op = "restart" /\ j.pc = "awaitSuspended" -> "fail"
                     [] OTHER -> "giveUp"
  <2>1. j.pc \in {"awaitRunning", "awaitSuspended"} /\ Goto(w, j, pc)
        /\ UNCHANGED rows
    BY <1>10 DEF TimeOut, Polls, db
  <2>2. pc \notin {"putSecrets", "licenseKey", "mark"}
    OBVIOUS
  <2>3. ~(~InTask(j) /\ j.op \in Tasks)
    BY <1>2, <2>1 DEF InTask, InBackground
  <2> HIDE DEF pc
  <2> QED BY <1>1, <2>1, <2>2, <2>3, QuietEffect
<1> QED BY <1>1, <1>5, <1>6, <1>7, <1>8, <1>9, <1>10 DEF Step


-----------------------------------------------------------------------------
(* Types of the console.                                                   *)

\* What GET /apps/{name} draws: no button registers, and those behind the gate
\* are there only for a row whose status lasts.
LEMMA ReadFacts ==
  ASSUME TypeOK, NEW a \in Apps, NEW p \in Read(a)
  PROVE  p = NoPanel \/
           /\ p \in Panel /\ p.app = a /\ rows[a] # {}
           /\ "create" \notin p.buttons
           /\ "deploy" \in p.buttons =>
                \E r \in rows[a] : r.status \notin Transient
<1> SUFFICES ASSUME p # NoPanel
             PROVE  /\ p \in Panel /\ p.app = a /\ rows[a] # {}
                    /\ "create" \notin p.buttons
                    /\ "deploy" \in p.buttons =>
                         \E r \in rows[a] : r.status \notin Transient
  OBVIOUS
<1>1. PICK r \in rows[a], status \in {svc[a].status, "NONE"} :
        /\ p.app = a
        /\ p = [app |-> a,
                buttons |-> ActionButtons(r, status) \cup ConstantsButtons(r)
                              \cup LicenseButtons(r) \cup SpecButtons(r)]
  BY DEF Read
<1>2. /\ ActionButtons(r, status) \subseteq RequestNames \ {"create"}
      /\ "deploy" \in ActionButtons(r, status) => r.status \notin Transient
  BY DEF ActionButtons, Gate, RequestNames
<1>3. /\ ConstantsButtons(r) \subseteq RequestNames \ {"create", "deploy"}
      /\ LicenseButtons(r) \subseteq RequestNames \ {"create", "deploy"}
      /\ SpecButtons(r) \subseteq RequestNames \ {"create", "deploy"}
  BY DEF ConstantsButtons, LicenseButtons, SpecButtons, Gate, RequestNames
<1> DEFINE buttons == ActionButtons(r, status) \cup ConstantsButtons(r)
                        \cup LicenseButtons(r) \cup SpecButtons(r)
<1>4. /\ buttons \subseteq RequestNames /\ "create" \notin buttons
      /\ "deploy" \in buttons => r.status \notin Transient
  BY <1>2, <1>3
<1>5. p = [app |-> a, buttons |-> buttons]
  BY <1>1
<1> HIDE DEF buttons
<1> QED BY <1>4, <1>5 DEF Panel

\* A call that was sent is a call.
LEMMA SentCall ==
  ASSUME NEW a \in Apps, NEW op \in RequestNames, NEW v \in Workers \cup {"none"}
  PROVE  /\ [op |-> op, app |-> a, worker |-> v] \in Call
         /\ [op |-> op, app |-> a, worker |-> v] # NoCall
BY DEF Call, NoCall, RequestNames

LEMMA CallFields ==
  ASSUME ConsoleTypeOK, NEW s \in Sessions, call[s] # NoCall
  PROVE  /\ call[s] \in Call /\ call[s].op \in RequestNames
         /\ call[s].app \in Apps /\ call[s].worker \in Workers \cup {"none"}
BY DEF ConsoleTypeOK, Call

LEMMA TouchType ==
  ASSUME ConsoleTypeOK, NEW s \in Sessions, NEW a \in Apps,
         NEW ordered \in BOOLEAN, Touch(a, s, ordered)
  PROVE  /\ hands' \in [Apps -> Sessions \cup {"nobody", "many"}]
         /\ \A b \in Apps \ {a} : hands'[b] = hands[b]
         /\ hands'[a] # "many" =>
              hands'[a] = s /\ ordered /\ hands[a] \in {"nobody", s}
BY DEF Touch, ConsoleTypeOK

\* A message sent by s for a.
LEMMA SendType ==
  ASSUME ConsoleTypeOK, NEW s \in Sessions, NEW a \in Apps,
         NEW op \in RequestNames, Send(s, a, op)
  PROVE  /\ call' \in [Sessions -> Call \cup {NoCall}]
         /\ \A t \in Sessions \ {s} : call'[t] = call[t]
         /\ call'[s] # NoCall /\ call'[s].op = op /\ call'[s].app = a
         /\ call'[s].worker = "none"
<1>1. /\ [op |-> op, app |-> a, worker |-> "none"] \in Call
      /\ [op |-> op, app |-> a, worker |-> "none"] # NoCall
  BY SentCall
<1> QED BY <1>1 DEF Send, ConsoleTypeOK

-----------------------------------------------------------------------------
(* The invariant.                                                          *)

OnCall(s, a) == call[s] # NoCall /\ call[s].app = a

\* A call that was taken on is still its handler's.
CallsServed ==
  \A s \in Sessions : (call[s] # NoCall /\ call[s].worker # "none") =>
    Has(call[s].worker, call[s].app) /\ ~InBackground(job[call[s].worker])

\* A panel registers nothing, and stays while its own call is under way.
PanelsKept ==
  \A s \in Sessions : panel[s] # NoPanel =>
    /\ "create" \notin panel[s].buttons
    /\ call[s] # NoCall => call[s].app = panel[s].app /\ call[s].op # "create"

\* An app in the hands of one session: one task at most, with the status that
\* closes the gate; every handler has the session waiting for it; and while a
\* task is at work nothing but a registration, which will be turned down, can
\* be under way, nor a panel with open buttons.
InHand(a) ==
  /\ \A v, w \in AtWork(a) : v = w
  /\ AtWork(a) # {} =>
       rows[a] # {} /\ \A r \in rows[a] : r.status \in Transient
  /\ hands[a] = "nobody" => rows[a] = {} /\ \A w \in Workers : ~Has(w, a)
  /\ \A w \in Workers : Has(w, a) =>
       /\ job[w].op # "unlicense"
       /\ ~InBackground(job[w]) =>
            /\ job[w].op # "create" => rows[a] # {}
            /\ \E s \in Sessions : OnCall(s, a) /\ call[s].worker = w
  /\ \A s \in Sessions : OnCall(s, a) =>
       /\ hands[a] = s /\ call[s].op # "unlicense"
       /\ AtWork(a) = {} \/ (call[s].op = "create" /\ call[s].worker = "none")
  /\ \A s \in Sessions :
       (/\ hands[a] = s /\ call[s] = NoCall /\ panel[s] # NoPanel
        /\ panel[s].app = a /\ "deploy" \in panel[s].buttons) => AtWork(a) = {}

HandsInv == \A a \in Apps : hands[a] # "many" => InHand(a)

ConsoleInv == TypeOK /\ ConsoleTypeOK /\ CallsServed /\ PanelsKept /\ HandsInv

\* An app that a step does not touch stays in hand.
LEMMA Frame ==
  ASSUME NEW b \in Apps, InHand(b), hands'[b] = hands[b], rows'[b] = rows[b],
         \A w \in Workers : job'[w] = job[w] \/ (~Has(w, b) /\ ~Has(w, b)'),
         \A s \in Sessions :
           call'[s] = call[s] \/ (~OnCall(s, b) /\ ~OnCall(s, b)'),
         \A s \in Sessions : call'[s] = NoCall =>
           \/ call[s] = NoCall /\ panel'[s] = panel[s]
           \/ panel'[s] = NoPanel \/ panel'[s].app # b
  PROVE  InHand(b)'
<1>1. AtWork(b)' = AtWork(b)
  BY DEF AtWork, Has, InBackground
<1>2. \A w \in Workers : Has(w, b)' <=> Has(w, b)
  BY DEF Has
<1>3. \A s \in Sessions : OnCall(s, b)' <=> OnCall(s, b)
  BY DEF OnCall
<1>4. \A w \in Workers : Has(w, b)' => job'[w] = job[w]
  BY DEF Has
<1>5. \A s \in Sessions : OnCall(s, b) => call'[s] = call[s]
  OBVIOUS
<1>6. \A v, w \in AtWork(b)' : v = w
  BY <1>1 DEF InHand
<1>7. AtWork(b)' # {} =>
        rows'[b] # {} /\ \A r \in rows'[b] : r.status \in Transient
  BY <1>1 DEF InHand
<1>8. hands'[b] = "nobody" => rows'[b] = {} /\ \A w \in Workers : ~Has(w, b)'
  BY <1>2 DEF InHand
<1>9. ASSUME NEW w \in Workers, Has(w, b)'
      PROVE  /\ job'[w].op # "unlicense"
             /\ ~InBackground(job'[w]) =>
                  /\ job'[w].op # "create" => rows'[b] # {}
                  /\ \E s \in Sessions : OnCall(s, b)' /\ call'[s].worker = w
  BY <1>2, <1>3, <1>4, <1>5, <1>9 DEF InHand
<1>10. ASSUME NEW s \in Sessions, OnCall(s, b)'
       PROVE  /\ hands'[b] = s /\ call'[s].op # "unlicense"
              /\ AtWork(b)' = {} \/ (call'[s].op = "create" /\ call'[s].worker = "none")
  BY <1>1, <1>3, <1>5, <1>10 DEF InHand
<1>11. ASSUME NEW s \in Sessions,
              hands'[b] = s, call'[s] = NoCall, panel'[s] # NoPanel,
              panel'[s].app = b, "deploy" \in panel'[s].buttons
       PROVE  AtWork(b)' = {}
  BY <1>1, <1>11 DEF InHand
<1> QED BY <1>6, <1>7, <1>8, <1>9, <1>10, <1>11 DEF InHand

\* The clicks that are kept have their type.
ClickTyped == clicked \in [Sessions -> Apps \cup {NoClick}]

LEMMA TypeKept ==
  ASSUME TypeOK, UNCHANGED vars
  PROVE  TypeOK' /\ UNCHANGED <<rows, svc, job>>
BY DEF TypeOK, vars

\* Drawing a panel changes nothing else.
LEMMA DrawStep ==
  ASSUME ConsoleInv, NEW s \in Sessions, NEW a \in Apps, NEW p \in Read(a),
         call[s] = NoCall, panel' = [panel EXCEPT ![s] = p],
         UNCHANGED <<vars, call, hands>>, ClickTyped'
  PROVE  ConsoleInv'
<1>1. /\ TypeOK' /\ UNCHANGED <<rows, job, call, hands>> /\ call[s] = NoCall
      /\ ClickTyped'
  BY TypeKept DEF ConsoleInv
<1>2. panel' = [panel EXCEPT ![s] = p]
  OBVIOUS
<1>3. p = NoPanel \/
        /\ p \in Panel /\ p.app = a /\ "create" \notin p.buttons
        /\ "deploy" \in p.buttons => \E r \in rows[a] : r.status \notin Transient
  BY ReadFacts DEF ConsoleInv
<1>4. /\ panel'[s] = p
      /\ \A t \in Sessions \ {s} : panel'[t] = panel[t]
  BY <1>2 DEF ConsoleInv, ConsoleTypeOK
<1>5. ConsoleTypeOK'
  BY <1>1, <1>2, <1>3 DEF ConsoleInv, ConsoleTypeOK, ClickTyped
<1>6. CallsServed'
  BY <1>1 DEF ConsoleInv, CallsServed, Has, InBackground
<1>7. PanelsKept'
  BY <1>1, <1>3, <1>4 DEF ConsoleInv, PanelsKept
<1>8. ASSUME NEW b \in Apps, hands'[b] # "many"
      PROVE  InHand(b)'
  <2>1. InHand(b)
    BY <1>1, <1>8 DEF ConsoleInv, HandsInv
  <2>2. CASE b # a
    BY <1>1, <1>3, <1>4, <2>1, <2>2, Frame DEF OnCall
  <2>3. CASE b = a
    <3>1. AtWork(b)' = AtWork(b) /\ \A w : Has(w, b)' <=> Has(w, b)
      BY <1>1 DEF AtWork, Has, InBackground
    <3>2. ASSUME NEW t \in Sessions,
                 hands'[b] = t, call'[t] = NoCall, panel'[t] # NoPanel,
                 panel'[t].app = b, "deploy" \in panel'[t].buttons
          PROVE  AtWork(b)' = {}
      BY <1>1, <1>3, <1>4, <2>1, <2>3, <3>1, <3>2 DEF InHand
    <3> QED BY <1>1, <2>1, <3>1, <3>2 DEF InHand, OnCall, InBackground
  <2> QED BY <2>2, <2>3
<1> QED BY <1>1, <1>5, <1>6, <1>7, <1>8 DEF ConsoleInv, HandsInv

LEMMA ShowStep ==
  ASSUME ConsoleInv, NEW s \in Sessions, NEW a \in Apps, Show(s, a)
  PROVE  ConsoleInv'
<1>1. /\ call[s] = NoCall /\ UNCHANGED <<vars, call, hands>> /\ ClickTyped'
  BY DEF Show, Idle, ConsoleInv, ConsoleTypeOK, ClickTyped
<1>2. PICK p \in Read(a) : panel' = [panel EXCEPT ![s] = p]
  BY DEF Show
<1> QED BY <1>1, <1>2, DrawStep

LEMMA BulkStep ==
  ASSUME ConsoleInv, NEW s \in Sessions, NEW a \in Apps, NEW op, Bulk(s, a, op)
  PROVE  ConsoleInv'
<1>1. /\ TypeOK' /\ UNCHANGED <<rows, job>> /\ call[s] = NoCall
      /\ ClickTyped'
  BY TypeKept DEF Bulk, Idle, ConsoleInv, ConsoleTypeOK, ClickTyped
<1>2. op \in RequestNames
  BY DEF Bulk, RequestNames
<1>3. /\ call' \in [Sessions -> Call \cup {NoCall}]
      /\ \A t \in Sessions \ {s} : call'[t] = call[t]
      /\ call'[s] # NoCall /\ call'[s].op = op /\ call'[s].app = a
      /\ call'[s].worker = "none"
  BY <1>2, SendType DEF Bulk, ConsoleInv
<1>4. /\ hands' \in [Apps -> Sessions \cup {"nobody", "many"}]
      /\ \A b \in Apps \ {a} : hands'[b] = hands[b]
      /\ hands'[a] = "many"
  BY TouchType DEF Bulk, ConsoleInv
<1>5. /\ panel' \in [Sessions -> Panel \cup {NoPanel}] /\ panel'[s] = NoPanel
      /\ \A t \in Sessions \ {s} : panel'[t] = panel[t]
  BY DEF Bulk, ConsoleInv, ConsoleTypeOK
<1>6. CallsServed'
  BY <1>1, <1>3 DEF ConsoleInv, CallsServed, Has, InBackground
<1>7. PanelsKept'
  BY <1>3, <1>5 DEF ConsoleInv, PanelsKept
<1>8. ASSUME NEW b \in Apps, hands'[b] # "many"
      PROVE  InHand(b)'
  <2>1. b # a /\ InHand(b) /\ hands'[b] = hands[b]
    BY <1>4, <1>8 DEF ConsoleInv, HandsInv
  <2> QED BY <1>1, <1>3, <1>5, <2>1, Frame DEF OnCall
<1> QED BY <1>1, <1>3, <1>4, <1>5, <1>6, <1>7, <1>8
        DEF ConsoleInv, ConsoleTypeOK, ClickTyped, HandsInv

LEMMA SubmitStep ==
  ASSUME ConsoleInv, NEW s \in Sessions, NEW a \in Apps,
         SubmitForm(s, a)
  PROVE  ConsoleInv'
<1>1. /\ TypeOK' /\ UNCHANGED <<rows, job>> /\ call[s] = NoCall
      /\ ClickTyped'
  BY TypeKept DEF SubmitForm, Idle, ConsoleInv, ConsoleTypeOK, ClickTyped
<1>3. /\ call' \in [Sessions -> Call \cup {NoCall}]
      /\ \A t \in Sessions \ {s} : call'[t] = call[t]
      /\ call'[s] # NoCall /\ call'[s].op = "create" /\ call'[s].app = a
      /\ call'[s].worker = "none"
  <2>1. "create" \in RequestNames
    BY DEF RequestNames
  <2> QED BY <2>1, SendType DEF SubmitForm, ConsoleInv
<1>4. /\ hands' \in [Apps -> Sessions \cup {"nobody", "many"}]
      /\ \A b \in Apps \ {a} : hands'[b] = hands[b]
      /\ hands'[a] # "many" => hands'[a] = s /\ hands[a] \in {"nobody", s}
  BY TouchType DEF SubmitForm, ConsoleInv
<1>5. /\ panel' \in [Sessions -> Panel \cup {NoPanel}] /\ panel'[s] = NoPanel
      /\ \A t \in Sessions \ {s} : panel'[t] = panel[t]
  BY DEF SubmitForm, ConsoleInv, ConsoleTypeOK
<1>6. CallsServed'
  BY <1>1, <1>3 DEF ConsoleInv, CallsServed, Has, InBackground
<1>7. PanelsKept'
  BY <1>3, <1>5 DEF ConsoleInv, PanelsKept
<1>8. ASSUME NEW b \in Apps, hands'[b] # "many"
      PROVE  InHand(b)'
  <2>1. CASE b # a
    <3>1. InHand(b) /\ hands'[b] = hands[b]
      BY <1>4, <1>8, <2>1 DEF ConsoleInv, HandsInv
    <3> QED BY <1>1, <1>3, <1>5, <2>1, <3>1, Frame DEF OnCall
  <2>2. CASE b = a
    <3>0. "nobody" \notin Sessions /\ "many" \notin Sessions
      BY SessionAssumption
    <3>1. hands'[b] = s /\ hands[b] \in {"nobody", s} /\ hands[b] # "many"
      BY <1>4, <1>8, <2>2, <3>0
    <3>2. InHand(b)
      BY <3>1 DEF ConsoleInv, HandsInv
    <3>3. AtWork(b)' = AtWork(b) /\ \A w : Has(w, b)' <=> Has(w, b)
      BY <1>1 DEF AtWork, Has, InBackground
    <3>4. \A t \in Sessions : OnCall(t, b) => t = s
      BY <3>0, <3>1, <3>2 DEF InHand
    <3>5. \A t \in Sessions : ~OnCall(t, b)
      BY <1>1, <3>4 DEF OnCall
    <3>6. \A w \in Workers : Has(w, b)' =>
            job'[w].op # "unlicense" /\ InBackground(job'[w])
      BY <1>1, <3>2, <3>3, <3>5 DEF InHand, InBackground
    <3>7. ASSUME NEW t \in Sessions, OnCall(t, b)'
          PROVE  hands'[b] = t /\ call'[t].op = "create" /\ call'[t].worker = "none"
      BY <1>3, <3>1, <3>5, <3>7 DEF OnCall
    <3>8. \A t \in Sessions : ~(hands'[b] = t /\ call'[t] = NoCall)
      BY <1>3, <3>1
    <3>9. hands'[b] # "nobody"
      BY <3>0, <3>1
    <3>10. AtWork(b)' # {} =>
             rows'[b] # {} /\ \A r \in rows'[b] : r.status \in Transient
      BY <1>1, <3>2, <3>3 DEF InHand
    <3>11. \A v, w \in AtWork(b)' : v = w
      BY <3>2, <3>3 DEF InHand
    <3> QED BY <3>6, <3>7, <3>8, <3>9, <3>10, <3>11 DEF InHand
  <2> QED BY <2>1, <2>2
<1> QED BY <1>1, <1>3, <1>4, <1>5, <1>6, <1>7, <1>8
        DEF ConsoleInv, ConsoleTypeOK, ClickTyped, HandsInv

\* A panel drawn for app a with its gate open.
OpenPanel(p, a) == p # NoPanel /\ p.app = a /\ "deploy" \in p.buttons

\* A button is run in order when the panel it was on, or the one its run draws,
\* has an open gate.
LEMMA RunStep ==
  ASSUME ConsoleInv, NEW s \in Sessions, NEW a \in Apps,
         NEW op \in RequestNames \ {"create"}, NEW p \in Read(a),
         NEW ordered \in BOOLEAN, RunButton(s, a, op, p, ordered),
         ordered => op # "unlicense" /\ (OpenPanel(panel[s], a) \/ OpenPanel(p, a)),
         call[s] = NoCall, UNCHANGED vars, ClickTyped'
  PROVE  ConsoleInv'
<1>1. TypeOK' /\ UNCHANGED <<rows, job>>
  BY TypeKept DEF ConsoleInv
<1>3. /\ panel' = [panel EXCEPT ![s] = p]
      /\ \/ UNCHANGED <<call, hands>>
         \/ p # NoPanel /\ Send(s, a, op) /\ Touch(a, s, ordered)
  BY DEF RunButton
<1>4. p = NoPanel \/
        /\ p \in Panel /\ p.app = a /\ rows[a] # {} /\ "create" \notin p.buttons
        /\ "deploy" \in p.buttons => \E r \in rows[a] : r.status \notin Transient
  BY ReadFacts DEF ConsoleInv
<1>5. /\ panel'[s] = p
      /\ \A t \in Sessions \ {s} : panel'[t] = panel[t]
      /\ panel' \in [Sessions -> Panel \cup {NoPanel}]
  BY <1>3, <1>4 DEF ConsoleInv, ConsoleTypeOK
<1>6. CASE UNCHANGED <<call, hands>>
  BY <1>3, <1>6, DrawStep
<1>7. CASE p # NoPanel /\ Send(s, a, op) /\ Touch(a, s, ordered)
  <2>1. /\ call' \in [Sessions -> Call \cup {NoCall}]
        /\ \A t \in Sessions \ {s} : call'[t] = call[t]
        /\ call'[s] # NoCall /\ call'[s].op = op /\ call'[s].app = a
        /\ call'[s].worker = "none"
    BY <1>7, SendType DEF ConsoleInv
  <2>3. /\ hands' \in [Apps -> Sessions \cup {"nobody", "many"}]
        /\ \A b \in Apps \ {a} : hands'[b] = hands[b]
        /\ hands'[a] # "many" =>
             hands'[a] = s /\ ordered /\ hands[a] \in {"nobody", s}
    BY <1>7, TouchType DEF ConsoleInv
  <2>4. CallsServed'
    BY <1>1, <2>1 DEF ConsoleInv, CallsServed, Has, InBackground
  <2>5. PanelsKept'
    BY <1>4, <1>5, <1>7, <2>1 DEF ConsoleInv, PanelsKept
  <2>6. ASSUME NEW b \in Apps, hands'[b] # "many"
        PROVE  InHand(b)'
    <3>1. CASE b # a
      <4>1. InHand(b) /\ hands'[b] = hands[b]
        BY <2>3, <2>6, <3>1 DEF ConsoleInv, HandsInv
      <4> QED BY <1>1, <1>4, <1>5, <2>1, <3>1, <4>1, Frame DEF OnCall
    <3>2. CASE b = a
      <4>0. "nobody" \notin Sessions /\ "many" \notin Sessions
        BY SessionAssumption
      <4>1. /\ hands'[b] = s /\ hands[b] \in {"nobody", s} /\ hands[b] # "many"
            /\ op # "unlicense" /\ (OpenPanel(panel[s], b) \/ OpenPanel(p, b))
        BY <2>3, <2>6, <3>2, <4>0
      <4>2. InHand(b)
        BY <4>1 DEF ConsoleInv, HandsInv
      <4>3. AtWork(b)' = AtWork(b) /\ \A w : Has(w, b)' <=> Has(w, b)
        BY <1>1 DEF AtWork, Has, InBackground
      <4>4. hands[b] = s
        BY <1>4, <1>7, <3>2, <4>1, <4>2 DEF InHand
      <4>5. AtWork(b) = {}
        <5>1. CASE OpenPanel(panel[s], b)
          BY <4>2, <4>4, <5>1 DEF InHand, OpenPanel
        <5>2. CASE OpenPanel(p, b)
          BY <1>4, <3>2, <4>2, <5>2 DEF InHand, OpenPanel
        <5> QED BY <4>1, <5>1, <5>2
      <4>6. \A t \in Sessions : ~OnCall(t, b)
        BY <4>2, <4>4 DEF InHand, OnCall
      <4>7. \A w \in Workers : Has(w, b)' =>
              job'[w].op # "unlicense" /\ InBackground(job'[w])
        BY <1>1, <4>2, <4>3, <4>6 DEF InHand, InBackground
      <4>8. ASSUME NEW t \in Sessions, OnCall(t, b)'
            PROVE  hands'[b] = t /\ call'[t].op # "unlicense"
        BY <2>1, <4>1, <4>6, <4>8 DEF OnCall
      <4>9. hands'[b] # "nobody"
        BY <4>0, <4>1
      <4> QED BY <4>3, <4>5, <4>7, <4>8, <4>9 DEF InHand
    <3> QED BY <3>1, <3>2
  <2> QED BY <1>1, <1>5, <2>1, <2>3, <2>4, <2>5, <2>6
          DEF ConsoleInv, ConsoleTypeOK, ClickTyped, HandsInv
<1> QED BY <1>3, <1>6, <1>7

LEMMA ClickStep ==
  ASSUME ConsoleInv, NEW s \in Sessions,
         NEW op \in RequestNames, Click(s, op)
  PROVE  ConsoleInv'
<1> DEFINE a == panel[s].app
<1>1. /\ call[s] = NoCall /\ panel[s] # NoPanel /\ op \in panel[s].buttons
      /\ op # "create" /\ UNCHANGED vars /\ ClickTyped'
  BY DEF Click, Idle, ConsoleInv, ConsoleTypeOK, ClickTyped, PanelsKept
<1>2. a \in Apps
  BY <1>1 DEF ConsoleInv, ConsoleTypeOK, Panel
<1>3. PICK p \in Read(a) : RunButton(s, a, op, p, Ordered(op, panel[s]))
  BY DEF Click
<1>4. /\ Ordered(op, panel[s]) \in BOOLEAN
      /\ Ordered(op, panel[s]) => op # "unlicense" /\ OpenPanel(panel[s], a)
  BY <1>1 DEF Ordered, OpenPanel
<1> QED BY <1>1, <1>2, <1>3, <1>4, RunStep

\* Keeping a click changes nothing else.
LEMMA ClickAheadStep ==
  ASSUME ConsoleInv, NEW s \in Sessions, ClickAhead(s)
  PROVE  ConsoleInv'
<1>1. TypeOK' /\ UNCHANGED <<rows, job, panel, call, hands>>
  BY TypeKept DEF ClickAhead, ConsoleInv
<1>2. ClickTyped'
  BY CallFields DEF ClickAhead, ConsoleInv, ConsoleTypeOK, ClickTyped
<1>3. ConsoleTypeOK' /\ CallsServed' /\ PanelsKept'
  BY <1>1, <1>2 DEF ConsoleInv, ConsoleTypeOK, ClickTyped, CallsServed,
     PanelsKept, Has, InBackground
<1>4. ASSUME NEW b \in Apps, hands'[b] # "many"
      PROVE  InHand(b)'
  <2>1. InHand(b)
    BY <1>1, <1>4 DEF ConsoleInv, HandsInv
  <2> QED BY <1>1, <2>1, Frame
<1> QED BY <1>1, <1>3, <1>4 DEF ConsoleInv, HandsInv

\* A click that was kept is in order when its run reads a status that lasts:
\* the status a task at work has marked does not.
LEMMA RunClickedStep ==
  ASSUME ConsoleInv, NEW s \in Sessions,
         NEW op \in RequestNames, RunClicked(s, op)
  PROVE  ConsoleInv'
<1> DEFINE a == clicked[s]
<1>1. /\ call[s] = NoCall /\ op # "create" /\ a \in Apps
      /\ UNCHANGED vars /\ ClickTyped'
  BY DEF RunClicked, ConsoleInv, ConsoleTypeOK, ClickTyped
<1>2. PICK p \in Read(a) :
        RunButton(s, a, op, p, p # NoPanel /\ Ordered(op, p))
  BY DEF RunClicked
<1>3. p # NoPanel => p.app = a
  BY <1>1, ReadFacts DEF ConsoleInv
<1> DEFINE ordered == p # NoPanel /\ Ordered(op, p)
<1>4. /\ ordered \in BOOLEAN
      /\ ordered => op # "unlicense" /\ OpenPanel(p, a)
  BY <1>3 DEF Ordered, OpenPanel
<1>5. RunButton(s, a, op, p, ordered)
  BY <1>2
<1> HIDE DEF ordered
<1> QED BY <1>1, <1>4, <1>5, RunStep

LEMMA GiveUpStep ==
  ASSUME ConsoleInv, NEW s \in Sessions, GiveUp(s)
  PROVE  ConsoleInv'
<1> DEFINE a == call[s].app
<1>1. /\ TypeOK' /\ UNCHANGED <<rows, job, panel>> /\ call[s] # NoCall
      /\ ClickTyped'
  BY TypeKept DEF GiveUp, ConsoleInv, ConsoleTypeOK, ClickTyped
<1>2. a \in Apps
  BY <1>1, CallFields DEF ConsoleInv
<1>3. /\ call' \in [Sessions -> Call \cup {NoCall}] /\ call'[s] = NoCall
      /\ \A t \in Sessions \ {s} : call'[t] = call[t]
      /\ hands' \in [Apps -> Sessions \cup {"nobody", "many"}]
      /\ hands'[a] = "many" /\ \A b \in Apps \ {a} : hands'[b] = hands[b]
  BY <1>2 DEF GiveUp, ConsoleInv, ConsoleTypeOK
<1>4. CallsServed'
  BY <1>1, <1>3 DEF ConsoleInv, CallsServed, Has, InBackground
<1>5. PanelsKept'
  BY <1>1, <1>3 DEF ConsoleInv, PanelsKept
<1>6. ASSUME NEW b \in Apps, hands'[b] # "many"
      PROVE  InHand(b)'
  <2>1. b # a /\ InHand(b) /\ hands'[b] = hands[b]
    BY <1>3, <1>6 DEF ConsoleInv, HandsInv
  <2>2. panel[s] # NoPanel => panel[s].app = a
    BY <1>1 DEF ConsoleInv, PanelsKept
  <2> QED BY <1>1, <1>3, <2>1, <2>2, Frame DEF OnCall
<1> QED BY <1>1, <1>3, <1>4, <1>5, <1>6 DEF ConsoleInv, ConsoleTypeOK, ClickTyped, HandsInv

LEMMA TurnDownStep ==
  ASSUME ConsoleInv, NEW s \in Sessions, TurnDown(s)
  PROVE  ConsoleInv'
<1> DEFINE a == call[s].app
<1>1. /\ TypeOK' /\ UNCHANGED <<rows, job, panel, hands>> /\ call[s] # NoCall
      /\ ClickTyped'
  BY TypeKept DEF TurnDown, ConsoleInv, ConsoleTypeOK, ClickTyped
<1>2. a \in Apps
  BY <1>1, CallFields DEF ConsoleInv
<1>3. /\ call' \in [Sessions -> Call \cup {NoCall}] /\ call'[s] = NoCall
      /\ \A t \in Sessions \ {s} : call'[t] = call[t]
  BY <1>2 DEF TurnDown, ConsoleInv, ConsoleTypeOK
<1>4. CallsServed'
  BY <1>1, <1>3 DEF ConsoleInv, CallsServed, Has, InBackground, TurnDown
<1>5. PanelsKept'
  BY <1>1, <1>3 DEF ConsoleInv, PanelsKept
<1>6. ASSUME NEW b \in Apps, hands'[b] # "many"
      PROVE  InHand(b)'
  <2>1. InHand(b)
    BY <1>1, <1>6 DEF ConsoleInv, HandsInv
  <2>2. panel[s] # NoPanel => panel[s].app = a /\ call[s].op # "create"
    BY <1>1 DEF ConsoleInv, PanelsKept
  <2>3. CASE b # a
    BY <1>1, <1>3, <2>1, <2>2, <2>3, Frame DEF OnCall
  <2>4. CASE b = a
    <3>1. AtWork(b)' = AtWork(b) /\ \A w : Has(w, b)' <=> Has(w, b)
      BY <1>1 DEF AtWork, Has, InBackground
    <3>2. \A t \in Sessions : OnCall(t, b)' => OnCall(t, b) /\ call'[t] = call[t]
      BY <1>3 DEF OnCall
    <3>3. ASSUME NEW w \in Workers, Has(w, b)'
          PROVE  /\ job'[w].op # "unlicense"
                 /\ ~InBackground(job'[w]) =>
                      /\ job'[w].op # "create" => rows'[b] # {}
                      /\ \E t \in Sessions : OnCall(t, b)' /\ call'[t].worker = w
      <4>1. w # call[s].worker
        BY <3>3, SessionAssumption DEF TurnDown
      <4> QED BY <1>1, <1>3, <2>1, <3>1, <3>3, <4>1 DEF InHand, OnCall, InBackground
    <3>4. ASSUME NEW t \in Sessions,
                 hands'[b] = t, call'[t] = NoCall, panel'[t] # NoPanel,
                 panel'[t].app = b, "deploy" \in panel'[t].buttons
          PROVE  AtWork(b)' = {}
      <4>1. CASE t = s
        BY <1>1, <2>1, <2>2, <2>4, <3>1, <3>4, <4>1 DEF InHand, OnCall
      <4>2. CASE t # s
        BY <1>1, <1>3, <2>1, <3>1, <3>4, <4>2 DEF InHand
      <4> QED BY <4>1, <4>2
    <3> QED BY <1>1, <2>1, <3>1, <3>2, <3>3, <3>4 DEF InHand
  <2> QED BY <2>3, <2>4
<1> QED BY <1>1, <1>3, <1>4, <1>5, <1>6 DEF ConsoleInv, ConsoleTypeOK, ClickTyped, HandsInv

-----------------------------------------------------------------------------
(* The steps of the controller.                                            *)

\* Every job starts in its handler.
LEMMA StartsInHandler ==
  ASSUME NEW op \in Tasks
  PROVE  First[op] \in {"putSecrets", "licenseKey", "mark"}
<1>1. op \in Ops \ {"create", "delete"}
  BY FlowOps DEF Tasks
<1> QED BY <1>1 DEF Ops, First

LEMMA BeginFacts ==
  ASSUME TypeOK, NEW w \in Workers, NEW a \in Apps, NEW op \in Ops,
         NEW id, NEW new, NEW flip, NEW todo,
         Begin(w, a, op, id, new, flip, todo)
  PROVE  /\ job[w] = NoJob /\ UNCHANGED <<rows, svc>>
         /\ \A v \in Workers \ {w} : job'[v] = job[v]
         /\ Has(w, a)' /\ job'[w].op = op /\ ~InBackground(job'[w])
<1> DEFINE j == [op |-> op, app |-> a, id |-> id, new |-> new, flip |-> flip,
                 pc |-> First[op], todo |-> todo, failed |-> {}]
<1>1. /\ job[w] = NoJob /\ UNCHANGED <<rows, svc>>
      /\ \A v \in Workers \ {w} : job'[v] = job[v]
      /\ job'[w] = j
  BY DEF Begin, TypeOK, db
<1>2. j.op = op /\ j.app = a /\ j.pc = First[op]
  OBVIOUS
<1>3. j # NoJob
  BY <1>2 DEF NoJob, Ops
<1> HIDE DEF j
<1>4. ~InBackground(j)
  BY <1>2, StartsInHandler DEF InBackground
<1> QED BY <1>1, <1>2, <1>3, <1>4 DEF Has

\* A request is for an app that has a row, or registers one that has none.
LEMMA RequestFacts ==
  ASSUME TypeOK, NEW w \in Workers, NEW a \in Apps, Request(w, a)
  PROVE  /\ job[w] = NoJob /\ UNCHANGED <<rows, svc>>
         /\ \A v \in Workers \ {w} : job'[v] = job[v]
         /\ Has(w, a)' /\ ~InBackground(job'[w])
         /\ IF job'[w].op = "create" THEN rows[a] = {} ELSE rows[a] # {}
<1>1. CASE Register(w, a)
  <2>1. /\ rows[a] = {}
        /\ \E id, new, flip, todo : Begin(w, a, "create", id, new, flip, todo)
    BY <1>1 DEF Register
  <2>2. "create" \in Ops
    BY DEF Ops
  <2> QED BY <2>1, <2>2, BeginFacts
<1>2. CASE ~Register(w, a)
  <2>1. /\ rows[a] # {}
        /\ \E op \in Ops \ {"create"} :
             \E id, new, flip, todo : Begin(w, a, op, id, new, flip, todo)
    <3>1. CASE TriggerDeploy(w, a)
      BY <3>1 DEF TriggerDeploy, Ops
    <3>2. CASE UpdateConstants(w, a)
      BY <3>2 DEF UpdateConstants, Ops
    <3>3. CASE UpdateSpec(w, a)
      BY <3>3 DEF UpdateSpec, Ops
    <3>4. CASE UpdateLicense(w, a)
      BY <3>4 DEF UpdateLicense, Ops
    <3>5. CASE DeleteLicense(w, a)
      BY <3>5 DEF DeleteLicense, Ops
    <3>6. CASE \E op \in {"suspend", "resume", "delete"} : Plain(w, a, op)
      BY <3>6 DEF Plain, Ops
    <3> QED BY <1>2, <3>1, <3>2, <3>3, <3>4, <3>5, <3>6 DEF Request
  <2> QED BY <2>1, BeginFacts
<1> QED BY <1>1, <1>2

LEMMA TakeStep ==
  ASSUME ConsoleInv, NEW w \in Workers, NEW s \in Sessions, Take(w, s)
  PROVE  ConsoleInv'
<1>0. call[s] # NoCall
  BY DEF Take
<1>2. PICK a \in Apps : a = call[s].app /\ call[s] \in Call
  BY <1>0, CallFields DEF ConsoleInv
<1>1. /\ call[s] # NoCall /\ call[s].worker = "none" /\ UNCHANGED <<panel, hands>>
      /\ Request(w, a) /\ job'[w].op \in FlowsOf(call[s].op)
  BY <1>2 DEF Take
<1>c. ClickTyped'
  BY DEF Take, ConsoleInv, ConsoleTypeOK, ClickTyped
<1>t. TypeOK /\ TypeOK'
  BY <1>1, <1>2, RequestType DEF ConsoleInv
<1>3. /\ TypeOK' /\ job[w] = NoJob /\ UNCHANGED rows
      /\ \A v \in Workers \ {w} : job'[v] = job[v]
      /\ Has(w, a)' /\ ~InBackground(job'[w])
      /\ IF job'[w].op = "create" THEN rows[a] = {} ELSE rows[a] # {}
  BY <1>1, <1>2, <1>t, RequestFacts
<1>4. /\ call' \in [Sessions -> Call \cup {NoCall}]
      /\ \A t \in Sessions \ {s} : call'[t] = call[t]
      /\ call'[s] # NoCall /\ call'[s].app = a /\ call'[s].worker = w
      /\ call'[s].op = call[s].op /\ call[s].app = a
  <2>1. call' = [call EXCEPT ![s].worker = w] /\ call \in [Sessions -> Call \cup {NoCall}]
    BY DEF Take, ConsoleInv, ConsoleTypeOK
  <2>2. call'[s] = [call[s] EXCEPT !.worker = w]
    BY <2>1
  <2>3. /\ call'[s] \in Call /\ call'[s].app = a /\ call'[s].worker = w
        /\ call'[s].op = call[s].op
    BY <1>2, <2>2 DEF Call
  <2>4. call'[s] # NoCall
    BY <2>3 DEF Call, NoCall, RequestNames
  <2> QED BY <2>1, <2>3, <2>4
<1>5. CallsServed'
  <2> SUFFICES ASSUME NEW t \in Sessions, call'[t] # NoCall, call'[t].worker # "none"
               PROVE  (Has(call[t].worker, call[t].app)
                        /\ ~InBackground(job[call[t].worker]))'
    BY DEF CallsServed
  <2>1. CASE t = s
    BY <1>3, <1>4, <2>1
  <2>2. CASE t # s
    <3>1. /\ call'[t] = call[t] /\ Has(call[t].worker, call[t].app)
          /\ ~InBackground(job[call[t].worker])
      BY <1>4, <2>2 DEF ConsoleInv, CallsServed
    <3>2. call[t].worker \in Workers
      BY <1>4, <2>2, CallFields DEF ConsoleInv
    <3>3. call[t].worker # w
      BY <1>3, <3>1 DEF Has
    <3> QED BY <1>3, <3>1, <3>2, <3>3 DEF Has
  <2> QED BY <2>1, <2>2
<1>6. PanelsKept'
  BY <1>1, <1>4 DEF ConsoleInv, PanelsKept
<1>7. ASSUME NEW b \in Apps, hands'[b] # "many"
      PROVE  InHand(b)'
  <2>1. InHand(b)
    BY <1>1, <1>7 DEF ConsoleInv, HandsInv
  <2>2. CASE b # a
    BY <1>1, <1>3, <1>4, <2>1, <2>2, Frame DEF OnCall, Has
  <2>3. CASE b = a
    <3>1. OnCall(s, b) /\ hands[b] = s /\ call[s].op # "unlicense"
      BY <1>1, <1>2, <2>1, <2>3 DEF OnCall, InHand
    <3>2. AtWork(b) = {}
      <4>1. CASE job'[w].op = "create"
        <5>1. rows[b] = {}
          BY <1>3, <2>3, <4>1
        <5> QED BY <2>1, <5>1 DEF InHand
      <4>2. CASE job'[w].op # "create"
        BY <1>1, <2>1, <3>1, <4>2 DEF InHand, FlowsOf
      <4> QED BY <4>1, <4>2
    <3>3. AtWork(b)' = {}
      BY <1>3, <3>2 DEF AtWork
    <3>4. \A t \in Sessions : OnCall(t, b)' => OnCall(t, b) /\ call'[t].op = call[t].op
      BY <1>1, <1>4, <2>3 DEF OnCall
    <3>5. ASSUME NEW v \in Workers, Has(v, b)'
          PROVE  /\ job'[v].op # "unlicense"
                 /\ ~InBackground(job'[v]) =>
                      /\ job'[v].op # "create" => rows'[b] # {}
                      /\ \E t \in Sessions : OnCall(t, b)' /\ call'[t].worker = v
      <4>1. CASE v = w
        BY <1>1, <1>3, <1>4, <2>3, <3>1, <4>1 DEF FlowsOf, OnCall, Has
      <4>2. CASE v # w
        <5>1. Has(v, b) /\ job'[v] = job[v] /\ v # call[s].worker
          BY <1>1, <1>3, <3>5, <4>2, SessionAssumption DEF Has
        <5> QED BY <1>3, <1>4, <2>1, <5>1 DEF InHand, OnCall
      <4> QED BY <4>1, <4>2
    <3>6. hands'[b] # "nobody"
      BY <1>1, <3>1, SessionAssumption
    <3> QED BY <1>1, <2>1, <3>3, <3>4, <3>5, <3>6 DEF InHand
  <2> QED BY <2>2, <2>3
<1> QED BY <1>1, <1>3, <1>4, <1>5, <1>6, <1>7, <1>c
        DEF ConsoleInv, ConsoleTypeOK, ClickTyped, HandsInv

\* No session waits for a task at work.
LEMMA WorkStep ==
  ASSUME ConsoleInv, "reply" \notin FaultKinds, NEW w \in Workers, Work(w)
  PROVE  ConsoleInv'
<1> DEFINE told == {s \in Sessions : call[s] # NoCall /\ call[s].worker = w}
<1>1. /\ Step(w) /\ UNCHANGED hands /\ TypeOK /\ TypeOK'
      /\ IF Answers(w)
         THEN /\ call' = [s \in Sessions |->
                            IF s \in told THEN NoCall ELSE call[s]]
              /\ panel' = [s \in Sessions |->
                            IF s \in told /\ Succeeds(w) THEN NoPanel
                                                         ELSE panel[s]]
         ELSE UNCHANGED <<call, panel>>
  BY StepType DEF Work, ConsoleInv
<1>c. ClickTyped'
  BY DEF Work, ConsoleInv, ConsoleTypeOK, ClickTyped
<1>2. job[w] # NoJob
  BY <1>1 DEF Step, Skip, Execute, Refuse, FailStatement, LoseReply, Observe,
              TimeOut, RunsStatement
<1>3. PICK a \in Apps : a = job[w].app
  BY <1>1, <1>2, JobFields DEF TypeOK
<1>4. /\ call' \in [Sessions -> Call \cup {NoCall}]
      /\ panel' \in [Sessions -> Panel \cup {NoPanel}]
      /\ \A s \in Sessions :
           /\ call'[s] \in {call[s], NoCall} /\ panel'[s] \in {panel[s], NoPanel}
           /\ s \notin told => call'[s] = call[s] /\ panel'[s] = panel[s]
           /\ s \in told /\ Answers(w) => call'[s] = NoCall
           /\ s \in told /\ Answers(w) /\ job'[w] # NoJob => panel'[s] = NoPanel
           /\ ~Answers(w) => call'[s] = call[s] /\ panel'[s] = panel[s]
  BY <1>1 DEF ConsoleInv, ConsoleTypeOK, Succeeds
<1>5. \A s \in told : call[s].app = a /\ ~InBackground(job[w])
  BY <1>3, SessionAssumption DEF ConsoleInv, CallsServed, Has
<1>6. /\ \A v \in Workers \ {w} : job'[v] = job[v]
      /\ \A b \in Apps \ {a} : rows'[b] = rows[b]
      /\ job'[w] # NoJob => job'[w].app = a
  <2>1. job[w] \in Job
    BY <1>1, <1>2 DEF TypeOK
  <2> QED BY <1>1, <1>3, <2>1, StepFrame
<1>7. CallsServed'
  <2> SUFFICES ASSUME NEW s \in Sessions, call'[s] # NoCall, call'[s].worker # "none"
               PROVE  (/\ Has(call[s].worker, call[s].app)
                       /\ ~InBackground(job[call[s].worker]))'
    BY DEF CallsServed
  <2>1. call'[s] = call[s] /\ Has(call[s].worker, call[s].app)
        /\ ~InBackground(job[call[s].worker])
    BY <1>4 DEF ConsoleInv, CallsServed
  <2>2. call[s].worker \in Workers
    BY <2>1, CallFields DEF ConsoleInv
  <2>3. CASE call[s].worker = w
    <3>1. ~Answers(w)
      BY <1>4, <2>1, <2>3
    <3> QED BY <1>3, <1>6, <2>1, <2>3, <3>1 DEF Answers, Has
  <2>4. CASE call[s].worker # w
    BY <1>6, <2>1, <2>2, <2>4 DEF Has
  <2> QED BY <2>3, <2>4
<1>8. PanelsKept'
  BY <1>4 DEF ConsoleInv, PanelsKept
<1>9. ASSUME NEW b \in Apps, hands'[b] # "many"
      PROVE  InHand(b)'
  <2>1. InHand(b)
    BY <1>1, <1>9 DEF ConsoleInv, HandsInv
  <2>2. CASE b # a
    <3>1. \A s \in Sessions : call'[s] # call[s] => s \in told
      BY <1>4
    <3>2. \A s \in Sessions : call'[s] = NoCall =>
            \/ call[s] = NoCall /\ panel'[s] = panel[s]
            \/ panel'[s] = NoPanel \/ panel'[s].app # b
      <4> SUFFICES ASSUME NEW s \in Sessions, call'[s] = NoCall, call[s] # NoCall,
                          panel'[s] # NoPanel
                   PROVE  panel'[s].app # b
        BY <1>4
      <4> QED BY <1>4, <1>5, <2>2, <3>1 DEF ConsoleInv, PanelsKept
    <3>3. \A s \in Sessions :
            call'[s] = call[s] \/ (~OnCall(s, b) /\ ~OnCall(s, b)')
      BY <1>4, <1>5, <2>2, <3>1 DEF OnCall
    <3>4. \A v \in Workers : job'[v] = job[v] \/ (~Has(v, b) /\ ~Has(v, b)')
      BY <1>3, <1>6, <2>2 DEF Has
    <3> QED BY <1>1, <1>6, <2>1, <2>2, <3>2, <3>3, <3>4, Frame
  <2>3. CASE b = a
    <3>1. Has(w, a) /\ job[w].op # "unlicense"
      BY <1>2, <1>3, <2>1, <2>3 DEF Has, InHand
    <3>2. StepEffect(w)
      BY <1>1, <3>1, StepHasEffect
    <3>3. hands[a] # "nobody" /\ hands'[a] = hands[a]
      BY <1>1, <2>1, <2>3, <3>1 DEF InHand
    \* Nothing else goes on for the app.
    <3>4. \A v \in Workers \ {w} : ~Has(v, a)
      <4> SUFFICES ASSUME NEW v \in Workers \ {w}, Has(v, a)
                   PROVE  FALSE
        OBVIOUS
      <4>1. CASE InBackground(job[v])
        <5>1. v \in AtWork(a)
          BY <4>1 DEF AtWork, Has
        <5>2. w \notin AtWork(a)
          BY <2>1, <2>3, <5>1 DEF InHand
        <5>3. ~InBackground(job[w])
          BY <3>1, <5>2 DEF AtWork, Has
        <5>4. PICK s \in Sessions : OnCall(s, a) /\ call[s].worker = w
          BY <2>1, <2>3, <3>1, <5>3 DEF InHand
        <5> QED BY <2>1, <2>3, <5>1, <5>4, SessionAssumption DEF InHand
      <4>2. CASE ~InBackground(job[v])
        <5>1. PICK s \in Sessions : OnCall(s, a) /\ call[s].worker = v
          BY <2>1, <2>3, <4>2 DEF InHand
        <5>2. AtWork(a) = {} /\ hands[a] = s
          BY <2>1, <2>3, <5>1, SessionAssumption DEF InHand
        <5>3. ~InBackground(job[w])
          BY <3>1, <5>2 DEF AtWork, Has
        <5>4. PICK t \in Sessions : OnCall(t, a) /\ call[t].worker = w
          BY <2>1, <2>3, <3>1, <5>3 DEF InHand
        <5> QED BY <2>1, <2>3, <5>1, <5>2, <5>4 DEF InHand
      <4> QED BY <4>1, <4>2
    <3>5. \A v \in Workers \ {w} : ~Has(v, a)'
      BY <1>6, <3>4 DEF Has
    <3>6. AtWork(a) \subseteq {w} /\ AtWork(a)' \subseteq {w}
      BY <3>4, <3>5 DEF AtWork, Has
    <3>7. \A s \in Sessions : OnCall(s, a)' =>
            /\ OnCall(s, a) /\ call'[s] = call[s]
            /\ hands'[a] = s /\ call'[s].op # "unlicense"
      BY <1>4, <2>1, <2>3, <3>3 DEF OnCall, InHand
    <3>8. CASE job'[w] = NoJob
      <4>1. AtWork(a)' = {} /\ \A v \in Workers : ~Has(v, a)'
        BY <3>5, <3>6, <3>8 DEF AtWork, Has
      <4> QED BY <2>3, <3>3, <3>7, <4>1 DEF InHand
    <3>9. CASE job'[w] # NoJob /\ InBackground(job[w])
      <4>1. /\ InBackground(job'[w]) /\ Has(w, a)'
            /\ job'[w].op # "unlicense"
            /\ \A r \in rows'[a] : \E q \in rows[a] : r.status = q.status
            /\ rows[a] # {} => rows'[a] # {}
        BY <1>2, <1>3, <3>1, <3>2, <3>9 DEF StepEffect, InTask, Has
      <4>2. AtWork(a) = {w} /\ AtWork(a)' = {w}
        BY <1>3, <3>1, <3>6, <3>9, <4>1 DEF AtWork, Has
      <4>3. told = {} /\ UNCHANGED <<call, panel>>
        BY <1>4, <1>5, <3>9 DEF ConsoleInv, ConsoleTypeOK
      <4> QED BY <2>1, <2>3, <3>3, <3>5, <3>7, <4>1, <4>2, <4>3
              DEF InHand, OnCall
    <3>10. CASE job'[w] # NoJob /\ ~InBackground(job[w])
      <4>1. PICK s \in Sessions : OnCall(s, a) /\ call[s].worker = w
        BY <2>1, <2>3, <3>1, <3>10 DEF InHand
      <4>2. AtWork(a) = {} /\ hands[a] = s /\ s \in told
        BY <2>1, <2>3, <4>1, SessionAssumption DEF InHand, OnCall
      <4>3. Has(w, a)' /\ job'[w].op = job[w].op
        BY <1>3, <3>2, <3>10 DEF StepEffect, Has
      <4>4. CASE InBackground(job'[w])
        <5>1. /\ job[w].op # "create" /\ \A r \in rows'[a] : r.status \in Transient
              /\ rows[a] # {} => rows'[a] # {}
          BY <1>3, <1>2, <3>2, <3>10, <4>4 DEF StepEffect, InTask
        <5>2. rows'[a] # {}
          BY <2>1, <2>3, <3>1, <3>10, <5>1 DEF InHand
        <5>3. call'[s] = NoCall /\ panel'[s] = NoPanel
          BY <1>4, <3>10, <4>2, <4>4 DEF Answers
        <5>4. \A t \in Sessions : ~OnCall(t, a)'
          BY <3>3, <3>7, <4>2, <5>3 DEF OnCall
        <5>5. \A v \in Workers : Has(v, a)' => v = w
          BY <3>5
        <5> QED BY <2>3, <3>1, <3>3, <3>6, <4>2, <4>3, <4>4, <5>1, <5>2, <5>3,
                   <5>4, <5>5 DEF InHand
      <4>5. CASE ~InBackground(job'[w])
        <5>1. rows' = rows \/ rows'[a] = rows[a]
          BY <1>3, <1>2, <3>2, <3>10, <4>5 DEF StepEffect, InTask
        <5>2. UNCHANGED <<call, panel>>
          BY <1>1, <3>10, <4>5 DEF Answers
        <5>3. AtWork(a)' = {}
          BY <3>6, <4>5 DEF AtWork
        <5> QED BY <2>1, <2>3, <3>1, <3>3, <3>5, <3>7, <3>10, <4>1, <4>3, <5>1,
                   <5>2, <5>3 DEF InHand, OnCall
      <4> QED BY <4>4, <4>5
    <3> QED BY <3>8, <3>9, <3>10
  <2> QED BY <2>2, <2>3
<1> QED BY <1>1, <1>4, <1>7, <1>8, <1>9, <1>c
        DEF ConsoleInv, ConsoleTypeOK, ClickTyped, HandsInv

LEMMA SnowflakeStep ==
  ASSUME ConsoleInv, NEW a \in Apps, Snowflake(a)
  PROVE  ConsoleInv'
<1>1. TypeOK' /\ UNCHANGED <<rows, job, panel, call, clicked, hands>>
  BY EnvironmentType DEF Snowflake, Settle, ContainerDies, ConsoleInv, console
<1>2. ConsoleTypeOK' /\ CallsServed' /\ PanelsKept'
  BY <1>1 DEF ConsoleInv, ConsoleTypeOK, CallsServed, PanelsKept, Has, InBackground
<1>3. ASSUME NEW b \in Apps, hands'[b] # "many"
      PROVE  InHand(b)'
  <2>1. InHand(b)
    BY <1>1, <1>3 DEF ConsoleInv, HandsInv
  <2> QED BY <1>1, <2>1, Frame
<1> QED BY <1>1, <1>2, <1>3 DEF ConsoleInv, HandsInv

LEMMA CrashStep ==
  ASSUME ConsoleInv, CrashUnderCalls
  PROVE  ConsoleInv'
<1>1. /\ TypeOK' /\ UNCHANGED <<rows, panel, clicked, hands>>
      /\ \A w \in Workers : job'[w] = NoJob
      /\ call' = [s \in Sessions |-> NoCall]
  BY EnvironmentType DEF CrashUnderCalls, Crash, ConsoleInv, db
<1>2. ConsoleTypeOK' /\ CallsServed' /\ PanelsKept'
  BY <1>1 DEF ConsoleInv, ConsoleTypeOK, CallsServed, PanelsKept
<1>3. ASSUME NEW b \in Apps, hands'[b] # "many"
      PROVE  InHand(b)'
  <2>1. InHand(b)
    BY <1>1, <1>3 DEF ConsoleInv, HandsInv
  <2>2. AtWork(b)' = {} /\ \A w \in Workers : ~Has(w, b)'
    BY <1>1 DEF AtWork, Has
  <2>3. \A s \in Sessions : ~OnCall(s, b)'
    BY <1>1 DEF OnCall
  <2> QED BY <1>1, <2>1, <2>2, <2>3 DEF InHand
<1> QED BY <1>1, <1>2, <1>3 DEF ConsoleInv, HandsInv

LEMMA InductiveStep ==
  ASSUME "reply" \notin FaultKinds, ConsoleInv, [ConsoleNext]_allVars
  PROVE  ConsoleInv'
<1>1. ASSUME NEW s \in Sessions, NEW a \in Apps, Show(s, a) \/ SubmitForm(s, a)
      PROVE  ConsoleInv'
  BY <1>1, ShowStep, SubmitStep
<1>2. ASSUME NEW s \in Sessions, NEW op \in RequestNames,
             Click(s, op) \/ RunClicked(s, op) \/ \E a \in Apps : Bulk(s, a, op)
      PROVE  ConsoleInv'
  BY <1>2, ClickStep, RunClickedStep, BulkStep
<1>3. ASSUME NEW s \in Sessions,
             \/ ClickAhead(s) \/ GiveUp(s) \/ TurnDown(s)
             \/ \E w \in Workers : Take(w, s)
      PROVE  ConsoleInv'
  BY <1>3, ClickAheadStep, GiveUpStep, TurnDownStep, TakeStep
<1>4. ASSUME NEW w \in Workers, Work(w)
      PROVE  ConsoleInv'
  BY <1>4, WorkStep
<1>5. CASE (\E a \in Apps : Snowflake(a)) \/ CrashUnderCalls
  BY <1>5, SnowflakeStep, CrashStep
<1>6. CASE UNCHANGED allVars
  <2>1. TypeOK' /\ UNCHANGED <<rows, job, panel, call, clicked, hands>>
    BY <1>6, TypeKept DEF ConsoleInv, allVars, console
  <2> QED BY <2>1 DEF ConsoleInv, ConsoleTypeOK, CallsServed, PanelsKept,
          HandsInv, InHand, AtWork, Has, OnCall, InBackground
<1> QED BY <1>1, <1>2, <1>3, <1>4, <1>5, <1>6 DEF ConsoleNext

-----------------------------------------------------------------------------
(* The theorems.                                                           *)

\* At the start no panel is drawn, nothing runs and nobody has acted.
LEMMA InductiveInit == ConsoleInit => ConsoleInv
<1> SUFFICES ASSUME ConsoleInit PROVE ConsoleInv
  OBVIOUS
<1>1. TypeOK /\ ConsoleTypeOK
  BY DEF ConsoleInit, Init, TypeOK, ConsoleTypeOK
<1>2. CallsServed /\ PanelsKept
  BY DEF ConsoleInit, CallsServed, PanelsKept
<1>3. ASSUME NEW a \in Apps PROVE InHand(a)
  <2>1. AtWork(a) = {} /\ \A w \in Workers : ~Has(w, a)
    BY DEF ConsoleInit, Init, AtWork, Has
  <2>2. rows[a] = {} /\ \A s \in Sessions : ~OnCall(s, a)
    BY DEF ConsoleInit, Init, OnCall
  <2> QED BY <2>1, <2>2 DEF InHand
<1> QED BY <1>1, <1>2, <1>3 DEF ConsoleInv, HandsInv

LEMMA Inductive ==
  ASSUME "reply" \notin FaultKinds
  PROVE  ConsoleSpec => []ConsoleInv
<1>1. ConsoleInv /\ [ConsoleNext]_allVars => ConsoleInv'
  BY InductiveStep
<1> QED BY InductiveInit, <1>1, PTL DEF ConsoleSpec

\* The disabled buttons of one panel keep the tasks of an app apart in a
\* controller that itself refuses no second task, with any number of apps,
\* sessions and threads, as long as every call is answered in time and no click
\* is run over a closed gate, as that of a double click can be (1_Apps.py:23,
\* 142-177).  A click that came early but found the gate open does no harm.
THEOREM GatesKeepTasksApart ==
  ASSUME "reply" \notin FaultKinds
  PROVE  ConsoleSpec => []GatedTasksDoNotOverlap
<1>1. ConsoleInv => GatedTasksDoNotOverlap
  <2> SUFFICES ASSUME ConsoleInv, NEW a \in Apps, hands[a] # "many"
               PROVE  Cardinality(AtWork(a)) <= 1
    BY DEF GatedTasksDoNotOverlap
  <2>1. \A v, w \in AtWork(a) : v = w
    BY DEF ConsoleInv, HandsInv, InHand
  <2>2. CASE AtWork(a) = {}
    BY <2>2, FS_EmptySet
  <2>3. CASE AtWork(a) # {}
    <3>1. PICK w : AtWork(a) = {w}
      BY <2>1, <2>3
    <3> QED BY <3>1, FS_Singleton
  <2> QED BY <2>2, <2>3
<1> QED BY <1>1, Inductive, PTL

-----------------------------------------------------------------------------
(* What the controller's proofs say of an app in hand.                     *)

\* Whatever the console does, the controller behaves as AppLifecycle says: all
\* that is proved of Spec holds under the console.
LEMMA ConsoleRunsController ==
  /\ ConsoleInit => Init
  /\ ConsoleTypeOK /\ [ConsoleNext]_allVars => [Next]_vars
<1>1. ConsoleInit => Init
  BY DEF ConsoleInit
<1>2. ASSUME ConsoleTypeOK, [ConsoleNext]_allVars PROVE [Next]_vars
  <2>1. ASSUME NEW s \in Sessions, NEW a \in Apps, Show(s, a) \/ SubmitForm(s, a)
        PROVE  UNCHANGED vars
    BY <2>1 DEF Show, SubmitForm
  <2>2. ASSUME NEW s \in Sessions, NEW op \in RequestNames,
               Click(s, op) \/ RunClicked(s, op) \/ \E a \in Apps : Bulk(s, a, op)
        PROVE  UNCHANGED vars
    BY <2>2 DEF Click, RunClicked, Bulk
  <2>3. ASSUME NEW s \in Sessions, ClickAhead(s) \/ GiveUp(s) \/ TurnDown(s)
        PROVE  UNCHANGED vars
    BY <2>3 DEF ClickAhead, GiveUp, TurnDown
  <2>4. ASSUME NEW s \in Sessions, NEW w \in Workers, Take(w, s) PROVE Next
    BY <1>2, <2>4, CallFields DEF Take, Next
  <2>5. ASSUME NEW w \in Workers, Work(w) PROVE Next
    BY <2>5 DEF Work, Next
  <2>6. ASSUME NEW a \in Apps, Snowflake(a) PROVE Next
    BY <2>6 DEF Snowflake, Next
  <2>7. CrashUnderCalls => Next
    BY DEF CrashUnderCalls, Next
  <2>8. UNCHANGED allVars => UNCHANGED vars
    BY DEF allVars
  <2> QED BY <1>2, <2>1, <2>2, <2>3, <2>4, <2>5, <2>6, <2>7, <2>8 DEF ConsoleNext
<1> QED BY <1>1, <1>2

\* An app that has been in several hands stays so.
LEMMA HandsKept ==
  ASSUME ConsoleTypeOK, [ConsoleNext]_allVars, NEW a \in Apps, hands'[a] # "many"
  PROVE  hands[a] # "many"
<1>1. ASSUME NEW s \in Sessions, NEW b \in Apps, NEW ordered \in BOOLEAN,
             Touch(b, s, ordered)
      PROVE  hands[a] # "many"
  BY <1>1, SessionAssumption DEF Touch, ConsoleTypeOK
<1>2. ASSUME NEW s \in Sessions, NEW b \in Apps,
             SubmitForm(s, b) \/ \E op \in RequestNames : Bulk(s, b, op)
      PROVE  hands[a] # "many"
  BY <1>1, <1>2 DEF SubmitForm, Bulk
<1>3. ASSUME NEW s \in Sessions, NEW op \in RequestNames,
             Click(s, op) \/ RunClicked(s, op)
      PROVE  hands[a] # "many"
  <2>1. PICK b \in Apps, ordered \in BOOLEAN :
          hands' = hands \/ Touch(b, s, ordered)
    <3>1. CASE Click(s, op)
      <4>1. panel[s].app \in Apps
        BY <3>1 DEF Click, ConsoleTypeOK, Panel
      <4>2. \/ hands' = hands
            \/ Touch(panel[s].app, s, Ordered(op, panel[s]))
        BY <3>1 DEF Click, RunButton
      <4> QED BY <4>1, <4>2 DEF Ordered
    <3>2. CASE RunClicked(s, op)
      <4>1. clicked[s] \in Apps
        BY <3>2 DEF RunClicked, ConsoleTypeOK
      <4>2. \E ordered \in BOOLEAN : hands' = hands \/ Touch(clicked[s], s, ordered)
        BY <3>2 DEF RunClicked, RunButton, Ordered
      <4> QED BY <4>1, <4>2
    <3> QED BY <1>3, <3>1, <3>2
  <2> QED BY <1>1, <2>1
<1>4. ASSUME NEW s \in Sessions, GiveUp(s) PROVE hands[a] # "many"
  BY <1>4 DEF GiveUp, ConsoleTypeOK
<1>5. ASSUME NEW s \in Sessions,
             \/ TurnDown(s) \/ ClickAhead(s)
             \/ \E b \in Apps : Show(s, b)
             \/ \E w \in Workers : Take(w, s)
      PROVE  hands' = hands
  BY <1>5 DEF TurnDown, ClickAhead, Show, Take
<1>6. ASSUME NEW w \in Workers, Work(w) PROVE hands' = hands
  BY <1>6 DEF Work
<1>7. ASSUME NEW b \in Apps, Snowflake(b) PROVE hands' = hands
  BY <1>7 DEF Snowflake, console
<1>8. CrashUnderCalls \/ UNCHANGED allVars => hands' = hands
  BY DEF CrashUnderCalls, allVars, console
<1> QED BY <1>2, <1>3, <1>4, <1>5, <1>6, <1>7, <1>8 DEF ConsoleNext

\* The jobs of an app in hand take turns, handlers among them: a handler at
\* work has its session waiting for it, and no task.
InHandTakesTurns == \A a \in Apps : hands[a] # "many" => TakesTurns(a)

\* So says the invariant of the gate.
LEMMA HandsTakeTurns == ConsoleInv => InHandTakesTurns
<1> SUFFICES ASSUME ConsoleInv, NEW a \in Apps, hands[a] # "many",
                    NEW v \in Workers, NEW w \in Workers, Has(v, a), Has(w, a)
             PROVE  v = w
  BY DEF InHandTakesTurns, TakesTurns
<1>1. InHand(a)
  BY DEF ConsoleInv, HandsInv
<1>2. ASSUME NEW u \in Workers, Has(u, a), ~InBackground(job[u])
      PROVE  /\ AtWork(a) = {}
             /\ \E s \in Sessions : hands[a] = s /\ call[s].worker = u
  <2>1. PICK s \in Sessions : OnCall(s, a) /\ call[s].worker = u
    BY <1>1, <1>2 DEF InHand
  <2>2. hands[a] = s /\ (AtWork(a) = {} \/ call[s].worker = "none")
    BY <1>1, <2>1 DEF InHand
  <2> QED BY <2>1, <2>2, SessionAssumption
<1>3. ASSUME NEW u \in Workers, Has(u, a), InBackground(job[u])
      PROVE  u \in AtWork(a)
  BY <1>3 DEF AtWork, Has
<1>4. CASE InBackground(job[v]) /\ InBackground(job[w])
  BY <1>1, <1>3, <1>4 DEF InHand
<1>5. CASE ~InBackground(job[v]) \/ ~InBackground(job[w])
  BY <1>2, <1>3, <1>5
<1> QED BY <1>4, <1>5

\* An app in hand is registered by one thread, has one row, and its jobs keep
\* registry and service in step.
InHandInStep(a) ==
  CreatesAlone(a) /\ RowsUnique(a) /\ \A w \in Workers : InStep(w, a)

StepInv == \A a \in Apps : hands[a] # "many" => InHandInStep(a)

\* The inductive invariant, over that of the gates.
LEMMA InHandInvariant ==
  ASSUME "reply" \notin FaultKinds
  PROVE  ConsoleSpec => []StepInv
<1>1. ConsoleInit => StepInv
  BY ConsoleRunsController
     DEF Init, StepInv, InHandInStep, CreatesAlone, RowsUnique, InStep, Creating, Has
<1>2. /\ ConsoleInv /\ ConsoleInv' /\ InHandTakesTurns /\ InHandTakesTurns'
      /\ StepInv /\ [ConsoleNext]_allVars
      => StepInv'
  <2> SUFFICES ASSUME ConsoleInv, ConsoleInv', InHandTakesTurns, InHandTakesTurns',
                      StepInv, [ConsoleNext]_allVars,
                      NEW a \in Apps, hands'[a] # "many"
               PROVE  InHandInStep(a)'
    BY DEF StepInv
  <2>1. hands[a] # "many"
    BY HandsKept DEF ConsoleInv
  <2>2. InHandInStep(a) /\ TakesTurns(a) /\ TakesTurns(a)'
    BY <2>1 DEF StepInv, InHandTakesTurns
  <2>3. TypeOK /\ TypeOK' /\ [Next]_vars
    BY ConsoleRunsController DEF ConsoleInv
  <2>4. CreatesAlone(a)'
    BY <2>2, <2>3, CreatesAloneNext DEF InHandInStep
  <2>5. RowsUnique(a)'
    BY <2>2, <2>3, UniqueNext DEF InHandInStep
  <2>6. \A w \in Workers : InStep(w, a)'
    BY <2>2, <2>3, InStepNext DEF InHandInStep
  <2> QED BY <2>4, <2>5, <2>6 DEF InHandInStep
<1> QED BY <1>1, <1>2, HandsTakeTurns, Inductive, PTL DEF ConsoleSpec

\* What the operator of one panel is told is so: the READY that ends a deploy or
\* a change of constants, specification or license stands over a registry and a
\* service that agree in every field (main.py:574-595, 649-660, 703-713,
\* 745-757), because the panel's buttons keep the app's jobs apart
\* (1_Apps.py:23, 142-177), within the limits of GatesKeepTasksApart.
THEOREM GatesKeepInStep ==
  ASSUME "reply" \notin FaultKinds
  PROVE  ConsoleSpec => GatedReadyMeansInStep
<1>1. ConsoleInv /\ ConsoleInv' /\ StepInv /\ [ConsoleNext]_allVars =>
        [\A w \in Workers : (job[w] # NoJob /\ hands[job[w].app] # "many")
                               => StampsInStep(w)]_allVars
  <2> SUFFICES ASSUME ConsoleInv, ConsoleInv', StepInv, [ConsoleNext]_allVars,
                      NEW w \in Workers, job[w] # NoJob,
                      hands[job[w].app] # "many"
               PROVE  StampsInStep(w)
    OBVIOUS
  <2>1. TypeOK /\ TypeOK' /\ [Next]_vars
    BY ConsoleRunsController DEF ConsoleInv
  <2>2. job[w].app \in Apps
    BY <2>1, JobFields DEF TypeOK
  <2>3. InStep(w, job[w].app)
    BY <2>2 DEF StepInv, InHandInStep
  <2> QED BY <2>1, <2>3, StampedInStep
<1> QED BY <1>1, InHandInvariant, Inductive, PTL
        DEF ConsoleSpec, GatedReadyMeansInStep

=============================================================================
