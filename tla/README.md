# TLA+ for mendix-snowflake-native-deployment

A Snowflake Native App that deploys Mendix applications on Snowpark Container
Services (SPCS). This directory holds TLA+ models of the parts that keep state,
TLC configurations that check them on small instances, and TLAPS proofs. Paths
below are relative to the repository root.

| module | models | checked by | proved in |
|---|---|---|---|
| `AppLifecycle` | the controller: `Controller/app/main.py`, `registry.py`, the statements of `snowflake_client.py` | `lifecycle_race`, `lifecycle_liveness`, `lifecycle_serial`, `registration_race`; `license_race`, `redeploy_stale` | `AppLifecycle_proofs`, `Registration_proofs`, `Configuration_proofs` |
| `Install` | `native-app/app/setup_script.sql` | `install` | `Install_proofs` |
| `SqlSession`, implementing `SerialStatements` | `execute_sql` and `get_connection` of `Controller/app/snowflake_client.py` | `sql_session` | `SqlSession_proofs` |
| `StagedDeploy` | `trigger-deploy` of `main.py` against the stage, and `Mendix Base Image/entrypoint.sh` | `staged_deploy`; `staged_newest` | `StagedDeploy_proofs` |
| `CallerIdentity`, implementing `FreshRoles` | `Controller/app/auth.py`, `Admin UI/app/auth.py`, the middleware of `main.py` with `activity.py` | `identity` | `CallerIdentity_proofs` |
| `AdminConsole`, extending `AppLifecycle` | `Admin UI/app/pages/1_Apps.py`, `2_Register.py`, `controller_client.py` | `console` | `AdminConsole_proofs` |

The `MC` modules only give constants their values. Run `tlc -config <run>.cfg MC<module>` and `tlapm <module>_proofs.tla`.
In the modules an operator that a comment calls a *variant* is a plausible bug:
put in the place of the operator below it, it makes one property fail. No run
uses one.

## 1. The system

| component | state | operations | talks to |
|---|---|---|---|
| Controller (`Controller/app/main.py`) | none of its own but background tasks in memory | register, trigger-deploy, constants, spec, license (PUT, DELETE), suspend, resume, delete; reads | registry, Snowflake objects |
| Registry (`registry.py`, table `MENDIX_APPS`) | a row per app: status, constants (masked), license id, tier, caller rights, endpoint | insert, update, delete | SQL session |
| Per-app objects | schema `MXAPP_*`, stage, secrets, access role and grants, service | made by register, changed by tasks, dropped by delete | SPCS |
| SQL session (`snowflake_client.py`) | one cached connection, one lock | `execute_sql` with one retry | Snowflake, token file |
| Constants of a PAD (`pad_parser.py`, `models.py`) | none | parse `defaults.conf`, `variables.conf`; secret names | controller |
| Staged PAD and container boot (`Mendix Base Image/entrypoint.sh`) | `current.zip` and other zips on the stage; the app's Postgres database | upload, choose, unpack, start | stage, secrets, Postgres |
| Endpoint URL (`_effective_endpoint`) | `endpoint_url` of the row | read, ask Snowflake, write back | registry, service |
| Caller identity (`Controller/app/auth.py`) | identity cache, 60 s | resolve by caller token, by vouched header, or nobody | Snowflake |
| Compute pool limits (`/system/compute-pool`) | min and max nodes | alter | Snowflake |
| Activity log (`activity.py`) | append-only table | insert after the response | SQL session |
| Native App install (`setup_script.sql`) | `install_state`, `internal_config`, references, pool, warehouse, two services | `grant_callback`, `register_reference`, `maybe_start_services` | consumer, Snowflake |
| Admin console (`Admin UI/app`) | what a browser session read earlier | every controller route, uploads | controller, stage |
| Header SSO (`App Components/Source`) | a user object and its session | log in, provision, refresh token | Mendix runtime |
| Setup checks, logs, activity and branding pages | none | display | Snowflake |
| Build and release (`native-app/scripts`) | images and digests | build, push, pin, release | docker, snow |

The hard behaviour is the controller's. A route answers 202 and leaves a
background task; tasks and requests of one app are not serialised against each
other. What serialises at all is the lock of `execute_sql`, held for one
statement. There is no transaction over two statements, no lock per app, and the
table's primary key is not enforced by Snowflake. A task knows the app by the
row its request read, decides by it minutes later, and writes columns of it
back. Statements fail, answers get lost, polls time out, and a restart of the
controller forgets every task. The state that has to agree is spread over four
places: the registry row, the secrets, the service's specification, and (for
access) the role.

What makes each component correct:

- *Controller.* A transient status ends or its task is to blame; constants in
  the registry or a specification have their secrets; a license key outlives
  the specification that mounts it; the row is the last thing to go; one row per
  app; READY means that the service runs what the registry shows.
- *SQL session.* The connection has one user at a time; token rotation is
  invisible; a statement runs once.
- *Install.* Whatever the order and overlap of the callbacks, the services start
  once the preconditions hold; both hold the same token for ever.
- *PAD, boot.* What the controller parsed is what the container boots; names do
  not collide once they are secret names and variables.
- *Endpoint.* A stored URL belongs to the service that exists.
- *Identity.* Roles that authorize are at most a TTL old; a vouched header is
  believed only with the token.
- *Console.* A button that is enabled starts nothing that overlaps a task (a
  double click does: section 5).
- *Header SSO.* One user per header name, whatever logins race.

## 2. The models

### AppLifecycle

One SQL statement is one step, because that is what the lock makes atomic.
`job[w]` is what a thread does: a request handler followed by the background task
it leaves. `Flow` lists each job's statements in the order of the code, so that a
guard, an early return or an `except` is a decision at a `pc`:

| code | model |
|---|---|
| `_record_for_mutation`, validation, 404, 409, 422 | the request actions (`Register`, `TriggerDeploy`, `UpdateConstants`, ...): a request that is refused changes nothing and is no step |
| the record the task is given | `job[w].new`, computed at the request from the row of that moment |
| `registry.update_app`, an `UPDATE` by name | a map over `rows[a]`, so that a second row and a deleted row behave as in SQL |
| `constants_changed` or not in `_run_deploy` | the jobs `deploy` and `restart` |
| `try ... except: status = FAILED` | `AfterError`: to `fail` from a guarded statement, `done` from the three first registry writes outside the `try` (main.py:649, 745, 778) |
| `except: log` in `delete_app`, `set_caller_token_validity` | the step goes on; a failed drop is put into `failed`, and a delete with `failed # {}` keeps the row (502) |
| `_poll_status` | `Observe`, or `TimeOut` |
| `if new constants`, `if flipped to caller rights` | `NothingToRun` |
| a Snowflake error for a missing or existing object | `Refused` |
| the controller's container restarts | `Crash`: all jobs gone |

`rows[a]` is a *set* of rows since nothing but the code keeps them unique. A
`CREATE OR REPLACE`, `IF EXISTS` or `IF NOT EXISTS` is in the effect of its
statement. `lost[a]` is a history variable: a task of the app ended without
writing its status.

Left out: reads (`GET` routes decide nothing), `endpoint_url`, `pad_stage_path`,
time stamps, secret *values*, the text of specifications. `execute_sql`'s own
retry is `SqlSession`'s: here a statement runs at most once and may lose its
answer. A retried `UPDATE`, `DROP ... IF EXISTS` or `CREATE OR REPLACE` makes no
difference; a retried `CREATE SERVICE` that had run is refused, which is a lost
answer; a retried `INSERT` makes a second, identical row, which `rows[a]`, a
set, does not tell from one. `OneRowPerApp` is therefore about rows of different
registrations.

### Install

A call of a procedure runs its statements one by one, each committed by itself,
in a session of its own. `Flow` is the order of the statements through
`maybe_start_services` and both start procedures; `state` is the row of
`install_state` as the set of flags that are TRUE; `carried[s]` is the token a
service was created with. `Refused` has the preconditions Snowflake enforces: a
privilege for the pool and the warehouse, both of these for a service, the bound
secret for the controller's. `Upgrade` runs the script's guarded INSERT again.
The token is read by a statement of its own before each CREATE SERVICE, and the
procedures overlap, so a rotation in between would show.

### SqlSession

A call is waiting for `_lock`, getting a connection, executing or fetching;
`Raise` is the `except` clause: the first attempt drops the cached connection
and, if the error is `Recoverable`, becomes the second; what the second attempt
raises leaves its own connection cached, as in the code. Snowflake rotates the
token and, later, refuses the old one (`Rotate`, `Expire`). `Cut` is a failed
connection before the statement runs or after it. `ran` and `since` are history.

`SerialStatements` is what callers may rely on, without lock, connection and
tokens: a statement is at its caller, in the queue or with Snowflake, alone; it
runs again only when the answer of its last run went down with a connection, at
most `MaxRuns` times (2 here); an error that came without a lost connection
means that it did not run since. `StatementOf` reads a call that way, and
`StatementsAreSerial` is the refinement.

### StagedDeploy

The stage directory of one app as a function from file names to PADs, which are
numbered in the order they are staged: the number is the modification time.
`Resolved` is `_resolve_staged_pad`. The controller looks at the directory twice,
when it resolves a file and when it parses it (`Trigger`, `Parse`); the container
looks at `current.zip` each time it starts (`Boot`). What a PAD is, is the set of
its constants; `stored`, `mounted` and `exported` are the constants of the
registry, of the service's specification and of the runtime's environment. After
an ALTER SERVICE the old container may serve on for a while (`svc = "old"`),
and the poll for RUNNING takes it for the new one, as the code does. A container
that finds no `current.zip` ends and is started again, so `Boot` waits for the
file.

### CallerIdentity and FreshRoles

`FreshRoles` is what authorization should be without a cache: whoever asks is
told roles that the caller did hold since a horizon, or none. The horizon of a
machine client is one TTL before it asked; that of an operator is the moment its
browser session asked Snowflake. `CallerIdentity` is the code, and implements
it (`RolesAreFresh == Fresh!Spec`, under the mapping `Pending`).

| code | model |
|---|---|
| `now = time.monotonic()` of a request, taken before it resolves | `request[w].at`; the clock `Tick`s between any two steps |
| `_identity_cache` under its lock, twice, by a hash of the caller token | `Lookup` and `Store`, one step each, with the purge of expired entries; `EntryOf` |
| the query in the caller's own session, outside the lock | `Resolve`, `ResolveFails`: requests of one caller resolve at once and store in any order |
| `st.session_state["operator_roles"]`, also after a failure | `OpenConsole`, `CloseConsole` |
| the vouched header | `Vouch`, with the roles the session kept |
| `authorize` | `Authorized` in `AnswerMutation` |
| `X-Operator`, from the console always, from a machine client if it likes | `OperatorHeader`: a machine client sends none or claims a name of `Claims` |
| `log_operator`, after the route | the header's name; without one the round `"log"`: a second lookup with a "now" of its own, then `Insert` with the name it gave |
| a coroutine that never awaits in between | `LoopBusy`: no other request is answered meanwhile (one may be on its way in the thread pool) |
| an exception that is no `HTTPException` goes through `call_next` | `AnswerUnlogged` |

`held[c][t]`, the role sets a caller held in tick `t`, `opened` and the fields
`from` and `claimed` of a row are history. The route's decision is about the
caller; a row has an `operator`, which the second resolution gives.
`LoggedOperatorsWereAllowed` is about that name: whoever an accepted row puts
the action down to did hold, since the horizon of the decision, a role that may
act. An entry taken for another caller's breaks it, and so does a decision under
roles older than the horizon. It leaves out a row without a name (the second
resolution failed) and a name that a machine client claimed (section 5).

### AdminConsole

The controller does not refuse a second task of an app. The console's buttons
are what keeps tasks apart, and they know the status the last run of the page
read. `AdminConsole` puts browser sessions over the whole of `AppLifecycle`, in
one state space: `Take` hands a call to a thread by `AppLifecycle`'s own request
actions, `Work` is its `Step`, and the answer reaches the script with the step
that gives it (`Answers`).

| code | model |
|---|---|
| `_detail_panel` as last drawn | `panel[s]`: the app and the enabled buttons; `Read` computes them from the row and the service |
| `disabled=deploy_status in _TRANSIENT` | `Gate` |
| a click runs the script again, reads the app, then acts | `Click` and `RunButton`: the buttons of before count, the panel of now is kept |
| the buttons on the page while the script waits for the controller, 1_Apps.py:144-149 and each of the others | `ClickAhead`: the click is kept in `clicked[s]`; `RunClicked`: it is run once the script is done, as whatever button, though it may now be drawn disabled |
| Delete asks for the app's name, is never disabled | outside `Gate` in `ActionButtons` |
| `_bulk_panel`, `2_Register.py` | `Bulk`, `SubmitForm`: no gate |
| 30 s time-out of the client | `GiveUp`: the handler goes on |
| `st.rerun()` after success, `st.error` after a refusal | `Work`, `TurnDown` |
| the controller restarts under an open connection | `CrashUnderCalls` |

That Streamlit keeps a click made while a script runs, across `st.rerun()` too,
and then runs it with its trigger, is how version 1.54.0 behaves, which
`Admin UI/requirements.txt:1` pins; nothing under the repository says so. The
model has it as an external fact. One click is kept for a session, and as the
rerun is of the panel's fragment it belongs to the app of the call.

`hands[a]` is history: nobody, the one session that acted on the app through its
gate (or registered it), or "many" from the first act the gate cannot vouch
for: a second session, a bulk action, a call that was given up after 30 seconds,
Delete when the gate was closed (it has none of its own), a kept click whose run
found the gate closed, and Remove license, whose task still drops the key after
it wrote READY. So the properties say nothing of an operator who retries after a
time-out, nor of one who double-clicks a button whose first click was obeyed.

### How they fit

`Install` creates the controller; it has to end before there is an
`AppLifecycle`. `SqlSession` is under every step of `AppLifecycle`, which
is written against what `SerialStatements` promises: statements enter one at a
time, so that one may be a step; one that raised without a lost answer left
nothing behind; and with a connection an answer may be lost, which is why that
module has lost answers. `StagedDeploy`
is `AppLifecycle`'s jobs `deploy` and `restart` seen from the stage and the
container, for one deploy at a time without failing statements.
`CallerIdentity` comes before every request of `AppLifecycle`, which takes
requests that were authorized. `AdminConsole` is composed with `AppLifecycle`;
the others are not composed into one state space.

## 3. The runs

| run | instance | question | states |
|---|---|---|---|
| `lifecycle_race` | 2 threads, 2 names, every request, 3 requests, 1 fault of any kind, 1 crash, 1 registration | `StrandedOnlyByLostWrite`, `SecretsBacked`, `RowOutlivesResources` | 561 000 |
| `lifecycle_liveness` | 2 threads, 3 requests, 1 fault that leaves the registry writable | `JobsEnd`, `StatusSettles` | 128 000 |
| `lifecycle_serial` | 1 thread, 4 requests, 2 tiers, any fault, 1 crash, 2 registrations | `LicenseKeyBacked`, `AlteredMeansInStep` | 816 000 |
| `registration_race` | 3 threads register one name, any fault | `OneRowPerApp` | 434 000 |
| `install` | 2 sessions, 5 calls, 1 failure, 1 upgrade | `NoMissedStart`, `TokensAgree` | 557 000 |
| `sql_session` | 3 threads, 4 calls, 2 cuts, 2 rotations | `Exclusive`, `ExpiredNeedsRotation`, `OnceWithoutCuts`, `StatementsAreSerial` | 251 000 |
| `identity` | 2 threads, 2 machine clients (either may claim the operator's name), 1 browser session, 2 requests, 1 change of roles or reload, TTL 1 and clock 0..1, restarts | `RolesAreFresh`, `LoggedOperatorsWereAllowed` | 848 000 |
| `console` | `AppLifecycle` with 2 threads, 2 licenses, 3 requests, 1 fault, 1 crash, 1 registration, under 1 session | `GatedTasksDoNotOverlap`, `GatedReadyMeansInStep` | 1 580 000 |
| `staged_deploy` | 3 uploads under 2 names, 2 deploys, 2 container deaths, 2 constants | `ParsedPadRuns`, `ConstantsReachRuntime` | 385 000 |

The bounds, and why they are enough to be of use. Two threads and three requests
give a registration (which must come first) and every ordered and overlapping
pair of requests on the app it made; a defect of *pairs* needs no more. Two
constant names let one request keep a name and give another. One fault at any
statement covers every point a job can fail at; a crash and a fault may both
happen. What needs two registrations of one name (`MaxCreates`) or two faults at
once is looked at with one thread, or not at all. `install` needs at least three
calls for the gate to open, two more for a repeated, removed or half-granted
one. `sql_session` has three threads since two cannot show a third one slipping
in between the attempts of the first, and a token that may expire in both
attempts. `staged_deploy` has an upload before the request, one between request
and parse, and one after. `identity` has a clock that passes
the TTL once, in one tick: within a tick everything may happen in any order, and
an entry of tick 0 has expired in tick 1. Two requests may resolve at the same
time, of one client (an overwritten entry) or of two (an entry that is not
theirs). A longer TTL only adds ticks in which nothing expires; the proofs are
for every TTL. The roles are one: what counts of a role set is
whether it may act. `console` has no constant names and one tier, which decide
nothing about overlap, and two licenses, so that two tasks that do overlap
leave different configurations; three requests are a registration and two that
could overlap; more sessions only make `hands` "many". Symmetry is used on
names, licenses, sessions and threads only, never in the liveness run, and each property is
invariant under it. Deadlock is checked in every run but `identity`, where the
clock and the requests run out; in the others `AtRest` is the state in which
nobody has a request, everything else must be able to go on.

Some properties hold only on part of the code's behaviour:

- `LicenseKeyBacked` and `AlteredMeansInStep` hold while the jobs of an app take
  turns, as they do with one thread; with overlapping ones they do not (section
  5, `license_race`). What the buttons of one panel keep apart takes turns:
  `GatedReadyMeansInStep` is `AlteredMeansInStep` for as long as they do.
- `RowOutlivesResources` holds if a name is registered once or the app's jobs
  take turns; with a second registration under way it does not: a delete removes
  the row and what it knows of, and what the other registration made stays (set
  `MaxCreates = 2` in `lifecycle_race.cfg` to see it). `SecretsBacked` and
  `OneRowPerApp` are proved under the same condition, or without deletes.
- `SecretsBacked` holds for PADs with no `<HIDDEN>` default; with one it does
  not (set `Pads <- AnyPads` in `lifecycle_race.cfg` to see it).
- `GatedTasksDoNotOverlap` and `GatedReadyMeansInStep` hold while every call is
  answered in time and no click is run over a closed gate (section 2, `hands`).
  And they hold where no reply of a
  statement is lost (`"reply"` is not in the run's `FaultKinds`): when the UPDATE to READY worked and its
  answer did not come, the task goes on to write FAILED, over whatever the
  enabled buttons have started meanwhile. The same happens after Remove license
  when the DROP SECRET behind READY fails (main.py:788-791), which is why that
  button makes `hands` "many".
- `ParsedPadRuns` and `ConstantsReachRuntime` are about a service that is up
  (`Deployed`): for as long as the old container answers the poll (`svc =
  "old"`), READY is shown over the old PAD.
- `NoMissedStart` is about calls that all succeed; after a failed start nothing
  in the script tries again.
- `ConstantsReachRuntime` holds while statements succeed; a failed ALTER SERVICE
  breaks it (`redeploy_stale`).

**Fairness** (only in `lifecycle_liveness`). Weak fairness of each thread's
`Step`: a statement returns or raises, a poll has a deadline (main.py:264-271),
and threads are scheduled. Weak fairness of `Settle`: Snowflake brings a pending
or suspending service to its end; without it polls time out, and the jobs end
all the same. No fairness for requests, faults or crashes. `StatusSettles`
needs the registry to be writable and the controller to stay up, which is what
the run's `FaultKinds` and `MaxCrashes = 0` say: the code makes no promise
beyond (mendix-spcs-howto.md:214 tells the operator what to do then).

## 4. The proofs

All for every number of threads, apps, names, calls and faults. Apart from the
named `ASSUME`s of the modules (bounds are naturals, sets are typed) they assume
what is said here with each.

- `AppLifecycle_proofs!TypeCorrect`, `NoSilentStranding`
  (`Spec => []StrandedOnlyByLostWrite`). The property is not inductive: that a
  transient row has a task *now* says nothing of a task that is about to end
  without writing. `StrandedInv` says more, that some task of the app still
  *owes* the row a status: a job in the background that has its last write
  before it. A job at `dropKey` owes nothing any more, it has written READY. The
  proof goes action by action: a job that marks the row owes from then on, a job
  that ends has either written or set `lost`, and a crash sets `lost` for each
  app a background job worked on. The module also holds what the later ones
  keep citing: what a statement does to the rows, objects, secrets, service and
  roles of its app by the job's `pc` (`RowsWritten`, `ObjectsOf`, `AccessOf`,
  `ServiceOf`), and in what shape a thread's step, a request, Snowflake and a
  crash leave a job (`StepHasShape`, `RequestHasShape`, `SettleShape`,
  `CrashShape`).

Nothing in the controller orders two requests for one app, and the next five
theorems say what of its promises survives that. Their hypotheses name the
order each of them needs, as state predicates that have to hold throughout:

- `TakeTurns`: no two jobs of an app at a time. The code does not ensure it; one
  thread does (`OneThreadTakesTurns`), and so does one panel's gate (below).
- `OneLife`: nothing is deleted, or a name is registered once, or `TakeTurns`.
  Without it a task works with the record of the app that had the name before
  (main.py:639), and a delete drops what a registration just made (main.py:906).
- `LicenseTurns`: `OneLife` and no license is removed, or `TakeTurns`. Without it
  the finding of `license_race` happens.

The theorems:

- `Registration_proofs!RowStaysForRetry` (`Spec /\ []OneLife =>
  []RowOutlivesResources`). That the row goes last is a fact about a whole
  delete, so `AloneInv` follows it: a delete in which no drop has failed has
  dropped what it is past (`Cleaned`); an app without a row, once its schema is
  gone or a delete took its row, has no service (`NothingLeft`); and who creates
  an app is alone with it until its first row is there (`CreatesAlone`).
- `Registration_proofs!RegistrationsAgree` (`Spec /\ []OneLife =>
  []OneRowPerApp`). The duplicate check (main.py:377) is no help, since any
  number of registrations may pass it. Where nothing is deleted it is CREATE
  SERVICE that lets one of them through: `ServedInv` says that only one create
  is ever past it, and none once there is a row. Otherwise `AloneInv` gives it.
  `UniqueInv` carries it to the rows: the INSERT is the only step that adds one.
- `Configuration_proofs!SecretsStayBacked` (with `NoHiddenDefault`,
  `Spec /\ []OneLife => []SecretsBacked`), for any overlap of tasks. A task
  computes what it will write from the record of its request, so the invariant
  covers jobs too: what a row, the service or a job's record names has a secret,
  or is among those the job has still to write (`ConstsInv`), and past the
  statements that write them none is left (`TodoInv`). Secrets go with the schema
  alone; from then on, until somebody registers the app again, the leftovers may
  name what is gone (`Dropped`).
- `Configuration_proofs!ReadyMeansInStep` (`Spec /\ []TakeTurns =>
  AlteredMeansInStep`), an action property. `InStepInv` follows a task that
  alters: once it has persisted, the row agrees with its record; once it has
  altered the service, so does that. Any other job of the app could undo either
  half.
- `Configuration_proofs!LicenseKeyStaysBacked` (`Spec /\ []LicenseTurns =>
  []LicenseKeyBacked`): for any overlap of tasks if no license is removed, and
  with removals if jobs take turns. `KeyInv` is `ConstsInv` for the one secret
  that a job makes and another one drops.

The other components, and the console over the controller:

- `Install_proofs!TypeCorrect`; `TokensStayInStep` (`[]TokensAgree`), by
  `TokenInv`: the token, once there, never changes, and a call that is about to
  create a service has read it; `NoStartMissed` (`[]NoMissedStart`), by
  `StartInv`: objects are made with granted privileges only; a call on the start
  path has its earlier effects behind it (`Behind`); and while the
  preconditions hold everything is started or some call is under way
  (`Underway`). While they hold nothing on the path is refused (`NotRefused`)
  and the gate lets through, so a call can end only by completing the start.
- `SqlSession_proofs!TypeCorrect` (with it: no third run), `LockExclusive`,
  `RotationOutlived`, `OnceUnlessCut`, all from one invariant `IInv`: the number
  of runs is bounded by the attempt (`RanInv`), the second attempt works on a
  connection opened with a token no older than the call (`FreshInv`, which
  needs `Exclusive`: nobody else fills the cache in between), and without cuts
  nothing fails after it ran (`OnceInv`). `ImplementsSerialStatements`
  (`Spec => StatementsAreSerial`) is the refinement from the same invariant:
  connecting, and a first attempt that did not run, are stutters;
  `Exclusive` lets a statement enter only when no other is with Snowflake, and
  `RanInv` says how many of its runs nobody will answer.
- `StagedDeploy_proofs!TypeCorrect`, `ParsedRuns`, `ConstantsReach`. READY alone
  says nothing of the stage, so `StageInv` keeps, from the parse on, that
  `current.zip` is missing, is the PAD that was parsed, or was staged after the
  request (`CurrentOf`); `ContainerInv` hands this to whatever container boots;
  `ConstantInv` keeps specification and registry equal except between the two
  statements that change them.

- `CallerIdentity_proofs!TypeCorrect`; `ImplementsFreshRoles`
  (`Spec => RolesAreFresh`), the refinement, step by step: every action is an
  action of `FreshRoles` or a stutter. It needs that each cache entry holds
  roles its caller held at or after the entry's stamp, and likewise each answer
  on its way to the cache; the stamp is the request's "now" from before it
  resolved, so that an old answer stored late is an old entry.
  `AcceptedRowsNameTheAllowed` (`[]LoggedOperatorsWereAllowed`) carries two
  facts to the row: the roles that decided were the caller's since the horizon,
  and whatever the second resolution answers, from an entry, from Snowflake or
  from the header, names that caller or nobody. For the cache this needs that an
  entry bears the user of its key.
- `AdminConsole_proofs!GatesKeepTasksApart`: if `"reply"` is not among
  `FaultKinds`, `ConsoleSpec => []GatedTasksDoNotOverlap`, for any number of
  sessions, within the limits that `hands` draws: no call given up, no click run
  over a closed gate. A kept click that found the gate open is in it
  (`RunStep`): the row it read had a status that lasts, so no task was at work. The property is about tasks, but what keeps them apart is the
  status: `InHand(a)` says that an app in one session's hands has either one
  job under way or none, that a task at work stands over a transient row, that
  the handler of a call has its session waiting for it, and that no panel of
  that session has gated buttons enabled while a task works. Statement by
  statement, `AppLifecycle`'s steps change a row's status in few ways
  (`StepHasEffect`), and only a task's last one ends the transient status.
- `AdminConsole_proofs!GatesKeepInStep` (`ConsoleSpec => GatedReadyMeansInStep`,
  again without `"reply"`) puts the two together. The invariant of the gate
  makes the jobs of an app in hand take turns, handlers included
  (`HandsTakeTurns`), and the steps of `InStepInv` are lemmas about one app that
  ask for nothing else (`InStepNext`); `StepInv` has it for the apps in hand. No
  order is assumed here: the console provides it.

Only model-checked: `JobsEnd` and `StatusSettles`, since fairness and `ENABLED`
are outside what the provers do; and the three properties of section 5, which do
not hold.

## 5. What disagrees

Three runs are expected to fail, each on a sentence of the repository:

- `license_race`: DELETE /license drops the "now-unused secret" (main.py:776) that
  a PUT which overtook it has mounted again.
- `redeploy_stale`: constants saved, ALTER SERVICE failed, "Click Redeploy to
  deploy the PAD with them" (1_Apps.py:266): Redeploy compares with the registry,
  restarts the old specification and says READY.
- `staged_newest`: a zip of any name is found "without forcing the consumer to
  rename the file first" (main.py:606-608); the container opens `current.zip`
  only.

What a double click does is in no sentence, but the gate is there against it
(1_Apps.py:145, and 23): while `trigger_deploy` is out (1_Apps.py:146-149) the
button is still enabled, the second click is run after the 202, and
`st.button` returns True for it although it is now drawn disabled. The
controller takes the second request, and two tasks of the app overlap, each with
the record of its own request; with Save license and another id, or Redeploy and
then Apply spec changes, they end in a READY over a registry and a service that
differ. To see it put `TRUE` for the last argument of `RunButton` in
`RunClicked`, so that the run counts as ordered: `console` fails with a trace of
23 states for `GatedTasksDoNotOverlap` (the form, a task done, `Click`,
`ClickAhead`, `Take`, `Work`, `RunClicked`, `Take`, `Work`) and of 29 for
`GatedReadyMeansInStep`. The same overlap comes of a call given up after 30
seconds (controller_client.py:8) and tried again.

More sentences that do not hold, with no run of their own:

- "The admin UI sets X-Operator; direct API clients don't" (main.py:50-51).
  Nothing keeps a client with a caller token from it, and main.py:53 looks at
  the header first: its accepted row names anybody. In the model such rows are
  `claimed`; without that exception `LoggedOperatorsWereAllowed` fails.
- "a cache hit, since the route dependency already resolved it" (main.py:51-52):
  the entry may have expired while the route ran, or an older resolution of the
  same token stored its own, older stamp over it. Then Snowflake is asked again,
  on the event loop, and when that fails the row says `<anonymous>`.

- The reserved literal `<HIDDEN>` "can never be stored as a real constant value"
  (models.py:15-16), but a PAD may have it as a default: no secret is made, and
  the specification mounts one (main.py:277, against 673-674). Seen with
  `AnyPads`, as above.
- "The original statement did not run" (snowflake_client.py:82); it may have run
  and lost its answer, and runs again. This is what `OnceWithoutCuts` excludes.
- The activity log counts "a synchronous error" among what it records
  (main.py:61-63); a route that ends in a 500, maybe half done, has no row
  (`AnswerUnlogged`).

## 6. Not modelled

- *Staged PAD and boot*: the app's Postgres database, whose creation may race
  and whose errors are ignored (entrypoint.sh:97-108); the other environment
  variables; the letter case of the stage path.
- *Constants of a PAD*: the line formats of `defaults.conf` and `variables.conf`
  and names that collide once they are secret names. A name of the models stands
  for its secret name.
- *Endpoint URL*: what `_effective_endpoint` writes back no route decides by.
- *Compute pool limits*: one ALTER COMPUTE POOL per request, validated numbers,
  no state kept.
- *Caller identity*: a request with neither token (it has no roles). *Activity
  log*: the action's name and the queries.
- *Admin console*: one bulk run over several apps in turn, the texts of the
  forms, the minute the list of apps is cached (a session may select any app at
  any time instead). The Upload page is `StagedDeploy`'s `Upload`.
- *Header SSO*: Java actions in the transactions of the Mendix runtime, whose
  isolation this repository does not show; what two racing logins see would be a
  guess.
- *Setup checks, logs, activity and branding pages*: display only.
- *Build and release*: scripts that run one command after another and end at the
  first failure.
- Tests: a statement of intent, read beside the code.

## 7. Plan

What is left, in this order:

1. `AppLifecycle`: an owner on secrets, for the loser of a registration race that
   overwrites the winner's.
2. `PadConstants`: the two parsers and secret names with their collisions,
   checked against a reference definition.
3. `StagedDeploy`: failing statements and overlapping deploys.

Abstract specifications still worth stating: an app as the operator sees it
(status, constants, license; one operation at a time), implemented by
`AppLifecycle` where jobs take turns; a start that happens once its
preconditions hold, implemented by `Install`.
