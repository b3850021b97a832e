---------------------------- MODULE AdminConsole ----------------------------
(***************************************************************************)
(* The admin console over the controller of AppLifecycle: the Apps and     *)
(* Register pages (Admin UI/app/pages/1_Apps.py, 2_Register.py) and        *)
(* controller_client.py.                                                   *)
(*                                                                         *)
(* A browser session runs one script at a time.  Its detail panel shows    *)
(* what GET /apps/{name} last said, and disables its buttons while the     *)
(* status is transient: nothing in the controller refuses a second task    *)
(* for an app.  A click runs the panel's script anew: it reads the app     *)
(* again, and calls the controller although the button may now be drawn    *)
(* disabled.  The script waits for the answer, 30 seconds at most, while   *)
(* the handler goes on in any case.  The buttons stay on the page as they  *)
(* were drawn meanwhile, and Streamlit keeps a click on one of them until  *)
(* the script is done: a double click is two runs, the second one over     *)
(* whatever the first has started.                                         *)
(*                                                                         *)
(* The list of apps may be a minute old (data.py), so a session may select *)
(* an app whether it is still there or not.  What is typed into the forms  *)
(* is chosen when the controller takes the call on, as in AppLifecycle.    *)
(***************************************************************************)
EXTENDS AppLifecycle

CONSTANT Sessions         \* browser sessions

ASSUME SessionAssumption ==
  {"nobody", "many"} \cap Sessions = {} /\ "none" \notin Workers

VARIABLES
  panel,     \* the detail panel of each session, with its enabled buttons
  call,      \* the call each session's script waits for
  clicked,   \* the app whose panel was clicked while the script waited
  hands      \* history: who acted on the app, as far as a panel's gate knows

console == <<panel, call, clicked, hands>>
allVars == <<vars, console>>

-----------------------------------------------------------------------------
(* The detail panel.  Its buttons bear the names of the requests.          *)

NoPanel == [app |-> "none"]
Panel   == [app : Apps, buttons : SUBSET RequestNames]

\* A call is sent, then one of the controller's threads takes it on.
NoCall  == [op |-> "none"]
Call    == [op : RequestNames, app : Apps, worker : Workers \cup {"none"}]

NoClick == "none"

\* Variant: DEPLOYING is not among the transient statuses.
GateMissesDeploying(r, buttons) ==
  IF r.status \in Transient \ {"DEPLOYING"} THEN {} ELSE buttons

\* disabled=deploy_status in _TRANSIENT
Gate(r, buttons) == IF r.status \in Transient THEN {} ELSE buttons

\* Redeploy, Suspend and Resume; Delete asks for the app's name instead.
ActionButtons(r, status) ==
  {"delete"} \cup Gate(r, {"deploy"}
                       \cup (IF status = "SUSPENDED" THEN {} ELSE {"suspend"})
                       \cup (IF status = "RUNNING" THEN {} ELSE {"resume"}))

\* The editor refuses to save what is no JSON object or changes nothing.
ConstantsButtons(r) == Gate(r, {"constants"})

\* Save asks for an id and a key, Remove for a tick, and is there for a license.
LicenseButtons(r) ==
  Gate(r, {"license"} \cup (IF r.config.lic = NoLicense THEN {}
                                                        ELSE {"unlicense"}))

\* Apply is there when the form differs from the row; it asks for the name.
SpecButtons(r) == Gate(r, {"spec"})

\* GET /apps/{name}: an error, 404 when there is no row, or the row and then
\* the status of its service, which is "(unknown)" when DESCRIBE fails.
Read(a) ==
  {NoPanel} \cup
  {[app |-> a,
    buttons |-> ActionButtons(r, status) \cup ConstantsButtons(r)
                  \cup LicenseButtons(r) \cup SpecButtons(r)] :
   r \in rows[a], status \in {svc[a].status, "NONE"}}

-----------------------------------------------------------------------------
(* A session.                                                              *)

\* A session acts on the app, in an order the gate vouches for or not.
Touch(a, s, ordered) ==
  hands' = [hands EXCEPT ![a] =
              IF ordered /\ @ \in {"nobody", s} THEN s ELSE "many"]

\* The gate orders what is sent through it, but a license removal: its task
\* still drops the key after READY, and may then have to write FAILED.
Ordered(op, p) == op # "unlicense" /\ "deploy" \in p.buttons

Send(s, a, op) ==
  call' = [call EXCEPT ![s] = [op |-> op, app |-> a, worker |-> "none"]]

\* No script is running, and none is due.
Idle(s) == call[s] = NoCall /\ clicked[s] = NoClick

\* A row is ticked, the page reloaded, Refresh clicked.
Show(s, a) ==
  /\ Idle(s)
  /\ \E p \in Read(a) : panel' = [panel EXCEPT ![s] = p]
  /\ UNCHANGED <<vars, call, clicked, hands>>

\* The run of the panel's script with a button clicked: it draws what it reads.
\* The app may be gone and Remove license no longer drawn: then nothing is sent.
RunButton(s, a, op, p, ordered) ==
  /\ panel' = [panel EXCEPT ![s] = p]
  /\ IF p # NoPanel /\ (op = "unlicense" =>
                           \E r \in rows[a] : r.config.lic # NoLicense)
     THEN Send(s, a, op) /\ Touch(a, s, ordered)
     ELSE UNCHANGED <<call, hands>>

\* A button of the panel as it was last drawn.
Click(s, op) ==
  /\ Idle(s) /\ panel[s] # NoPanel
  /\ op \in panel[s].buttons
  /\ \E p \in Read(panel[s].app) :
       RunButton(s, panel[s].app, op, p, Ordered(op, panel[s]))
  /\ UNCHANGED <<vars, clicked>>

\* A click while the script waits, or before the page is drawn anew.
ClickAhead(s) ==
  /\ call[s] # NoCall /\ panel[s] # NoPanel
  /\ clicked' = [clicked EXCEPT ![s] = call[s].app]
  /\ UNCHANGED <<vars, panel, call, hands>>

\* Its run, once the script is done.  The buttons on the page were the last
\* run's where this one had not come to them, so it may be any of them; it is
\* obeyed though it may now be drawn disabled, and ordered if it is not.
RunClicked(s, op) ==
  /\ call[s] = NoCall /\ clicked[s] # NoClick
  /\ op # "create"
  /\ \E p \in Read(clicked[s]) :
       RunButton(s, clicked[s], op, p, p # NoPanel /\ Ordered(op, p))
  /\ clicked' = [clicked EXCEPT ![s] = NoClick]
  /\ UNCHANGED vars

\* With several rows ticked there is no panel and no gate.  The calls go out
\* one after the other whatever comes of each; other apps are left out.
Bulk(s, a, op) ==
  /\ op \in {"suspend", "resume", "delete"}
  /\ Idle(s)
  /\ Send(s, a, op)
  /\ Touch(a, s, FALSE)
  /\ panel' = [panel EXCEPT ![s] = NoPanel]
  /\ UNCHANGED <<vars, clicked>>

\* The Register page.
SubmitForm(s, a) ==
  /\ Idle(s)
  /\ Send(s, a, "create")
  /\ Touch(a, s, TRUE)
  /\ panel' = [panel EXCEPT ![s] = NoPanel]
  /\ UNCHANGED <<vars, clicked>>

\* httpx.TimeoutException is no ControllerError: it ends the script, the page
\* stays as it was drawn, and the handler goes on.
GiveUp(s) ==
  /\ call[s] # NoCall
  /\ call' = [call EXCEPT ![s] = NoCall]
  /\ hands' = [hands EXCEPT ![call[s].app] = "many"]
  /\ UNCHANGED <<vars, panel, clicked>>

-----------------------------------------------------------------------------
(* The controller.                                                         *)

\* trigger-deploy ends up in one of two flows.
FlowsOf(op) == IF op = "deploy" THEN {"deploy", "restart"} ELSE {op}

Take(w, s) ==
  /\ call[s] # NoCall /\ call[s].worker = "none"
  /\ Request(w, call[s].app)
  /\ job'[w].op \in FlowsOf(call[s].op)
  /\ call' = [call EXCEPT ![s].worker = w]
  /\ UNCHANGED <<panel, clicked, hands>>

\* 409, 404 or 422: no task, and the panel shows the error.
TurnDown(s) ==
  /\ call[s] # NoCall /\ call[s].worker = "none"
  /\ \/ call[s].op = "create" /\ rows[call[s].app] # {}
     \/ call[s].op # "create" /\ rows[call[s].app] = {}
     \/ call[s].op \in {"deploy", "constants"}
  /\ call' = [call EXCEPT ![s] = NoCall]
  /\ UNCHANGED <<vars, panel, clicked, hands>>

\* The handler is done: it has left the rest to a task, or ended.
Answers(w) == job'[w] = NoJob \/ InBackground(job'[w])

\* 2xx for what has a panel: st.rerun(), the page is drawn again from the top.
Succeeds(w) ==
  \/ job'[w] # NoJob
  \/ job[w].op = "delete" /\ rows'[job[w].app] = {}

\* A thread goes on.  A session that waits for it gets its answer with the
\* step that gives it; after an error the panel stays as the click read it.  A
\* click kept meanwhile is run next, in place of the page's own run or in it.
Work(w) ==
  LET told == {s \in Sessions : call[s] # NoCall /\ call[s].worker = w}
  IN  /\ Step(w)
      /\ IF Answers(w)
         THEN /\ call' = [s \in Sessions |->
                            IF s \in told THEN NoCall ELSE call[s]]
              /\ panel' = [s \in Sessions |->
                            IF s \in told /\ Succeeds(w) THEN NoPanel
                                                         ELSE panel[s]]
         ELSE UNCHANGED <<call, panel>>
      /\ UNCHANGED <<clicked, hands>>

Snowflake(a) ==
  /\ Settle(a) \/ ContainerDies(a)
  /\ UNCHANGED console

\* The connections break; a script ends as after a time-out.
CrashUnderCalls ==
  /\ Crash
  /\ call' = [s \in Sessions |-> NoCall]
  /\ UNCHANGED <<panel, clicked, hands>>

ConsoleInit ==
  /\ Init
  /\ panel = [s \in Sessions |-> NoPanel]
  /\ call  = [s \in Sessions |-> NoCall]
  /\ clicked = [s \in Sessions |-> NoClick]
  /\ hands = [a \in Apps |-> "nobody"]

ConsoleNext ==
  \/ \E s \in Sessions :
       \/ \E a \in Apps : Show(s, a) \/ SubmitForm(s, a)
       \/ \E op \in RequestNames :
            \/ Click(s, op) \/ RunClicked(s, op)
            \/ \E a \in Apps : Bulk(s, a, op)
       \/ ClickAhead(s) \/ GiveUp(s) \/ TurnDown(s)
       \/ \E w \in Workers : Take(w, s)
  \/ \E w \in Workers : Work(w)
  \/ \E a \in Apps : Snowflake(a)
  \/ CrashUnderCalls

ConsoleSpec == ConsoleInit /\ [][ConsoleNext]_allVars

-----------------------------------------------------------------------------
(* Properties.                                                             *)

\* The console's variables have their types.
ConsoleTypeOK ==
  /\ panel \in [Sessions -> Panel \cup {NoPanel}]
  /\ call \in [Sessions -> Call \cup {NoCall}]
  /\ clicked \in [Sessions -> Apps \cup {NoClick}]
  /\ hands \in [Apps -> Sessions \cup {"nobody", "many"}]

\* The tasks at work on app a.
AtWork(a) ==
  {w \in Workers : job[w] # NoJob /\ job[w].app = a /\ InBackground(job[w])}

\* What the disabled buttons are for, and how far they go.  An app is operated
\* from one panel, every call is answered in time, and no click is run over a
\* closed gate, as the second half of a double click is: then its tasks do not
\* overlap, though the panel is only as fresh as its last run, calls fail half
\* way and nothing else keeps tasks apart (1_Apps.py:23, 142-177).
GatedTasksDoNotOverlap ==
  \A a \in Apps : hands[a] # "many" => Cardinality(AtWork(a)) <= 1

\* What follows for that operator, within the same limits: the READY that ends
\* a deploy, or a change of constants, of the specification or of the license,
\* is shown over a registry and a service that agree, though the tasks that
\* wrote them trust a row each read minutes before.  In the API by itself they
\* do not.
GatedReadyMeansInStep ==
  [][\A w \in Workers :
       (job[w] # NoJob /\ hands[job[w].app] # "many")
         => StampsInStep(w)]_allVars

=============================================================================
