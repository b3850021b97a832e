--------------------------- MODULE Install_proofs ---------------------------
(***************************************************************************)
(* Proofs about Install, for any set of sessions and any bounds: the types *)
(* (TypeCorrect), that the services and internal_config agree on the token *)
(* (TokensStayInStep) and that no start is missed (NoStartMissed).         *)
(***************************************************************************)
EXTENDS Install, TLAPS

-----------------------------------------------------------------------------
(* What is needed of Flow, First and FlagOf.                               *)

\* The points a call can be at.
Points == {"pool", "warehouse", "ready", "reference", "flag", "gate",
           "controllerToken", "controller", "controllerAccess",
           "adminUiToken", "adminUi", "adminUiAccess"}

\* From each point a call goes on to another one, or is done.
LEMMA FlowFacts ==
  /\ DOMAIN Flow = Points
  /\ "done" \notin Points
  /\ \A pc \in Points : Flow[pc] \in Points \cup {"done"}
BY DEF Flow, Points

\* The successors a proof looks at: the start path, and the way into it.
LEMMA StartPath ==
  /\ Flow["controllerToken"] = "controller"
  /\ Flow["controller"] = "controllerAccess"
  /\ Flow["controllerAccess"] = "adminUiToken"
  /\ Flow["adminUiToken"] = "adminUi"
  /\ Flow["adminUi"] = "adminUiAccess"
  /\ Flow["adminUiAccess"] = "done"
  /\ Flow["gate"] = "controllerToken"
BY DEF Flow

\* Before the gate nothing leads onto the start path or ends a call.
LEMMA BeforeGate ==
  \A pc \in {"pool", "warehouse", "ready", "reference", "flag"} :
    Flow[pc] \in {"warehouse", "ready", "flag", "gate"}
BY DEF Flow

\* A procedure starts before the gate or at it.
LEMMA FirstFacts ==
  \A proc \in DOMAIN First : First[proc] \in {"pool", "reference", "gate"}
BY DEF First

\* Both references have their flag.
LEMMA FlagFacts == \A ref \in Refs : FlagOf[ref] \in Flags
BY DEF Refs, Flags, FlagOf

\* What is known of the call a session runs.
LEMMA CallFacts ==
  ASSUME TypeOK, NEW s \in Sessions, call[s] # NoCall
  PROVE  /\ call[s] \in Call
         /\ call[s].pc \in Points
         /\ call[s].proc \in DOMAIN First
         /\ call[s].privileges \in SUBSET Objects
         /\ call[s].ref \in Refs
         /\ call[s].add \in BOOLEAN
         /\ call[s].token \in Nat
<1>1. call[s] \in Call
  BY DEF TypeOK
<1> QED
  BY <1>1, FlowFacts DEF Call

\* Going to a point or ending keeps the type of calls.
LEMMA GotoType ==
  ASSUME TypeOK, NEW s \in Sessions, call[s] # NoCall,
         NEW pc \in Points \cup {"done"}, Goto(s, pc)
  PROVE  call' \in [Sessions -> Call \cup {NoCall}]
<1>1. call[s] \in Call
  BY CallFacts
<1>2. CASE pc = "done"
  BY <1>2 DEF Goto, TypeOK
<1>3. CASE pc \in Points
  <2>1. [call[s] EXCEPT !.pc = pc] \in Call
    BY <1>1, <1>3, FlowFacts DEF Call
  <2> QED
    BY <1>3, <2>1, FlowFacts DEF Goto, TypeOK
<1> QED
  BY <1>2, <1>3

-----------------------------------------------------------------------------
(* Types.                                                                  *)

\* Taking a step along Flow keeps the type of calls.
LEMMA AdvanceType ==
  ASSUME TypeOK, NEW s \in Sessions, call[s] # NoCall, Advance(s)
  PROVE  call' \in [Sessions -> Call \cup {NoCall}]
<1>1. Flow[call[s].pc] \in Points \cup {"done"}
  BY CallFacts, FlowFacts
<1> QED
  BY <1>1, GotoType DEF Advance

\* A statement keeps the types of the database.
LEMMA StatementType ==
  ASSUME TypeOK, NEW s \in Sessions, call[s] # NoCall, Statement(s)
  PROVE  /\ granted' = granted /\ token' = token
         /\ made' \in SUBSET Objects /\ bound' \in SUBSET Refs
         /\ state' \in SUBSET Flags /\ carried' \in [Services -> Nat]
         /\ access' \in SUBSET Services
<1> USE DEF TypeOK
<1>1. CASE CreateObject(s)
  BY <1>1 DEF CreateObject, Objects
<1>2. CASE SetPoolReady(s)
  BY <1>2 DEF SetPoolReady, Flags
<1>3. CASE ChangeReference(s)
  BY <1>3, CallFacts DEF ChangeReference
<1>4. CASE SetFlag(s)
  BY <1>4, CallFacts, FlagFacts DEF SetFlag
<1>5. ASSUME NEW service \in Services, NEW pc, CreateService(s, service, pc)
      PROVE  carried' \in [Services -> Nat]
  BY <1>5, CallFacts DEF CreateService
<1>6. ASSUME NEW service \in Services, NEW pc, GrantServiceRole(s, service, pc)
      PROVE  access' \in SUBSET Services
  BY <1>6 DEF GrantServiceRole
<1>7. {"controller", "admin_ui"} \subseteq Services
  BY DEF Services
<1>8. CASE CreateService(s, "controller", "controller")
  BY <1>8, <1>5, <1>7 DEF CreateService
<1>9. CASE CreateService(s, "admin_ui", "adminUi")
  BY <1>9, <1>5, <1>7 DEF CreateService
<1>10. CASE GrantServiceRole(s, "controller", "controllerAccess")
  BY <1>10, <1>6, <1>7 DEF GrantServiceRole
<1>11. CASE GrantServiceRole(s, "admin_ui", "adminUiAccess")
  BY <1>11, <1>6, <1>7 DEF GrantServiceRole
<1> QED
  BY <1>1, <1>2, <1>3, <1>4, <1>8, <1>9, <1>10, <1>11 DEF Statement

\* A new call has the type of a call.
LEMMA BeginType ==
  ASSUME TypeOK, NEW s \in Sessions, Begin(s)
  PROVE  call' \in [Sessions -> Call \cup {NoCall}]
<1>1. PICK proc \in DOMAIN First, privileges \in SUBSET Objects, ref \in Refs,
           add \in BOOLEAN :
        call' = [call EXCEPT ![s] =
                   [proc |-> proc, privileges |-> privileges, ref |-> ref,
                    add |-> add, token |-> 0, pc |-> First[proc]]]
  BY DEF Begin
<1>2. First[proc] \in DOMAIN Flow
  BY FirstFacts, FlowFacts DEF Points
<1>3. [proc |-> proc, privileges |-> privileges, ref |-> ref,
       add |-> add, token |-> 0, pc |-> First[proc]] \in Call
  BY <1>2 DEF Call
<1> QED
  BY <1>1, <1>3 DEF TypeOK

\* Reading the token keeps the type of calls.
LEMMA ReadTokenType ==
  ASSUME TypeOK, NEW s \in Sessions, ReadToken(s)
  PROVE  call' \in [Sessions -> Call \cup {NoCall}]
<1>1. call[s] \in Call /\ call[s].pc \in {"controllerToken", "adminUiToken"}
  BY CallFacts DEF ReadToken
<1>2. Flow[call[s].pc] \in DOMAIN Flow
  BY <1>1, StartPath, FlowFacts DEF Points
<1>3. [call[s] EXCEPT !.token = token, !.pc = Flow[@]] \in Call
  BY <1>1, <1>2 DEF Call, TypeOK
<1> QED
  BY <1>3 DEF ReadToken, TypeOK

\* The type invariant is kept by every step.
LEMMA TypeStep ==
  ASSUME TypeOK, [Next]_vars
  PROVE  TypeOK'
<1> USE DEF TypeOK, db, meter
<1>1. ASSUME NEW s \in Sessions, Begin(s) PROVE TypeOK'
  <2>1. call' \in [Sessions -> Call \cup {NoCall}]
    BY <1>1, BeginType
  <2>2. calls' = calls + 1 /\ UNCHANGED <<db, faults, upgrades>>
    BY <1>1 DEF Begin
  <2> QED
    BY <2>1, <2>2
<1>2. ASSUME NEW s \in Sessions, Execute(s) PROVE TypeOK'
  BY <1>2, AdvanceType, StatementType DEF Execute
<1>3. ASSUME NEW s \in Sessions, Gate(s) PROVE TypeOK'
  <2>1. call' \in [Sessions -> Call \cup {NoCall}]
    BY <1>3, AdvanceType, GotoType DEF Gate
  <2> QED
    BY <1>3, <2>1 DEF Gate
<1>4. ASSUME NEW s \in Sessions, ReadToken(s) PROVE TypeOK'
  BY <1>4, ReadTokenType DEF ReadToken
<1>5. ASSUME NEW s \in Sessions, Refuse(s) PROVE TypeOK'
  BY <1>5, GotoType DEF Refuse
<1>6. ASSUME NEW s \in Sessions, Fail(s) PROVE TypeOK'
  BY <1>6, GotoType DEF Fail
<1>7. ASSUME NEW o \in Objects, GrantPrivilege(o) PROVE TypeOK'
  BY <1>7 DEF GrantPrivilege
<1>8. CASE Upgrade
  BY <1>8 DEF Upgrade, Token
<1>9. CASE AtRest \/ UNCHANGED vars
  BY <1>9 DEF AtRest, vars
<1> QED
  BY <1>1, <1>2, <1>3, <1>4, <1>5, <1>6, <1>7, <1>8, <1>9 DEF Next

\* Every variable keeps its type: setup_script.sql's tables, the objects and
\* services it makes and the calls that make them.
THEOREM TypeCorrect == Spec => []TypeOK
<1>1. Init => TypeOK
  BY DEF Init, TypeOK, Token, Services
<1>2. TypeOK /\ [Next]_vars => TypeOK'
  BY TypeStep
<1> QED
  BY <1>1, <1>2, PTL DEF Spec

-----------------------------------------------------------------------------
(* The token.  A call that is about to create a service holds the token it *)
(* read, and the one in internal_config never changes.                     *)

AtCreate(s) == call[s] # NoCall /\ call[s].pc \in {"controller", "adminUi"}

TokenInv ==
  /\ token # 0
  /\ \A service \in Services : carried[service] \in {0, token}
  /\ \A s \in Sessions : AtCreate(s) => call[s].token = token

\* Points that do not create a service.
LEMMA NotAtCreate ==
  /\ \A pc \in Points \ {"controllerToken", "adminUiToken"} :
       Flow[pc] \notin {"controller", "adminUi"}
  /\ \A proc \in DOMAIN First : First[proc] \notin {"controller", "adminUi"}
BY FirstFacts DEF Flow, Points

\* A call that moves on from elsewhere than the reading of the token is not
\* about to create a service.
LEMMA NoNewCreate ==
  ASSUME TypeOK, NEW s \in Sessions, call[s] # NoCall,
         call[s].pc \notin {"controllerToken", "adminUiToken"},
         Advance(s) \/ Goto(s, "done"),
         NEW t \in Sessions, AtCreate(t)'
  PROVE  AtCreate(t) /\ call'[t].token = call[t].token
<1>1. CASE t # s
  BY <1>1 DEF AtCreate, Advance, Goto, TypeOK
<1>2. CASE t = s
  <2>1. Flow[call[s].pc] \notin {"controller", "adminUi"}
    BY CallFacts, NotAtCreate
  <2>2. call[s] \in Call
    BY CallFacts
  <2>3. call'[s] = NoCall \/ call'[s].pc = Flow[call[s].pc]
    BY <2>2 DEF Advance, Goto, TypeOK, Call
  <2> QED
    BY <1>2, <2>1, <2>3 DEF AtCreate
<1> QED
  BY <1>1, <1>2

\* No step rotates the token, and no call carries another one to a service.
LEMMA TokenStep ==
  ASSUME TypeOK, TokenInv, [Next]_vars
  PROVE  TokenInv'
<1> USE DEF TokenInv, db, meter
<1>1. ASSUME NEW s \in Sessions, Begin(s) PROVE TokenInv'
  <2>1. ASSUME NEW t \in Sessions, AtCreate(t)'
        PROVE  AtCreate(t) /\ call'[t] = call[t]
    <3>1. PICK proc \in DOMAIN First, privileges \in SUBSET Objects,
               ref \in Refs, add \in BOOLEAN :
            call' = [call EXCEPT ![s] =
                       [proc |-> proc, privileges |-> privileges, ref |-> ref,
                        add |-> add, token |-> 0, pc |-> First[proc]]]
      BY <1>1 DEF Begin
    <3>2. CASE t = s
      BY <2>1, <3>1, <3>2, NotAtCreate DEF AtCreate, TypeOK
    <3>3. CASE t # s
      BY <2>1, <3>1, <3>3 DEF AtCreate, TypeOK
    <3> QED
      BY <3>2, <3>3
  <2> QED
    BY <1>1, <2>1 DEF Begin
<1>2. ASSUME NEW s \in Sessions, Execute(s) PROVE TokenInv'
  <2>1. UNCHANGED token
    BY <1>2, StatementType DEF Execute
  <2>2. call[s].pc \notin {"controllerToken", "adminUiToken"}
    BY <1>2 DEF Execute, Statement, CreateObject, SetPoolReady,
                ChangeReference, SetFlag, CreateService, GrantServiceRole,
                Objects
  <2>3. \A t \in Sessions : AtCreate(t)' => call'[t].token = token
    BY <1>2, <2>2, NoNewCreate DEF Execute
  <2>4. ASSUME NEW service \in Services, NEW pc \in {"controller", "adminUi"},
               CreateService(s, service, pc)
        PROVE  \A each \in Services : carried'[each] \in {0, token}
    <3>1. call[s].token = token
      BY <1>2, <2>4 DEF AtCreate, CreateService, Execute
    <3> QED
      BY <2>4, <3>1 DEF CreateService, TypeOK
  <2>5. \A service \in Services : carried'[service] \in {0, token}
    BY <1>2, <2>4 DEF Execute, Statement, CreateObject, SetPoolReady,
                      ChangeReference, SetFlag, GrantServiceRole, Services
  <2> QED
    BY <2>1, <2>3, <2>5
<1>3. ASSUME NEW s \in Sessions, Gate(s) PROVE TokenInv'
  <2>1. \A t \in Sessions : AtCreate(t)' => AtCreate(t) /\ call'[t].token = call[t].token
    BY <1>3, NoNewCreate DEF Gate
  <2> QED
    BY <1>3, <2>1 DEF Gate
<1>4. ASSUME NEW s \in Sessions, ReadToken(s) PROVE TokenInv'
  <2>1. call[s] \in Call
    BY <1>4, CallFacts DEF ReadToken
  <2>2. call'[s].token = token
    BY <1>4, <2>1 DEF ReadToken, TypeOK, Call
  <2>3. \A t \in Sessions \ {s} : call'[t] = call[t]
    BY <1>4 DEF ReadToken, TypeOK
  <2> QED
    BY <1>4, <2>2, <2>3 DEF ReadToken, AtCreate
<1>5. ASSUME NEW s \in Sessions, Refuse(s) \/ Fail(s) PROVE TokenInv'
  <2>1. \A t \in Sessions : AtCreate(t)' => AtCreate(t) /\ call'[t] = call[t]
    BY <1>5 DEF Refuse, Fail, Goto, AtCreate, TypeOK
  <2> QED
    BY <1>5, <2>1 DEF Refuse, Fail
<1>6. ASSUME NEW o \in Objects, GrantPrivilege(o) PROVE TokenInv'
  BY <1>6 DEF GrantPrivilege, AtCreate
<1>7. CASE Upgrade
  BY <1>7 DEF Upgrade, Token, AtCreate
<1>8. CASE AtRest \/ UNCHANGED vars
  BY <1>8 DEF AtRest, vars, AtCreate
<1> QED
  BY <1>1, <1>2, <1>3, <1>4, <1>5, <1>6, <1>7, <1>8 DEF Next

\* Whatever upgrades and failed or overlapping calls there were, a service that
\* exists carries the token of internal_config (setup_script.sql:91-98).
THEOREM TokensStayInStep == Spec => []TokensAgree
<1>1. Init => TypeOK /\ TokenInv
  BY DEF Init, TypeOK, TokenInv, Token, Services, AtCreate
<1>2. TypeOK /\ TokenInv /\ [Next]_vars => TypeOK' /\ TokenInv'
  BY TypeStep, TokenStep
<1>3. TokenInv => TokensAgree
  BY DEF TokenInv, TokensAgree, Started
<1> QED
  BY <1>1, <1>2, <1>3, PTL DEF Spec

-----------------------------------------------------------------------------
(* No missed start.  What the last call of a history finds done is what    *)
(* the calls before it left: the argument is that from the moment the      *)
(* preconditions hold, some call is yet to pass the gate or is beyond it,  *)
(* and that such a call is refused nothing while they hold.                *)

AllStarted == Started = Services /\ access = Services

\* A call beyond a statement of the start path has its effect behind it.
Behind(s) ==
  LET pc == call[s].pc IN
  call[s] # NoCall =>
    /\ pc \in {"controllerAccess", "adminUiToken", "adminUi", "adminUiAccess"}
         => carried["controller"] # 0
    /\ pc \in {"adminUiToken", "adminUi", "adminUiAccess"}
         => "controller" \in access
    /\ pc = "adminUiAccess" => carried["admin_ui"] # 0

\* The preconditions hold: the services are up or a call is under way.
Underway ==
  (Ready /\ faults = 0) => (AllStarted \/ \E s \in Sessions : call[s] # NoCall)

StartInv ==
  /\ made \subseteq granted
  /\ \A s \in Sessions : Behind(s)
  /\ Underway

\* Nothing made, started or granted is ever undone.
LEMMA Grows ==
  ASSUME TypeOK, [Next]_vars
  PROVE  /\ granted \subseteq granted' /\ access \subseteq access'
         /\ \A service \in Services :
              carried[service] # 0 => carried'[service] # 0
<1> USE DEF TypeOK, db, meter
<1>1. ASSUME NEW s \in Sessions, Execute(s)
      PROVE  /\ UNCHANGED granted /\ access \subseteq access'
             /\ \A service \in Services :
                  carried[service] # 0 => carried'[service] # 0
  BY <1>1 DEF Execute, Statement, CreateObject, SetPoolReady, ChangeReference,
              SetFlag, CreateService, GrantServiceRole, Services
<1> QED
  BY <1>1 DEF Next, Begin, Gate, ReadToken, Refuse, Fail, GrantPrivilege,
              Upgrade, AtRest, vars

\* The points a call is at after the statement of another point.
LEMMA Predecessors ==
  \A pc \in Points :
    /\ Flow[pc] = "controllerAccess" => pc = "controller"
    /\ Flow[pc] = "adminUiToken" => pc = "controllerAccess"
    /\ Flow[pc] = "adminUi" => pc = "adminUiToken"
    /\ Flow[pc] = "adminUiAccess" => pc = "adminUi"
    /\ Flow[pc] = "done" => pc = "adminUiAccess"
BY DEF Flow, Points

\* Where a call is after a step along Flow.
LEMMA Moved ==
  ASSUME TypeOK, NEW s \in Sessions, call[s] # NoCall, Advance(s)
  PROVE  /\ Flow[call[s].pc] = "done" => call'[s] = NoCall
         /\ Flow[call[s].pc] # "done" =>
              call'[s] # NoCall /\ call'[s].pc = Flow[call[s].pc]
         /\ \A t \in Sessions \ {s} : call'[t] = call[t]
<1>1. call[s] \in Call /\ call[s].pc \in Points
  BY CallFacts
<1>2. Flow[call[s].pc] \in Points \cup {"done"}
  BY <1>1, FlowFacts
<1>3. \A t \in Sessions \ {s} : call'[t] = call[t]
  BY DEF Advance, Goto, TypeOK
<1>4. CASE Flow[call[s].pc] = "done"
  BY <1>3, <1>4 DEF Advance, Goto, TypeOK
<1>5. CASE Flow[call[s].pc] # "done"
  <2>1. call'[s] = [call[s] EXCEPT !.pc = Flow[call[s].pc]]
    BY <1>5 DEF Advance, Goto, TypeOK
  <2>2. call'[s].pc = Flow[call[s].pc] /\ call'[s].proc = call[s].proc
    BY <1>1, <2>1 DEF Call
  <2>3. call[s].proc \in {"grant", "register", "start"}
    BY CallFacts DEF First
  <2>4. NoCall.proc = "none"
    BY DEF NoCall
  <2> QED
    BY <1>3, <1>5, <2>2, <2>3, <2>4
<1> QED
  BY <1>4, <1>5

\* A statement of the start path leaves its effect behind it.
LEMMA BehindStatement ==
  ASSUME TypeOK, TokenInv, [Next]_vars, NEW s \in Sessions, Behind(s), Execute(s)
  PROVE  Behind(s)'
<1>1. call[s] # NoCall /\ Statement(s) /\ Advance(s)
  BY DEF Execute
<1>2. call[s].pc \in Points
  BY <1>1, CallFacts
<1>3. {"controller", "admin_ui"} \subseteq Services
  BY DEF Services
<1>4. call[s].pc = "controller" => carried'["controller"] # 0
  BY <1>1, <1>3 DEF Statement, CreateObject, SetPoolReady, ChangeReference,
       SetFlag, CreateService, GrantServiceRole, Objects, TokenInv, AtCreate,
       TypeOK
<1>5. call[s].pc = "adminUi" => carried'["admin_ui"] # 0
  BY <1>1, <1>3 DEF Statement, CreateObject, SetPoolReady, ChangeReference,
       SetFlag, CreateService, GrantServiceRole, Objects, TokenInv, AtCreate,
       TypeOK
<1>6. call[s].pc = "controllerAccess" => "controller" \in access'
  BY <1>1 DEF Statement, CreateObject, SetPoolReady, ChangeReference,
       SetFlag, CreateService, GrantServiceRole, Objects
<1>7. SUFFICES ASSUME call'[s] # NoCall PROVE Behind(s)'
  BY DEF Behind
<1>8. call'[s].pc = Flow[call[s].pc]
  BY <1>1, <1>7, Moved
<1> QED
  BY <1>1, <1>2, <1>3, <1>4, <1>5, <1>6, <1>8, Grows, Predecessors DEF Behind

\* What a call has behind it stays, and what it does adds to it.
LEMMA BehindStep ==
  ASSUME TypeOK, TokenInv, [Next]_vars, \A s \in Sessions : Behind(s)
  PROVE  \A s \in Sessions : Behind(s)'
<1>0. {"controller", "admin_ui"} \subseteq Services
  BY DEF Services
<1>1. ASSUME NEW t \in Sessions, call'[t] = call[t] PROVE Behind(t)'
  BY <1>0, <1>1, Grows DEF Behind
<1>2. ASSUME NEW s \in Sessions, call[s] # NoCall,
             Goto(s, "done") \/ ReadToken(s)
             \/ (Advance(s) /\ call[s].pc = "gate"),
             NEW t \in Sessions
      PROVE  Behind(t)'
  <2>1. CASE t # s
    BY <1>1, <1>2, <2>1 DEF Goto, ReadToken, Advance, TypeOK
  <2>2. CASE t = s /\ Goto(s, "done")
    BY <2>2 DEF Goto, Behind, TypeOK
  <2>3. CASE t = s /\ Advance(s) /\ call[s].pc = "gate"
    BY <1>2, <2>3, Moved, StartPath DEF Behind
  <2>4. CASE t = s /\ ReadToken(s)
    <3>1. call[s] \in Call
      BY <1>2, CallFacts
    <3>2. call'[s].pc = Flow[call[s].pc]
      BY <2>4, <3>1 DEF ReadToken, TypeOK, Call
    <3>3. call'[s].pc \in {"controller", "adminUi"}
      BY <2>4, <3>2, StartPath DEF ReadToken
    <3>4. call[s].pc = "adminUiToken" \/ call'[s].pc = "controller"
      BY <2>4, <3>2, StartPath DEF ReadToken
    <3> QED
      BY <1>0, <1>2, <2>4, <3>3, <3>4, Grows DEF Behind
  <2> QED
    BY <1>2, <2>1, <2>2, <2>3, <2>4
<1>3. ASSUME NEW s \in Sessions, Begin(s), NEW t \in Sessions PROVE Behind(t)'
  <2>1. PICK proc \in DOMAIN First, privileges \in SUBSET Objects,
             ref \in Refs, add \in BOOLEAN :
          call' = [call EXCEPT ![s] =
                     [proc |-> proc, privileges |-> privileges, ref |-> ref,
                      add |-> add, token |-> 0, pc |-> First[proc]]]
    BY <1>3 DEF Begin
  <2>2. CASE t = s
    BY <2>1, <2>2, FirstFacts DEF Behind, TypeOK
  <2>3. CASE t # s
    BY <1>1, <2>1, <2>3 DEF TypeOK
  <2> QED
    BY <2>2, <2>3
<1>4. ASSUME NEW s \in Sessions, Execute(s), NEW t \in Sessions PROVE Behind(t)'
  BY <1>1, <1>4, Moved, BehindStatement DEF Execute
<1>5. CASE UNCHANGED call
  BY <1>1, <1>5
<1>6. ASSUME NEW s \in Sessions,
             Gate(s) \/ ReadToken(s) \/ Refuse(s) \/ Fail(s)
      PROVE  \A t \in Sessions : Behind(t)'
  BY <1>2, <1>6 DEF Gate, ReadToken, Refuse, Fail
<1>7. CASE \/ \E o \in Objects : GrantPrivilege(o)
           \/ Upgrade \/ AtRest \/ UNCHANGED vars
  BY <1>5, <1>7 DEF GrantPrivilege, Upgrade, AtRest, vars
<1> QED
  BY <1>3, <1>4, <1>6, <1>7 DEF Next

\* While the preconditions hold no statement is refused.
LEMMA NotRefused ==
  ASSUME TypeOK, Ready, made \subseteq granted,
         NEW s \in Sessions, call[s] # NoCall
  PROVE  ~Refused(s)
BY DEF Ready, Refused

\* The preconditions hold after a step that ends the last call under way only
\* if that call ran to its end, and then everything is started.
LEMMA UnderwayStep ==
  ASSUME TypeOK, StartInv, TokenInv, [Next]_vars
  PROVE  Underway'
<1>1. SUFFICES ASSUME Ready', faults' = 0, \A s \in Sessions : call'[s] = NoCall
               PROVE  AllStarted'
  BY DEF Underway, AllStarted, Ready
<1>2. ASSUME NEW s \in Sessions, Begin(s) PROVE FALSE
  <2>1. PICK proc \in DOMAIN First, privileges \in SUBSET Objects,
             ref \in Refs, add \in BOOLEAN :
          call' = [call EXCEPT ![s] =
                     [proc |-> proc, privileges |-> privileges, ref |-> ref,
                      add |-> add, token |-> 0, pc |-> First[proc]]]
    BY <1>2 DEF Begin
  <2>2. call'[s].proc \in {"grant", "register", "start"}
    BY <2>1 DEF TypeOK, First
  <2> QED
    BY <1>1, <2>2 DEF NoCall
<1>3. ASSUME NEW s \in Sessions, Execute(s) PROVE AllStarted'
  <2>1. call[s] # NoCall /\ Statement(s) /\ Advance(s) /\ call[s].pc \in Points
    BY <1>3, CallFacts DEF Execute
  <2>2. call[s].pc = "adminUiAccess"
    BY <1>1, <2>1, Moved, Predecessors
  <2>3. Behind(s)
    BY DEF StartInv
  <2>4. UNCHANGED carried /\ access' = access \cup {"admin_ui"}
    BY <2>1, <2>2 DEF Statement, CreateObject, SetPoolReady, ChangeReference,
         SetFlag, CreateService, GrantServiceRole, Objects
  <2> QED
    BY <2>1, <2>2, <2>3, <2>4 DEF Behind, AllStarted, Started, Services, TypeOK
<1>4. ASSUME NEW s \in Sessions, Gate(s) PROVE FALSE
  <2>1. state = Flags
    BY <1>1, <1>4 DEF Gate, Ready, db
  <2>2. Advance(s) /\ Flow[call[s].pc] # "done"
    BY <1>4, <2>1, StartPath DEF Gate
  <2> QED
    BY <1>1, <1>4, <2>2, Moved DEF Gate
<1>5. ASSUME NEW s \in Sessions, ReadToken(s) PROVE FALSE
  <2>1. call[s] \in Call /\ call[s].proc \in {"grant", "register", "start"}
    BY <1>5, CallFacts DEF ReadToken, First
  <2>2. call'[s].proc = call[s].proc
    BY <1>5, <2>1 DEF ReadToken, TypeOK, Call
  <2> QED
    BY <1>1, <2>1, <2>2 DEF NoCall
<1>6. ASSUME NEW s \in Sessions, Refuse(s) PROVE FALSE
  <2>1. Ready
    BY <1>1, <1>6 DEF Refuse, Ready, db
  <2> QED
    BY <1>6, <2>1, NotRefused DEF Refuse, StartInv
<1>7. ASSUME NEW s \in Sessions, Fail(s) PROVE FALSE
  BY <1>1, <1>7 DEF Fail, TypeOK
<1>8. CASE \/ \E o \in Objects : GrantPrivilege(o)
           \/ Upgrade \/ AtRest \/ UNCHANGED vars
  BY <1>1, <1>8 DEF GrantPrivilege, Upgrade, AtRest, vars, meter, StartInv,
       Underway, Ready, AllStarted, Started
<1> QED
  BY <1>2, <1>3, <1>4, <1>5, <1>6, <1>7, <1>8 DEF Next

\* Objects are made with privileges that were granted.
LEMMA MadeStep ==
  ASSUME TypeOK, made \subseteq granted, [Next]_vars
  PROVE  (made \subseteq granted)'
<1>1. ASSUME NEW s \in Sessions, Execute(s) PROVE (made \subseteq granted)'
  BY <1>1 DEF Execute, Refused, Statement, CreateObject, SetPoolReady,
              ChangeReference, SetFlag, CreateService, GrantServiceRole
<1> QED
  BY <1>1 DEF Next, Begin, Gate, ReadToken, Refuse, Fail, GrantPrivilege,
              Upgrade, AtRest, vars, db, meter

\* Whatever the order and overlap of the callbacks, a satisfied gate is not
\* missed: with the three flags set, the objects there and no call running,
\* both services run and are granted, unless a statement failed for a reason of
\* its own (setup_script.sql:14).
THEOREM NoStartMissed == Spec => []NoMissedStart
<1>1. Init => TypeOK /\ TokenInv /\ StartInv
  <2> SUFFICES ASSUME Init PROVE TypeOK /\ TokenInv /\ StartInv
    OBVIOUS
  <2>1. TypeOK /\ TokenInv
    BY DEF Init, TypeOK, TokenInv, Token, Services, AtCreate
  <2>2. StartInv
    BY DEF Init, StartInv, Behind, Underway, Ready, Flags
  <2> QED
    BY <2>1, <2>2
<1>2. TypeOK /\ TokenInv /\ StartInv /\ [Next]_vars
        => TypeOK' /\ TokenInv' /\ StartInv'
  <2> SUFFICES ASSUME TypeOK, TokenInv, StartInv, [Next]_vars
               PROVE  TypeOK' /\ TokenInv' /\ StartInv'
    OBVIOUS
  <2> QED
    BY TypeStep, TokenStep, MadeStep, BehindStep, UnderwayStep DEF StartInv
<1>3. StartInv => NoMissedStart
  BY DEF StartInv, Underway, NoMissedStart, Idle, AllStarted
<1> QED
  BY <1>1, <1>2, <1>3, PTL DEF Spec

=============================================================================
