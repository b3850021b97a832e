------------------------------ MODULE Install ------------------------------
(***************************************************************************)
(* Installing the Native App: native-app/app/setup_script.sql.             *)
(*                                                                         *)
(* Snowflake calls grant_callback and register_reference as the consumer   *)
(* grants privileges and binds references, in any order and from sessions  *)
(* of their own; operators may call maybe_start_services by hand.  Every   *)
(* statement of these procedures commits by itself, so one statement is    *)
(* one step and calls interleave between statements.  A statement that     *)
(* fails ends its call and leaves what the call did before.                *)
(*                                                                         *)
(* Left out: get_reference_config, which only answers with a constant; the *)
(* size of the pool; calls with an unknown operation or reference, which   *)
(* change nothing here.                                                    *)
(***************************************************************************)
EXTENDS Naturals

CONSTANTS
  Sessions,                              \* sessions that run calls
  MaxCalls, MaxFaults, MaxUpgrades       \* bounds of the model

ASSUME BoundsAssumption ==
  MaxCalls \in Nat /\ MaxFaults \in Nat /\ MaxUpgrades \in Nat

Objects  == {"pool", "warehouse"}        \* each made with a privilege of its own
Refs     == {"pg_secret", "pg_eai"}
Services == {"controller", "admin_ui"}
Flags    == {"pool_ready", "secret_bound", "eai_bound"}

\* Variant: the UPDATE writes the reference's own name.
FlagNamedByRef == [pg_secret |-> "pg_secret", pg_eai |-> "pg_eai"]

FlagOf == [pg_secret |-> "secret_bound", pg_eai |-> "eai_bound"]

VARIABLES
  granted,    \* privileges the consumer has granted on the account
  made,       \* which of Objects exist
  bound,      \* which of Refs are bound
  state,      \* the row of install_state: the flags that are TRUE
  token,      \* internal_config: which internal_auth_token
  carried,    \* which token each service was created with, 0: no such service
  access,     \* the services whose role app_admin was granted
  call,       \* what each session is running
  calls, faults, upgrades                \* what the model has used of its bounds

db    == <<granted, made, bound, state, token, carried, access>>
meter == <<calls, faults, upgrades>>
vars  == <<granted, made, bound, state, token, carried, access, call,
           calls, faults, upgrades>>

Started == {s \in Services : carried[s] # 0}

-----------------------------------------------------------------------------
(* The procedures: their statements in order.  "gate" is the SELECT of     *)
(* maybe_start_services; what follows is start_controller and              *)
(* start_admin_ui.                                                         *)

\* Variant: register_reference leaves the start to grant_callback.
FlowNoStart ==
  [pool |-> "warehouse", warehouse |-> "ready", ready |-> "gate",
   reference |-> "flag", flag |-> "done",
   gate |-> "controllerToken",
   controllerToken |-> "controller", controller |-> "controllerAccess",
   controllerAccess |-> "adminUiToken",
   adminUiToken |-> "adminUi", adminUi |-> "adminUiAccess",
   adminUiAccess |-> "done"]

Flow ==
  [pool |-> "warehouse", warehouse |-> "ready", ready |-> "gate",
   reference |-> "flag", flag |-> "gate",
   gate |-> "controllerToken",
   controllerToken |-> "controller", controller |-> "controllerAccess",
   controllerAccess |-> "adminUiToken",
   adminUiToken |-> "adminUi", adminUi |-> "adminUiAccess",
   adminUiAccess |-> "done"]

First == [grant |-> "pool", register |-> "reference", start |-> "gate"]

Call == [proc : DOMAIN First, privileges : SUBSET Objects, ref : Refs,
         add : BOOLEAN, token : Nat, pc : DOMAIN Flow]
NoCall == [proc |-> "none"]

Goto(s, pc) ==
  call' = [call EXCEPT ![s] = IF pc = "done" THEN NoCall
                                             ELSE [@ EXCEPT !.pc = pc]]

Advance(s) == Goto(s, Flow[call[s].pc])

\* CALL grant_callback, register_reference or maybe_start_services; the
\* arguments a procedure does not take have one value.
Begin(s) ==
  /\ call[s] = NoCall
  /\ calls < MaxCalls
  /\ calls' = calls + 1
  /\ \E proc \in DOMAIN First, privileges \in SUBSET Objects,
        ref \in Refs, add \in BOOLEAN :
       /\ proc # "grant" => privileges = {}
       /\ proc # "register" => ref = "pg_secret" /\ ~add
       /\ call' = [call EXCEPT
            ![s] = [proc |-> proc, privileges |-> privileges, ref |-> ref,
                    add |-> add, token |-> 0, pc |-> First[proc]]]
  /\ UNCHANGED <<db, faults, upgrades>>

\* CREATE ... IF NOT EXISTS needs its privilege, CREATE SERVICE its pool and
\* warehouse, and the controller's specification the pg_secret reference.
Refused(s) ==
  LET c == call[s] IN
  \/ c.pc \in Objects /\ c.pc \in c.privileges /\ c.pc \notin granted
  \/ c.pc = "controller" /\ carried["controller"] = 0
       /\ (made # Objects \/ "pg_secret" \notin bound)
  \/ c.pc = "adminUi" /\ carried["admin_ui"] = 0 /\ made # Objects

\* A privilege that is not in the array is passed over.
CreateObject(s) ==
  /\ call[s].pc \in Objects
  /\ made' = made \cup ({call[s].pc} \cap call[s].privileges)
  /\ UNCHANGED <<granted, bound, state, token, carried, access>>

\* Whatever the array held.
SetPoolReady(s) ==
  /\ call[s].pc = "ready"
  /\ state' = state \cup {"pool_ready"}
  /\ UNCHANGED <<granted, made, bound, token, carried, access>>

\* SYSTEM$SET_REFERENCE, or SYSTEM$REMOVE_(ALL_)REFERENCE(S).
ChangeReference(s) ==
  /\ call[s].pc = "reference"
  /\ bound' = IF call[s].add THEN bound \cup {call[s].ref}
                             ELSE bound \ {call[s].ref}
  /\ UNCHANGED <<granted, made, state, token, carried, access>>

SetFlag(s) ==
  /\ call[s].pc = "flag"
  /\ state' = IF call[s].add THEN state \cup {FlagOf[call[s].ref]}
                             ELSE state \ {FlagOf[call[s].ref]}
  /\ UNCHANGED <<granted, made, bound, token, carried, access>>

\* CREATE SERVICE IF NOT EXISTS, with the token the call read.
CreateService(s, service, pc) ==
  /\ call[s].pc = pc
  /\ carried' = [carried EXCEPT ![service] = IF @ = 0 THEN call[s].token ELSE @]
  /\ UNCHANGED <<granted, made, bound, state, token, access>>

GrantServiceRole(s, service, pc) ==
  /\ call[s].pc = pc
  /\ access' = access \cup {service}
  /\ UNCHANGED <<granted, made, bound, state, token, carried>>

Statement(s) ==
  \/ CreateObject(s) \/ SetPoolReady(s) \/ ChangeReference(s) \/ SetFlag(s)
  \/ CreateService(s, "controller", "controller")
  \/ CreateService(s, "admin_ui", "adminUi")
  \/ GrantServiceRole(s, "controller", "controllerAccess")
  \/ GrantServiceRole(s, "admin_ui", "adminUiAccess")

Execute(s) ==
  /\ call[s] # NoCall /\ ~Refused(s)
  /\ Statement(s)
  /\ Advance(s)
  /\ UNCHANGED meter

\* maybe_start_services: all three flags, or return and wait.
Gate(s) ==
  /\ call[s] # NoCall /\ call[s].pc = "gate"
  /\ IF state = Flags THEN Advance(s) ELSE Goto(s, "done")
  /\ UNCHANGED <<db, meter>>

Refuse(s) ==
  /\ call[s] # NoCall /\ Refused(s)
  /\ Goto(s, "done")
  /\ UNCHANGED <<db, meter>>

\* SELECT config_value INTO :auth_tok.
ReadToken(s) ==
  /\ call[s] # NoCall /\ call[s].pc \in {"controllerToken", "adminUiToken"}
  /\ call' = [call EXCEPT ![s].token = token, ![s].pc = Flow[@]]
  /\ UNCHANGED <<db, meter>>

\* Any other reason for a statement to fail.
Fail(s) ==
  /\ call[s] # NoCall /\ faults < MaxFaults
  /\ faults' = faults + 1
  /\ Goto(s, "done")
  /\ UNCHANGED <<db, calls, upgrades>>

-----------------------------------------------------------------------------
(* The consumer, and the setup script.                                     *)

GrantPrivilege(o) ==
  /\ o \notin granted
  /\ granted' = granted \cup {o}
  /\ UNCHANGED <<made, bound, state, token, carried, access, call, meter>>

\* Variant: the token is written anew whenever the script runs.
RotatedToken(old, fresh) == fresh

\* INSERT ... WHERE NOT EXISTS; 0 is "no row yet".
Token(old, fresh) == IF old = 0 THEN fresh ELSE old

\* The script runs again: its tables and rows are there and stay.
Upgrade ==
  /\ upgrades < MaxUpgrades
  /\ upgrades' = upgrades + 1
  /\ token' = Token(token, token + 1)
  /\ UNCHANGED <<granted, made, bound, state, carried, access, call, calls,
                 faults>>

Idle == \A s \in Sessions : call[s] = NoCall

AtRest == Idle /\ UNCHANGED vars

\* The script has run once.
Init ==
  /\ granted = {} /\ made = {} /\ bound = {} /\ state = {} /\ access = {}
  /\ token = Token(0, 1)
  /\ carried = [s \in Services |-> 0]
  /\ call = [s \in Sessions |-> NoCall]
  /\ calls = 0 /\ faults = 0 /\ upgrades = 0

Next ==
  \/ \E s \in Sessions : Begin(s) \/ Execute(s) \/ Gate(s) \/ ReadToken(s)
                         \/ Refuse(s) \/ Fail(s)
  \/ \E o \in Objects : GrantPrivilege(o)
  \/ Upgrade
  \/ AtRest

Spec == Init /\ [][Next]_vars

-----------------------------------------------------------------------------
(* Properties.                                                             *)

\* Every variable has its type.
TypeOK ==
  /\ granted \in SUBSET Objects /\ made \in SUBSET Objects
  /\ bound \in SUBSET Refs /\ state \in SUBSET Flags
  /\ token \in Nat /\ carried \in [Services -> Nat]
  /\ access \in SUBSET Services
  /\ call \in [Sessions -> Call \cup {NoCall}]
  /\ calls \in Nat /\ faults \in Nat /\ upgrades \in Nat

\* The preconditions of setup_script.sql:226-231 hold.
Ready == state = Flags /\ made = Objects /\ "pg_secret" \in bound

\* "When (2) and (3) are both satisfied -> services start"
\* (setup_script.sql:14): whatever order and overlap the callbacks had, once no
\* call runs and none has failed, a satisfied gate was not missed.
NoMissedStart ==
  (Idle /\ Ready /\ faults = 0) => Started = Services /\ access = Services

\* The admin UI vouches for operators with the token the controller compares
\* with; an upgrade must not rotate it "out from under the running services"
\* (setup_script.sql:91-98), nor between the start of one and of the other.
TokensAgree == \A s \in Started : carried[s] = token

=============================================================================
