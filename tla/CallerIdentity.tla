--------------------------- MODULE CallerIdentity ---------------------------
(***************************************************************************)
(* Who calls the controller: Controller/app/auth.py, its use by the routes *)
(* and by the activity log in main.py, and Admin UI/app/auth.py.           *)
(*                                                                         *)
(* A machine client comes with a caller token: its roles are asked from    *)
(* Snowflake, outside any lock, and cached for TTL.  The cache is looked   *)
(* up, and filled, under its lock: one step each.  A browser session asks  *)
(* once and vouches for the answer from then on.  A request is resolved a  *)
(* first time for its route, in a thread of the pool, and a second time    *)
(* for its row in MENDIX_ACTIVITY, by the middleware, on the event loop,   *)
(* unless it says itself who is acting (X-Operator): no other request is   *)
(* answered meanwhile.                                                     *)
(*                                                                         *)
(* time.monotonic() is a clock of coarse ticks that may advance between    *)
(* any two steps.  Requests are about one app, whose owner_role is fixed.  *)
(* A request with neither a caller token nor the internal token has no     *)
(* roles and is left out.                                                  *)
(***************************************************************************)
EXTENDS Naturals, FiniteSets

CONSTANTS
  Threads,      \* requests under way at one time
  Machines,     \* machine clients, by caller token
  Consoles,     \* browser sessions, by the operator they belong to
  Claims,       \* names that a machine client may put into X-Operator
  Roles,        \* role names
  MayAct,       \* the roles that may act on the app: its owner's, privileged ones
  TTL,          \* _IDENTITY_CACHE_TTL_SECS, in ticks
  MaxTime, MaxRequests, MaxChanges      \* bounds of the model

Callers == Machines \cup Consoles
Time    == 0..MaxTime

ASSUME IdentityAssumption ==
  /\ TTL \in Nat \ {0}
  /\ MaxTime \in Nat /\ MaxRequests \in Nat /\ MaxChanges \in Nat
  /\ Machines \cap Consoles = {} /\ "nobody" \notin Callers
  /\ Claims \subseteq Callers
  /\ MayAct \subseteq Roles

VARIABLES
  clock,        \* time.monotonic()
  roles,        \* the roles each caller holds in Snowflake
  held,         \* history: held[c][t] are the role sets c held during tick t
  cache,        \* _identity_cache, by caller token
  session,      \* st.session_state["operator_roles"] of each browser session
  opened,       \* history: when the session resolved them
  request,      \* what each thread is doing
  activity,     \* the rows of MENDIX_ACTIVITY
  requests,     \* requests so far
  changes       \* role changes and reloads so far

vars == <<clock, roles, held, cache, session, opened, request, activity,
          requests, changes>>

-----------------------------------------------------------------------------

\* CallerIdentity.user: a Snowflake user, or None.
Nobody == "nobody"
Users  == Callers \cup {Nobody}

NoRequest == [phase |-> "none"]

\* A request is resolving its caller ("lookup", "resolve", "store"), has the
\* answer ("known") or has been answered itself and its row is due ("insert").
\* In the round "log" the middleware resolves the caller again.  "at" is the
\* local "now".  History: "from", the earliest tick that the roles which decide
\* may stem from, and whether a machine client named the operator itself.
Request ==
  {q \in [phase : {"lookup", "resolve", "store", "known", "insert"},
          round : {"route", "log"}, caller : Callers, at : Time, from : Time,
          roles : SUBSET Roles, user : Users,
          result : {"none", "accepted", "rejected"}, claimed : BOOLEAN] :
     /\ q.round = "log" <=> q.result # "none"
     /\ q.phase = "known" => q.round = "route"
     /\ q.phase = "insert" => q.round = "log"}

NoEntry == [ts |-> "none"]
Entry   == [ts : Time, user : Users, roles : SUBSET Roles]

NotAsked == [kept |-> "none"]
Kept     == [kept : {"yes"}, roles : SUBSET Roles]

\* The operator is a name, or "<anonymous>" for nobody.  "from" and "claimed"
\* are history.
Row == [operator : Users, result : {"accepted", "rejected"}, from : Time,
        claimed : BOOLEAN]

FirstMoment(at) == IF at < TTL THEN 0 ELSE at - TTL + 1

\* The middleware is at work: the event loop does nothing else.
LoopBusy ==
  \E w \in Threads : /\ request[w].phase # "none"
                     /\ request[w].round = "log"

\* authorize: some role of the caller is the owner's or privileged.
Authorized(R) == R \cap MayAct # {}

-----------------------------------------------------------------------------
(* Snowflake, the clock, and the browser session.                          *)

Tick ==
  /\ clock < MaxTime
  /\ clock' = clock + 1
  /\ held' = [c \in Callers |-> [held[c] EXCEPT ![clock + 1] = {roles[c]}]]
  /\ UNCHANGED <<roles, cache, session, opened, request, activity,
                 requests, changes>>

Change == changes < MaxChanges /\ changes' = changes + 1

\* An administrator grants or revokes roles.
Regrant(c) ==
  /\ Change
  /\ \E R \in SUBSET Roles :
       /\ R # roles[c]
       /\ roles' = [roles EXCEPT ![c] = R]
       /\ held' = [held EXCEPT ![c][clock] = @ \cup {R}]
  /\ UNCHANGED <<clock, cache, session, opened, request, activity,
                 requests>>

\* operator_roles: the first page of a session asks Snowflake; a failure is
\* kept as no roles.
OpenConsole(c) ==
  /\ session[c] = NotAsked
  /\ \E R \in {roles[c], {}} :
       session' = [session EXCEPT ![c] = [kept |-> "yes", roles |-> R]]
  /\ opened' = [opened EXCEPT ![c] = clock]
  /\ UNCHANGED <<clock, roles, held, cache, request, activity,
                 requests, changes>>

\* A reload or a new tab is another session.
CloseConsole(c) ==
  /\ Change
  /\ session[c] # NotAsked
  /\ session' = [session EXCEPT ![c] = NotAsked]
  /\ UNCHANGED <<clock, roles, held, cache, opened, request, activity,
                 requests>>

-----------------------------------------------------------------------------
(* resolve_caller.                                                         *)

\* A request begins in a thread of the pool: it may have been handed to it
\* before the middleware took hold of the event loop.  One from the console
\* carries the roles its session has kept, and the internal token, which both
\* services hold for ever (Install).
Arrive(w, c) ==
  /\ request[w] = NoRequest
  /\ c \in Consoles => session[c] # NotAsked
  /\ requests < MaxRequests
  /\ requests' = requests + 1
  /\ request' = [request EXCEPT ![w] =
       [phase |-> "lookup", round |-> "route", caller |-> c, at |-> clock,
        from |-> IF c \in Consoles THEN opened[c] ELSE FirstMoment(clock),
        roles |-> IF c \in Consoles THEN session[c].roles ELSE {},
        user |-> Nobody, result |-> "none", claimed |-> FALSE]]
  /\ UNCHANGED <<clock, roles, held, cache, session, opened, activity, changes>>

\* The caller is known: go on with the route, or with the activity row.
Informed(q, R, user) ==
  [q EXCEPT !.phase = IF q.round = "route" THEN "known" ELSE "insert",
            !.roles = R, !.user = user]

Known(w, R, user) ==
  request' = [request EXCEPT ![w] = Informed(request[w], R, user)]

\* Variant: an entry as old as the TTL still answers.
AnswersLate(e, at) == e # NoEntry /\ at <= e.ts + TTL

\* An entry younger than the TTL answers a request that began at "at".
Answers(e, at) == e # NoEntry /\ at < e.ts + TTL

\* Variant: one entry for whoever comes through the ingress.
AnyEntry(q) ==
  LET kept == {c \in Machines : cache[c] # NoEntry}
  IN  IF kept = {} THEN NoEntry ELSE cache[CHOOSE c \in kept : TRUE]

\* The key is a hash of the caller token.
EntryOf(q) == cache[q.caller]

\* _cached_identity under the lock.
Lookup(w) ==
  LET q == request[w]
      e == EntryOf(q)
  IN
  /\ q.phase = "lookup" /\ q.caller \in Machines
  /\ IF Answers(e, q.at)
     THEN Known(w, e.roles, e.user)
     ELSE request' = [request EXCEPT ![w].phase = "resolve"]
  /\ UNCHANGED <<clock, roles, held, cache, session, opened, activity,
                 requests, changes>>

\* _identity_from_snowflake: one query, for the user and the roles, in a session
\* of the caller's own.
Resolve(w) ==
  LET q == request[w] IN
  /\ q.phase = "resolve"
  /\ request' = [request EXCEPT ![w].phase = "store", ![w].user = q.caller,
                                ![w].roles = roles[q.caller]]
  /\ UNCHANGED <<clock, roles, held, cache, session, opened, activity,
                 requests, changes>>

\* It raised: nobody, without roles, and nothing is cached.
ResolveFails(w) ==
  /\ request[w].phase = "resolve"
  /\ Known(w, {}, Nobody)
  /\ UNCHANGED <<clock, roles, held, cache, session, opened, activity,
                 requests, changes>>

\* Variant: the entry is stamped when it is stored.
StampedNow(q) == [ts |-> clock, user |-> q.user, roles |-> q.roles]

\* What is kept bears the request's own "now", taken before it resolved.
Stamped(q) == [ts |-> q.at, user |-> q.user, roles |-> q.roles]

\* Under the lock again: what has expired by the request's own "now" goes, and
\* the answer is kept, over whatever was stored meanwhile.
Store(w) ==
  LET q == request[w] IN
  /\ q.phase = "store"
  /\ cache' = [c \in Machines |->
       IF c = q.caller THEN Stamped(q)
       ELSE IF cache[c] # NoEntry /\ q.at >= cache[c].ts + TTL THEN NoEntry
       ELSE cache[c]]
  /\ Known(w, q.roles, q.user)
  /\ UNCHANGED <<clock, roles, held, session, opened, activity,
                 requests, changes>>

\* Without a caller token the roles in the header count, and X-Operator's name.
Vouch(w) ==
  LET q == request[w] IN
  /\ q.phase = "lookup" /\ q.caller \in Consoles
  /\ Known(w, q.roles, q.caller)
  /\ UNCHANGED <<clock, roles, held, cache, session, opened, activity,
                 requests, changes>>

-----------------------------------------------------------------------------
(* The route's outcome and log_operator.                                   *)

Done(w) == request' = [request EXCEPT ![w] = NoRequest]

\* Answered without a row: a GET, and a route that raised anything but an
\* HTTPException, a failed statement say.  That passes through call_next, and
\* the middleware does not come to its insert.
AnswerUnlogged(w) ==
  /\ request[w].phase = "known" /\ ~LoopBusy
  /\ Done(w)
  /\ UNCHANGED <<clock, roles, held, cache, session, opened, activity,
                 requests, changes>>

\* The X-Operator header: the console sends its operator's name; a machine
\* client sends none as a rule, but nothing keeps it from naming anybody.
OperatorHeader(c) == IF c \in Consoles THEN {c} ELSE Claims \cup {Nobody}

\* The route returned, or raised an HTTPException (404, 403, 409, 422 ...).
\* X-Operator names the operator, whoever sent it; without it the caller is
\* resolved once more, with a "now" of its own.
AnswerMutation(w) ==
  LET q == request[w] IN
  /\ q.phase = "known" /\ ~LoopBusy
  /\ \E result \in {"accepted", "rejected"}, name \in OperatorHeader(q.caller) :
       /\ result = "accepted" => Authorized(q.roles)
       /\ request' = [request EXCEPT ![w] =
            IF name # Nobody
            THEN [q EXCEPT !.phase = "insert", !.round = "log",
                           !.user = name, !.result = result,
                           !.claimed = (q.caller \in Machines)]
            ELSE [q EXCEPT !.phase = "lookup", !.round = "log",
                           !.at = clock, !.result = result]]
  /\ UNCHANGED <<clock, roles, held, cache, session, opened, activity,
                 requests, changes>>

\* activity.insert; a failure of it is only logged.
Insert(w) ==
  LET q == request[w] IN
  /\ q.phase = "insert"
  /\ \/ activity' = activity \cup
          {[operator |-> q.user, result |-> q.result, from |-> q.from,
            claimed |-> q.claimed]}
     \/ UNCHANGED activity
  /\ Done(w)
  /\ UNCHANGED <<clock, roles, held, cache, session, opened,
                 requests, changes>>

\* The controller restarts: cache and requests are gone.
Restart ==
  /\ cache' = [c \in Machines |-> NoEntry]
  /\ request' = [w \in Threads |-> NoRequest]
  /\ UNCHANGED <<clock, roles, held, session, opened, activity,
                 requests, changes>>

Init ==
  /\ clock = 0
  /\ roles \in [Callers -> SUBSET Roles]
  /\ held = [c \in Callers |->
               [t \in Time |-> IF t = 0 THEN {roles[c]} ELSE {}]]
  /\ cache = [c \in Machines |-> NoEntry]
  /\ session = [c \in Consoles |-> NotAsked]
  /\ opened = [c \in Consoles |-> 0]
  /\ request = [w \in Threads |-> NoRequest]
  /\ activity = {}
  /\ requests = 0 /\ changes = 0

Next ==
  \/ Tick \/ Restart
  \/ \E c \in Callers : Regrant(c)
  \/ \E c \in Consoles : OpenConsole(c) \/ CloseConsole(c)
  \/ \E w \in Threads, c \in Callers : Arrive(w, c)
  \/ \E w \in Threads :
       \/ Lookup(w) \/ Resolve(w) \/ ResolveFails(w) \/ Store(w) \/ Vouch(w)
       \/ AnswerUnlogged(w) \/ AnswerMutation(w) \/ Insert(w)

Spec == Init /\ [][Next]_vars

-----------------------------------------------------------------------------
(* Properties.                                                             *)

\* Every variable has its type.
TypeOK ==
  /\ clock \in Time
  /\ roles \in [Callers -> SUBSET Roles]
  /\ held \in [Callers -> [Time -> SUBSET (SUBSET Roles)]]
  /\ cache \in [Machines -> Entry \cup {NoEntry}]
  /\ session \in [Consoles -> Kept \cup {NotAsked}]
  /\ opened \in [Consoles -> Time]
  /\ request \in [Threads -> Request \cup {NoRequest}]
  /\ activity \subseteq Row
  /\ requests \in Nat /\ changes \in Nat

\* The earliest tick for the roles of the present round.
Since(q) == IF q.caller \in Consoles THEN q.from ELSE FirstMoment(q.at)

\* What a thread has asked and been told, in the words of FreshRoles.
Pending(q) ==
  CASE q.phase = "none" -> [state |-> "none"]
    [] q.phase \in {"known", "insert"} ->
         [state |-> "answered", caller |-> q.caller, from |-> Since(q),
          roles |-> q.roles]
    [] OTHER -> [state |-> "open", caller |-> q.caller, from |-> Since(q)]

Fresh == INSTANCE FreshRoles
           WITH pending <- [w \in Threads |-> Pending(request[w])]

\* However resolutions overlap and overwrite each other's entries, a machine
\* client acts under roles it held less than TTL before it asked, an operator
\* under roles held since the session was opened, and nobody under others
\* ("TTL is short", auth.py:52-53; "fail closed", auth.py:135).
RolesAreFresh == Fresh!Spec

\* An accepted row of the log puts the action down to a user who, within the
\* same limits, held a role that may act on the app: though the decision and
\* the name come from two resolutions with a "now" each, between which roles
\* change, entries expire and other callers' are stored (main.py:50-59).  A
\* second resolution that fails puts it down to nobody.  The exception is the
\* name a machine client claims, which is taken from it unseen (main.py:53).
LoggedOperatorsWereAllowed ==
  \A r \in activity :
    (r.result = "accepted" /\ r.operator # Nobody /\ ~r.claimed) =>
      \E t \in r.from..clock : \E R \in held[r.operator][t] : Authorized(R)

=============================================================================
