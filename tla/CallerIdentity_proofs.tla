------------------------ MODULE CallerIdentity_proofs -----------------------
(***************************************************************************)
(* Proofs about CallerIdentity, for any set of threads, callers and roles, *)
(* any TTL and any bounds: its types (TypeCorrect), that it implements     *)
(* FreshRoles (ImplementsFreshRoles) and whom an accepted row of the       *)
(* activity log may name (AcceptedRowsNameTheAllowed).                     *)
(***************************************************************************)
EXTENDS CallerIdentity, TLAPS

-----------------------------------------------------------------------------
(* The inductive invariant.                                                *)

\* Caller c held the roles R at some moment since the tick "from".
Was(c, from, R) == \E t \in from..clock : R \in held[c][t]

NowInv == \A c \in Callers : roles[c] \in held[c][clock]

\* An entry says what Snowflake said of this caller, after the moment it bears.
CacheInv ==
  \A c \in Machines : cache[c] # NoEntry =>
    /\ cache[c].ts <= clock /\ Was(c, cache[c].ts, cache[c].roles)
    /\ cache[c].user = c

SessionInv ==
  \A c \in Consoles :
    /\ opened[c] <= clock
    /\ session[c] # NotAsked =>
         session[c].roles = {} \/ Was(c, opened[c], session[c].roles)

\* What a request knows so far, and what has been decided by it.
RequestOK(q) ==
  /\ q.at <= clock
  /\ q.phase \in {"resolve", "store"} => q.caller \in Machines
  /\ q.phase = "store" => Was(q.caller, q.at, q.roles) /\ q.user = q.caller
  /\ q.caller \in Consoles \/ q.phase \in {"known", "insert"} =>
       q.roles = {} \/ Was(q.caller, Since(q), q.roles)
  /\ q.round = "route" => q.from = Since(q)
  /\ q.result = "accepted" =>
       \E R \in SUBSET Roles : Authorized(R) /\ Was(q.caller, q.from, R)
  /\ q.claimed \/ q.user \in {q.caller, Nobody}

RequestInv == \A w \in Threads : request[w] # NoRequest => RequestOK(request[w])

IInv ==
  TypeOK /\ NowInv /\ CacheInv /\ SessionInv /\ RequestInv
    /\ LoggedOperatorsWereAllowed

-----------------------------------------------------------------------------
(* Facts about single operators.                                           *)

\* A request that is there is not NoRequest, and the other way round.
LEMMA RequestKinds ==
  ASSUME TypeOK, NEW w \in Threads
  PROVE  /\ request[w].phase # "none" => request[w] \in Request
         /\ request[w] \in Request =>
              request[w] # NoRequest /\ request[w].phase # "none"
         /\ request[w] # NoRequest => request[w] \in Request
BY DEF TypeOK, Request, NoRequest

\* The first tick of a question to the cache lies in the past, and an entry
\* that answers is not older.
LEMMA FirstMomentFacts ==
  ASSUME IdentityAssumption, NEW at \in Time
  PROVE  /\ FirstMoment(at) \in Time
         /\ FirstMoment(at) <= at
         /\ \A ts \in Time : at < ts + TTL => FirstMoment(at) <= ts
BY DEF IdentityAssumption, FirstMoment, Time

\* Knowing the caller changes the request's phase, roles and user.
LEMMA KnownFacts ==
  ASSUME TypeOK, NEW w \in Threads, NEW R \in SUBSET Roles,
         NEW user \in Users, request[w] \in Request,
         Known(w, R, user)
  PROVE  /\ request' \in [Threads -> Request \cup {NoRequest}]
         /\ request'[w] = Informed(request[w], R, user)
         /\ request'[w] \in Request
         /\ \A u \in Threads \ {w} : request'[u] = request[u]
<1>1. Informed(request[w], R, user) \in Request
  BY DEF Informed, Request
<1> QED BY <1>1 DEF Known, TypeOK

-----------------------------------------------------------------------------
(* Types.                                                                  *)

LEMMA TypeInit == ASSUME IdentityAssumption, Init PROVE TypeOK
BY DEF IdentityAssumption, Init, TypeOK, Time, Callers

LEMMA TypeNext ==
  ASSUME IdentityAssumption, TypeOK, [Next]_vars
  PROVE  TypeOK'
<1> USE DEF TypeOK
<1>1. CASE Tick
  BY <1>1 DEF Tick, Time, IdentityAssumption
<1>2. CASE Restart
  BY <1>2 DEF Restart
<1>3. ASSUME NEW c \in Callers, Regrant(c) PROVE TypeOK'
  BY <1>3 DEF Regrant, Change
<1>4. ASSUME NEW c \in Consoles, OpenConsole(c) PROVE TypeOK'
  <2>1. \A R \in {roles[c], {}} : [kept |-> "yes", roles |-> R] \in Kept
    BY DEF Kept, Callers
  <2> QED BY <1>4, <2>1 DEF OpenConsole
<1>5. ASSUME NEW c \in Consoles, CloseConsole(c) PROVE TypeOK'
  BY <1>5 DEF CloseConsole, Change
<1>6. ASSUME NEW w \in Threads, NEW c \in Callers, Arrive(w, c) PROVE TypeOK'
  <2> DEFINE q == [phase |-> "lookup", round |-> "route", caller |-> c,
                   at |-> clock,
                   from |-> IF c \in Consoles THEN opened[c]
                                              ELSE FirstMoment(clock),
                   roles |-> IF c \in Consoles THEN session[c].roles ELSE {},
                   user |-> Nobody, result |-> "none", claimed |-> FALSE]
  <2>1. c \in Consoles => session[c].roles \in SUBSET Roles
    BY <1>6 DEF Arrive, Kept
  <2>2. q \in Request
    BY <2>1, FirstMomentFacts DEF Request, Users
  <2> HIDE DEF q
  <2>3. request' = [request EXCEPT ![w] = q]
    BY <1>6 DEF Arrive, q
  <2>4. request' \in [Threads -> Request \cup {NoRequest}]
    BY <2>2, <2>3
  <2>5. /\ requests' = requests + 1
        /\ UNCHANGED <<clock, roles, held, cache, session, opened, activity,
                       changes>>
    BY <1>6 DEF Arrive
  <2> QED BY <2>4, <2>5
<1>7. ASSUME NEW w \in Threads, Lookup(w) PROVE TypeOK'
  <2>1. request[w] \in Request
    BY <1>7, RequestKinds DEF Lookup
  <2>2. CASE Answers(cache[request[w].caller], request[w].at)
    <3>1. /\ cache[request[w].caller].roles \in SUBSET Roles
          /\ cache[request[w].caller].user \in Users
      BY <1>7, <2>2 DEF Lookup, Answers, Entry, Users
    <3> QED BY <1>7, <2>1, <2>2, <3>1, KnownFacts DEF Lookup, EntryOf
  <2>3. CASE ~Answers(cache[request[w].caller], request[w].at)
    <3>1. [request[w] EXCEPT !.phase = "resolve"] \in Request
      BY <2>1 DEF Request
    <3> QED BY <1>7, <2>3, <3>1 DEF Lookup, EntryOf
  <2> QED BY <2>2, <2>3
<1>8. ASSUME NEW w \in Threads, Resolve(w) PROVE TypeOK'
  <2>1. request[w] \in Request
    BY <1>8, RequestKinds DEF Resolve
  <2>2. [request[w] EXCEPT !.phase = "store", !.user = request[w].caller,
                           !.roles = roles[request[w].caller]] \in Request
    BY <2>1 DEF Request, Users
  <2>3. request' = [request EXCEPT ![w] =
          [request[w] EXCEPT !.phase = "store", !.user = request[w].caller,
                             !.roles = roles[request[w].caller]]]
    BY <1>8, <2>1 DEF Resolve, Request
  <2> QED BY <1>8, <2>2, <2>3 DEF Resolve
<1>9. ASSUME NEW w \in Threads, ResolveFails(w) PROVE TypeOK'
  <2>1. request[w] \in Request
    BY <1>9, RequestKinds DEF ResolveFails
  <2> QED BY <1>9, <2>1, KnownFacts DEF ResolveFails, Users
<1>10. ASSUME NEW w \in Threads, Store(w) PROVE TypeOK'
  <2>1. request[w] \in Request
    BY <1>10, RequestKinds DEF Store
  <2>2. /\ request[w].roles \in SUBSET Roles /\ request[w].at \in Time
        /\ request[w].user \in Users
    BY <2>1 DEF Request
  <2>3. Stamped(request[w]) \in Entry
    BY <2>2 DEF Stamped, Entry
  <2>4. cache' \in [Machines -> Entry \cup {NoEntry}]
    BY <1>10, <2>3 DEF Store
  <2> QED BY <1>10, <2>1, <2>2, <2>4, KnownFacts DEF Store
<1>11. ASSUME NEW w \in Threads, Vouch(w) PROVE TypeOK'
  <2>1. request[w] \in Request
    BY <1>11, RequestKinds DEF Vouch
  <2>2. request[w].roles \in SUBSET Roles
    BY <2>1 DEF Request
  <2>3. request[w].caller \in Users
    BY <2>1 DEF Request, Users
  <2> QED BY <1>11, <2>1, <2>2, <2>3, KnownFacts DEF Vouch
<1>12. ASSUME NEW w \in Threads, AnswerUnlogged(w) PROVE TypeOK'
  BY <1>12 DEF AnswerUnlogged, Done
<1>13. ASSUME NEW w \in Threads, AnswerMutation(w) PROVE TypeOK'
  <2>1. request[w] \in Request
    BY <1>13, RequestKinds DEF AnswerMutation
  <2>2. \A result \in {"accepted", "rejected"}, name \in Users,
           claimed \in BOOLEAN :
          /\ [request[w] EXCEPT !.phase = "insert", !.round = "log",
                                !.user = name, !.result = result,
                                !.claimed = claimed] \in Request
          /\ [request[w] EXCEPT !.phase = "lookup", !.round = "log",
                                !.at = clock, !.result = result] \in Request
    BY <2>1 DEF Request
  <2>3. OperatorHeader(request[w].caller) \subseteq Users
    BY <2>1 DEF OperatorHeader, Users, IdentityAssumption, Request
  <2>4. (request[w].caller \in Machines) \in BOOLEAN
    OBVIOUS
  <2>5. PICK result \in {"accepted", "rejected"}, name \in Users :
          request' = [request EXCEPT ![w] =
            IF name # Nobody
            THEN [request[w] EXCEPT !.phase = "insert", !.round = "log",
                                    !.user = name, !.result = result,
                                    !.claimed = (request[w].caller \in Machines)]
            ELSE [request[w] EXCEPT !.phase = "lookup", !.round = "log",
                                    !.at = clock, !.result = result]]
    BY <1>13, <2>3 DEF AnswerMutation
  <2>6. request' \in [Threads -> Request \cup {NoRequest}]
    <3>1. CASE name # Nobody
      BY <2>2, <2>4, <2>5, <3>1
    <3>2. CASE name = Nobody
      BY <2>2, <2>5, <3>2
    <3> QED BY <3>1, <3>2
  <2> QED BY <1>13, <2>6 DEF AnswerMutation
<1>14. ASSUME NEW w \in Threads, Insert(w) PROVE TypeOK'
  <2>1. request[w] \in Request
    BY <1>14, RequestKinds DEF Insert
  <2>2. request[w].result # "none"
    BY <1>14, <2>1 DEF Insert, Request
  <2>3. [operator |-> request[w].user, result |-> request[w].result,
         from |-> request[w].from, claimed |-> request[w].claimed] \in Row
    BY <2>1, <2>2 DEF Row, Request
  <2> QED BY <1>14, <2>3 DEF Insert, Done
<1>15. CASE UNCHANGED vars
  BY <1>15 DEF vars
<1> QED BY <1>1, <1>2, <1>3, <1>4, <1>5, <1>6, <1>7, <1>8, <1>9, <1>10, <1>11,
           <1>12, <1>13, <1>14, <1>15 DEF Next

\* Types hold throughout.
THEOREM TypeCorrect == ASSUME IdentityAssumption PROVE Spec => []TypeOK
<1>1. Init => TypeOK
  BY TypeInit
<1>2. TypeOK /\ [Next]_vars => TypeOK'
  BY TypeNext
<1> QED BY <1>1, <1>2, PTL DEF Spec

-----------------------------------------------------------------------------
(* Preservation of the invariant.                                          *)

\* Only the clock and a grant touch the history, and both only add to it.
LEMMA HistoryGrows ==
  ASSUME IdentityAssumption, TypeOK, NowInv, [Next]_vars
  PROVE  /\ NowInv'
         /\ clock <= clock'
         /\ \A c \in Callers, from \in Time : \A R : Was(c, from, R) => Was(c, from, R)'
<1> USE DEF TypeOK, NowInv, Was
<1>1. CASE Tick
  BY <1>1 DEF Tick, Time, IdentityAssumption
<1>2. ASSUME NEW c \in Callers, Regrant(c)
      PROVE  /\ NowInv'
             /\ clock <= clock'
             /\ \A d \in Callers, from \in Time : \A R :
                  Was(d, from, R) => Was(d, from, R)'
  BY <1>2 DEF Regrant, Change, Time
<1>3. CASE UNCHANGED <<clock, roles, held>>
  BY <1>3 DEF Time
<1>4. ASSUME Next, ~Tick, ~(\E c \in Callers : Regrant(c))
      PROVE  UNCHANGED <<clock, roles, held>>
  BY <1>4 DEF Next, Restart, OpenConsole, CloseConsole, Arrive, Lookup, Resolve,
     ResolveFails, Store, Vouch, AnswerUnlogged, AnswerMutation, Insert
<1> QED BY <1>1, <1>2, <1>3, <1>4 DEF vars

\* What a request knew stays true while the request does not change.
LEMMA RequestStays ==
  ASSUME IdentityAssumption, TypeOK, NowInv, [Next]_vars,
         NEW q \in Request, RequestOK(q)
  PROVE  RequestOK(q)'
<1>1. q.caller \in Callers /\ q.at \in Time /\ q.from \in Time
  BY DEF Request
<1>2. Since(q) \in Time
  BY <1>1, FirstMomentFacts DEF Since
<1>3. /\ clock <= clock' /\ clock \in Time /\ clock' \in Time
  BY HistoryGrows, TypeNext DEF TypeOK
<1>4. \A from \in Time : \A R : Was(q.caller, from, R) => Was(q.caller, from, R)'
  BY <1>1, HistoryGrows
<1>5. (q.at <= clock)'
  BY <1>1, <1>3 DEF RequestOK, Time
<1>6. q.phase = "store" => Was(q.caller, q.at, q.roles)' /\ q.user = q.caller
  BY <1>1, <1>4 DEF RequestOK
<1>7. q.caller \in Consoles \/ q.phase \in {"known", "insert"} =>
        q.roles = {} \/ Was(q.caller, Since(q), q.roles)'
  BY <1>2, <1>4 DEF RequestOK
<1>8. q.result = "accepted" =>
        \E R \in SUBSET Roles : Authorized(R) /\ Was(q.caller, q.from, R)'
  BY <1>1, <1>4 DEF RequestOK
<1> QED BY <1>5, <1>6, <1>7, <1>8 DEF RequestOK, Since, FirstMoment, Authorized

LEMMA CacheNext ==
  ASSUME IdentityAssumption, IInv, [Next]_vars
  PROVE  CacheInv'
<1>1. /\ TypeOK /\ TypeOK' /\ clock <= clock'
      /\ \A c \in Callers, from \in Time : \A R : Was(c, from, R) => Was(c, from, R)'
  BY HistoryGrows, TypeNext DEF IInv
<1>2. \A c \in Machines, e \in Entry : cache[c] = e =>
        e.ts <= clock' /\ Was(c, e.ts, e.roles)' /\ e.user = c
  <2> SUFFICES ASSUME NEW c \in Machines, NEW e \in Entry, cache[c] = e
               PROVE  e.ts <= clock' /\ Was(c, e.ts, e.roles)' /\ e.user = c
    OBVIOUS
  <2>1. c \in Callers /\ e.ts \in Time /\ clock \in Time /\ clock' \in Time
    BY <1>1 DEF TypeOK, Callers, Entry
  <2>2. e # NoEntry
    BY DEF Entry, NoEntry
  <2>3. e.ts <= clock /\ Was(c, e.ts, e.roles) /\ e.user = c
    BY <2>2 DEF IInv, CacheInv
  <2> QED BY <1>1, <2>1, <2>3 DEF Time
<1>3. CASE UNCHANGED cache
  BY <1>1, <1>2, <1>3 DEF CacheInv, TypeOK
<1>4. CASE Restart
  BY <1>4 DEF Restart, CacheInv
<1>5. ASSUME NEW w \in Threads, Store(w) PROVE CacheInv'
  <2>1. request[w] \in Request /\ request[w] # NoRequest
    BY <1>1, <1>5, RequestKinds DEF Store
  <2>2. PICK q \in Request : q = request[w]
    BY <2>1
  <2>3. RequestOK(q) /\ q.phase = "store" /\ q.caller \in Machines
    BY <1>5, <2>1, <2>2 DEF Store, IInv, RequestInv, RequestOK
  <2>4. q.at <= clock /\ Was(q.caller, q.at, q.roles) /\ q.user = q.caller
    BY <2>3 DEF RequestOK
  <2>5. q.at \in Time /\ q.caller \in Callers
    BY <2>2 DEF Request
  <2>6. q.at <= clock' /\ Was(q.caller, q.at, q.roles)'
    BY <1>1, <2>4, <2>5 DEF TypeOK, Time
  <2>7. cache'[q.caller] = [ts |-> q.at, user |-> q.user, roles |-> q.roles]
    BY <1>5, <2>2, <2>3 DEF Store, Stamped
  <2>8. \A c \in Machines \ {q.caller} :
          cache'[c] = cache[c] \/ cache'[c] = NoEntry
    BY <1>5, <2>2 DEF Store
  <2>9. \A c \in Machines \ {q.caller} : cache'[c] # NoEntry =>
          (/\ cache[c].ts <= clock /\ Was(c, cache[c].ts, cache[c].roles)
           /\ cache[c].user = c)'
    BY <1>1, <1>2, <2>8 DEF TypeOK
  <2>10. (cache[q.caller].ts <= clock
            /\ Was(q.caller, cache[q.caller].ts, cache[q.caller].roles)
            /\ cache[q.caller].user = q.caller)'
    BY <2>4, <2>6, <2>7
  <2> QED BY <2>9, <2>10 DEF CacheInv
<1>6. ASSUME Next, ~Restart, ~(\E w \in Threads : Store(w))
      PROVE  UNCHANGED cache
  BY <1>6 DEF Next, Tick, Regrant, OpenConsole, CloseConsole, Arrive, Lookup,
     Resolve, ResolveFails, Vouch, AnswerUnlogged, AnswerMutation, Insert
<1> QED BY <1>3, <1>4, <1>5, <1>6 DEF vars

LEMMA SessionNext ==
  ASSUME IdentityAssumption, IInv, [Next]_vars
  PROVE  SessionInv'
<1>1. /\ TypeOK /\ TypeOK' /\ NowInv /\ clock <= clock'
      /\ \A c \in Callers, from \in Time : \A R : Was(c, from, R) => Was(c, from, R)'
  BY HistoryGrows, TypeNext DEF IInv
<1>2. \A c \in Consoles, from \in Time, k \in Kept \cup {NotAsked} :
        (opened[c] = from /\ session[c] = k) =>
          /\ from <= clock'
          /\ k # NotAsked => k.roles = {} \/ Was(c, from, k.roles)'
  <2> SUFFICES ASSUME NEW c \in Consoles, NEW from \in Time,
                      NEW k \in Kept \cup {NotAsked},
                      opened[c] = from, session[c] = k
               PROVE  /\ from <= clock'
                      /\ k # NotAsked => k.roles = {} \/ Was(c, from, k.roles)'
    OBVIOUS
  <2>1. /\ from <= clock
        /\ k # NotAsked => k.roles = {} \/ Was(c, from, k.roles)
    BY DEF IInv, SessionInv
  <2>2. from <= clock'
    BY <1>1, <2>1 DEF TypeOK, Time
  <2>3. c \in Callers
    BY DEF Callers
  <2> QED BY <1>1, <2>1, <2>2, <2>3
<1>3. CASE UNCHANGED <<session, opened>>
  <2>1. \A c \in Consoles : opened[c] \in Time /\ session[c] \in Kept \cup {NotAsked}
    BY <1>1 DEF TypeOK
  <2>2. \A c \in Consoles :
          /\ opened[c] <= clock'
          /\ session[c] # NotAsked =>
               session[c].roles = {} \/ Was(c, opened[c], session[c].roles)'
    BY <1>2, <1>3, <2>1
  <2> QED BY <1>3, <2>2 DEF SessionInv
<1>4. ASSUME NEW c \in Consoles, OpenConsole(c) PROVE SessionInv'
  <2>1. PICK R \in {roles[c], {}} :
          session' = [session EXCEPT ![c] = [kept |-> "yes", roles |-> R]]
    BY <1>4 DEF OpenConsole
  <2>2. opened' = [opened EXCEPT ![c] = clock] /\ UNCHANGED <<clock, held>>
    BY <1>4 DEF OpenConsole
  <2>3. R = {} \/ Was(c, clock, R)
    BY <1>1, <2>1 DEF NowInv, Was, Callers, TypeOK, Time
  <2>4. R = {} \/ Was(c, clock, R)'
    BY <2>2, <2>3 DEF Was
  <2>5. session'[c].roles = R /\ opened'[c] = clock /\ clock <= clock'
    BY <1>1, <2>1, <2>2 DEF TypeOK
  <2>6. \A d \in Consoles \ {c} :
          session'[d] = session[d] /\ opened'[d] = opened[d]
    BY <1>1, <2>1, <2>2 DEF TypeOK
  <2>7. \A d \in Consoles \ {c} :
          /\ (opened[d] <= clock)'
          /\ (session[d] # NotAsked =>
                session[d].roles = {} \/ Was(d, opened[d], session[d].roles))'
    BY <1>1, <1>2, <2>6 DEF TypeOK
  <2>8. /\ (opened[c] <= clock)'
        /\ (session[c].roles = {} \/ Was(c, opened[c], session[c].roles))'
    BY <2>2, <2>4, <2>5
  <2> QED BY <2>7, <2>8 DEF SessionInv
<1>5. ASSUME NEW c \in Consoles, CloseConsole(c) PROVE SessionInv'
  <2>1. /\ session' = [session EXCEPT ![c] = NotAsked]
        /\ opened' = opened
    BY <1>5 DEF CloseConsole
  <2> QED BY <1>1, <1>2, <2>1 DEF SessionInv, TypeOK
<1>6. ASSUME Next, ~(\E c \in Consoles : OpenConsole(c) \/ CloseConsole(c))
      PROVE  UNCHANGED <<session, opened>>
  BY <1>6 DEF Next, Tick, Restart, Regrant, Arrive, Lookup, Resolve, ResolveFails,
     Store, Vouch, AnswerUnlogged, AnswerMutation, Insert
<1> QED BY <1>3, <1>4, <1>5, <1>6 DEF vars

\* A request that is still there after a step is in order, one action at a
\* time.  No action but the clock and the grants, which touch no request,
\* changes what Was says, so q is looked at before the step.
LEMMA RequestNext ==
  ASSUME IdentityAssumption, IInv, [Next]_vars
  PROVE  RequestInv'
<1>1. TypeOK /\ TypeOK' /\ NowInv
  BY TypeNext DEF IInv
<1> SUFFICES ASSUME NEW v \in Threads, NEW q \in Request, q = request'[v]
             PROVE  RequestOK(q)
  <2>1. \A v \in Threads, q \in Request :
          RequestOK(q) => RequestOK(q)'
    BY <1>1, RequestStays
  <2>2. \A v \in Threads, q \in Request :
          q = request'[v] => RequestOK(q)
    OBVIOUS
  <2>3. \A v \in Threads, q \in Request :
          q = request'[v] => RequestOK(q)'
    BY <2>1, <2>2
  <2>4. \A v \in Threads :
          request'[v] # NoRequest => request'[v] \in Request
    BY <1>1 DEF TypeOK
  <2> QED BY <2>3, <2>4 DEF RequestInv
<1>2. ASSUME request'[v] = request[v] PROVE RequestOK(q)
  <2>1. request[v] \in Request /\ request[v] # NoRequest
    BY <1>1, <1>2, RequestKinds
  <2> QED BY <1>2, <2>1 DEF IInv, RequestInv
<1>3. ASSUME request[v] \in Request
      PROVE  RequestOK(request[v])
  BY <1>1, <1>3, RequestKinds DEF IInv, RequestInv
<1>4. \A R \in SUBSET Roles, c \in Callers, from \in Time :
        Authorized(R) /\ (R = {} \/ Was(c, from, R)) =>
          \E S \in SUBSET Roles : Authorized(S) /\ Was(c, from, S)
  BY DEF Authorized
\* What knowing the caller asks for.
<1>5. ASSUME NEW R \in SUBSET Roles, NEW user \in Users,
             request[v] \in Request, Known(v, R, user),
             R = {} \/ Was(request[v].caller, Since(request[v]), R),
             user \in {request[v].caller, Nobody}
      PROVE  RequestOK(q)
  <2>1. PICK r \in Request : r = request[v]
    BY <1>5
  <2>2. q = Informed(r, R, user)
    BY <1>1, <1>5, <2>1, KnownFacts
  <2>3. /\ q.at = r.at /\ q.caller = r.caller /\ q.from = r.from
        /\ q.round = r.round /\ q.result = r.result
        /\ q.roles = R /\ q.phase \in {"known", "insert"}
        /\ q.user = user
    BY <2>2 DEF Request, Informed
  <2>4. RequestOK(r) /\ Since(q) = Since(r)
    BY <1>3, <2>1, <2>3 DEF Since
  <2> QED BY <1>5, <2>1, <2>3, <2>4 DEF RequestOK
<1>6. ASSUME NEW c \in Callers, Arrive(v, c) PROVE RequestOK(q)
  <2>1. /\ q.phase = "lookup" /\ q.round = "route" /\ q.caller = c
        /\ q.at = clock /\ q.result = "none" /\ q.user = Nobody
        /\ q.from = IF c \in Consoles THEN opened[c] ELSE FirstMoment(clock)
        /\ c \in Consoles =>
             session[c] # NotAsked /\ q.roles = session[c].roles
    BY <1>1, <1>6 DEF Arrive, TypeOK
  <2>2. q.from = Since(q)
    BY <2>1 DEF Since
  <2>3. q.caller \in Consoles => q.roles = {} \/ Was(q.caller, Since(q), q.roles)
    BY <2>1, <2>2 DEF IInv, SessionInv
  <2> QED BY <1>1, <2>1, <2>2, <2>3 DEF RequestOK, TypeOK, Time
<1>7. ASSUME Lookup(v) PROVE RequestOK(q)
  <2>1. PICK r \in Request : r = request[v]
    BY <1>1, <1>7, RequestKinds DEF Lookup
  <2>2. r.phase = "lookup" /\ r.caller \in Machines /\ RequestOK(r)
    BY <1>3, <1>7, <2>1 DEF Lookup
  <2>3. CASE Answers(cache[r.caller], r.at)
    <3>1. PICK e \in Entry : e = cache[r.caller]
      BY <1>1, <2>2, <2>3 DEF Answers, TypeOK
    <3>2. /\ cache[r.caller] # NoEntry /\ r.at < e.ts + TTL
          /\ Known(v, e.roles, e.user)
      BY <1>7, <2>1, <2>3, <3>1 DEF Lookup, EntryOf, Answers
    <3>3. e.ts <= clock /\ Was(r.caller, e.ts, e.roles) /\ e.user = r.caller
      BY <2>2, <3>1, <3>2 DEF IInv, CacheInv
    <3>4. /\ e.ts \in Time /\ e.roles \in SUBSET Roles /\ r.at \in Time
          /\ e.user \in Users
          /\ r.caller \notin Consoles /\ clock \in Time
      BY <1>1, <2>1, <2>2, <3>1 DEF Entry, Request, IdentityAssumption, TypeOK
    <3>5. Since(r) \in Time /\ Since(r) <= e.ts
      BY <3>2, <3>4, FirstMomentFacts DEF Since
    <3>6. Was(r.caller, Since(r), e.roles)
      BY <3>3, <3>4, <3>5 DEF Was, Time
    <3> QED BY <1>5, <2>1, <3>2, <3>3, <3>4, <3>6
  <2>4. CASE ~Answers(cache[r.caller], r.at)
    <3>1. q = [r EXCEPT !.phase = "resolve"]
      BY <1>1, <1>7, <2>1, <2>4 DEF Lookup, EntryOf, TypeOK
    <3>2. /\ q.phase = "resolve" /\ q.at = r.at /\ q.caller = r.caller
          /\ q.from = r.from /\ q.round = r.round /\ q.result = r.result
          /\ q.roles = r.roles /\ q.user = r.user /\ q.claimed = r.claimed
      BY <3>1 DEF Request
    <3> QED BY <2>2, <3>2 DEF RequestOK, Since
  <2> QED BY <2>3, <2>4
<1>8. ASSUME Resolve(v) PROVE RequestOK(q)
  <2>1. PICK r \in Request : r = request[v]
    BY <1>1, <1>8, RequestKinds DEF Resolve
  <2>2. r.phase = "resolve" /\ RequestOK(r)
    BY <1>3, <1>8, <2>1 DEF Resolve
  <2>3. q = [r EXCEPT !.phase = "store", !.user = r.caller,
                      !.roles = roles[r.caller]]
    BY <1>1, <1>8, <2>1 DEF Resolve, TypeOK, Request
  <2>4. /\ q.phase = "store" /\ q.at = r.at /\ q.caller = r.caller
        /\ q.from = r.from /\ q.round = r.round /\ q.result = r.result
        /\ q.roles = roles[r.caller] /\ q.user = r.caller
    BY <2>3 DEF Request
  <2>5. q.caller \in Machines /\ q.caller \in Callers /\ q.at <= clock
        /\ q.caller \notin Consoles
    BY <2>2, <2>4 DEF RequestOK, Callers, IdentityAssumption
  <2>6. Was(q.caller, q.at, q.roles)
    <3>1. clock \in q.at..clock
      BY <1>1, <2>4, <2>5 DEF TypeOK, Time, Request
    <3>2. q.roles \in held[q.caller][clock]
      BY <1>1, <2>4, <2>5 DEF NowInv
    <3> QED BY <3>1, <3>2 DEF Was
  <2> QED BY <2>2, <2>4, <2>5, <2>6 DEF RequestOK, Since
<1>9. ASSUME ResolveFails(v) PROVE RequestOK(q)
  <2>1. request[v] \in Request
    BY <1>1, <1>9, RequestKinds DEF ResolveFails
  <2> QED BY <1>5, <1>9, <2>1 DEF ResolveFails, Users
<1>10. ASSUME Store(v) PROVE RequestOK(q)
  <2>1. PICK r \in Request : r = request[v]
    BY <1>1, <1>10, RequestKinds DEF Store
  <2>2. r.phase = "store" /\ RequestOK(r) /\ Known(v, r.roles, r.user)
    BY <1>3, <1>10, <2>1 DEF Store
  <2>3. /\ r.at \in Time /\ r.roles \in SUBSET Roles /\ clock \in Time
        /\ r.caller \notin Consoles /\ r.at <= clock
        /\ Was(r.caller, r.at, r.roles) /\ r.user = r.caller /\ r.user \in Users
    BY <1>1, <2>1, <2>2 DEF RequestOK, Request, IdentityAssumption, TypeOK
  <2>4. Since(r) \in Time /\ Since(r) <= r.at
    BY <2>3, FirstMomentFacts DEF Since
  <2>5. Was(r.caller, Since(r), r.roles)
    BY <2>3, <2>4 DEF Was, Time
  <2> QED BY <1>5, <2>1, <2>2, <2>3, <2>5
<1>11. ASSUME Vouch(v) PROVE RequestOK(q)
  <2>1. PICK r \in Request : r = request[v]
    BY <1>1, <1>11, RequestKinds DEF Vouch
  <2>2. /\ r.caller \in Consoles /\ RequestOK(r) /\ r.roles \in SUBSET Roles
        /\ Known(v, r.roles, r.caller) /\ r.caller \in Users
    BY <1>3, <1>11, <2>1 DEF Vouch, Request, Users
  <2>3. r.roles = {} \/ Was(r.caller, Since(r), r.roles)
    BY <2>2 DEF RequestOK
  <2> QED BY <1>5, <2>1, <2>2, <2>3
<1>12. ASSUME AnswerMutation(v) PROVE RequestOK(q)
  <2>1. PICK r \in Request : r = request[v]
    BY <1>1, <1>12, RequestKinds DEF AnswerMutation
  <2>2. r.phase = "known" /\ r.round = "route" /\ RequestOK(r)
    BY <1>3, <1>12, <2>1 DEF AnswerMutation, Request
  <2>3. PICK result \in {"accepted", "rejected"}, name \in OperatorHeader(r.caller) :
          /\ result = "accepted" => Authorized(r.roles)
          /\ q = IF name # Nobody
                 THEN [r EXCEPT !.phase = "insert", !.round = "log",
                                !.user = name, !.result = result,
                                !.claimed = (r.caller \in Machines)]
                 ELSE [r EXCEPT !.phase = "lookup", !.round = "log",
                                !.at = clock, !.result = result]
    BY <1>1, <1>12, <2>1 DEF AnswerMutation, TypeOK
  <2>a. r.caller \in Consoles => name = r.caller /\ name # Nobody
    BY <2>3 DEF OperatorHeader, IdentityAssumption, Nobody, Callers
  <2>b. r.caller \notin Consoles => r.caller \in Machines
    BY DEF Request, Callers
  <2>4. /\ q.caller = r.caller /\ q.from = r.from /\ q.roles = r.roles
        /\ q.round = "log" /\ q.result = result
        /\ name # Nobody => /\ q.phase = "insert" /\ q.at = r.at
                            /\ q.user = name
                            /\ q.claimed = (r.caller \in Machines)
        /\ name = Nobody => /\ q.phase = "lookup" /\ q.at = clock
                            /\ q.user = r.user /\ q.claimed = r.claimed
    BY <2>3 DEF Request
  <2>5. /\ r.from = Since(r) /\ r.at <= clock
        /\ r.roles = {} \/ Was(r.caller, Since(r), r.roles)
    BY <2>2 DEF RequestOK
  <2>6. /\ r.from \in Time /\ r.caller \in Callers /\ r.roles \in SUBSET Roles
        /\ clock \in Time
    BY <1>1, <2>1 DEF Request, TypeOK
  <2>7. q.result = "accepted" =>
          \E S \in SUBSET Roles : Authorized(S) /\ Was(q.caller, q.from, S)
    BY <1>4, <2>3, <2>4, <2>5, <2>6
  <2>8. name # Nobody => Since(q) = Since(r)
    BY <2>4 DEF Since
  <2>9. q.claimed \/ q.user \in {q.caller, Nobody}
    BY <2>2, <2>4, <2>a, <2>b DEF RequestOK
  <2> QED BY <2>4, <2>5, <2>6, <2>7, <2>8, <2>9, <2>a DEF RequestOK, Time
<1>13. ASSUME NEW w \in Threads \ {v},
              (\E c \in Callers : Arrive(w, c)) \/ Lookup(w) \/ Resolve(w)
                \/ ResolveFails(w) \/ Store(w) \/ Vouch(w) \/ AnswerUnlogged(w)
                \/ AnswerMutation(w) \/ Insert(w)
       PROVE  request'[v] = request[v]
  BY <1>1, <1>13 DEF Arrive, Lookup, Resolve, ResolveFails, Store, Vouch,
     AnswerUnlogged, AnswerMutation, Insert, Known, Done, TypeOK
<1>14. ~(AnswerUnlogged(v) \/ Insert(v) \/ Restart)
  BY <1>1 DEF AnswerUnlogged, Insert, Restart, Done, NoRequest, Request,
     TypeOK
<1>15. CASE UNCHANGED request
  BY <1>2, <1>15
<1>16. ASSUME Next
       PROVE  \/ UNCHANGED request
              \/ Restart
              \/ \E w \in Threads :
                   \/ \E c \in Callers : Arrive(w, c)
                   \/ Lookup(w) \/ Resolve(w) \/ ResolveFails(w) \/ Store(w)
                   \/ Vouch(w) \/ AnswerUnlogged(w) \/ AnswerMutation(w)
                   \/ Insert(w)
  BY <1>16 DEF Next, Tick, Regrant, OpenConsole, CloseConsole
<1> QED BY <1>2, <1>6, <1>7, <1>8, <1>9, <1>10, <1>11, <1>12, <1>13, <1>14, <1>15,
           <1>16 DEF vars

LEMMA ActivityNext ==
  ASSUME IdentityAssumption, IInv, [Next]_vars
  PROVE  LoggedOperatorsWereAllowed'
<1>1. /\ TypeOK /\ TypeOK' /\ NowInv
      /\ \A c \in Callers, from \in Time : \A R : Was(c, from, R) => Was(c, from, R)'
  BY HistoryGrows, TypeNext DEF IInv
<1> SUFFICES ASSUME NEW r \in Row, r \in activity', r.result = "accepted",
                    r.operator # Nobody, ~r.claimed
             PROVE  (\E t \in r.from..clock :
                      \E R \in held[r.operator][t] : Authorized(R))'
  BY <1>1 DEF LoggedOperatorsWereAllowed, TypeOK
<1>2. r.from \in Time /\ r.operator \in Callers
  BY DEF Row, Users
<1>3. \A R : (Was(r.operator, r.from, R) /\ Authorized(R)) =>
        (\E t \in r.from..clock : \E S \in held[r.operator][t] : Authorized(S))'
  BY <1>1, <1>2 DEF Was, Authorized
<1>4. CASE r \in activity
  <2>1. PICK t \in r.from..clock : \E R \in held[r.operator][t] : Authorized(R)
    BY <1>4 DEF IInv, LoggedOperatorsWereAllowed
  <2>2. PICK R \in held[r.operator][t] : Authorized(R)
    BY <2>1
  <2>3. Was(r.operator, r.from, R)
    BY <2>1, <2>2 DEF Was
  <2> QED BY <1>3, <2>2, <2>3
<1>5. ASSUME NEW w \in Threads, Insert(w), r \notin activity
      PROVE  \E R : Was(r.operator, r.from, R) /\ Authorized(R)
  <2>1. PICK q \in Request : q = request[w]
    BY <1>1, <1>5, RequestKinds DEF Insert
  <2>2. RequestOK(q)
    BY <1>1, <2>1, RequestKinds DEF IInv, RequestInv
  <2>3. r = [operator |-> q.user, result |-> q.result, from |-> q.from,
             claimed |-> q.claimed]
    BY <1>5, <2>1 DEF Insert
  <2>4. r.operator = q.caller /\ r.from = q.from /\ q.result = "accepted"
    BY <2>2, <2>3 DEF RequestOK
  <2> QED BY <2>2, <2>4 DEF RequestOK
<1>6. ASSUME ~(\E w \in Threads : Insert(w)) PROVE UNCHANGED activity
  BY <1>6 DEF Next, vars, Tick, Restart, Regrant, OpenConsole, CloseConsole, Arrive,
     Lookup, Resolve, ResolveFails, Store, Vouch, AnswerUnlogged, AnswerMutation
<1> QED BY <1>3, <1>4, <1>5, <1>6

LEMMA InvariantInit == ASSUME IdentityAssumption, Init PROVE IInv
<1>1. TypeOK
  BY TypeInit
<1> QED BY <1>1 DEF Init, IInv, TypeOK, NowInv, CacheInv, SessionInv, RequestInv,
           LoggedOperatorsWereAllowed, Callers, Time

LEMMA InvariantNext ==
  ASSUME IdentityAssumption, IInv, [Next]_vars
  PROVE  IInv'
BY TypeNext, HistoryGrows, CacheNext, SessionNext, RequestNext, ActivityNext
   DEF IInv

LEMMA Invariant == ASSUME IdentityAssumption PROVE Spec => []IInv
<1>1. Init => IInv
  BY InvariantInit
<1>2. IInv /\ [Next]_vars => IInv'
  BY InvariantNext
<1> QED BY <1>1, <1>2, PTL DEF Spec

\* An accepted row of the log names nobody, or a user who held a role that may
\* act, no longer ago than the TTL, or since the browser session was opened,
\* unless the name is a machine client's own claim (main.py:50-59).
THEOREM AcceptedRowsNameTheAllowed ==
  ASSUME IdentityAssumption
  PROVE  Spec => []LoggedOperatorsWereAllowed
<1>1. IInv => LoggedOperatorsWereAllowed
  BY DEF IInv
<1> QED BY <1>1, Invariant, PTL

-----------------------------------------------------------------------------
(* The refinement.                                                         *)

\* What a request that is there looks like to FreshRoles.
LEMMA PendingFacts ==
  ASSUME NEW q \in Request
  PROVE  Pending(q) =
           IF q.phase \in {"known", "insert"}
           THEN [state |-> "answered", caller |-> q.caller, from |-> Since(q),
                 roles |-> q.roles]
           ELSE [state |-> "open", caller |-> q.caller, from |-> Since(q)]
BY DEF Pending, Request

\* A request that is known is answered with roles FreshRoles allows.
LEMMA TellStep ==
  ASSUME IdentityAssumption, IInv, [Next]_vars, NEW w \in Threads,
         NEW R \in SUBSET Roles, NEW user \in Users,
         request[w] \in Request, request[w].phase \notin {"known", "insert"},
         Known(w, R, user), UNCHANGED <<clock, roles, held, opened>>
  PROVE  Fresh!Tell(w)
<1>1. TypeOK /\ TypeOK'
  BY TypeNext DEF IInv
<1>2. PICK r \in Request : r = request[w]
  OBVIOUS
<1>3. /\ request'[w] = Informed(r, R, user) /\ request'[w] \in Request
      /\ \A u \in Threads \ {w} : request'[u] = request[u]
  BY <1>1, <1>2, KnownFacts
<1>4. PICK q \in Request : q = request'[w]
  BY <1>3
<1>5. /\ q.caller = r.caller /\ q.roles = R /\ q.at = r.at /\ q.from = r.from
      /\ q.phase \in {"known", "insert"}
  BY <1>2, <1>3, <1>4 DEF Informed, Request
<1>6. RequestOK(q)'
  BY <1>4, InvariantNext DEF IInv, RequestInv, Request, NoRequest
<1>7. Since(q) = Since(r)
  BY <1>5 DEF Since
<1>8. R = {} \/ Was(r.caller, Since(r), R)
  BY <1>5, <1>6, <1>7 DEF RequestOK, Was
<1>9. R \in Fresh!HeldSince(r.caller, Since(r)) \cup {{}}
  BY <1>8 DEF Was, Fresh!HeldSince
<1>10. Pending(r) = [state |-> "open", caller |-> r.caller, from |-> Since(r)]
  BY <1>2, PendingFacts
<1>11. Pending(q) = [state |-> "answered", caller |-> r.caller,
                     from |-> Since(r), roles |-> R]
  BY <1>5, <1>7, PendingFacts
<1>12. [u \in Threads |-> Pending(request'[u])] =
         [[u \in Threads |-> Pending(request[u])] EXCEPT ![w] = Pending(q)]
  BY <1>3, <1>4
<1>13. [u \in Threads |-> Pending(request[u])]' =
         [[u \in Threads |-> Pending(request[u])] EXCEPT ![w] =
            [state |-> "answered", caller |-> r.caller, from |-> Since(r),
             roles |-> R]]
  BY <1>11, <1>12
<1>14. [u \in Threads |-> Pending(request[u])][w] =
         [state |-> "open", caller |-> r.caller, from |-> Since(r)]
  BY <1>2, <1>10
<1> DEFINE A == [u \in Threads |-> Pending(request[u])][w]
<1>15. A.state = "open" /\ A.caller = r.caller /\ A.from = Since(r)
  BY <1>14
<1>16. R \in Fresh!HeldSince(A.caller, A.from) \cup {{}}
  BY <1>9, <1>15
<1>17. [u \in Threads |-> Pending(request[u])]' =
         [[u \in Threads |-> Pending(request[u])] EXCEPT ![w] =
            [state |-> "answered", caller |-> A.caller, from |-> A.from,
             roles |-> R]]
  BY <1>13, <1>15
<1> QED BY <1>15, <1>16, <1>17 DEF Fresh!Tell

\* Only w's question changes, and so does only w's part of the abstract state.
LEMMA OnePending ==
  ASSUME NEW w \in Threads, NEW p, Pending(request'[w]) = p,
         \A u \in Threads \ {w} : request'[u] = request[u]
  PROVE  [u \in Threads |-> Pending(request[u])]' =
           [[u \in Threads |-> Pending(request[u])] EXCEPT ![w] = p]
OBVIOUS

\* A thread that asks anew.
LEMMA AskStep ==
  ASSUME IdentityAssumption, TypeOK, NEW w \in Threads, NEW q \in Request,
         request'[w] = q, q.phase = "lookup",
         Pending(request[w]).state # "open",
         Since(q) = IF q.caller \in Consoles THEN opened[q.caller]
                    ELSE FirstMoment(clock),
         \A u \in Threads \ {w} : request'[u] = request[u],
         UNCHANGED <<clock, roles, held, opened>>
  PROVE  Fresh!Ask(w, q.caller)
<1>1. Since(q) = Fresh!Horizon(q.caller)
  BY DEF Fresh!Horizon, FirstMoment
<1>2. Pending(q) = [state |-> "open", caller |-> q.caller, from |-> Since(q)]
  BY PendingFacts
<1>3. [u \in Threads |-> Pending(request[u])]' =
        [[u \in Threads |-> Pending(request[u])] EXCEPT ![w] =
           [state |-> "open", caller |-> q.caller,
            from |-> Fresh!Horizon(q.caller)]]
  BY <1>1, <1>2, OnePending
<1>4. [u \in Threads |-> Pending(request[u])][w].state # "open"
  OBVIOUS
<1> QED BY <1>3, <1>4 DEF Fresh!Ask

\* A thread whose question and answer stay as they are.
LEMMA QuietStep ==
  ASSUME NEW w \in Threads, Pending(request'[w]) = Pending(request[w]),
         \A u \in Threads \ {w} : request'[u] = request[u],
         UNCHANGED <<clock, roles, held, opened>>
  PROVE  UNCHANGED Fresh!vars
<1>1. [u \in Threads |-> Pending(request[u])]' =
        [u \in Threads |-> Pending(request[u])]
  OBVIOUS
<1> QED BY <1>1 DEF Fresh!vars

\* A thread that is done with its request.
LEMMA LeaveStep ==
  ASSUME TypeOK, NEW w \in Threads, Done(w),
         UNCHANGED <<clock, roles, held, opened>>
  PROVE  Fresh!Leave({w})
<1>1. request'[w] = NoRequest /\ \A u \in Threads \ {w} : request'[u] = request[u]
  BY DEF Done, TypeOK
<1>2. Pending(NoRequest) = Fresh!NoQuestion
  BY DEF Pending, NoRequest, Fresh!NoQuestion
<1>3. [u \in Threads |-> Pending(request[u])]' =
        [u \in Threads |-> IF u \in {w} THEN Fresh!NoQuestion
                           ELSE [v \in Threads |-> Pending(request[v])][u]]
  BY <1>1, <1>2
<1> QED BY <1>3 DEF Fresh!Leave

\* The steps that change no request.
LEMMA WorldRefines ==
  ASSUME IdentityAssumption, TypeOK,
         \/ Tick \/ Restart
         \/ \E c \in Callers : Regrant(c)
         \/ \E c \in Consoles : OpenConsole(c) \/ CloseConsole(c)
  PROVE  [Fresh!Next]_(Fresh!vars)
<1>1. Fresh!Callers = Callers
  BY DEF Fresh!Callers, Callers
<1>2. UNCHANGED request =>
        [u \in Threads |-> Pending(request[u])]' =
          [u \in Threads |-> Pending(request[u])]
  OBVIOUS
<1>3. CASE Tick
  <2>1. Fresh!Tick
    BY <1>1, <1>2, <1>3 DEF Tick, Fresh!Tick
  <2> QED BY <2>1 DEF Fresh!Next
<1>4. ASSUME NEW c \in Callers, Regrant(c) PROVE Fresh!Next
  <2>1. Fresh!Regrant(c)
    BY <1>1, <1>2, <1>4 DEF Regrant, Fresh!Regrant
  <2> QED BY <1>1, <2>1 DEF Fresh!Next
<1>5. ASSUME NEW c \in Consoles, OpenConsole(c) PROVE Fresh!Next
  <2>1. Fresh!OpenConsole(c)
    BY <1>2, <1>5 DEF OpenConsole, Fresh!OpenConsole
  <2> QED BY <2>1 DEF Fresh!Next
<1>6. ASSUME NEW c \in Consoles, CloseConsole(c) PROVE UNCHANGED Fresh!vars
  BY <1>2, <1>6 DEF CloseConsole, Fresh!vars
<1>7. CASE Restart
  <2>1. Pending(NoRequest) = Fresh!NoQuestion
    BY DEF Pending, NoRequest, Fresh!NoQuestion
  <2>2. \A u \in Threads : request'[u] = NoRequest
    BY <1>7 DEF Restart
  <2>3. [u \in Threads |-> Pending(request[u])]' =
          [u \in Threads |-> IF u \in Threads THEN Fresh!NoQuestion
                             ELSE [v \in Threads |-> Pending(request[v])][u]]
    BY <2>1, <2>2
  <2>4. Fresh!Leave(Threads)
    BY <1>7, <2>3 DEF Restart, Fresh!Leave
  <2> QED BY <2>4 DEF Fresh!Next
<1> QED BY <1>3, <1>4, <1>5, <1>6, <1>7

\* The steps of a request.
LEMMA RequestRefines ==
  ASSUME IdentityAssumption, IInv, [Next]_vars, NEW w \in Threads,
         \/ \E c \in Callers : Arrive(w, c)
         \/ Lookup(w) \/ Resolve(w) \/ ResolveFails(w) \/ Store(w) \/ Vouch(w)
         \/ AnswerUnlogged(w) \/ AnswerMutation(w) \/ Insert(w)
  PROVE  [Fresh!Next]_(Fresh!vars)
<1>1. TypeOK /\ TypeOK' /\ Fresh!Callers = Callers
  BY TypeNext DEF IInv, Fresh!Callers, Callers
<1>2. Fresh!Tell(w) => Fresh!Next
  BY DEF Fresh!Next
<1>3. \A c \in Callers : Fresh!Ask(w, c) => Fresh!Next
  BY <1>1 DEF Fresh!Next
<1>4. Fresh!Leave({w}) => Fresh!Next
  BY DEF Fresh!Next
<1>5. ASSUME NEW c \in Callers, Arrive(w, c) PROVE Fresh!Next
  <2>1. PICK q \in Request : q = request'[w]
    BY <1>1, <1>5, RequestKinds DEF Arrive, NoRequest, TypeOK
  <2>2. /\ q.phase = "lookup" /\ q.caller = c /\ q.at = clock
        /\ c \in Consoles => q.from = opened[c]
    BY <1>1, <1>5, <2>1 DEF Arrive, TypeOK
  <2>3. Since(q) = IF c \in Consoles THEN opened[c] ELSE FirstMoment(clock)
    BY <2>2 DEF Since
  <2>4. Pending(request[w]).state # "open"
    BY <1>5 DEF Arrive, Pending, NoRequest
  <2>5. \A u \in Threads \ {w} : request'[u] = request[u]
    BY <1>1, <1>5 DEF Arrive, TypeOK
  <2>6. UNCHANGED <<clock, roles, held, opened>>
    BY <1>5 DEF Arrive
  <2> QED BY <1>1, <1>3, <2>1, <2>2, <2>3, <2>4, <2>5, <2>6, AskStep
<1>6. CASE Lookup(w)
  <2>1. PICK q \in Request : q = request[w]
    BY <1>1, <1>6, RequestKinds DEF Lookup
  <2>2. q.phase = "lookup" /\ q.caller \in Machines
        /\ UNCHANGED <<clock, roles, held, opened>>
    BY <1>6, <2>1 DEF Lookup
  <2>3. CASE Answers(cache[q.caller], q.at)
    <3>1. Known(w, cache[q.caller].roles, cache[q.caller].user)
      BY <1>6, <2>1, <2>3 DEF Lookup, EntryOf
    <3>2. cache[q.caller].roles \in SUBSET Roles /\ cache[q.caller].user \in Users
      BY <1>1, <2>2, <2>3 DEF TypeOK, Answers, Entry
    <3> QED BY <1>2, <2>1, <2>2, <3>1, <3>2, TellStep
  <2>4. CASE ~Answers(cache[q.caller], q.at)
    <3>1. PICK r \in Request : r = request'[w]
      BY <1>1, <1>6, <2>1, <2>4 DEF Lookup, EntryOf, TypeOK, NoRequest, Request
    <3>2. /\ r.phase = "resolve" /\ r.caller = q.caller /\ r.from = q.from
          /\ r.at = q.at
          /\ \A u \in Threads \ {w} : request'[u] = request[u]
      BY <1>1, <1>6, <2>1, <2>4, <3>1 DEF Lookup, EntryOf, TypeOK, Request
    <3>3. Since(r) = Since(q)
      BY <3>2 DEF Since
    <3>4. Pending(r) = Pending(q)
      BY <2>2, <3>2, <3>3, PendingFacts
    <3> QED BY <2>1, <2>2, <3>1, <3>2, <3>4, QuietStep
  <2> QED BY <2>3, <2>4
<1>7. CASE Resolve(w)
  <2>1. PICK q \in Request : q = request[w]
    BY <1>1, <1>7, RequestKinds DEF Resolve
  <2>2. PICK r \in Request : r = request'[w]
    <3>1. request'[w].phase = "store"
      BY <1>1, <1>7, <2>1 DEF Resolve, TypeOK, Request
    <3> QED BY <1>1, <3>1 DEF TypeOK, NoRequest
  <2>3. /\ q.phase = "resolve" /\ r.phase = "store" /\ r.caller = q.caller
        /\ r.from = q.from /\ r.at = q.at
        /\ \A u \in Threads \ {w} : request'[u] = request[u]
        /\ UNCHANGED <<clock, roles, held, opened>>
    BY <1>1, <1>7, <2>1, <2>2 DEF Resolve, TypeOK, Request
  <2>4. Since(r) = Since(q)
    BY <2>3 DEF Since
  <2>5. Pending(r) = Pending(q)
    BY <2>3, <2>4, PendingFacts
  <2> QED BY <2>1, <2>2, <2>3, <2>5, QuietStep
<1>8. CASE ResolveFails(w)
  <2>1. /\ request[w] \in Request /\ request[w].phase = "resolve"
        /\ Known(w, {}, Nobody) /\ UNCHANGED <<clock, roles, held, opened>>
        /\ Nobody \in Users
    BY <1>1, <1>8, RequestKinds DEF ResolveFails, Users
  <2> QED BY <1>2, <2>1, TellStep
<1>9. CASE Store(w)
  <2>1. PICK q \in Request : q = request[w]
    BY <1>1, <1>9, RequestKinds DEF Store
  <2>2. /\ q.phase = "store" /\ q.roles \in SUBSET Roles
        /\ Known(w, q.roles, q.user) /\ q.user \in Users
        /\ UNCHANGED <<clock, roles, held, opened>>
    BY <1>9, <2>1 DEF Store, Request
  <2> QED BY <1>2, <2>1, <2>2, TellStep
<1>10. CASE Vouch(w)
  <2>1. PICK q \in Request : q = request[w]
    BY <1>1, <1>10, RequestKinds DEF Vouch
  <2>2. /\ q.phase = "lookup" /\ q.roles \in SUBSET Roles
        /\ Known(w, q.roles, q.caller) /\ q.caller \in Users
        /\ UNCHANGED <<clock, roles, held, opened>>
    BY <1>10, <2>1 DEF Vouch, Request, Users
  <2> QED BY <1>2, <2>1, <2>2, TellStep
<1>11. CASE AnswerUnlogged(w) \/ Insert(w)
  <2>1. Done(w) /\ UNCHANGED <<clock, roles, held, opened>>
    BY <1>11 DEF AnswerUnlogged, Insert
  <2> QED BY <1>1, <1>4, <2>1, LeaveStep
<1>12. CASE AnswerMutation(w)
  <2>1. PICK q \in Request : q = request[w]
    BY <1>1, <1>12, RequestKinds DEF AnswerMutation
  <2>2. q.phase = "known" /\ UNCHANGED <<clock, roles, held, opened>>
    BY <1>12, <2>1 DEF AnswerMutation
  <2>3. PICK result \in {"accepted", "rejected"}, name \in OperatorHeader(q.caller) :
          request' = [request EXCEPT ![w] =
            IF name # Nobody
            THEN [q EXCEPT !.phase = "insert", !.round = "log",
                           !.user = name, !.result = result,
                           !.claimed = (q.caller \in Machines)]
            ELSE [q EXCEPT !.phase = "lookup", !.round = "log",
                           !.at = clock, !.result = result]]
    BY <1>12, <2>1 DEF AnswerMutation
  <2>a. q.caller \in Consoles => name # Nobody
    BY <2>3 DEF OperatorHeader, IdentityAssumption, Nobody, Callers
  <2>4. PICK r \in Request : r = request'[w]
    <3>1. request'[w].phase \in {"insert", "lookup"}
      BY <1>1, <2>1, <2>3 DEF TypeOK, Request
    <3> QED BY <1>1, <3>1 DEF TypeOK, NoRequest
  <2>5. /\ r.caller = q.caller /\ r.from = q.from /\ r.roles = q.roles
        /\ name # Nobody => r.phase = "insert" /\ r.at = q.at
        /\ name = Nobody => r.phase = "lookup" /\ r.at = clock
        /\ \A u \in Threads \ {w} : request'[u] = request[u]
    BY <1>1, <2>1, <2>3, <2>4 DEF TypeOK, Request
  <2>6. CASE name # Nobody
    <3>1. Since(r) = Since(q)
      BY <2>5, <2>6 DEF Since
    <3>2. Pending(r) = Pending(q)
      BY <2>2, <2>5, <2>6, <3>1, PendingFacts
    <3> QED BY <2>1, <2>2, <2>4, <2>5, <3>2, QuietStep
  <2>7. CASE name = Nobody
    <3>1. q.caller \notin Consoles /\ Since(r) = FirstMoment(clock)
      BY <2>5, <2>7, <2>a DEF Since
    <3>2. Pending(request[w]).state # "open"
      BY <2>1, <2>2, PendingFacts
    <3>3. Fresh!Ask(w, r.caller)
      BY <1>1, <2>2, <2>4, <2>5, <2>7, <3>1, <3>2, AskStep
    <3>4. r.caller \in Callers
      BY DEF Request
    <3> QED BY <1>3, <3>3, <3>4
  <2> QED BY <2>6, <2>7
<1> QED BY <1>5, <1>6, <1>7, <1>8, <1>9, <1>10, <1>11, <1>12

LEMMA InitRefines == ASSUME IdentityAssumption, Init PROVE Fresh!Init
<1>1. [u \in Threads |-> Pending(request[u])] = [u \in Threads |-> Fresh!NoQuestion]
  BY DEF Init, Pending, NoRequest, Fresh!NoQuestion
<1>2. Fresh!Callers = Callers /\ Fresh!Time = Time
  BY DEF Fresh!Callers, Callers, Fresh!Time, Time
<1> QED BY <1>1, <1>2 DEF Init, Fresh!Init

LEMMA StepRefines ==
  ASSUME IdentityAssumption, IInv, [Next]_vars
  PROVE  [Fresh!Next]_(Fresh!vars)
<1>1. CASE UNCHANGED vars
  BY <1>1 DEF vars, Fresh!vars
<1>2. TypeOK
  BY DEF IInv
<1> QED BY <1>1, <1>2, WorldRefines, RequestRefines DEF Next

\* The cache, its races and its restarts included, is no more than FreshRoles:
\* every caller acts under roles it held within the TTL, or since its browser
\* session was opened, or under none.
THEOREM ImplementsFreshRoles ==
  ASSUME IdentityAssumption
  PROVE  Spec => RolesAreFresh
<1>1. Init => Fresh!Init
  BY InitRefines
<1>2. IInv /\ [Next]_vars => [Fresh!Next]_(Fresh!vars)
  BY StepRefines
<1> QED BY <1>1, <1>2, Invariant, PTL DEF Spec, RolesAreFresh, Fresh!Spec

=============================================================================
