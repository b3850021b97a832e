----------------------------- MODULE SqlSession -----------------------------
(***************************************************************************)
(* The controller's one Snowflake session: execute_sql and get_connection  *)
(* of Controller/app/snowflake_client.py.                                  *)
(*                                                                         *)
(* Every thread that serves a request or runs a task sends its statements  *)
(* over one cached connection, one execute_sql at a time under _lock.  The *)
(* connection was opened with the session token of its day; Snowflake      *)
(* rotates the token and in time refuses the old one.  A call drops the    *)
(* connection when its first attempt fails, and tries once more if the     *)
(* failure looks like the connection's.                                    *)
(*                                                                         *)
(* Left out: what a statement says; is_closed(), as nothing closes the     *)
(* connection.  Reading the token file and connecting with it are one      *)
(* step: a token that dies in between is refused at the execute instead.   *)
(***************************************************************************)
EXTENDS Naturals

CONSTANTS
  Threads,
  MaxCalls, MaxFaults, MaxRotations      \* bounds of the model

ASSUME BoundsAssumption ==
  MaxCalls \in Nat /\ MaxFaults \in Nat /\ MaxRotations \in Nat

Nobody == [holder |-> "nobody"]
Held(t) == [holder |-> "thread", thread |-> t]

VARIABLES
  lock,      \* _lock
  conn,      \* _conn: the token it was opened with, 0: None
  token,     \* the token in /snowflake/session/token
  dead,      \* the last token that Snowflake no longer takes, 0: none yet
  call,      \* each thread's execute_sql
  calls, faults

vars == <<lock, conn, token, dead, call, calls, faults>>

Errors == {"expired", "connection", "statement"}

\* _is_recoverable
Recoverable(error) == error # "statement"

\* session is the local conn; ran and since are history: how often the
\* statement ran, and the token when the call got the lock.
Call == [pc : {"idle", "lock", "connect", "execute", "fetch"},
         attempt : {1, 2}, session : Nat, ran : {0, 1, 2}, since : Nat,
         answer : {"none", "rows"} \cup Errors]

Set(t, c) == call' = [call EXCEPT ![t] = c]

-----------------------------------------------------------------------------
Begin(t) ==
  /\ call[t].pc = "idle" /\ calls < MaxCalls
  /\ calls' = calls + 1
  /\ Set(t, [pc |-> "lock", attempt |-> 1, session |-> 0, ran |-> 0,
             since |-> 0, answer |-> "none"])
  /\ UNCHANGED <<lock, conn, token, dead, faults>>

\* Variant: the cursor is taken without the lock.
AcquireAnyway(t) ==
  /\ call[t].pc = "lock"
  /\ lock' = Held(t)
  /\ Set(t, [call[t] EXCEPT !.pc = "connect", !.since = token])
  /\ UNCHANGED <<conn, token, dead, calls, faults>>

Acquire(t) ==
  /\ call[t].pc = "lock" /\ lock = Nobody
  /\ lock' = Held(t)
  /\ Set(t, [call[t] EXCEPT !.pc = "connect", !.since = token])
  /\ UNCHANGED <<conn, token, dead, calls, faults>>

Finish(t, c, answer) ==
  /\ lock' = Nobody
  /\ Set(t, [c EXCEPT !.pc = "idle", !.answer = answer])

\* Variant: the connection is kept.
RaiseKeeping(t, c, error) ==
  /\ IF c.attempt = 1 /\ Recoverable(error)
     THEN Set(t, [c EXCEPT !.attempt = 2, !.pc = "connect"]) /\ UNCHANGED lock
     ELSE Finish(t, c, error)
  /\ UNCHANGED conn

\* Variant: retried until it works.
RaiseForever(t, c, error) ==
  /\ conn' = 0
  /\ IF Recoverable(error)
     THEN Set(t, [c EXCEPT !.pc = "connect"]) /\ UNCHANGED lock
     ELSE Finish(t, c, error)

\* The except clause covers the first attempt only: what the second raises
\* leaves its connection cached.
Raise(t, c, error) ==
  /\ conn' = IF c.attempt = 1 THEN 0 ELSE conn
  /\ IF c.attempt = 1 /\ Recoverable(error)
     THEN Set(t, [c EXCEPT !.attempt = 2, !.pc = "connect"]) /\ UNCHANGED lock
     ELSE Finish(t, c, error)

\* get_connection
Connect(t) ==
  /\ call[t].pc = "connect"
  /\ conn' = IF conn = 0 THEN token ELSE conn
  /\ Set(t, [call[t] EXCEPT !.pc = "execute", !.session = conn'])
  /\ UNCHANGED <<lock, token, dead, calls, faults>>

\* cur.execute
Run(t) ==
  /\ call[t].pc = "execute" /\ call[t].session > dead
  /\ Set(t, [call[t] EXCEPT !.pc = "fetch", !.ran = @ + 1])
  /\ UNCHANGED <<lock, conn, token, dead, calls, faults>>

\* Snowflake refuses the session, or the statement.
Refused(t) ==
  /\ call[t].pc = "execute"
  /\ Raise(t, call[t], IF call[t].session > dead THEN "statement" ELSE "expired")
  /\ UNCHANGED <<token, dead, calls, faults>>

\* The connection fails: while it is opened, before the statement runs, or
\* after, when its answer is on the way.
Cut(t) ==
  /\ \/ call[t].pc = "connect" /\ conn = 0
     \/ call[t].pc \in {"execute", "fetch"}
  /\ faults < MaxFaults
  /\ faults' = faults + 1
  /\ Raise(t, call[t], "connection")
  /\ UNCHANGED <<token, dead, calls>>

\* Variant: no result set counts as a failure of the connection.
FetchResultSet(t) ==
  /\ call[t].pc = "fetch"
  /\ \/ Finish(t, call[t], "rows") /\ UNCHANGED conn
     \/ Raise(t, call[t], "connection")
  /\ UNCHANGED <<token, dead, calls, faults>>

\* cur.fetchall
Fetch(t) ==
  /\ call[t].pc = "fetch"
  /\ Finish(t, call[t], "rows")
  /\ UNCHANGED <<conn, token, dead, calls, faults>>

-----------------------------------------------------------------------------
(* Snowflake.                                                              *)

Rotate ==
  /\ token <= MaxRotations
  /\ token' = token + 1
  /\ UNCHANGED <<lock, conn, dead, call, calls, faults>>

Expire ==
  /\ dead + 1 < token
  /\ dead' = dead + 1
  /\ UNCHANGED <<lock, conn, token, call, calls, faults>>

AtRest == (\A t \in Threads : call[t].pc = "idle") /\ UNCHANGED vars

Init ==
  /\ lock = Nobody /\ conn = 0 /\ token = 1 /\ dead = 0
  /\ call = [t \in Threads |->
               [pc |-> "idle", attempt |-> 1, session |-> 0, ran |-> 0,
                since |-> 0, answer |-> "none"]]
  /\ calls = 0 /\ faults = 0

Next ==
  \/ \E t \in Threads : \/ Begin(t) \/ Acquire(t) \/ Connect(t) \/ Run(t)
                        \/ Refused(t) \/ Cut(t) \/ Fetch(t)
  \/ Rotate \/ Expire \/ AtRest

Spec == Init /\ [][Next]_vars

-----------------------------------------------------------------------------
(* Properties.                                                             *)

\* Every variable has its type; no statement runs more than twice.
TypeOK ==
  /\ lock \in {Nobody} \cup {Held(t) : t \in Threads}
  /\ conn \in Nat /\ token \in Nat /\ dead \in Nat
  /\ call \in [Threads -> Call]
  /\ calls \in Nat /\ faults \in Nat

\* Only the holder of _lock uses the connection, through both attempts, and a
\* call that ended, however it did, has let go of it
\* (snowflake_client.py:66-67).
Exclusive ==
  \A t \in Threads :
    call[t].pc \in {"connect", "execute", "fetch"} <=> lock = Held(t)

\* "the next get_connection() reconnects and re-reads the (rotated) session
\* token" (snowflake_client.py:76-77): an expired session reaches the caller
\* only if the token that was good when its call began died during the call.
ExpiredNeedsRotation ==
  \A t \in Threads : call[t].answer = "expired" => call[t].since <= dead

\* As long as no connection fails, rotation is invisible: a statement that
\* answered ran once, and one that raised did not run.  When one fails after it
\* ran, it runs twice, "safe to repeat" or not (snowflake_client.py:82-83).
OnceWithoutCuts ==
  faults = 0 =>
    \A t \in Threads :
      /\ call[t].answer = "rows" => call[t].ran = 1
      /\ call[t].answer \in Errors => call[t].ran = 0

\* A thread's call in the words of SerialStatements.
StatementOf(c) ==
  [at     |-> CASE c.pc = "idle" -> "caller" [] c.pc = "lock" -> "queue"
                [] OTHER -> "snowflake",
   ran    |-> c.ran,
   lost   |-> IF c.pc = "fetch" \/ c.answer = "rows" THEN c.ran - 1 ELSE c.ran,
   answer |-> IF c.answer \in Errors THEN "error" ELSE c.answer]

Statements == [t \in Threads |-> StatementOf(call[t])]

Serial == INSTANCE SerialStatements
            WITH MaxRuns <- 2, cuts <- faults, statement <- Statements

\* Lock, reconnect and retry together are one statement at a time: nobody gets
\* in between the attempts of a call, a statement runs again only after a
\* connection failed with its answer, never a third time, and an expired token
\* repeats nothing ("Single retry on a fresh connection",
\* snowflake_client.py:82-83).
StatementsAreSerial == Serial!Spec

=============================================================================
