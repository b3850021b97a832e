-------------------------- MODULE SerialStatements --------------------------
(***************************************************************************)
(* What a caller of execute_sql may rely on, without the lock, the cached  *)
(* connection and the tokens behind it: statements go to Snowflake one at  *)
(* a time, one of them is done before the next one starts; a statement     *)
(* runs again only when the answer of its last run was lost, at most       *)
(* MaxRuns times; answers are lost only with a connection; and rows are    *)
(* those of the last run.                                                  *)
(***************************************************************************)
EXTENDS Naturals

CONSTANTS
  Threads,    \* threads of the controller that send statements
  MaxRuns     \* how often one statement may run

VARIABLES
  statement,  \* the statement of each thread
  cuts        \* connections that failed so far

vars == <<statement, cuts>>

\* "lost": how many of its runs nobody will answer.
Statement == [at : {"caller", "queue", "snowflake"}, ran : 0..MaxRuns,
              lost : 0..MaxRuns, answer : {"none", "rows", "error"}]

Unsent == [at |-> "caller", ran |-> 0, lost |-> 0, answer |-> "none"]

Becomes(t, s) == statement' = [statement EXCEPT ![t] = s]

Send(t) ==
  /\ statement[t].at = "caller"
  /\ Becomes(t, [Unsent EXCEPT !.at = "queue"])
  /\ UNCHANGED cuts

Enter(t) ==
  /\ statement[t].at = "queue"
  /\ \A u \in Threads : statement[u].at # "snowflake"
  /\ Becomes(t, [statement[t] EXCEPT !.at = "snowflake"])
  /\ UNCHANGED cuts

Run(t) ==
  LET s == statement[t] IN
  /\ s.at = "snowflake" /\ s.ran = s.lost /\ s.ran < MaxRuns
  /\ Becomes(t, [s EXCEPT !.ran = @ + 1])
  /\ UNCHANGED cuts

Answer(t) ==
  LET s == statement[t] IN
  /\ s.at = "snowflake" /\ s.ran > s.lost
  /\ Becomes(t, [s EXCEPT !.at = "caller", !.answer = "rows"])
  /\ UNCHANGED cuts

\* Snowflake refuses the statement, or its session.
Refuse(t) ==
  LET s == statement[t] IN
  /\ s.at = "snowflake" /\ s.ran = s.lost
  /\ Becomes(t, [s EXCEPT !.at = "caller", !.answer = "error"])
  /\ UNCHANGED cuts

\* The connection fails, with the answer if there is one: the caller is told,
\* or not.
Cut(t) ==
  LET s == statement[t] IN
  /\ s.at = "snowflake"
  /\ cuts' = cuts + 1
  /\ \/ Becomes(t, [s EXCEPT !.lost = s.ran])
     \/ Becomes(t, [s EXCEPT !.lost = s.ran, !.at = "caller", !.answer = "error"])

Init == statement = [t \in Threads |-> Unsent] /\ cuts = 0

Next ==
  \E t \in Threads : \/ Send(t) \/ Enter(t) \/ Run(t)
                     \/ Answer(t) \/ Refuse(t) \/ Cut(t)

Spec == Init /\ [][Next]_vars

=============================================================================
