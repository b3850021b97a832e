----------------------------- MODULE FreshRoles -----------------------------
(***************************************************************************)
(* What the controller's authorization promises, without the cache that    *)
(* makes it cheap: whoever asks who a caller is gets roles that the caller *)
(* did hold, at some moment not too long ago, or no roles at all.          *)
(*                                                                         *)
(* "Not too long ago" is a TTL for a machine client, whose roles the       *)
(* controller resolves itself.  For an operator it is since the browser    *)
(* session asked Snowflake, once, for the roles that the console vouches   *)
(* for from then on.                                                       *)
(***************************************************************************)
EXTENDS Naturals

CONSTANTS
  Threads,    \* threads of the controller that ask
  Machines,   \* clients that come with a caller token of their own
  Consoles,   \* browser sessions of operators
  Roles,      \* role names
  TTL,        \* how old an answer about a machine client may be, in ticks
  MaxTime     \* bound of the model: the last tick

Callers == Machines \cup Consoles
Time    == 0..MaxTime

VARIABLES
  clock,      \* now
  roles,      \* the roles that each caller holds in Snowflake
  held,       \* held[c][t]: the sets of roles that c held during tick t
  opened,     \* when a browser session resolved its operator's roles
  pending     \* what each thread has asked, and been told

vars == <<clock, roles, held, opened, pending>>

NoQuestion == [state |-> "none"]
Question   == [state : {"open"}, caller : Callers, from : Time]
Answer     == [state : {"answered"}, caller : Callers, from : Time,
               roles : SUBSET Roles]

\* The earliest tick whose roles still count for a question asked now.
Horizon(c) == IF c \in Consoles THEN opened[c]
              ELSE IF clock < TTL THEN 0 ELSE clock - TTL + 1

\* The role sets that c held at some moment since "from".
HeldSince(c, from) == UNION {held[c][t] : t \in from..clock}

Tick ==
  /\ clock < MaxTime
  /\ clock' = clock + 1
  /\ held' = [c \in Callers |-> [held[c] EXCEPT ![clock + 1] = {roles[c]}]]
  /\ UNCHANGED <<roles, opened, pending>>

\* A role is granted or revoked in Snowflake.
Regrant(c) ==
  /\ \E R \in SUBSET Roles :
       /\ roles' = [roles EXCEPT ![c] = R]
       /\ held' = [held EXCEPT ![c][clock] = @ \cup {R}]
  /\ UNCHANGED <<clock, opened, pending>>

OpenConsole(c) ==
  /\ opened' = [opened EXCEPT ![c] = clock]
  /\ UNCHANGED <<clock, roles, held, pending>>

Ask(w, c) ==
  /\ pending[w].state # "open"
  /\ pending' = [pending EXCEPT ![w] =
       [state |-> "open", caller |-> c, from |-> Horizon(c)]]
  /\ UNCHANGED <<clock, roles, held, opened>>

Tell(w) ==
  LET q == pending[w] IN
  /\ q.state = "open"
  /\ \E R \in HeldSince(q.caller, q.from) \cup {{}} :
       pending' = [pending EXCEPT ![w] =
         [state |-> "answered", caller |-> q.caller, from |-> q.from,
          roles |-> R]]
  /\ UNCHANGED <<clock, roles, held, opened>>

\* Threads are done with their requests, or the controller restarts.
Leave(W) ==
  /\ pending' = [w \in Threads |-> IF w \in W THEN NoQuestion ELSE pending[w]]
  /\ UNCHANGED <<clock, roles, held, opened>>

Init ==
  /\ clock = 0
  /\ roles \in [Callers -> SUBSET Roles]
  /\ held = [c \in Callers |->
               [t \in Time |-> IF t = 0 THEN {roles[c]} ELSE {}]]
  /\ opened = [c \in Consoles |-> 0]
  /\ pending = [w \in Threads |-> NoQuestion]

Next ==
  \/ Tick
  \/ \E c \in Callers : Regrant(c)
  \/ \E c \in Consoles : OpenConsole(c)
  \/ \E w \in Threads, c \in Callers : Ask(w, c)
  \/ \E w \in Threads : Tell(w)
  \/ \E W \in SUBSET Threads : Leave(W)

Spec == Init /\ [][Next]_vars

=============================================================================
