------------------------- MODULE SqlSession_proofs -------------------------
(***************************************************************************)
(* Proofs about SqlSession, for any set of threads and any bounds: the     *)
(* types and with them the bound of two runs (TypeCorrect), the lock       *)
(* (LockExclusive), what rotation may show (RotationOutlived), when a      *)
(* statement runs exactly once (OnceUnlessCut), and all that callers may   *)
(* rely on (ImplementsSerialStatements).                                   *)
(***************************************************************************)
EXTENDS SqlSession, TLAPS

-----------------------------------------------------------------------------
(* The parts of the inductive invariant.                                   *)

InLock(t) == call[t].pc \in {"connect", "execute", "fetch"}

\* A statement has run at most once per attempt that is over, and a call has
\* no answer while it goes on.
RanInv ==
  \A t \in Threads :
    /\ call[t].pc # "idle" => call[t].answer = "none"
    /\ call[t].pc = "lock" => call[t].ran = 0 /\ call[t].attempt = 1
    /\ call[t].pc \in {"connect", "execute"} =>
         call[t].ran = 0 \/ (call[t].ran = 1 /\ call[t].attempt = 2)
    /\ call[t].pc = "fetch" =>
         call[t].ran = 1 \/ (call[t].ran = 2 /\ call[t].attempt = 2)

\* The second attempt opens a connection of its own, with a token read since
\* the call began.
FreshInv ==
  \A t \in Threads :
    /\ call[t].since <= token
    /\ call[t].attempt = 2 /\ call[t].pc = "connect" => conn = 0
    /\ call[t].attempt = 2 /\ call[t].pc = "execute" =>
         call[t].since <= call[t].session

\* Without cuts nothing fails once it ran.
OnceInv ==
  faults = 0 =>
    \A t \in Threads :
      /\ call[t].pc \in {"lock", "connect", "execute"} => call[t].ran = 0
      /\ call[t].pc = "fetch" => call[t].ran = 1

IInv ==
  TypeOK /\ Exclusive /\ RanInv /\ FreshInv /\ OnceInv
    /\ ExpiredNeedsRotation /\ OnceWithoutCuts

-----------------------------------------------------------------------------
(* What a step of a thread does to its own call: the new call as a record. *)

\* Threads other than the one that moves keep their calls.
LEMMA SetFacts ==
  ASSUME TypeOK, NEW t \in Threads, NEW c \in Call, Set(t, c)
  PROVE  /\ call' \in [Threads -> Call]
         /\ call'[t] = c
         /\ \A u \in Threads \ {t} : call'[u] = call[u]
BY DEF Set, TypeOK

\* Ending a call.
LEMMA FinishFacts ==
  ASSUME TypeOK, NEW t \in Threads, NEW answer \in {"rows"} \cup Errors,
         Finish(t, call[t], answer)
  PROVE  /\ lock' = Nobody
         /\ call' \in [Threads -> Call]
         /\ call'[t].pc = "idle" /\ call'[t].answer = answer
         /\ call'[t].attempt = call[t].attempt
         /\ call'[t].ran = call[t].ran /\ call'[t].since = call[t].since
         /\ \A u \in Threads \ {t} : call'[u] = call[u]
<1>1. call[t] \in Call
  BY DEF TypeOK
<1> DEFINE c == [call[t] EXCEPT !.pc = "idle", !.answer = answer]
<1>2. c \in Call
  BY <1>1 DEF Call
<1>3. /\ c.pc = "idle" /\ c.answer = answer /\ c.attempt = call[t].attempt
      /\ c.ran = call[t].ran /\ c.since = call[t].since
  BY <1>1 DEF Call
<1>4. lock' = Nobody /\ Set(t, c)
  BY DEF Finish
<1> HIDE DEF c
<1>5. /\ call' \in [Threads -> Call] /\ call'[t] = c
      /\ \A u \in Threads \ {t} : call'[u] = call[u]
  BY <1>2, <1>4, SetFacts
<1> QED
  BY <1>3, <1>4, <1>5

\* Raising: the second attempt begins, or the call ends with the error.
LEMMA RaiseFacts ==
  ASSUME TypeOK, NEW t \in Threads, NEW error \in Errors,
         Raise(t, call[t], error)
  PROVE  /\ call' \in [Threads -> Call]
         /\ call'[t].ran = call[t].ran /\ call'[t].since = call[t].since
         /\ \A u \in Threads \ {t} : call'[u] = call[u]
         /\ call[t].attempt = 1 => conn' = 0
         /\ conn' \in {0, conn}
         /\ \/ /\ call[t].attempt = 1 /\ Recoverable(error)
               /\ call'[t].pc = "connect" /\ call'[t].attempt = 2
               /\ call'[t].answer = call[t].answer /\ UNCHANGED lock
            \/ /\ call[t].attempt = 2 \/ ~Recoverable(error)
               /\ call'[t].pc = "idle" /\ call'[t].answer = error
               /\ call'[t].attempt = call[t].attempt /\ lock' = Nobody
<1>1. call[t] \in Call
  BY DEF TypeOK
<1>2. CASE call[t].attempt = 1 /\ Recoverable(error)
  <2> DEFINE c == [call[t] EXCEPT !.attempt = 2, !.pc = "connect"]
  <2>1. c \in Call
    BY <1>1 DEF Call
  <2>2. /\ c.pc = "connect" /\ c.attempt = 2 /\ c.answer = call[t].answer
        /\ c.ran = call[t].ran /\ c.since = call[t].since
    BY <1>1 DEF Call
  <2>3. conn' = 0 /\ UNCHANGED lock /\ Set(t, c)
    BY <1>2 DEF Raise
  <2> HIDE DEF c
  <2>4. /\ call' \in [Threads -> Call] /\ call'[t] = c
        /\ \A u \in Threads \ {t} : call'[u] = call[u]
    BY <2>1, <2>3, SetFacts
  <2> QED
    BY <1>2, <2>2, <2>3, <2>4
<1>3. CASE ~(call[t].attempt = 1 /\ Recoverable(error))
  <2>1. call[t].attempt \in {1, 2}
    BY <1>1 DEF Call
  <2>2. Finish(t, call[t], error)
    BY <1>3 DEF Raise
  <2> QED
    BY <1>1, <1>3, <2>1, <2>2, FinishFacts DEF Raise
<1> QED
  BY <1>2, <1>3

\* The holders of the lock are told apart.
LEMMA Holders ==
  \A t, u : Held(t) # Nobody /\ (Held(t) = Held(u) => t = u)
BY DEF Held, Nobody

-----------------------------------------------------------------------------
(* The invariant, action by action.                                        *)

\* What an action means for the call of its thread, and for the rest.
LEMMA BeginFacts ==
  ASSUME TypeOK, NEW t \in Threads, Begin(t)
  PROVE  /\ call[t].pc = "idle"
         /\ call' \in [Threads -> Call]
         /\ call'[t].pc = "lock" /\ call'[t].attempt = 1 /\ call'[t].ran = 0
         /\ call'[t].since = 0 /\ call'[t].answer = "none"
         /\ \A u \in Threads \ {t} : call'[u] = call[u]
<1> DEFINE c == [pc |-> "lock", attempt |-> 1, session |-> 0, ran |-> 0,
                 since |-> 0, answer |-> "none"]
<1>1. c \in Call
  BY DEF Call
<1>2. Set(t, c)
  BY DEF Begin
<1>3. /\ call' \in [Threads -> Call] /\ call'[t] = c
      /\ \A u \in Threads \ {t} : call'[u] = call[u]
  <2> HIDE DEF c
  <2> QED
    BY <1>1, <1>2, SetFacts
<1> QED
  BY <1>3 DEF Begin

\* Getting the lock.
LEMMA AcquireFacts ==
  ASSUME TypeOK, NEW t \in Threads, Acquire(t)
  PROVE  /\ call' \in [Threads -> Call]
         /\ call'[t].pc = "connect" /\ call'[t].attempt = call[t].attempt
         /\ call'[t].ran = call[t].ran /\ call'[t].answer = call[t].answer
         /\ call'[t].since = token
         /\ \A u \in Threads \ {t} : call'[u] = call[u]
<1>1. call[t] \in Call /\ token \in Nat
  BY DEF TypeOK
<1> DEFINE c == [call[t] EXCEPT !.pc = "connect", !.since = token]
<1>2. /\ c \in Call /\ c.pc = "connect" /\ c.attempt = call[t].attempt
      /\ c.ran = call[t].ran /\ c.answer = call[t].answer /\ c.since = token
  BY <1>1 DEF Call
<1>3. Set(t, c)
  BY DEF Acquire
<1> HIDE DEF c
<1>4. /\ call' \in [Threads -> Call] /\ call'[t] = c
      /\ \A u \in Threads \ {t} : call'[u] = call[u]
  BY <1>2, <1>3, SetFacts
<1> QED
  BY <1>2, <1>4

\* Having a connection.
LEMMA ConnectFacts ==
  ASSUME TypeOK, NEW t \in Threads, Connect(t)
  PROVE  /\ conn' = IF conn = 0 THEN token ELSE conn
         /\ call' \in [Threads -> Call]
         /\ call'[t].pc = "execute" /\ call'[t].attempt = call[t].attempt
         /\ call'[t].ran = call[t].ran /\ call'[t].answer = call[t].answer
         /\ call'[t].since = call[t].since /\ call'[t].session = conn'
         /\ \A u \in Threads \ {t} : call'[u] = call[u]
<1>1. call[t] \in Call /\ conn' \in Nat
  BY DEF TypeOK, Connect
<1> DEFINE c == [call[t] EXCEPT !.pc = "execute", !.session = conn']
<1>2. /\ c \in Call /\ c.pc = "execute" /\ c.attempt = call[t].attempt
      /\ c.ran = call[t].ran /\ c.answer = call[t].answer
      /\ c.since = call[t].since /\ c.session = conn'
  BY <1>1 DEF Call
<1>3. conn' = (IF conn = 0 THEN token ELSE conn) /\ Set(t, c)
  BY DEF Connect
<1> HIDE DEF c
<1>4. /\ call' \in [Threads -> Call] /\ call'[t] = c
      /\ \A u \in Threads \ {t} : call'[u] = call[u]
  BY <1>2, <1>3, SetFacts
<1> QED
  BY <1>2, <1>3, <1>4

\* Running the statement: once more than before.
LEMMA RunFacts ==
  ASSUME TypeOK, RanInv, NEW t \in Threads, Run(t)
  PROVE  /\ call' \in [Threads -> Call]
         /\ call'[t].pc = "fetch" /\ call'[t].attempt = call[t].attempt
         /\ call'[t].ran = call[t].ran + 1 /\ call'[t].answer = call[t].answer
         /\ call'[t].since = call[t].since
         /\ \A u \in Threads \ {t} : call'[u] = call[u]
<1>1. call[t] \in Call /\ call[t].ran + 1 \in {0, 1, 2}
  BY DEF TypeOK, Run, RanInv
<1> DEFINE c == [call[t] EXCEPT !.pc = "fetch", !.ran = @ + 1]
<1>2. /\ c \in Call /\ c.pc = "fetch" /\ c.attempt = call[t].attempt
      /\ c.ran = call[t].ran + 1 /\ c.answer = call[t].answer
      /\ c.since = call[t].since
  BY <1>1 DEF Call
<1>3. Set(t, c)
  BY DEF Run
<1> HIDE DEF c
<1>4. /\ call' \in [Threads -> Call] /\ call'[t] = c
      /\ \A u \in Threads \ {t} : call'[u] = call[u]
  BY <1>2, <1>3, SetFacts
<1> QED
  BY <1>2, <1>4

\* A thread that raises moves from one good state to another, whatever the
\* error, if an error that was no cut finds a statement that did not run.
LEMMA RaiseKeeps ==
  ASSUME IInv, NEW t \in Threads, NEW error \in Errors, InLock(t),
         Raise(t, call[t], error), UNCHANGED <<token, dead>>,
         faults' \in Nat,
         faults' = 0 => faults = 0 /\ call[t].pc = "execute",
         error = "expired" =>
           call[t].pc = "execute" /\ call[t].session <= dead
  PROVE  /\ RanInv' /\ FreshInv' /\ OnceInv' /\ Exclusive'
         /\ ExpiredNeedsRotation' /\ OnceWithoutCuts'
<1> USE DEF IInv
<1>1. /\ call[t] \in Call /\ \A u \in Threads : call'[u] \in Call
      /\ lock = Held(t) /\ error # "rows" /\ error # "none"
  BY RaiseFacts DEF TypeOK, Exclusive, InLock, Errors
<1>2. RanInv'
  <2>1. call[t].ran \in {0, 1, 2} /\ call[t].attempt \in {1, 2}
    BY <1>1 DEF Call
  <2>2. call[t].attempt = 1 => call[t].ran \in {0, 1}
    BY <2>1 DEF RanInv, InLock
  <2>3. call[t].answer = "none"
    BY DEF RanInv, InLock
  <2>4. ASSUME NEW u \in Threads \ {t}
        PROVE  /\ call'[u].pc # "idle" => call'[u].answer = "none"
               /\ call'[u].pc = "lock" =>
                    call'[u].ran = 0 /\ call'[u].attempt = 1
               /\ call'[u].pc \in {"connect", "execute"} =>
                    call'[u].ran = 0 \/ (call'[u].ran = 1 /\ call'[u].attempt = 2)
               /\ call'[u].pc = "fetch" =>
                    call'[u].ran = 1 \/ (call'[u].ran = 2 /\ call'[u].attempt = 2)
    BY RaiseFacts DEF RanInv
  <2>5. CASE call'[t].pc = "idle"
    BY <2>4, <2>5 DEF RanInv
  <2>6. CASE call'[t].pc = "connect"
    <3>1. call[t].attempt = 1 /\ call'[t].attempt = 2
          /\ call'[t].answer = "none" /\ call'[t].ran = call[t].ran
      BY <2>3, <2>6, RaiseFacts
    <3> QED
      BY <2>2, <2>4, <2>6, <3>1 DEF RanInv
  <2> QED
    BY <2>5, <2>6, RaiseFacts
<1>3. FreshInv'
  BY <1>1, RaiseFacts DEF FreshInv
<1>4. OnceInv'
  BY <1>1, RaiseFacts DEF OnceInv, InLock
<1>5. Exclusive'
  BY <1>1, RaiseFacts, Holders DEF Exclusive, InLock
<1>6. ExpiredNeedsRotation'
  <2>1. ASSUME call'[t].answer = "expired" PROVE call[t].since <= dead
    <3>1. CASE call[t].answer = "expired"
      BY <3>1 DEF ExpiredNeedsRotation
    <3>2. CASE error = "expired" /\ call[t].attempt = 2
      <4>1. call[t].since <= call[t].session
        BY <3>2 DEF FreshInv
      <4>2. call[t].since \in Nat /\ call[t].session \in Nat /\ dead \in Nat
        BY <1>1 DEF Call, TypeOK
      <4> QED
        BY <3>2, <4>1, <4>2
    <3>3. error = "expired" => Recoverable(error)
      BY DEF Recoverable
    <3> QED
      BY <2>1, <3>1, <3>2, <3>3, RaiseFacts
  <2> QED
    BY <2>1, RaiseFacts DEF ExpiredNeedsRotation
<1>7. OnceWithoutCuts'
  BY <1>1, RaiseFacts DEF OnceWithoutCuts, OnceInv, Errors
<1> QED
  BY <1>2, <1>3, <1>4, <1>5, <1>6, <1>7

\* A step of one thread, or of Snowflake, that leaves every call as it is and
\* no token younger keeps the invariant.
LEMMA StillKeeps ==
  ASSUME IInv, UNCHANGED <<lock, conn, call, faults>>,
         token' \in Nat, dead' \in Nat, token <= token', dead <= dead'
  PROVE  /\ RanInv' /\ FreshInv' /\ OnceInv' /\ Exclusive'
         /\ ExpiredNeedsRotation' /\ OnceWithoutCuts'
<1> USE DEF IInv
<1>1. /\ \A t \in Threads : call[t] \in Call /\ call[t].since \in Nat
      /\ token \in Nat /\ dead \in Nat
  BY DEF TypeOK, Call
<1>2. RanInv' /\ OnceInv' /\ Exclusive' /\ OnceWithoutCuts'
  BY DEF RanInv, OnceInv, Exclusive, OnceWithoutCuts
<1>3. FreshInv'
  BY <1>1 DEF FreshInv
<1>4. ExpiredNeedsRotation'
  BY <1>1 DEF ExpiredNeedsRotation
<1> QED
  BY <1>2, <1>3, <1>4

\* Every step keeps the invariant, apart from the types.
LEMMA InvStep ==
  ASSUME IInv, [Next]_vars
  PROVE  /\ RanInv' /\ FreshInv' /\ OnceInv' /\ Exclusive'
         /\ ExpiredNeedsRotation' /\ OnceWithoutCuts'
<1> USE DEF IInv
<1> DEFINE Kept == /\ RanInv' /\ FreshInv' /\ OnceInv' /\ Exclusive'
                   /\ ExpiredNeedsRotation' /\ OnceWithoutCuts'
<1>0. /\ \A t \in Threads : call[t] \in Call /\ call[t].since \in Nat
      /\ token \in Nat /\ dead \in Nat /\ conn \in Nat /\ faults \in Nat
  BY DEF TypeOK, Call
<1>1. ASSUME NEW t \in Threads, Begin(t) PROVE Kept
  <2>1. UNCHANGED <<lock, conn, token, dead, faults>>
    BY <1>1 DEF Begin
  <2>2. RanInv' /\ FreshInv' /\ OnceInv'
    BY <1>0, <1>1, <2>1, BeginFacts DEF RanInv, FreshInv, OnceInv
  <2>3. Exclusive'
    BY <1>1, <2>1, BeginFacts DEF Exclusive
  <2>4. ExpiredNeedsRotation' /\ OnceWithoutCuts'
    BY <1>1, <2>1, BeginFacts DEF ExpiredNeedsRotation, OnceWithoutCuts, Errors
  <2> QED
    BY <2>2, <2>3, <2>4
<1>2. ASSUME NEW t \in Threads, Acquire(t) PROVE Kept
  <2>1. /\ UNCHANGED <<conn, token, dead, faults>> /\ call[t].pc = "lock"
        /\ lock = Nobody /\ lock' = Held(t)
    BY <1>2 DEF Acquire
  <2>2. RanInv' /\ FreshInv' /\ OnceInv'
    BY <1>0, <1>2, <2>1, AcquireFacts DEF RanInv, FreshInv, OnceInv
  <2>3. Exclusive'
    BY <1>2, <2>1, AcquireFacts, Holders DEF Exclusive
  <2>4. ExpiredNeedsRotation' /\ OnceWithoutCuts'
    BY <1>2, <2>1, <2>2, AcquireFacts
    DEF RanInv, ExpiredNeedsRotation, OnceWithoutCuts, Errors
  <2> QED
    BY <2>2, <2>3, <2>4
<1>3. ASSUME NEW t \in Threads, Connect(t) PROVE Kept
  <2>1. /\ UNCHANGED <<lock, token, dead, faults>> /\ call[t].pc = "connect"
        /\ lock = Held(t)
    BY <1>3 DEF Connect, Exclusive
  <2>2. \A u \in Threads \ {t} :
          call[u].pc \notin {"connect", "execute", "fetch"}
    BY <2>1, Holders DEF Exclusive
  <2>3. RanInv' /\ OnceInv'
    BY <1>3, <2>1, ConnectFacts DEF RanInv, OnceInv
  <2>4. FreshInv'
    BY <1>0, <1>3, <2>1, <2>2, ConnectFacts DEF FreshInv
  <2>5. Exclusive'
    BY <1>3, <2>1, ConnectFacts DEF Exclusive
  <2>6. ExpiredNeedsRotation' /\ OnceWithoutCuts'
    BY <1>3, <2>1, <2>3, ConnectFacts
    DEF RanInv, ExpiredNeedsRotation, OnceWithoutCuts, Errors
  <2> QED
    BY <2>3, <2>4, <2>5, <2>6
<1>4. ASSUME NEW t \in Threads, Run(t) PROVE Kept
  <2>1. /\ UNCHANGED <<lock, conn, token, dead, faults>>
        /\ call[t].pc = "execute" /\ call[t].ran \in {0, 1, 2}
    BY <1>0, <1>4 DEF Run, Call
  <2>2. RanInv' /\ OnceInv'
    BY <1>4, <2>1, RunFacts DEF RanInv, OnceInv
  <2>3. FreshInv'
    BY <1>4, <2>1, RunFacts DEF FreshInv
  <2>4. Exclusive'
    BY <1>4, <2>1, RunFacts DEF Exclusive
  <2>5. ExpiredNeedsRotation' /\ OnceWithoutCuts'
    BY <1>4, <2>1, <2>2, RunFacts
    DEF RanInv, ExpiredNeedsRotation, OnceWithoutCuts, Errors
  <2> QED
    BY <2>2, <2>3, <2>4, <2>5
<1>5. ASSUME NEW t \in Threads, Refused(t) PROVE Kept
  <2>1. PICK error \in Errors :
          /\ Raise(t, call[t], error)
          /\ error = "expired" => ~(call[t].session > dead)
    BY <1>5 DEF Refused, Errors
  <2>2. call[t].session \in Nat
    BY <1>0 DEF Call
  <2>3. call[t].pc = "execute" /\ UNCHANGED <<token, dead, faults>>
    BY <1>5 DEF Refused
  <2>4. error = "expired" => call[t].session <= dead
    BY <1>0, <2>1, <2>2
  <2> QED
    BY <1>0, <2>1, <2>3, <2>4, RaiseKeeps DEF InLock
<1>6. ASSUME NEW t \in Threads, Cut(t) PROVE Kept
  <2>1. /\ InLock(t) /\ Raise(t, call[t], "connection")
        /\ UNCHANGED <<token, dead>> /\ faults' = faults + 1
    BY <1>6 DEF Cut, InLock
  <2>2. "connection" \in Errors /\ "connection" # "expired"
    BY DEF Errors
  <2>3. faults' \in Nat /\ faults' # 0
    BY <1>0, <2>1
  <2> QED
    BY <2>1, <2>2, <2>3, RaiseKeeps
<1>7. ASSUME NEW t \in Threads, Fetch(t) PROVE Kept
  <2>1. /\ UNCHANGED <<conn, token, dead, faults>> /\ call[t].pc = "fetch"
        /\ Finish(t, call[t], "rows") /\ lock = Held(t)
    BY <1>7 DEF Fetch, Exclusive
  <2>2. RanInv' /\ OnceInv' /\ FreshInv'
    BY <2>1, FinishFacts DEF RanInv, OnceInv, FreshInv
  <2>3. Exclusive'
    BY <2>1, FinishFacts, Holders DEF Exclusive
  <2>4. ExpiredNeedsRotation' /\ OnceWithoutCuts'
    BY <2>1, FinishFacts
    DEF OnceInv, ExpiredNeedsRotation, OnceWithoutCuts, Errors
  <2> QED
    BY <2>2, <2>3, <2>4
<1>8. CASE Rotate \/ Expire \/ AtRest \/ UNCHANGED vars
  BY <1>0, <1>8, StillKeeps DEF Rotate, Expire, AtRest, vars
<1> QED
  BY <1>1, <1>2, <1>3, <1>4, <1>5, <1>6, <1>7, <1>8 DEF Next

\* Types are kept, given that a statement runs at most once per attempt.
LEMMA TypeStep ==
  ASSUME IInv, [Next]_vars
  PROVE  TypeOK'
<1> USE DEF IInv
<1>0. /\ lock \in {Nobody} \cup {Held(t) : t \in Threads}
      /\ conn \in Nat /\ token \in Nat /\ dead \in Nat
      /\ calls \in Nat /\ faults \in Nat /\ call \in [Threads -> Call]
  BY DEF TypeOK
<1>1. ASSUME NEW t \in Threads, Begin(t) PROVE TypeOK'
  BY <1>0, <1>1, BeginFacts DEF Begin, TypeOK
<1>2. ASSUME NEW t \in Threads, Acquire(t) PROVE TypeOK'
  BY <1>0, <1>2, AcquireFacts DEF Acquire, TypeOK
<1>3. ASSUME NEW t \in Threads, Connect(t) PROVE TypeOK'
  BY <1>0, <1>3, ConnectFacts DEF Connect, TypeOK
<1>4. ASSUME NEW t \in Threads, Run(t) PROVE TypeOK'
  BY <1>0, <1>4, RunFacts DEF Run, TypeOK
<1>5. ASSUME NEW t \in Threads, Refused(t) PROVE TypeOK'
  <2>1. PICK error \in Errors : Raise(t, call[t], error)
    BY <1>5 DEF Refused, Errors
  <2> QED
    BY <1>0, <1>5, <2>1, RaiseFacts DEF Refused, TypeOK
<1>6. ASSUME NEW t \in Threads, Cut(t) PROVE TypeOK'
  <2>1. "connection" \in Errors
    BY DEF Errors
  <2> QED
    BY <1>0, <1>6, <2>1, RaiseFacts DEF Cut, TypeOK
<1>7. ASSUME NEW t \in Threads, Fetch(t) PROVE TypeOK'
  BY <1>0, <1>7, FinishFacts DEF Fetch, TypeOK
<1>8. CASE Rotate \/ Expire \/ AtRest \/ UNCHANGED vars
  BY <1>0, <1>8 DEF Rotate, Expire, AtRest, vars, TypeOK
<1> QED
  BY <1>1, <1>2, <1>3, <1>4, <1>5, <1>6, <1>7, <1>8 DEF Next

\* The invariant holds at the start.
LEMMA InvInit == Init => IInv
<1> SUFFICES ASSUME Init PROVE IInv
  OBVIOUS
<1>1. [pc |-> "idle", attempt |-> 1, session |-> 0, ran |-> 0,
       since |-> 0, answer |-> "none"] \in Call
  BY DEF Call
<1>2. TypeOK
  BY <1>1 DEF Init, TypeOK
<1>3. Exclusive
  BY Holders DEF Init, Exclusive
<1>4. RanInv /\ FreshInv /\ OnceInv /\ ExpiredNeedsRotation /\ OnceWithoutCuts
  BY DEF Init, RanInv, FreshInv, OnceInv, ExpiredNeedsRotation,
         OnceWithoutCuts, Errors
<1> QED
  BY <1>2, <1>3, <1>4 DEF IInv

\* The invariant holds in every behaviour.
LEMMA Invariance == Spec => []IInv
<1>1. IInv /\ [Next]_vars => IInv'
  BY InvStep, TypeStep DEF IInv
<1> QED
  BY <1>1, InvInit, PTL DEF Spec

\* Every variable has its type: above all, execute_sql never runs a statement a
\* third time.
THEOREM TypeCorrect == Spec => []TypeOK
<1>1. IInv => TypeOK
  BY DEF IInv
<1> QED
  BY <1>1, Invariance, PTL

\* The connection is used by the holder of _lock alone, and the lock is let go
\* of however a call ends.
THEOREM LockExclusive == Spec => []Exclusive
<1>1. IInv => Exclusive
  BY DEF IInv
<1> QED
  BY <1>1, Invariance, PTL

\* A caller sees "token has expired" only if the token that was good when its
\* call began died before the call ended.
THEOREM RotationOutlived == Spec => []ExpiredNeedsRotation
<1>1. IInv => ExpiredNeedsRotation
  BY DEF IInv
<1> QED
  BY <1>1, Invariance, PTL

\* Where no connection fails, a statement that answered ran once and one that
\* raised did not run, whatever rotates meanwhile.
THEOREM OnceUnlessCut == Spec => []OnceWithoutCuts
<1>1. IInv => OnceWithoutCuts
  BY DEF IInv
<1> QED
  BY <1>1, Invariance, PTL

-----------------------------------------------------------------------------
(* SqlSession implements SerialStatements.                                 *)

Shown(t) == StatementOf(call[t])

\* A call's statement in SerialStatements, by the call's pc.
LEMMA ShownFacts ==
  ASSUME IInv, NEW t \in Threads
  PROVE  /\ Statements[t] = Shown(t)
         /\ call[t].ran \in 0..2
         /\ call[t].pc \in {"lock", "connect", "execute", "fetch"} =>
              Shown(t) = [at |-> IF call[t].pc = "lock" THEN "queue"
                                 ELSE "snowflake",
                          ran |-> call[t].ran,
                          lost |-> IF call[t].pc = "fetch" THEN call[t].ran - 1
                                   ELSE call[t].ran,
                          answer |-> "none"]
         /\ call[t].pc = "idle" => Shown(t).at = "caller"
<1>1. call[t] \in Call
  BY DEF IInv, TypeOK
<1>2. call[t].pc # "idle" => call[t].answer = "none"
  BY DEF IInv, RanInv
<1> QED BY <1>1, <1>2 DEF Statements, Shown, StatementOf, Call, Errors

\* A statement that is with Snowflake, and one that is back at its caller.
WithSnowflake(n, m) ==
  [at |-> "snowflake", ran |-> n, lost |-> m, answer |-> "none"]

Ended(n, m, answer) ==
  [at |-> "caller", ran |-> n, lost |-> m, answer |-> answer]

\* It runs.
LEMMA RunEdit ==
  \A n, m : [WithSnowflake(n, m) EXCEPT !.ran = @ + 1] = WithSnowflake(n + 1, m)
<1> SUFFICES ASSUME NEW n, NEW m, NEW s, s = WithSnowflake(n, m)
             PROVE  [s EXCEPT !.ran = @ + 1] = WithSnowflake(n + 1, m)
  OBVIOUS
<1>1. [s EXCEPT !.ran = @ + 1]
        = [f \in DOMAIN s |-> IF f = "ran" THEN n + 1 ELSE s[f]]
  BY DEF WithSnowflake
<1> QED BY <1>1 DEF WithSnowflake

\* It ends, with its answer or an error.
LEMMA EndEdit ==
  \A n, m, answer :
    [WithSnowflake(n, m) EXCEPT !.at = "caller", !.answer = answer]
      = Ended(n, m, answer)
<1> SUFFICES ASSUME NEW n, NEW m, NEW answer, NEW s, s = WithSnowflake(n, m)
             PROVE  [s EXCEPT !.at = "caller", !.answer = answer]
                      = Ended(n, m, answer)
  OBVIOUS
<1>1. [s EXCEPT !.at = "caller", !.answer = answer]
        = [f \in DOMAIN s |-> IF f = "at" THEN "caller"
                              ELSE IF f = "answer" THEN answer ELSE s[f]]
  BY DEF WithSnowflake
<1> QED BY <1>1 DEF WithSnowflake, Ended

\* It ends with an error, and its last answer is lost.
LEMMA CutEdit ==
  ASSUME NEW n, NEW answer, NEW s, s = WithSnowflake(n, s.lost)
  PROVE  [s EXCEPT !.lost = n, !.at = "caller", !.answer = answer]
           = Ended(n, n, answer)
<1>1. [s EXCEPT !.lost = n, !.at = "caller", !.answer = answer]
        = [f \in DOMAIN s |-> IF f = "at" THEN "caller"
                              ELSE IF f = "answer" THEN answer
                              ELSE IF f = "lost" THEN n ELSE s[f]]
  BY DEF WithSnowflake
<1> QED BY <1>1 DEF WithSnowflake, Ended

\* A step of one thread in SerialStatements: the others' statements stay.
LEMMA ShownStep ==
  ASSUME NEW t \in Threads, NEW s, Shown(t)' = s,
         \A u \in Threads \ {t} : call'[u] = call[u]
  PROVE  Serial!Becomes(t, s)
BY DEF Serial!Becomes, Statements, Shown

\* A step that leaves what is shown of its thread is a stutter.
LEMMA ShownStutter ==
  ASSUME NEW t \in Threads, Shown(t)' = Shown(t), UNCHANGED faults,
         \A u \in Threads \ {t} : call'[u] = call[u]
  PROVE  UNCHANGED Serial!vars
BY DEF Serial!vars, Statements, Shown

\* Each step of a thread is a step of its statement or a stutter.  Only the
\* lock lets a statement in when no other is with Snowflake.
LEMMA ThreadRefines ==
  ASSUME IInv, IInv', NEW t \in Threads,
         \/ Begin(t) \/ Acquire(t) \/ Connect(t) \/ Run(t)
         \/ Refused(t) \/ Cut(t) \/ Fetch(t)
  PROVE  [Serial!Next]_(Serial!vars)
<1> DEFINE c == call[t]
           s == Statements[t]
<1>0. /\ TypeOK /\ RanInv /\ Exclusive /\ c \in Call /\ s = Shown(t)
      /\ c.ran \in 0..2 /\ call'[t].ran \in 0..2
  <2>1. call'[t] \in Call
    BY DEF IInv, TypeOK
  <2> QED BY <2>1, ShownFacts DEF IInv, TypeOK, Call
<1>1. ASSUME Begin(t) PROVE Serial!Send(t)
  <2>1. s.at = "caller"
    BY <1>0, <1>1, ShownFacts DEF Begin
  <2>2. Shown(t)' = [Serial!Unsent EXCEPT !.at = "queue"]
    BY <1>0, <1>1, BeginFacts DEF Shown, StatementOf, Serial!Unsent, Errors
  <2>3. Serial!Becomes(t, [Serial!Unsent EXCEPT !.at = "queue"])
    BY <1>0, <1>1, <2>2, BeginFacts, ShownStep
  <2> QED BY <1>1, <2>1, <2>3 DEF Serial!Send, Begin
<1>2. ASSUME Acquire(t) PROVE Serial!Enter(t)
  <2>1. s.at = "queue" /\ s = [at |-> "queue", ran |-> c.ran, lost |-> c.ran,
                               answer |-> "none"]
    BY <1>0, <1>2, ShownFacts DEF Acquire
  <2>2. Shown(t)' = [s EXCEPT !.at = "snowflake"]
    <3>1. Shown(t)' = WithSnowflake(c.ran, c.ran)
      BY <1>0, <1>2, AcquireFacts
      DEF Shown, StatementOf, RanInv, Errors, Acquire, WithSnowflake
    <3> QED BY <2>1, <3>1 DEF WithSnowflake
  <2>3. Serial!Becomes(t, [s EXCEPT !.at = "snowflake"])
    BY <1>0, <1>2, <2>2, AcquireFacts, ShownStep
  <2>4. ASSUME NEW u \in Threads PROVE Statements[u].at # "snowflake"
    <3>1. call[u] \in Call /\ lock = Nobody
      BY <1>0, <1>2 DEF TypeOK, Acquire
    <3>2. call[u].pc \in {"idle", "lock"}
      BY <1>0, <3>1, Holders DEF Exclusive, Call
    <3> QED BY <3>2, ShownFacts
  <2> QED BY <1>2, <2>1, <2>3, <2>4 DEF Serial!Enter, Acquire
<1>3. ASSUME Connect(t) PROVE UNCHANGED Serial!vars
  <2>1. Shown(t)' = Shown(t)
    BY <1>0, <1>3, ConnectFacts DEF Shown, StatementOf, Connect
  <2> QED BY <1>0, <1>3, <2>1, ConnectFacts, ShownStutter DEF Connect
<1>4. ASSUME Run(t) PROVE Serial!Run(t)
  <2>1. s = WithSnowflake(c.ran, c.ran)
    BY <1>0, <1>4, ShownFacts DEF Run, WithSnowflake
  <2>2. Shown(t)' = [s EXCEPT !.ran = @ + 1]
    <3>1. Shown(t)' = WithSnowflake(c.ran + 1, c.ran)
      <4>1. /\ call'[t].pc = "fetch" /\ call'[t].ran = c.ran + 1
            /\ call'[t].answer = "none"
        BY <1>0, <1>4, RunFacts DEF RanInv, Run
      <4> QED BY <1>0, <4>1 DEF Shown, StatementOf, Errors, WithSnowflake
    <3>2. [s EXCEPT !.ran = @ + 1] = WithSnowflake(c.ran + 1, c.ran)
      BY <2>1, RunEdit
    <3> QED BY <3>1, <3>2
  <2>3. Serial!Becomes(t, [s EXCEPT !.ran = @ + 1])
    BY <1>0, <1>4, <2>2, RunFacts, ShownStep
  <2>4. c.ran < 2
    BY <1>0, <1>4, RunFacts
  <2> QED BY <1>4, <2>1, <2>3, <2>4 DEF Serial!Run, Run, WithSnowflake
<1>5. ASSUME Refused(t) PROVE Serial!Refuse(t) \/ UNCHANGED Serial!vars
  <2>1. PICK error \in Errors : Raise(t, c, error)
    BY <1>5 DEF Refused, Errors
  <2>2. s = WithSnowflake(c.ran, c.ran) /\ UNCHANGED faults /\ c.pc = "execute"
    BY <1>0, <1>5, ShownFacts DEF Refused, WithSnowflake
  <2>3. /\ call'[t].ran = c.ran /\ \A u \in Threads \ {t} : call'[u] = call[u]
        /\ \/ call'[t].pc = "connect" /\ call'[t].answer = c.answer
           \/ call'[t].pc = "idle" /\ call'[t].answer = error
    BY <1>0, <2>1, RaiseFacts
  <2>4. CASE call'[t].pc = "connect" /\ call'[t].answer = c.answer
    <3>1. Shown(t)' = Shown(t)
      BY <2>2, <2>3, <2>4 DEF Shown, StatementOf
    <3> QED BY <2>2, <2>3, <3>1, ShownStutter
  <2>5. CASE call'[t].pc = "idle" /\ call'[t].answer = error
    <3>1. Shown(t)' = [s EXCEPT !.at = "caller", !.answer = "error"]
      <4>1. Shown(t)' = Ended(c.ran, c.ran, "error")
        BY <2>1, <2>3, <2>5 DEF Shown, StatementOf, Errors, Ended
      <4>2. [s EXCEPT !.at = "caller", !.answer = "error"]
              = Ended(c.ran, c.ran, "error")
        BY <2>2, EndEdit
      <4> QED BY <4>1, <4>2
    <3>2. Serial!Becomes(t, [s EXCEPT !.at = "caller", !.answer = "error"])
      BY <2>3, <3>1, ShownStep
    <3> QED BY <2>2, <3>2 DEF Serial!Refuse, WithSnowflake
  <2> QED BY <2>3, <2>4, <2>5
<1>6. ASSUME Cut(t) PROVE Serial!Cut(t)
  <2>1. /\ Raise(t, c, "connection") /\ faults' = faults + 1
        /\ c.pc \in {"connect", "execute", "fetch"}
    BY <1>6 DEF Cut
  <2>2. s.at = "snowflake" /\ s.ran = c.ran /\ s.answer = "none"
        /\ s = WithSnowflake(c.ran, s.lost)
    BY <1>0, <2>1, ShownFacts DEF WithSnowflake
  <2>3. /\ call'[t].ran = c.ran /\ \A u \in Threads \ {t} : call'[u] = call[u]
        /\ \/ call'[t].pc = "connect" /\ call'[t].answer = c.answer
           \/ call'[t].pc = "idle" /\ call'[t].answer = "connection"
    BY <1>0, <2>1, RaiseFacts DEF Errors
  <2>4. CASE call'[t].pc = "connect" /\ call'[t].answer = c.answer
    <3>1. c.answer = "none"
      BY <1>0, <2>1 DEF RanInv
    <3>2. Shown(t)' = [s EXCEPT !.lost = s.ran]
      BY <2>2, <2>3, <2>4, <3>1 DEF Shown, StatementOf, Errors, WithSnowflake
    <3>3. Serial!Becomes(t, [s EXCEPT !.lost = s.ran])
      BY <2>3, <3>2, ShownStep
    <3> QED BY <2>1, <2>2, <3>3 DEF Serial!Cut
  <2>5. CASE call'[t].pc = "idle" /\ call'[t].answer = "connection"
    <3>1. Shown(t)' = [s EXCEPT !.lost = s.ran, !.at = "caller",
                                !.answer = "error"]
      <4>1. Shown(t)' = Ended(c.ran, c.ran, "error")
        BY <2>3, <2>5 DEF Shown, StatementOf, Errors, Ended
      <4>2. [s EXCEPT !.lost = s.ran, !.at = "caller", !.answer = "error"]
              = Ended(c.ran, c.ran, "error")
        <5> HIDE DEF s, c
        <5>1. [s EXCEPT !.lost = c.ran, !.at = "caller", !.answer = "error"]
                = Ended(c.ran, c.ran, "error")
          BY <2>2, CutEdit
        <5>2. s.ran = c.ran
          BY <2>2
        <5> QED BY <5>1, <5>2
      <4> QED BY <4>1, <4>2
    <3>2. Serial!Becomes(t, [s EXCEPT !.lost = s.ran, !.at = "caller",
                                      !.answer = "error"])
      BY <2>3, <3>1, ShownStep
    <3> QED BY <2>1, <2>2, <3>2 DEF Serial!Cut
  <2> QED BY <2>3, <2>4, <2>5
<1>7. ASSUME Fetch(t) PROVE Serial!Answer(t)
  <2>1. Finish(t, c, "rows") /\ UNCHANGED faults /\ c.pc = "fetch"
    BY <1>7 DEF Fetch
  <2>2. s = WithSnowflake(c.ran, c.ran - 1)
    BY <1>0, <2>1, ShownFacts DEF WithSnowflake
  <2>3. /\ call'[t].pc = "idle" /\ call'[t].answer = "rows"
        /\ call'[t].ran = c.ran
        /\ \A u \in Threads \ {t} : call'[u] = call[u]
    BY <1>0, <2>1, FinishFacts
  <2>4. Shown(t)' = [s EXCEPT !.at = "caller", !.answer = "rows"]
    <3>1. Shown(t)' = Ended(c.ran, c.ran - 1, "rows")
      BY <2>3 DEF Shown, StatementOf, Errors, Ended
    <3>2. [s EXCEPT !.at = "caller", !.answer = "rows"]
            = Ended(c.ran, c.ran - 1, "rows")
      BY <2>2, EndEdit
    <3> QED BY <3>1, <3>2
  <2>5. Serial!Becomes(t, [s EXCEPT !.at = "caller", !.answer = "rows"])
    BY <2>3, <2>4, ShownStep
  <2> QED BY <1>0, <2>1, <2>2, <2>5 DEF Serial!Answer, WithSnowflake
<1> QED
  BY <1>1, <1>2, <1>3, <1>4, <1>5, <1>6, <1>7 DEF Serial!Next

\* Whatever the lock, the cached connection and rotation do, callers see
\* statements that run one at a time, again only after a connection was lost
\* with the answer, and at most twice.
THEOREM ImplementsSerialStatements == Spec => StatementsAreSerial
<1>1. Init => Serial!Init
  <2>1. Init => Statements = [t \in Threads |-> Serial!Unsent]
    BY DEF Init, Statements, StatementOf, Serial!Unsent, Errors
  <2> QED BY <2>1 DEF Init, Serial!Init
<1>2. IInv /\ IInv' /\ [Next]_vars => [Serial!Next]_(Serial!vars)
  <2> SUFFICES ASSUME IInv, IInv', [Next]_vars
               PROVE  [Serial!Next]_(Serial!vars)
    OBVIOUS
  <2>1. CASE Rotate \/ Expire \/ AtRest \/ UNCHANGED vars
    BY <2>1 DEF Rotate, Expire, AtRest, vars, Serial!vars, Statements
  <2> QED BY <2>1, ThreadRefines DEF Next
<1> QED
  BY <1>1, <1>2, Invariance, PTL DEF Spec, StatementsAreSerial, Serial!Spec

=============================================================================
