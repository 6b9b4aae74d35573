--------------------------- MODULE CircuitBreaker ---------------------------
(***************************************************************************)
(* The circuit breaker of omc-shared (resilience.rs), shared by several    *)
(* threads through &self.                                                  *)
(*                                                                         *)
(* Its four fields are written one at a time: the counter and the stamp of *)
(* the last failure without the mutex, the state under it, and the atomic  *)
(* mirror of the state before the mutex is dropped.  So every atomic       *)
(* operation is an action, and a region of the mutex that writes is two:   *)
(* it sets the state, then it publishes the mirror and unlocks.            *)
(*                                                                         *)
(* The clock is kept as ages, which stop at ResetTimeout, and the counter  *)
(* stops at FailureThreshold: the code only asks whether they get there.   *)
(***************************************************************************)
EXTENDS Integers

CONSTANTS
  Callers,           \* the threads that make calls through the breaker
  FailureThreshold,  \* failure_threshold
  ResetTimeout       \* reset_timeout, in ticks of the clock

ASSUME BreakerAssumption ==
  /\ FailureThreshold \in Nat \ {0}
  /\ ResetTimeout \in Nat

VARIABLES
  state,        \* the state in the mutex
  locked,       \* whether a thread holds the mutex
  mirror,       \* atomic_state
  count,        \* failure_count
  age,          \* the time since last_failure_millis
  at,           \* where each thread is
  trips,        \* whether the failure a thread records reached the threshold
  stamp,        \* the age of the clock value a thread read and not stored yet
  sure          \* history: failures counted since the last success was over

vars == <<state, locked, mirror, count, age, at, trips, stamp, sure>>

CircuitState == {"Closed", "Open", "HalfOpen"}
Places ==
  {"idle", "asking", "probing", "calling", "succeeded", "closing", "closed",
   "failed", "counted", "timed", "opening", "opened"}

TypeOK ==
  /\ state \in CircuitState
  /\ locked \in BOOLEAN
  /\ mirror \in CircuitState
  /\ count \in 0 .. FailureThreshold
  /\ age \in 0 .. ResetTimeout
  /\ at \in [Callers -> Places]
  /\ trips \in [Callers -> BOOLEAN]
  /\ stamp \in [Callers -> 0 .. ResetTimeout]
  /\ sure \in 0 .. FailureThreshold

UpTo(n, limit) == IF n < limit THEN n ELSE limit

Goto(c, place) == at' = [at EXCEPT ![c] = place]

\* A thread in the middle of record_success.
Succeeding(c) == at[c] \in {"succeeded", "closing", "closed"}

-----------------------------------------------------------------------------
(* allow_call and state.                                                   *)

\* The fast path: the mirror is read without the mutex.
Check(c) ==
  /\ at[c] = "idle"
  /\ Goto(c, IF mirror = "Open" THEN "asking" ELSE "calling")
  /\ UNCHANGED <<state, locked, mirror, count, age, trips, stamp, sure>>

\* Faulty: a caller that is turned away stamps the clock.
AskAndStamp(c) ==
  /\ at[c] = "asking"
  /\ ~ locked
  /\ IF state = "Open" /\ age >= ResetTimeout
     THEN /\ state' = "HalfOpen"
          /\ locked' = TRUE
          /\ Goto(c, "probing")
          /\ UNCHANGED age
     ELSE /\ Goto(c, IF state = "Open" THEN "idle" ELSE "calling")
          /\ age' = 0
          /\ UNCHANGED <<state, locked>>
  /\ UNCHANGED <<mirror, count, trips, stamp, sure>>

\* Under the mutex: still Open, the timeout decides; else whatever it is now.
Ask(c) ==
  /\ at[c] = "asking"
  /\ ~ locked
  /\ IF state = "Open" /\ age >= ResetTimeout
     THEN /\ state' = "HalfOpen"
          /\ locked' = TRUE
          /\ Goto(c, "probing")
     ELSE /\ Goto(c, IF state = "Open" THEN "idle" ELSE "calling")
          /\ UNCHANGED <<state, locked>>
  /\ UNCHANGED <<mirror, count, age, trips, stamp, sure>>

\* The mirror is stored and the mutex dropped.
Publish(c, from, to) ==
  /\ at[c] = from
  /\ mirror' = state
  /\ locked' = FALSE
  /\ Goto(c, to)
  /\ UNCHANGED <<state, count, age, trips, stamp>>

PublishProbe(c) == Publish(c, "probing", "calling") /\ UNCHANGED sure

-----------------------------------------------------------------------------
(* The call itself ends well or not, and is recorded.                      *)

Succeed(c) ==
  /\ at[c] = "calling"
  /\ Goto(c, "succeeded")
  /\ sure' = 0
  /\ UNCHANGED <<state, locked, mirror, count, age, trips, stamp>>

Fail(c) ==
  /\ at[c] = "calling"
  /\ Goto(c, "failed")
  /\ UNCHANGED <<state, locked, mirror, count, age, trips, stamp, sure>>

\* record_success: the counter is reset before the mutex is taken.
ResetCount(c) ==
  /\ at[c] = "succeeded"
  /\ count' = 0
  /\ Goto(c, "closing")
  /\ UNCHANGED <<state, locked, mirror, age, trips, stamp, sure>>

\* Faulty: the mutex is dropped before the mirror is stored.
CloseAndUnlock(c) ==
  /\ at[c] = "closing"
  /\ ~ locked
  /\ state' = "Closed"
  /\ Goto(c, "closed")
  /\ UNCHANGED <<locked, mirror, count, age, trips, stamp, sure>>

Close(c) ==
  /\ at[c] = "closing"
  /\ ~ locked
  /\ state' = "Closed"
  /\ locked' = TRUE
  /\ Goto(c, "closed")
  /\ UNCHANGED <<mirror, count, age, trips, stamp, sure>>

PublishClosed(c) == Publish(c, "closed", "idle") /\ UNCHANGED sure

\* Faulty: what fetch_add returns is compared, not what it stores.
CountBefore(c) ==
  /\ at[c] = "failed"
  /\ count' = UpTo(count + 1, FailureThreshold)
  /\ trips' = [trips EXCEPT ![c] = count >= FailureThreshold]
  /\ sure' = IF \E d \in Callers : Succeeding(d) THEN sure
             ELSE UpTo(sure + 1, FailureThreshold)
  /\ Goto(c, "counted")
  /\ UNCHANGED <<state, locked, mirror, age, stamp>>

\* record_failure: the counter is incremented and compared in one step.
CountFailure(c) ==
  /\ at[c] = "failed"
  /\ count' = UpTo(count + 1, FailureThreshold)
  /\ trips' = [trips EXCEPT ![c] = count + 1 >= FailureThreshold]
  /\ sure' = IF \E d \in Callers : Succeeding(d) THEN sure
             ELSE UpTo(sure + 1, FailureThreshold)
  /\ Goto(c, "counted")
  /\ UNCHANGED <<state, locked, mirror, age, stamp>>

ReadClock(c) ==
  /\ at[c] = "counted"
  /\ stamp' = [stamp EXCEPT ![c] = 0]
  /\ Goto(c, "timed")
  /\ UNCHANGED <<state, locked, mirror, count, age, trips, sure>>

\* The clock value may be older than the one it replaces.
StampFailure(c) ==
  /\ at[c] = "timed"
  /\ age' = stamp[c]
  /\ stamp' = [stamp EXCEPT ![c] = 0]
  /\ Goto(c, IF trips[c] THEN "opening" ELSE "idle")
  /\ UNCHANGED <<state, locked, mirror, count, trips, sure>>

Open(c) ==
  /\ at[c] = "opening"
  /\ ~ locked
  /\ state' = "Open"
  /\ locked' = TRUE
  /\ Goto(c, "opened")
  /\ UNCHANGED <<mirror, count, age, trips, stamp, sure>>

PublishOpen(c) == Publish(c, "opened", "idle") /\ UNCHANGED sure

-----------------------------------------------------------------------------
Tick ==
  /\ age' = UpTo(age + 1, ResetTimeout)
  /\ stamp' = [c \in Callers |->
       IF at[c] = "timed" THEN UpTo(stamp[c] + 1, ResetTimeout) ELSE stamp[c]]
  /\ UNCHANGED <<state, locked, mirror, count, at, trips, sure>>

Init ==
  /\ state = "Closed"
  /\ locked = FALSE
  /\ mirror = "Closed"
  /\ count = 0
  /\ age = 0
  /\ at = [c \in Callers |-> "idle"]
  /\ trips = [c \in Callers |-> FALSE]
  /\ stamp = [c \in Callers |-> 0]
  /\ sure = 0

AllowCall(c)     == Check(c) \/ Ask(c) \/ PublishProbe(c)
RecordSuccess(c) == ResetCount(c) \/ Close(c) \/ PublishClosed(c)
RecordFailure(c) ==
  CountFailure(c) \/ ReadClock(c) \/ StampFailure(c) \/ Open(c) \/ PublishOpen(c)

Call(c) == Succeed(c) \/ Fail(c)

Next ==
  \/ \E c \in Callers :
       AllowCall(c) \/ Call(c) \/ RecordSuccess(c) \/ RecordFailure(c)
  \/ Tick

Spec == Init /\ [][Next]_vars

\* Threads run, calls end, callers that were turned away ask again, and time
\* passes.
FairSpec ==
  /\ Spec
  /\ \A c \in Callers :
       WF_vars(AllowCall(c) \/ Call(c) \/ RecordSuccess(c) \/ RecordFailure(c))
  /\ WF_vars(Tick)
=============================================================================
