------------------------ MODULE CircuitBreaker_proofs -----------------------
(***************************************************************************)
(* Proofs about the circuit breaker, for any number of threads, threshold  *)
(* and timeout.                                                            *)
(***************************************************************************)
EXTENDS CircuitBreakerProperties, TLAPS

\* The bounds are numbers, and a single failure may be enough.
LEMMA Limits ==
  FailureThreshold \in Nat /\ FailureThreshold >= 1 /\ ResetTimeout \in Nat
  BY BreakerAssumption DEF BreakerAssumption

\* A counter that stops at its limit stays between 0 and the limit, grows with
\* what it counts, and is at the limit when what it counts is.
LEMMA UpToFacts ==
  ASSUME NEW limit \in Nat, NEW n \in 0 .. limit
  PROVE  /\ UpTo(n + 1, limit) \in 0 .. limit
         /\ UpTo(n + 1, limit) = limit <=> n + 1 >= limit
         /\ \A m \in 0 .. limit : m <= n => UpTo(m + 1, limit) <= UpTo(n + 1, limit)
  BY DEF UpTo

\* The breaker starts well typed, and every step keeps it so.
LEMMA TypeInit == Init => TypeOK
<1> SUFFICES ASSUME Init
             PROVE  TypeOK
  OBVIOUS
<1>1. 0 \in 0 .. FailureThreshold /\ 0 \in 0 .. ResetTimeout
  BY Limits
<1>2. at \in [Callers -> Places]
  BY DEF Init, Places
<1>3. trips \in [Callers -> BOOLEAN] /\ stamp \in [Callers -> 0 .. ResetTimeout]
  BY <1>1 DEF Init
<1>4. QED BY <1>1, <1>2, <1>3 DEF Init, TypeOK, CircuitState

\* No step of a thread or of the clock leaves the types.
LEMMA TypeNext == TypeOK /\ [Next]_vars => TypeOK'
<1> SUFFICES ASSUME TypeOK, [Next]_vars
             PROVE  TypeOK'
  OBVIOUS
<1> USE Limits DEF TypeOK, CircuitState, Places, Goto
<1>1. ASSUME NEW c \in Callers, AllowCall(c)
      PROVE  TypeOK'
  <2>1. CASE Check(c)
    BY <2>1 DEF Check
  <2>2. CASE Ask(c)
    <3>1. at' \in [Callers -> Places]
      BY <2>2 DEF Ask
    <3>2. state' \in CircuitState /\ locked' \in BOOLEAN
      BY <2>2 DEF Ask
    <3>3. QED BY <2>2, <3>1, <3>2 DEF Ask
  <2>3. CASE PublishProbe(c)
    BY <2>3 DEF PublishProbe, Publish
  <2>4. QED BY <1>1, <2>1, <2>2, <2>3 DEF AllowCall
<1>2. ASSUME NEW c \in Callers, Call(c)
      PROVE  TypeOK'
  BY <1>2 DEF Call, Succeed, Fail
<1>3. ASSUME NEW c \in Callers, RecordSuccess(c)
      PROVE  TypeOK'
  <2>1. CASE ResetCount(c)
    <3>1. 0 \in 0 .. FailureThreshold
      BY Limits
    <3>2. QED BY <2>1, <3>1 DEF ResetCount
  <2>2. CASE Close(c)
    BY <2>2 DEF Close
  <2>3. CASE PublishClosed(c)
    BY <2>3 DEF PublishClosed, Publish
  <2>4. QED BY <1>3, <2>1, <2>2, <2>3 DEF RecordSuccess
<1>4. ASSUME NEW c \in Callers, CountFailure(c)
      PROVE  TypeOK'
  <2>1. count' \in 0 .. FailureThreshold /\ sure' \in 0 .. FailureThreshold
    BY <1>4, UpToFacts DEF CountFailure
  <2>2. QED BY <1>4, <2>1 DEF CountFailure
<1>5. ASSUME NEW c \in Callers,
             ReadClock(c) \/ StampFailure(c) \/ Open(c) \/ PublishOpen(c)
      PROVE  TypeOK'
  <2>1. 0 \in 0 .. ResetTimeout
    BY Limits
  <2>2. CASE ReadClock(c)
    BY <2>1, <2>2 DEF ReadClock
  <2>3. CASE StampFailure(c)
    <3>1. at' \in [Callers -> Places]
      BY <2>3 DEF StampFailure
    <3>2. age' \in 0 .. ResetTimeout /\ stamp' \in [Callers -> 0 .. ResetTimeout]
      BY <2>1, <2>3 DEF StampFailure
    <3>3. QED BY <2>3, <3>1, <3>2 DEF StampFailure
  <2>4. CASE Open(c) \/ PublishOpen(c)
    BY <2>4 DEF Open, PublishOpen, Publish
  <2>5. QED BY <1>5, <2>2, <2>3, <2>4
<1>6. CASE Tick
  <2>1. age' \in 0 .. ResetTimeout
    BY <1>6, UpToFacts DEF Tick
  <2>2. \A c \in Callers : UpTo(stamp[c] + 1, ResetTimeout) \in 0 .. ResetTimeout
    BY UpToFacts
  <2>3. QED BY <1>6, <2>1, <2>2 DEF Tick
<1>7. CASE UNCHANGED vars
  BY <1>7 DEF vars
<1>8. QED
  BY <1>1, <1>2, <1>3, <1>4, <1>5, <1>6, <1>7 DEF Next, RecordFailure

\* Every value stays in its range: the counter and the ages never pass their
\* limits.
THEOREM TypeCorrect == Spec => []TypeOK
  BY TypeInit, TypeNext, PTL DEF Spec

-----------------------------------------------------------------------------
\* A step keeps the mutex and the mirror right: who sets the state holds the
\* mutex until the mirror is stored.
LEMMA MirrorNext ==
  TypeOK /\ MutexInv /\ MirrorAgrees /\ [Next]_vars => MutexInv' /\ MirrorAgrees'
<1> SUFFICES ASSUME TypeOK, MutexInv, MirrorAgrees, [Next]_vars
             PROVE  MutexInv' /\ MirrorAgrees'
  OBVIOUS
<1> USE DEF TypeOK, MutexInv, MirrorAgrees, Publishing, Goto
<1>1. ASSUME NEW c \in Callers,
             \/ Check(c) \/ Call(c) \/ ResetCount(c)
             \/ CountFailure(c) \/ ReadClock(c) \/ StampFailure(c)
      PROVE  MutexInv' /\ MirrorAgrees'
  BY <1>1 DEF Check, Call, Succeed, Fail, ResetCount, CountFailure, ReadClock,
              StampFailure
<1>2. ASSUME NEW c \in Callers, Ask(c) \/ Close(c) \/ Open(c)
      PROVE  MutexInv' /\ MirrorAgrees'
  BY <1>2 DEF Ask, Close, Open
<1>3. ASSUME NEW c \in Callers, PublishProbe(c) \/ PublishClosed(c) \/ PublishOpen(c)
      PROVE  MutexInv' /\ MirrorAgrees'
  <2>1. Publishing(c)
    BY <1>3 DEF PublishProbe, PublishClosed, PublishOpen, Publish
  <2>2. \A d \in Callers : d # c => ~ Publishing(d)
    BY <2>1
  <2>3. /\ ~ Publishing(c)'
        /\ \A d \in Callers : d # c => at'[d] = at[d]
        /\ mirror' = state' /\ locked' = FALSE
    BY <1>3 DEF PublishProbe, PublishClosed, PublishOpen, Publish
  <2>4. QED BY <2>2, <2>3
<1>4. CASE Tick
  BY <1>4 DEF Tick
<1>5. CASE UNCHANGED vars
  BY <1>5 DEF vars
<1>6. QED
  BY <1>1, <1>2, <1>3, <1>4, <1>5
     DEF Next, AllowCall, RecordSuccess, RecordFailure

\* The mirror that the fast path reads without the mutex is the state, unless
\* a thread is in the middle of a change: for any number of threads.
THEOREM MirrorCorrect == Spec => []MirrorAgrees
<1>1. Init => MutexInv /\ MirrorAgrees
  BY DEF Init, MutexInv, MirrorAgrees, Publishing
<1>2. QED BY <1>1, TypeCorrect, MirrorNext, PTL DEF Spec

-----------------------------------------------------------------------------
\* The counter stays ahead of the failures that are sure to count, because a
\* thread resets it only while no failure is sure.
LEMMA CountNext == TypeOK /\ CountInv /\ [Next]_vars => CountInv'
<1> SUFFICES ASSUME TypeOK, CountInv, [Next]_vars
             PROVE  CountInv'
  OBVIOUS
<1> USE DEF TypeOK, CountInv, Succeeding, Goto
<1>1. ASSUME NEW c \in Callers,
             \/ AllowCall(c) \/ RecordSuccess(c)
             \/ ReadClock(c) \/ StampFailure(c) \/ Open(c) \/ PublishOpen(c)
      PROVE  CountInv'
  BY <1>1 DEF AllowCall, Check, Ask, PublishProbe, Publish, RecordSuccess,
              ResetCount, Close, PublishClosed, ReadClock, StampFailure, Open,
              PublishOpen
<1>2. ASSUME NEW c \in Callers, Call(c)
      PROVE  CountInv'
  BY <1>2 DEF Call, Succeed, Fail
<1>3. ASSUME NEW c \in Callers, CountFailure(c)
      PROVE  CountInv'
  <2>1. FailureThreshold \in Nat
    BY Limits
  <2>2. count <= UpTo(count + 1, FailureThreshold)
    BY <2>1 DEF UpTo
  <2>3. UpTo(sure + 1, FailureThreshold) <= UpTo(count + 1, FailureThreshold)
    BY <2>1, UpToFacts
  <2>4. \A d \in Callers : Succeeding(d)' <=> Succeeding(d)
    BY <1>3 DEF CountFailure
  <2>5. sure' <= count'
    <3>1. count' = UpTo(count + 1, FailureThreshold)
      BY <1>3 DEF CountFailure
    <3>2. CASE sure' = sure
      BY <2>1, <2>2, <3>1, <3>2 DEF UpTo
    <3>3. CASE sure' = UpTo(sure + 1, FailureThreshold)
      BY <2>3, <3>1, <3>3
    <3>4. QED BY <1>3, <3>2, <3>3 DEF CountFailure
  <2>6. ASSUME NEW d \in Callers, Succeeding(d)'
        PROVE  sure' = 0
    <3>1. Succeeding(d) /\ sure = 0
      BY <2>4, <2>6
    <3>2. sure' = sure
      BY <1>3, <3>1 DEF CountFailure
    <3>3. QED BY <3>1, <3>2
  <2>7. QED BY <2>5, <2>6
<1>4. CASE Tick
  BY <1>4 DEF Tick
<1>5. CASE UNCHANGED vars
  BY <1>5 DEF vars
<1>6. QED
  BY <1>1, <1>2, <1>3, <1>4, <1>5 DEF Next, RecordFailure

\* A step keeps Trips: the failure that makes the count sure reaches the
\* threshold itself, and its thread opens the circuit before it is through.
LEMMA TripsNext == TypeOK /\ CountInv /\ Trips /\ [Next]_vars => Trips'
<1> SUFFICES ASSUME TypeOK, CountInv, Trips, [Next]_vars,
                    sure' = FailureThreshold, state' = "Closed"
             PROVE  \E c \in Callers : Tripping(c)'
  BY DEF Trips
<1> USE Limits DEF TypeOK, Trips, Tripping, Goto
<1>1. ASSUME NEW c \in Callers, AllowCall(c)
      PROVE  \E d \in Callers : Tripping(d)'
  <2>1. sure = FailureThreshold /\ state = "Closed"
    BY <1>1 DEF AllowCall, Check, Ask, PublishProbe, Publish
  <2>2. PICK d \in Callers : Tripping(d)
    BY <2>1
  <2>3. Tripping(d)'
    BY <1>1, <2>2 DEF AllowCall, Check, Ask, PublishProbe, Publish
  <2>4. QED BY <2>3
<1>2. ASSUME NEW c \in Callers, Call(c)
      PROVE  \E d \in Callers : Tripping(d)'
  <2>1. Fail(c)
    BY <1>2 DEF Call, Succeed
  <2>2. PICK d \in Callers : Tripping(d)
    BY <2>1 DEF Fail
  <2>3. Tripping(d)'
    BY <2>1, <2>2 DEF Fail
  <2>4. QED BY <2>3
<1>3. ASSUME NEW c \in Callers, RecordSuccess(c)
      PROVE  FALSE
  <2>1. sure = 0
    BY <1>3 DEF RecordSuccess, ResetCount, Close, PublishClosed, Publish,
                CountInv, Succeeding
  <2>2. QED
    BY <1>3, <2>1 DEF RecordSuccess, ResetCount, Close, PublishClosed
<1>4. ASSUME NEW c \in Callers, CountFailure(c)
      PROVE  \E d \in Callers : Tripping(d)'
  <2>1. CASE sure = FailureThreshold
    <3>1. PICK d \in Callers : Tripping(d)
      BY <1>4, <2>1 DEF CountFailure
    <3>2. Tripping(d)'
      BY <1>4, <3>1 DEF CountFailure
    <3>3. QED BY <3>2
  <2>2. CASE sure # FailureThreshold
    <3>1. sure' = UpTo(sure + 1, FailureThreshold)
      BY <1>4, <2>2 DEF CountFailure
    <3>2. sure + 1 >= FailureThreshold
      BY <3>1, UpToFacts
    <3>3. count + 1 >= FailureThreshold
      BY <3>2 DEF CountInv
    <3>4. Tripping(c)'
      BY <1>4, <3>3 DEF CountFailure
    <3>5. QED BY <3>4
  <2>3. QED BY <2>1, <2>2
<1>5. ASSUME NEW c \in Callers, ReadClock(c) \/ StampFailure(c)
      PROVE  \E d \in Callers : Tripping(d)'
  <2>1. PICK d \in Callers : Tripping(d)
    BY <1>5 DEF ReadClock, StampFailure
  <2>2. Tripping(d)'
    BY <1>5, <2>1 DEF ReadClock, StampFailure
  <2>3. QED BY <2>2
<1>6. ASSUME NEW c \in Callers, Open(c)
      PROVE  FALSE
  BY <1>6 DEF Open
<1>7. ASSUME NEW c \in Callers, PublishOpen(c)
      PROVE  \E d \in Callers : Tripping(d)'
  <2>1. PICK d \in Callers : Tripping(d)
    BY <1>7 DEF PublishOpen, Publish
  <2>2. Tripping(d)'
    BY <1>7, <2>1 DEF PublishOpen, Publish
  <2>3. QED BY <2>2
<1>8. CASE Tick \/ UNCHANGED vars
  BY <1>8 DEF Tick, vars
<1>9. QED
  BY <1>1, <1>2, <1>3, <1>4, <1>5, <1>6, <1>7, <1>8 DEF Next, RecordFailure

\* No failure is lost: after the threshold's worth of failures since the last
\* success was over the circuit is not Closed, whichever threads recorded them.
THEOREM TripsCorrect == Spec => []Trips
<1>1. Init => CountInv /\ Trips
  BY Limits DEF Init, CountInv, Trips, Succeeding
<1>2. QED BY <1>1, TypeCorrect, CountNext, TripsNext, PTL DEF Spec
=============================================================================
