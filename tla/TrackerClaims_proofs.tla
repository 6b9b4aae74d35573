------------------------ MODULE TrackerClaims_proofs ------------------------
(***************************************************************************)
(* Proofs about the leases, for every number of runs, every time to live   *)
(* and every length of the behaviour.                                      *)
(***************************************************************************)
EXTENDS TrackerClaimsProperties, FiniteSetTheorems, TLAPS

\* The comments of the issue are fewer than the runs while one has not posted.
LEMMA PostedIsFinite ==
  ASSUME TypeOK
  PROVE  /\ Cardinality(Runs) \in Nat
         /\ Cardinality(posted) \in Nat
         /\ Cardinality(posted) <= Cardinality(Runs)
         /\ \A r \in Runs \ posted :
              Cardinality(posted \cup {r}) = Cardinality(posted) + 1
  <1>1. IsFiniteSet(Runs) /\ posted \subseteq Runs
    BY TrackerAssumption DEF TrackerAssumption, TypeOK
  <1>2. IsFiniteSet(posted) /\ Cardinality(posted) <= Cardinality(Runs)
    BY <1>1, FS_Subset
  <1>3. Cardinality(Runs) \in Nat /\ Cardinality(posted) \in Nat
    BY <1>1, <1>2, FS_CardinalityType
  <1>4. QED
    BY <1>2, <1>3, FS_AddElement

-----------------------------------------------------------------------------
(* Type correctness.                                                       *)

\* An issue that is ready and that nobody read is well typed.
LEMMA TypeInit == Init => TypeOK
  <1> SUFFICES ASSUME Init
               PROVE  TypeOK
    OBVIOUS
  <1>1. Cardinality(Runs) \in Nat
    BY TrackerAssumption, FS_CardinalityType DEF TrackerAssumption
  <1>2. id \in [Runs -> FirstId .. FirstId + Cardinality(Runs)]
    BY <1>1, TrackerAssumption DEF TrackerAssumption, Init
  <1>3. QED
    BY <1>2, TrackerAssumption
    DEF TrackerAssumption, Init, TypeOK, Labels, RunStates, HandStates

\* The lease comments of a run that claims.
LEMMA TypeClaim ==
  ASSUME TypeOK, NEW r \in Runs, Claim(r) \/ LoseAnswer(r)
  PROVE  TypeOK'
  <1> USE DEF TypeOK
  <1>1. CASE Import(r)
    BY <1>1 DEF Import, Goto, RunStates, issue, leases, handed
  <1>2. CASE FindReady(r)
    BY <1>2 DEF FindReady, Goto, RunStates, issue, leases, handed
  <1>3. CASE ReadIssue(r)
    BY <1>3 DEF ReadIssue, Goto, RunStates, issue, leases, handed
  <1>4. CASE Compose(r)
    <2>1. now + TTL \in Nat
      BY TrackerAssumption DEF TrackerAssumption
    <2>2. QED
      BY <1>4, <2>1 DEF Compose, Goto, RunStates, issue, handed
  <1>5. ASSUME CreateLease(r)
        PROVE  /\ posted' \subseteq Runs
               /\ createdAt' \in [Runs -> Nat]
               /\ id' \in [Runs -> FirstId .. FirstId + Cardinality(Runs)]
               /\ expiresAt' \in [Runs -> Nat]
    <2>1. FirstId + Cardinality(posted)
            \in FirstId .. FirstId + Cardinality(Runs)
      BY PostedIsFinite, TrackerAssumption DEF TrackerAssumption
    <2>2. QED
      BY <1>5, <2>1 DEF CreateLease
  <1>6. CASE PostLease(r)
    <2>1. CreateLease(r) BY <1>6 DEF PostLease
    <2>2. QED
      BY <1>5, <1>6, <2>1
      DEF PostLease, CreateLease, Goto, RunStates, issue, handed
  <1>7. CASE LoseAnswer(r)
    <2>1. CreateLease(r) BY <1>7 DEF LoseAnswer
    <2>2. failures' \in 0 .. MaxFailures
      BY <1>7, TrackerAssumption DEF LoseAnswer, Fails, TrackerAssumption
    <2>3. QED
      BY <1>5, <1>7, <2>1, <2>2
      DEF LoseAnswer, CreateLease, Goto, RunStates, issue, handed
  <1>8. CASE ListComments(r)
    BY <1>8 DEF ListComments, Goto, RunStates, issue, leases, handed
  <1>9. CASE Decide(r)
    BY <1>9 DEF Decide, Judge, Goto, RunStates, issue, leases, handed
  <1>10. QED
    BY <1>1, <1>2, <1>3, <1>4, <1>6, <1>7, <1>8, <1>9 DEF Claim

\* A run that fails, or marks the issue.
LEMMA TypeMark ==
  ASSUME TypeOK, NEW r \in Runs, Mark(r) \/ FailRun(r)
  PROVE  TypeOK'
  <1> USE DEF TypeOK
  <1>1. CASE FailRun(r)
    <2>1. failures' \in 0 .. MaxFailures
      BY <1>1, TrackerAssumption DEF FailRun, Fails, TrackerAssumption
    <2>2. QED
      BY <1>1, <2>1 DEF FailRun, Goto, RunStates, issue, leases, handed
  <1>2. ASSUME NEW tracker, NEW from, NEW to \in RunStates,
               MarkStep(r, tracker, from, to), labels' \subseteq Labels
        PROVE  TypeOK'
    BY <1>2 DEF MarkStep, Goto, issue, leases, handed
  <1>3. ASSUME NEW s \in Progress, MoveTo(s)
        PROVE  labels' \subseteq Labels
    BY <1>3 DEF MoveTo, Labels
  <1>4. CASE GithubAddLabels(r)
    BY <1>4, <1>2 DEF GithubAddLabels, RunStates, Labels, Progress
  <1>5. CASE GithubRemoveReady(r)
    BY <1>5, <1>2 DEF GithubRemoveReady, RunStates
  <1>6. CASE GithubPostStart(r)
    BY <1>6, <1>2 DEF GithubPostStart, RunStates
  <1>7. CASE LinearPostStart(r)
    BY <1>7, <1>2 DEF LinearPostStart, RunStates
  <1>8. CASE LinearSetState(r)
    BY <1>8, <1>2, <1>3 DEF LinearSetState, RunStates, Progress
  <1>9. CASE SaveRecord(r)
    BY <1>9 DEF SaveRecord, Goto, RunStates, issue, leases, handed
  <1>10. QED
    BY <1>1, <1>4, <1>5, <1>6, <1>7, <1>8, <1>9 DEF Mark

\* A handoff, and its failure.
LEMMA TypeHandOff ==
  ASSUME TypeOK, NEW r \in Runs, HandOff(r) \/ FailHandoff(r)
  PROVE  TypeOK'
  <1> USE DEF TypeOK
  <1>1. CASE FailHandoff(r)
    <2>1. failures' \in 0 .. MaxFailures
      BY <1>1, TrackerAssumption DEF FailHandoff, Fails, TrackerAssumption
    <2>2. QED
      BY <1>1, <2>1 DEF FailHandoff, HandStates, issue, leases
  <1>2. ASSUME NEW tracker, NEW from, NEW to \in HandStates,
               HandRelabel(r, tracker, from, to),
               labels' \subseteq Labels, open' \in BOOLEAN
        PROVE  TypeOK'
    BY <1>2 DEF HandRelabel, HandStep, leases
  <1>3. ASSUME NEW s \in Progress, MoveTo(s)
        PROVE  labels' \subseteq Labels
    BY <1>3 DEF MoveTo, Labels
  <1>4. ASSUME NEW done \in BOOLEAN, HandComment(r, done)
        PROVE  TypeOK'
    <2>1. handoffs' \in 0 .. MaxHandoffs
      BY <1>4, TrackerAssumption DEF HandComment, TrackerAssumption
    <2>2. QED
      BY <1>4, <2>1 DEF HandComment, HandStep, HandStates, issue, leases
  <1>5. CASE GithubUnmark(r)
    BY <1>5, <1>2 DEF GithubUnmark, HandStates
  <1>6. CASE GithubReview(r)
    BY <1>6, <1>2 DEF GithubReview, HandStates, Labels, Progress
  <1>7. CASE GithubUnreview(r)
    BY <1>7, <1>2 DEF GithubUnreview, HandStates
  <1>8. CASE GithubAddDone(r)
    BY <1>8, <1>2 DEF GithubAddDone, HandStates, Labels, Progress
  <1>9. CASE GithubClose(r)
    BY <1>9, <1>2 DEF GithubClose, HandStates
  <1>10. CASE LinearHandState(r)
    <2>1. labels' \subseteq Labels
      BY <1>10, <1>3 DEF LinearHandState, Progress
    <2>2. QED
      BY <1>10, <2>1, <1>2 DEF LinearHandState, HandStates
  <1>11. CASE SaveHandoff(r)
    BY <1>11 DEF SaveHandoff, HandStep, HandStates, issue, leases
  <1>12. QED
    BY <1>1, <1>4, <1>5, <1>6, <1>7, <1>8, <1>9, <1>10, <1>11 DEF HandOff

\* No request, failure or tick leaves the types.
LEMMA TypeNext == TypeOK /\ [Next]_vars => TypeOK'
  <1> SUFFICES ASSUME TypeOK, [Next]_vars
               PROVE  TypeOK'
    OBVIOUS
  <1>1. CASE UNCHANGED vars
    BY <1>1 DEF vars, issue, leases, handed, TypeOK
  <1>2. CASE Tick
    BY <1>2, TrackerAssumption
    DEF Tick, TypeOK, TrackerAssumption, issue, leases, handed
  <1>3. ASSUME NEW r \in Runs, Claim(r) \/ Mark(r) \/ HandOff(r) \/ Failure(r)
        PROVE  TypeOK'
    BY <1>3, TypeClaim, TypeMark, TypeHandOff DEF Failure
  <1>4. QED
    BY <1>1, <1>2, <1>3 DEF Next

\* The variables stay in their types and the bounded counters in their bounds;
\* a tracker never hands out an id beyond one per run.
THEOREM TypeCorrect == Spec => []TypeOK
  <1>1. QED BY TypeInit, TypeNext, PTL DEF Spec

-----------------------------------------------------------------------------
(* The order of the leases.                                                *)

\* Posted leases are in one order: of any two one precedes the other.
LEMMA PrecedesIsTotal ==
  ASSUME TypeOK, Order, NEW p \in posted, NEW q \in posted, p # q
  PROVE  Precedes(p, q) \/ Precedes(q, p)
  <1>1. id[p] # id[q]
    BY DEF Order
  <1>2. /\ id[p] \in FirstId .. FirstId + Cardinality(Runs)
        /\ id[q] \in FirstId .. FirstId + Cardinality(Runs)
        /\ createdAt[p] \in Nat /\ createdAt[q] \in Nat
    BY DEF TypeOK
  <1>3. (IdLess(id[p], id[q]) <=> id[p] < id[q])
        /\ (IdLess(id[q], id[p]) <=> id[q] < id[p])
    BY <1>2, IdsCompareAsNumbers DEF IdsCompareAsNumbers
  <1>4. id[p] < id[q] \/ id[q] < id[p]
    BY <1>1, <1>2, TrackerAssumption, PostedIsFinite DEF TrackerAssumption
  <1>5. QED
    BY <1>2, <1>3, <1>4 DEF Precedes

\* A new lease comes last, and the order of the others stays as it was.
LEMMA CreateLeaseOrder ==
  ASSUME TypeOK, TypeOK', Order, NEW r \in Runs \ posted, CreateLease(r)
  PROVE  /\ Order'
         /\ \A q \in posted : ~ Precedes(r, q)'
         /\ \A p, q \in posted : Precedes(p, q)' <=> Precedes(p, q)
         /\ ~ Precedes(r, r)'
  <1> DEFINE new == FirstId + Cardinality(posted)
  <1>1. /\ posted \subseteq Runs
        /\ now \in Nat
        /\ createdAt \in [Runs -> Nat]
        /\ id \in [Runs -> FirstId .. FirstId + Cardinality(Runs)]
        /\ Cardinality(Runs) \in Nat /\ Cardinality(posted) \in Nat
        /\ Cardinality(posted) <= Cardinality(Runs)
        /\ FirstId \in Nat
    BY PostedIsFinite, TrackerAssumption DEF TypeOK, TrackerAssumption
  <1>2. new \in FirstId .. FirstId + Cardinality(Runs) /\ new \in Nat
    BY <1>1
  <1>3. /\ createdAt'[r] = now /\ id'[r] = new
        /\ \A q \in posted : createdAt'[q] = createdAt[q] /\ id'[q] = id[q]
        /\ posted' = posted \cup {r} /\ now' = now
    BY <1>1 DEF CreateLease
  <1>4. Cardinality(posted') = Cardinality(posted) + 1
    BY <1>3, PostedIsFinite
  <1>5. \A q \in posted : createdAt[q] <= now /\ id[q] < new /\ id[q] \in Nat
    BY <1>1 DEF Order
  <1>6. Order'
    <2> HIDE DEF new
    <2>1. ASSUME NEW q \in posted'
          PROVE  createdAt'[q] <= now' /\ id'[q] < FirstId + Cardinality(posted')
      <3>1. new < FirstId + Cardinality(posted')
        BY <1>1, <1>4 DEF new
      <3>2. CASE q = r
        BY <3>1, <3>2, <1>1, <1>3
      <3>3. CASE q \in posted
        BY <3>1, <3>3, <1>1, <1>2, <1>3, <1>4, <1>5
      <3>4. QED BY <3>2, <3>3, <1>3
    <2>2. ASSUME NEW p \in posted', NEW q \in posted', id'[p] = id'[q]
          PROVE  p = q
      BY <2>2, <1>2, <1>3, <1>5 DEF Order
    <2>3. QED BY <2>1, <2>2 DEF Order
  <1>7. \A q \in posted : ~ IdLess(new, id[q])
    BY <1>1, <1>2, <1>5, IdsCompareAsNumbers DEF IdsCompareAsNumbers
  <1>8. ~ IdLess(new, new)
    BY <1>2, IdsCompareAsNumbers DEF IdsCompareAsNumbers
  <1>9. ASSUME NEW q \in posted
        PROVE  ~ Precedes(r, q)'
    <2> HIDE DEF new
    <2>1. QED BY <1>1, <1>3, <1>5, <1>7 DEF Precedes
  <1>10. ~ Precedes(r, r)'
    <2> HIDE DEF new
    <2>1. QED BY <1>1, <1>3, <1>8 DEF Precedes
  <1>11. \A p, q \in posted : Precedes(p, q)' <=> Precedes(p, q)
    BY <1>3 DEF Precedes
  <1>12. QED BY <1>6, <1>9, <1>10, <1>11

\* Without leases their invariant holds.
LEMMA LeaseInit == Init => LeaseInv
  BY TrackerAssumption, FS_EmptySet
  DEF Init, LeaseInv, Order, Stage, Fetched, First, Claiming, Won, Marked,
      TrackerAssumption

\* A run that moves on without touching the leases or the clock.
LEMMA LeaseMove ==
  ASSUME TypeOK, TypeOK', LeaseInv, NEW r \in Runs, NEW s,
         at' = [at EXCEPT ![r] = s],
         \A q \in Runs : q # r => began'[q] = began[q] /\ seen'[q] = seen[q],
         UNCHANGED <<now, leases>>,
         Stage(r)', Fetched(r)', First(r)'
  PROVE  LeaseInv'
  <1>1. Order'
    BY DEF LeaseInv, Order, leases
  <1>2. ASSUME NEW q \in Runs, q # r
        PROVE  Stage(q)' /\ Fetched(q)' /\ First(q)'
    <2>1. at'[q] = at[q]
      BY <1>2 DEF TypeOK
    <2>2. Stage(q) /\ Fetched(q) /\ First(q)
      BY DEF LeaseInv
    <2>3. QED
      BY <2>1, <2>2, <1>2
      DEF Stage, Fetched, First, Precedes, Active, leases
  <1>3. QED BY <1>1, <1>2 DEF LeaseInv

\* No lease precedes one that precedes it, nor itself.
LEMMA PrecedesIsStrict ==
  ASSUME TypeOK, NEW p \in Runs, NEW q \in Runs, Precedes(p, q)
  PROVE  ~ Precedes(q, p)
  <1>1. /\ id[p] \in FirstId .. FirstId + Cardinality(Runs)
        /\ id[q] \in FirstId .. FirstId + Cardinality(Runs)
        /\ createdAt[p] \in Nat /\ createdAt[q] \in Nat
    BY DEF TypeOK
  <1>2. (IdLess(id[p], id[q]) <=> id[p] < id[q])
        /\ (IdLess(id[q], id[p]) <=> id[q] < id[p])
    BY <1>1, IdsCompareAsNumbers DEF IdsCompareAsNumbers
  <1>3. QED
    BY <1>1, <1>2, TrackerAssumption, PostedIsFinite
    DEF Precedes, TrackerAssumption

\* A run that judges its list wins only when nothing active precedes it.
LEMMA LeaseDecide ==
  ASSUME TypeOK, TypeOK', LeaseInv, NEW r \in Runs, Decide(r)
  PROVE  LeaseInv'
  <1> DEFINE wins == EarliestActive(r, seen[r])
             s == CASE ~ wins                  -> "lost"
                    [] wins /\ r \in Starters -> "won"
                    [] OTHER                   -> "claimed"
  <1>1. /\ at[r] = "listed"
        /\ at' = [at EXCEPT ![r] = s]
        /\ seen' = [seen EXCEPT ![r] = {}]
        /\ UNCHANGED <<now, issue, began, leases>>
    BY DEF Decide, Judge, Goto
  <1>2. at'[r] = s /\ s \in {"lost", "won", "claimed"}
    BY <1>1 DEF TypeOK
  <1>3. Stage(r) /\ Fetched(r)
    BY DEF LeaseInv
  <1>4. Stage(r)'
    BY <1>1, <1>2, <1>3 DEF Stage, Claiming, Won, Marked, leases
  <1>5. Fetched(r)'
    BY <1>2 DEF Fetched
  <1>6. First(r)'
    <2>1. CASE ~ wins
      <3>1. at'[r] = "lost" BY <1>2, <2>1
      <3>2. QED BY <3>1 DEF First, Won, Marked
    <2>2. CASE wins
      <3>1. SUFFICES ASSUME NEW q \in posted, Precedes(q, r)
                     PROVE  ~ Active(q)
        BY <1>1 DEF First, Precedes, Active, leases
      <3>2. q \in seen[r]
        BY <1>1, <1>3, <3>1 DEF Fetched
      <3>3. q \in Runs /\ ~ Precedes(r, q) /\ q # r
        BY <3>1, PrecedesIsStrict DEF TypeOK
      <3>4. QED
        BY <2>2, <3>2, <3>3 DEF EarliestActive
    <2>3. QED BY <2>1, <2>2
  <1>7. QED
    <2> HIDE DEF s
    <2>1. \A q \in Runs : q # r => began'[q] = began[q] /\ seen'[q] = seen[q]
      BY <1>1 DEF TypeOK
    <2>2. QED BY <1>1, <1>4, <1>5, <1>6, <2>1, LeaseMove

\* A lease is posted: it comes after every other, so no winner minds it.
LEMMA LeaseCreate ==
  ASSUME TypeOK, TypeOK', LeaseInv, NEW r \in Runs, CreateLease(r),
         NEW s \in {"posted", "failed"}, Goto(r, s)
  PROVE  LeaseInv'
  <1>1. r \notin posted /\ Stage(r) /\ Order
    BY DEF LeaseInv, CreateLease, Stage
  <1>2. /\ Order'
        /\ \A q \in posted : ~ Precedes(r, q)'
        /\ \A p, q \in posted : Precedes(p, q)' <=> Precedes(p, q)
        /\ posted' = posted \cup {r}
    BY <1>1, CreateLeaseOrder DEF CreateLease
  <1>3. ASSUME NEW q \in Runs, q # r
        PROVE  Stage(q)' /\ Fetched(q)' /\ First(q)'
    <2>1. at'[q] = at[q] /\ Stage(q) /\ Fetched(q) /\ First(q)
      BY <1>3 DEF Goto, LeaseInv, TypeOK
    <2>2. UNCHANGED <<now, began, expiresAt, seen>>
      BY DEF CreateLease
    <2>3. Stage(q)'
      BY <1>2, <1>3, <2>1, <2>2 DEF Stage
    <2>4. ASSUME at[q] \in {"listed"} \cup Won
          PROVE  q \in posted
      BY <2>1, <2>4 DEF Stage
    <2>5. Fetched(q)'
      BY <1>2, <2>1, <2>2, <2>4 DEF Fetched
    <2>6. First(q)'
      BY <1>2, <2>1, <2>2, <2>4 DEF First, Active
    <2>7. QED BY <2>3, <2>5, <2>6
  <1>4. at[r] = "composed" /\ at'[r] = s /\ UNCHANGED <<now, began, expiresAt>>
    BY DEF CreateLease, Goto, TypeOK
  <1>5. Stage(r)' /\ Fetched(r)' /\ First(r)'
    BY <1>1, <1>2, <1>4 DEF Stage, Fetched, First, Claiming, Won, Marked
  <1>6. QED BY <1>2, <1>3, <1>5 DEF LeaseInv

\* A step of a claim keeps the invariant of the leases.
LEMMA LeaseClaim ==
  ASSUME TypeOK, TypeOK', LeaseInv, NEW r \in Runs, Claim(r) \/ LoseAnswer(r)
  PROVE  LeaseInv'
  <1>1. Stage(r) /\ Fetched(r) /\ First(r)
    BY DEF LeaseInv
  <1>2. CASE Import(r) \/ FindReady(r)
    <2>1. PICK s \in {"imported", "refused"} :
            /\ at' = [at EXCEPT ![r] = s]
            /\ at[r] = "idle"
            /\ UNCHANGED <<now, began, leases, seen>>
      BY <1>2 DEF Import, FindReady, Goto
    <2>2. at'[r] = s BY <2>1 DEF TypeOK
    <2>3. Stage(r)' /\ Fetched(r)' /\ First(r)'
      BY <1>1, <2>1, <2>2
      DEF Stage, Fetched, First, Claiming, Won, Marked, leases
    <2>4. QED BY <2>1, <2>3, LeaseMove
  <1>3. CASE ReadIssue(r)
    <2>1. PICK s \in {"read", "refused"} :
            /\ at' = [at EXCEPT ![r] = s]
            /\ at[r] = "imported"
            /\ s = "read" => began' = [began EXCEPT ![r] = now]
            /\ s = "refused" => began' = began
            /\ UNCHANGED <<now, leases, seen>>
      BY <1>3 DEF ReadIssue, Goto
    <2>2. at'[r] = s /\ (s = "read" => began'[r] = now)
      BY <2>1 DEF TypeOK
    <2>3. now \in Nat /\ MaxStall \in Nat
      BY TrackerAssumption DEF TypeOK, TrackerAssumption
    <2>4. Stage(r)' /\ Fetched(r)' /\ First(r)'
      BY <1>1, <2>1, <2>2, <2>3
      DEF Stage, Fetched, First, Claiming, Won, Marked, leases
    <2>5. \A q \in Runs : q # r => began'[q] = began[q] /\ seen'[q] = seen[q]
      BY <2>1 DEF TypeOK
    <2>6. QED BY <2>1, <2>4, <2>5, LeaseMove
  <1>4. CASE Compose(r)
    <2>1. /\ at[r] = "read" /\ at'[r] = "composed"
          /\ expiresAt'[r] = now + TTL
          /\ \A q \in Runs : q # r =>
               at'[q] = at[q] /\ expiresAt'[q] = expiresAt[q]
          /\ UNCHANGED <<now, began, posted, createdAt, id, seen>>
      BY <1>4 DEF Compose, Goto, TypeOK
    <2>2. r \notin posted /\ posted \subseteq Runs
      BY <1>1, <2>1 DEF Stage, TypeOK
    <2>3. now \in Nat /\ began[r] \in Nat /\ TTL \in Nat
      BY TrackerAssumption DEF TypeOK, TrackerAssumption
    <2>4. Order'
      BY <2>1 DEF LeaseInv, Order
    <2>5. Stage(r)' /\ Fetched(r)' /\ First(r)'
      BY <1>1, <2>1, <2>2, <2>3
      DEF Stage, Fetched, First, Claiming, Won, Marked
    <2>6. ASSUME NEW q \in Runs, q # r
          PROVE  Stage(q)' /\ Fetched(q)' /\ First(q)'
      <3>1. Stage(q) /\ Fetched(q) /\ First(q)
        BY DEF LeaseInv
      <3>2. QED
        BY <2>1, <2>2, <2>6, <3>1 DEF Stage, Fetched, First, Precedes, Active
    <2>7. QED BY <2>4, <2>5, <2>6 DEF LeaseInv
  <1>5. CASE PostLease(r)
    BY <1>5, LeaseCreate DEF PostLease
  <1>6. CASE LoseAnswer(r)
    BY <1>6, LeaseCreate DEF LoseAnswer
  <1>7. CASE ListComments(r)
    <2>1. /\ at' = [at EXCEPT ![r] = "listed"]
          /\ at[r] = "posted" /\ at'[r] = "listed"
          /\ seen'[r] = posted
          /\ \A q \in Runs : q # r => seen'[q] = seen[q]
          /\ UNCHANGED <<now, began, leases>>
      BY <1>7 DEF ListComments, Goto, TypeOK
    <2>2. Stage(r)' /\ Fetched(r)' /\ First(r)'
      BY <1>1, <2>1 DEF Stage, Fetched, First, Claiming, Won, Marked, leases
    <2>3. QED BY <2>1, <2>2, LeaseMove
  <1>8. CASE Decide(r)
    BY <1>8, LeaseDecide
  <1>9. QED
    BY <1>2, <1>3, <1>4, <1>5, <1>6, <1>7, <1>8 DEF Claim

\* A run that fails, or marks the issue, keeps its lease and its place.
LEMMA LeaseMark ==
  ASSUME TypeOK, TypeOK', LeaseInv, NEW r \in Runs, Mark(r) \/ FailRun(r)
  PROVE  LeaseInv'
  <1>1. Stage(r) /\ Fetched(r) /\ First(r)
    BY DEF LeaseInv
  <1>2. ASSUME NEW s, at[r] \in Won, s \in Won,
               s \in Claiming => at[r] \in Claiming,
               at' = [at EXCEPT ![r] = s],
               UNCHANGED <<now, began, leases, seen>>
        PROVE  LeaseInv'
    <2>1. at'[r] = s BY <1>2 DEF TypeOK
    <2>2. Stage(r)' /\ Fetched(r)' /\ First(r)'
      BY <1>1, <1>2, <2>1
      DEF Stage, Fetched, First, Precedes, Active, Claiming, Won, Marked, leases
    <2>3. QED BY <1>2, <2>2, LeaseMove
  <1>3. CASE Mark(r)
    <2>1. PICK s \in {"announced", "labelled", "unready", "commented", "started"} :
            /\ at' = [at EXCEPT ![r] = s]
            /\ at[r] \in {"won", "announced", "labelled", "unready", "commented"}
            /\ s = "announced" => at[r] = "won"
            /\ UNCHANGED <<now, began, leases, seen>>
      BY <1>3
      DEF Mark, GithubAddLabels, GithubRemoveReady, GithubPostStart,
          LinearPostStart, LinearSetState, SaveRecord, MarkStep, Goto
    <2>2. QED BY <1>2, <2>1 DEF Won, Claiming, Marked
  <1>4. CASE FailRun(r)
    <2>1. /\ UNCHANGED <<now, began, leases, seen>>
          /\ at[r] \in Marked => at' = [at EXCEPT ![r] = "stranded"]
          /\ at[r] \in {"won", "announced"} =>
               at' = [at EXCEPT ![r] = "abandoned"]
          /\ at[r] \notin Marked \cup {"won", "announced"} =>
               at' = [at EXCEPT ![r] = "failed"]
      BY <1>4 DEF FailRun, Goto, Marked
    <2>2. CASE at[r] \in Marked \cup {"won", "announced"}
      BY <1>2, <2>1, <2>2 DEF Won, Claiming, Marked
    <2>3. CASE at[r] \notin Marked \cup {"won", "announced"}
      <3>1. at' = [at EXCEPT ![r] = "failed"] /\ at'[r] = "failed"
        BY <2>1, <2>3 DEF TypeOK
      <3>2. Stage(r)' /\ Fetched(r)' /\ First(r)'
        BY <3>1 DEF Stage, Fetched, First, Claiming, Won, Marked
      <3>3. QED BY <2>1, <3>1, <3>2, LeaseMove
    <2>4. QED BY <2>2, <2>3
  <1>5. QED BY <1>3, <1>4

\* Every step keeps the invariant of the leases.
LEMMA LeaseNext == TypeOK /\ TypeOK' /\ LeaseInv /\ [Next]_vars => LeaseInv'
  <1> SUFFICES ASSUME TypeOK, TypeOK', LeaseInv, [Next]_vars
               PROVE  LeaseInv'
    OBVIOUS
  <1>1. ASSUME UNCHANGED <<now, at, began, leases, seen>>
        PROVE  LeaseInv'
    BY <1>1
    DEF LeaseInv, Order, Stage, Fetched, First, Precedes, Active, leases
  <1>2. CASE Tick
    <2>1. /\ now' = now + 1 /\ now \in Nat
          /\ UNCHANGED <<at, began, leases, seen>>
          /\ \A r \in Runs : at[r] \in Claiming => now - began[r] < MaxStall
      BY <1>2 DEF Tick, TypeOK
    <2>2. Order'
      BY <2>1 DEF LeaseInv, Order, leases, TypeOK
    <2>3. ASSUME NEW r \in Runs
          PROVE  Stage(r)' /\ Fetched(r)' /\ First(r)'
      <3>1. Stage(r) /\ Fetched(r) /\ First(r)
        BY DEF LeaseInv
      <3>2. Stage(r)'
        BY <2>1, <3>1, TrackerAssumption
        DEF Stage, leases, TypeOK, TrackerAssumption
      <3>3. Fetched(r)'
        BY <2>1, <3>1 DEF Fetched, Precedes, leases
      <3>4. First(r)'
        BY <2>1, <3>1 DEF First, Precedes, Active, leases, TypeOK
      <3>5. QED BY <3>2, <3>3, <3>4
    <2>4. QED BY <2>2, <2>3 DEF LeaseInv
  <1>3. ASSUME NEW r \in Runs, HandOff(r) \/ FailHandoff(r)
        PROVE  UNCHANGED <<now, at, began, leases, seen>>
    BY <1>3
    DEF HandOff, FailHandoff, HandComment, GithubUnmark, GithubReview,
        GithubUnreview, GithubAddDone, GithubClose, LinearHandState,
        SaveHandoff, HandRelabel, HandStep
  <1>4. CASE UNCHANGED vars
    BY <1>1, <1>4 DEF vars
  <1>5. QED
    BY <1>1, <1>2, <1>3, <1>4, LeaseClaim, LeaseMark DEF Next, Failure

\* The leases are ordered as they were posted, who lists the comments sees
\* every earlier lease, and the leases before a winner's have expired.
THEOREM LeaseInvariant == Spec => [](TypeOK /\ LeaseInv)
  <1>1. Init => TypeOK /\ LeaseInv
    BY TypeInit, LeaseInit
  <1>2. TypeOK /\ LeaseInv /\ [Next]_vars => (TypeOK /\ LeaseInv)'
    BY TypeNext, LeaseNext
  <1>3. QED BY <1>1, <1>2, PTL DEF Spec

\* Of two winners one precedes the other, and the lease of the first has
\* expired: at no time do two runs hold the issue.
THEOREM HolderIsUnique == Spec => []OneHolder
  <1>1. ASSUME TypeOK, LeaseInv
        PROVE  OneHolder
    <2>1. SUFFICES ASSUME NEW p \in Runs, NEW q \in Runs,
                          at[p] \in Won, at[q] \in Won,
                          Active(p), Active(q), p # q
                   PROVE  FALSE
      BY DEF OneHolder
    <2>2. p \in posted /\ q \in posted /\ Order /\ First(p) /\ First(q)
      BY <1>1, <2>1 DEF LeaseInv, Stage
    <2>3. Precedes(p, q) \/ Precedes(q, p)
      BY <1>1, <2>1, <2>2, PrecedesIsTotal
    <2>4. QED BY <2>1, <2>2, <2>3 DEF First
  <1>2. TypeOK /\ LeaseInv => OneHolder
    BY <1>1
  <1>3. QED BY <1>2, LeaseInvariant, PTL

-----------------------------------------------------------------------------
(* One start.                                                              *)

\* Before any claim nobody works on the issue.
LEMMA StartInit == Init => StartInv
  BY DEF Init, StartInv, Covered, Marked, Working

\* A run that moves on without beginning, working or marking anew.
LEMMA StartMove ==
  ASSUME TypeOK, StartInv, NEW r \in Runs, NEW s,
         at' = [at EXCEPT ![r] = s],
         s \in Marked => at[r] \in Marked,
         s \in Claiming => at[r] \in Claiming,
         s \in Working => at[r] \in Working,
         began' = began,
         \A p \in Runs : at'[p] \in Marked => expiresAt'[p] = expiresAt[p],
         MarkShows => MarkShows'
  PROVE  StartInv'
  <1>1. \A p \in Runs : /\ at'[p] \in Marked => at[p] \in Marked
                        /\ at'[p] \in Claiming => at[p] \in Claiming
                        /\ at'[p] \in Working => at[p] \in Working
    BY DEF TypeOK
  <1>2. QED
    BY <1>1 DEF StartInv, Covered

\* Who works on the issue has an active lease while another decides.
LEMMA WorkerIsActive ==
  ASSUME StartsInTime, TypeOK, LeaseInv, StartInv,
         NEW p \in Runs, NEW r \in Runs,
         at[p] \in Working, at[r] \in Claiming
  PROVE  Active(p)
  <1>1. /\ now \in Nat /\ MaxStall \in Nat /\ TTL \in Nat
        /\ began[p] \in Nat /\ began[r] \in Nat
        /\ expiresAt[p] \in Nat
        /\ 2 * MaxStall < TTL
    BY TrackerAssumption DEF TypeOK, TrackerAssumption, StartsInTime
  <1>2. Stage(p) /\ Stage(r) /\ Covered(p, r)
    BY DEF LeaseInv, StartInv
  <1>3. CASE at[p] \in Marked
    BY <1>1, <1>2, <1>3 DEF Covered, Stage, Active
  <1>4. CASE at[p] \in {"won", "announced"}
    BY <1>1, <1>2, <1>4 DEF Stage, Active, Claiming, Won
  <1>5. QED BY <1>3, <1>4 DEF Working

\* A run that wins while another works on the issue would have to have read it
\* before the other marked it, and then it decides before that lease expires.
LEMMA StartDecide ==
  ASSUME StartsInTime, TypeOK, LeaseInv, StartInv, NEW r \in Runs, Decide(r)
  PROVE  StartInv'
  <1>1. /\ at[r] = "listed"
        /\ UNCHANGED <<issue, began, leases>>
        /\ \A q \in Runs : q # r => at'[q] = at[q]
    BY DEF Decide, Judge, Goto, TypeOK
  <1>2. CASE ~ EarliestActive(r, seen[r])
    <2>1. at' = [at EXCEPT ![r] = "lost"]
      BY <1>2 DEF Decide, Judge, Goto
    <2>2. QED
      BY <1>1, <2>1, StartMove
      DEF Claiming, Marked, Working, MarkShows, issue, leases
  <1>3. CASE EarliestActive(r, seen[r])
    <2>1. ASSUME NEW p \in Runs, p # r, at[p] \in Working
          PROVE  FALSE
      <3>1. Active(p)
        BY <1>1, <2>1, WorkerIsActive DEF Claiming
      <3>2. p \in posted /\ r \in posted /\ Order /\ First(p) /\ Fetched(r)
        BY <1>1, <2>1 DEF LeaseInv, Stage, Working, Won
      <3>3. ~ Precedes(r, p)
        BY <1>3, <2>1, <3>2 DEF First, EarliestActive, Working, Won
      <3>4. Precedes(p, r)
        BY <2>1, <3>2, <3>3, PrecedesIsTotal
      <3>5. p \in seen[r]
        BY <1>1, <3>2, <3>4 DEF Fetched
      <3>6. QED BY <1>3, <2>1, <3>1, <3>3, <3>5 DEF EarliestActive
    <2>2. at'[r] \in {"won", "claimed"}
      BY <1>3 DEF Decide, Judge, Goto, TypeOK
    <2>3. \A p \in Runs : /\ at'[p] \in Marked => FALSE
                          /\ at'[p] \in Working => p = r
      BY <1>1, <2>1, <2>2 DEF Marked, Working
    <2>4. QED BY <2>3 DEF StartInv, Covered
  <1>4. QED BY <1>2, <1>3

\* A step of a claim lets no second run work on the issue.
LEMMA StartClaim ==
  ASSUME StartsInTime, TypeOK, LeaseInv, StartInv, NEW r \in Runs,
         Claim(r) \/ LoseAnswer(r)
  PROVE  StartInv'
  <1>1. CASE ReadIssue(r)
    <2>1. CASE Ready \in labels /\ labels \cap Progress = {}
      <3>1. ~ MarkShows
        BY <2>1 DEF MarkShows, Progress
      <3>2. \A p \in Runs : at[p] \notin Marked
        BY <3>1 DEF StartInv
      <3>3. /\ at' = [at EXCEPT ![r] = "read"]
            /\ at'[r] = "read" /\ \A q \in Runs : q # r => at'[q] = at[q]
        BY <1>1, <2>1 DEF ReadIssue, Goto, TypeOK
      <3>4. \A p \in Runs : /\ at'[p] \notin Marked
                            /\ at'[p] \in Working => at[p] \in Working
        BY <3>2, <3>3 DEF Marked, Working
      <3>5. QED BY <3>4 DEF StartInv, Covered
    <2>2. CASE ~ (Ready \in labels /\ labels \cap Progress = {})
      <3>1. /\ at' = [at EXCEPT ![r] = "refused"]
            /\ UNCHANGED <<issue, began, leases>>
        BY <1>1, <2>2 DEF ReadIssue, Goto
      <3>2. QED
        BY <3>1, StartMove
        DEF Claiming, Marked, Working, MarkShows, issue, leases
    <2>3. QED BY <2>1, <2>2
  <1>2. CASE Decide(r)
    BY <1>2, StartDecide
  <1>3. CASE \/ Import(r) \/ FindReady(r) \/ Compose(r)
             \/ PostLease(r) \/ ListComments(r) \/ LoseAnswer(r)
    <2>1. PICK s \in {"imported", "refused", "composed", "posted", "listed",
                      "failed"} :
            /\ at' = [at EXCEPT ![r] = s]
            /\ s \in Claiming => at[r] \in Claiming
            /\ UNCHANGED <<issue, began>>
            /\ expiresAt' = expiresAt \/ at'[r] = "composed"
            /\ \A q \in Runs : q # r => expiresAt'[q] = expiresAt[q]
      BY <1>3
      DEF Import, FindReady, Compose, PostLease, ListComments, LoseAnswer,
          CreateLease, Goto, Claiming, leases, TypeOK
    <2>2. \A p \in Runs : at'[p] \in Marked => expiresAt'[p] = expiresAt[p]
      BY <2>1 DEF Marked
    <2>3. MarkShows => MarkShows'
      BY <2>1 DEF MarkShows, issue
    <2>4. s \notin Marked /\ s \notin Working
      BY <2>1 DEF Marked, Working
    <2>5. QED BY <2>1, <2>2, <2>3, <2>4, StartMove
  <1>4. QED BY <1>1, <1>2, <1>3 DEF Claim

\* The one run that works marks the issue while every run that has read it
\* unmarked is bound to decide before the lease of the first expires.
LEMMA StartMarks ==
  ASSUME StartsInTime, TypeOK, LeaseInv, StartInv, NEW r \in Runs,
         GithubAddLabels(r) \/ LinearSetState(r)
  PROVE  StartInv'
  <1>1. /\ at[r] \in {"won", "announced"}
        /\ at' = [at EXCEPT ![r] = "labelled"] /\ at'[r] = "labelled"
        /\ \A q \in Runs : q # r => at'[q] = at[q]
        /\ UNCHANGED <<began, expiresAt>>
    BY DEF GithubAddLabels, LinearSetState, MarkStep, Goto, leases, TypeOK
  <1>2. MarkShows'
    <2>1. CASE GithubAddLabels(r)
      BY <2>1 DEF GithubAddLabels, MarkStep, MarkShows
    <2>2. CASE LinearSetState(r)
      <3>1. InProgress \in labels'
        BY <2>2
        DEF LinearSetState, MarkStep, MoveTo, StartsInTime
      <3>2. QED
        BY <2>2, <3>1
        DEF LinearSetState, MarkStep, MarkShows, Progress, Claimed, InProgress
    <2>3. QED BY <2>1, <2>2
  <1>3. \A p \in Runs : at[p] \in Working => p = r
    BY <1>1 DEF StartInv, Working
  <1>4. \A p \in Runs : at'[p] \in Marked \cup Working => p = r
    BY <1>1, <1>3 DEF Working
  <1>5. ASSUME NEW q \in Runs, at'[q] \in Claiming
        PROVE  began'[q] + MaxStall < expiresAt'[r]
    <2>1. at[q] \in Claiming
      BY <1>1, <1>5 DEF Claiming
    <2>2. Stage(q) /\ Stage(r)
      BY DEF LeaseInv
    <2>3. began[q] <= now /\ now <= began[r] + MaxStall
          /\ began[r] + TTL <= expiresAt[r]
      BY <1>1, <2>1, <2>2 DEF Stage, Claiming, Won
    <2>4. /\ now \in Nat /\ MaxStall \in Nat /\ TTL \in Nat
          /\ began[q] \in Nat /\ began[r] \in Nat /\ expiresAt[r] \in Nat
          /\ 2 * MaxStall < TTL
      BY TrackerAssumption DEF TypeOK, TrackerAssumption, StartsInTime
    <2>5. QED BY <1>1, <2>3, <2>4
  <1>6. QED
    BY <1>2, <1>4, <1>5 DEF StartInv, Covered

\* A step of mark_started, or a run's failure, lets no second run work on it.
LEMMA StartMark ==
  ASSUME StartsInTime, TypeOK, LeaseInv, StartInv, NEW r \in Runs,
         Mark(r) \/ FailRun(r)
  PROVE  StartInv'
  <1>1. CASE GithubAddLabels(r) \/ LinearSetState(r)
    BY <1>1, StartMarks
  <1>2. CASE \/ GithubRemoveReady(r) \/ GithubPostStart(r) \/ LinearPostStart(r)
             \/ SaveRecord(r)
    <2>1. PICK s \in {"announced", "unready", "commented", "started"} :
            /\ at' = [at EXCEPT ![r] = s]
            /\ s = "announced" => at[r] = "won"
            /\ s # "announced" => at[r] \in Marked
            /\ UNCHANGED <<began, leases>>
            /\ labels' \in {labels, labels \ {Ready}}
      BY <1>2
      DEF GithubRemoveReady, GithubPostStart, LinearPostStart, SaveRecord,
          MarkStep, Goto, Marked, issue
    <2>2. MarkShows => MarkShows'
      BY <2>1
      DEF MarkShows, Progress, Ready, Claimed, InProgress, InReview, Done
    <2>3. /\ s \in Marked => at[r] \in Marked
          /\ s \in Claiming => at[r] \in Claiming
          /\ s \in Working => at[r] \in Working
      BY <2>1 DEF Marked, Claiming, Working
    <2>4. QED BY <2>1, <2>2, <2>3, StartMove DEF leases
  <1>3. CASE FailRun(r)
    <2>1. /\ UNCHANGED <<issue, began, leases>>
          /\ \/ at[r] \in Marked /\ at' = [at EXCEPT ![r] = "stranded"]
             \/ at' = [at EXCEPT ![r] = "abandoned"]
             \/ at' = [at EXCEPT ![r] = "failed"]
      <3>1. /\ UNCHANGED <<issue, began, leases>>
            /\ at[r] \in Marked => at' = [at EXCEPT ![r] = "stranded"]
            /\ at[r] \in {"won", "announced"} =>
                 at' = [at EXCEPT ![r] = "abandoned"]
            /\ at[r] \notin Marked \cup {"won", "announced"} =>
                 at' = [at EXCEPT ![r] = "failed"]
        BY <1>3 DEF FailRun, Goto, Marked
      <3>2. QED BY <3>1
    <2>2. /\ MarkShows => MarkShows'
          /\ \A p \in Runs : expiresAt'[p] = expiresAt[p]
          /\ began' = began
      BY <2>1 DEF MarkShows, issue, leases
    <2>3. CASE at[r] \in Marked /\ at' = [at EXCEPT ![r] = "stranded"]
      BY <2>2, <2>3, StartMove DEF Marked, Claiming, Working
    <2>4. CASE at' = [at EXCEPT ![r] = "abandoned"]
      BY <2>2, <2>4, StartMove DEF Marked, Claiming, Working
    <2>5. CASE at' = [at EXCEPT ![r] = "failed"]
      BY <2>2, <2>5, StartMove DEF Marked, Claiming, Working
    <2>6. QED BY <2>1, <2>3, <2>4, <2>5
  <1>4. QED BY <1>1, <1>2, <1>3 DEF Mark

\* No handoff takes the mark from the issue.
LEMMA StartHandOff ==
  ASSUME TypeOK, StartInv, NEW r \in Runs, HandOff(r) \/ FailHandoff(r)
  PROVE  StartInv'
  <1>1. UNCHANGED <<at, began, leases>>
    BY DEF HandOff, FailHandoff, HandComment, GithubUnmark, GithubReview,
           GithubUnreview, GithubAddDone, GithubClose, LinearHandState,
           SaveHandoff, HandRelabel, HandStep
  <1>2. ASSUME Claimed \in labels, Tracker = "github"
        PROVE  Claimed \in labels'
    BY <1>2
    DEF HandOff, FailHandoff, HandComment, GithubUnmark, GithubReview,
        GithubUnreview, GithubAddDone, GithubClose, LinearHandState,
        SaveHandoff, HandRelabel, HandStep, issue, Claimed, InProgress, InReview
  <1>3. ASSUME labels \cap Progress # {}, Tracker # "github"
        PROVE  labels' \cap Progress # {}
    <2>1. \/ labels' = labels
          \/ \E s \in {Done, InReview} : MoveTo(s)
      BY <1>3
      DEF HandOff, FailHandoff, HandComment, GithubUnmark, GithubReview,
          GithubUnreview, GithubAddDone, GithubClose, LinearHandState,
          SaveHandoff, HandRelabel, issue
    <2>2. QED BY <1>3, <2>1 DEF MoveTo, Progress
  <1>4. MarkShows => MarkShows'
    BY <1>2, <1>3 DEF MarkShows
  <1>5. QED BY <1>1, <1>4 DEF StartInv, Covered, leases

\* Every step keeps the invariant of the start.
LEMMA StartNext ==
  ASSUME StartsInTime
  PROVE  TypeOK /\ LeaseInv /\ StartInv /\ [Next]_vars => StartInv'
  <1> SUFFICES ASSUME TypeOK, LeaseInv, StartInv, [Next]_vars
               PROVE  StartInv'
    OBVIOUS
  <1>1. CASE Tick \/ UNCHANGED vars
    <2>1. UNCHANGED <<issue, at, began, leases>>
      BY <1>1 DEF Tick, vars
    <2>2. QED BY <2>1 DEF StartInv, Covered, MarkShows, issue, leases
  <1>2. QED
    BY <1>1, StartClaim, StartMark, StartHandOff DEF Next, Failure

\* However many runs compete, whichever of them fail and whenever leases
\* expire, one run at most starts work on the issue.
THEOREM StartIsUnique ==
  ASSUME StartsInTime
  PROVE  Spec => []StartedOnce
  <1>1. Init => StartInv
    BY StartInit
  <1>2. TypeOK /\ LeaseInv /\ StartInv /\ [Next]_vars => StartInv'
    BY StartNext
  <1>3. StartInv => StartedOnce
    BY DEF StartInv, StartedOnce, Working
  <1>4. QED BY <1>1, <1>2, <1>3, LeaseInvariant, PTL DEF Spec

-----------------------------------------------------------------------------
(* Handoffs.                                                               *)

\* No step but a handoff's comment adds to the comments, and it marks the run
\* as one that hands off; only a save makes it idle again without a failure.
LEMMA CommentNext ==
  ASSUME TypeOK, [Next]_vars, NEW r \in Runs, CommentInv(r)
  PROVE  CommentInv(r)'
  <1> SUFFICES ASSUME failures' = 0
               PROVE  /\ commented'[r] <= 1
                      /\ hand'[r] = "idle" /\ ~ commentKnown'[r] => commented'[r] = 0
    BY DEF CommentInv
  <1> USE DEF TypeOK
  <1>1. CASE UNCHANGED <<handed, failures>>
    BY <1>1 DEF CommentInv, handed
  <1>2. ASSUME NEW q \in Runs, LoseAnswer(q) \/ FailRun(q) \/ FailHandoff(q)
        PROVE  FALSE
    BY <1>2 DEF LoseAnswer, FailRun, FailHandoff, Fails
  <1>3. ASSUME NEW q \in Runs, Claim(q) \/ Mark(q)
        PROVE  UNCHANGED <<handed, failures>>
    BY <1>3
    DEF Claim, Import, FindReady, ReadIssue, Compose, PostLease, CreateLease,
        ListComments, Decide, Judge, Mark, GithubAddLabels, GithubRemoveReady,
        GithubPostStart, LinearPostStart, LinearSetState, MarkStep, SaveRecord
  <1>4. ASSUME NEW q \in Runs, HandOff(q)
        PROVE  /\ commented'[r] <= 1
               /\ hand'[r] = "idle" /\ ~ commentKnown'[r] => commented'[r] = 0
    <2>1. ASSUME NEW done \in BOOLEAN, HandComment(q, done)
          PROVE  /\ commented'[r] <= 1
                 /\ hand'[r] = "idle" /\ ~ commentKnown'[r] => commented'[r] = 0
      BY <2>1 DEF HandComment, HandStep, CommentInv
    <2>2. CASE SaveHandoff(q)
      BY <2>2 DEF SaveHandoff, HandStep, CommentInv
    <2>3. CASE \/ GithubUnmark(q) \/ GithubReview(q) \/ GithubUnreview(q)
               \/ GithubAddDone(q) \/ GithubClose(q) \/ LinearHandState(q)
      BY <2>3
      DEF GithubUnmark, GithubReview, GithubUnreview, GithubAddDone, GithubClose,
          LinearHandState, HandRelabel, HandStep, CommentInv
    <2>4. QED BY <1>4, <2>1, <2>2, <2>3 DEF HandOff
  <1>5. CASE Tick \/ UNCHANGED vars
    BY <1>1, <1>5 DEF Tick, vars
  <1>6. QED BY <1>1, <1>2, <1>3, <1>4, <1>5 DEF Next, Failure

\* Between handoffs an issue has one handoff comment of a run at most, as long
\* as no handoff failed after it commented, however often the run hands off.
THEOREM CommentIsUnique == Spec => []OneHandoffComment
  <1> DEFINE Inv == \A r \in Runs : CommentInv(r)
  <1>1. Init => Inv
    BY DEF Init, CommentInv
  <1>2. TypeOK /\ Inv /\ [Next]_vars => Inv'
    BY CommentNext
  <1>3. Inv => OneHandoffComment
    BY DEF CommentInv, OneHandoffComment
  <1> HIDE DEF Inv
  <1>4. QED BY <1>1, <1>2, <1>3, TypeCorrect, PTL DEF Spec

\* What the steps of runs do to the issue and to what HandInv speaks of.
LEMMA RunKeepsHands ==
  ASSUME TypeOK, StartInv, NEW q \in Runs, Claim(q) \/ Mark(q) \/ LoseAnswer(q) \/ FailRun(q),
         NEW r \in Runs, HandInv(r)
  PROVE  HandInv(r)'
  <1> USE DEF TypeOK
  <1>1. CASE Claim(q) \/ LoseAnswer(q)
    <2>1. /\ UNCHANGED <<issue, record, hand>>
          /\ at[q] # "started"
          /\ \A p \in Runs : p # q => at'[p] = at[p]
          /\ at'[q] \notin {"unready", "commented", "started"}
      BY <1>1
      DEF Claim, Import, FindReady, ReadIssue, Compose, PostLease, LoseAnswer, CreateLease,
          ListComments, Decide, Judge, Goto, handed
    <2>2. QED BY <2>1 DEF HandInv, issue
  <1>2. CASE FailRun(q)
    <2>1. /\ UNCHANGED <<issue, record, hand>>
          /\ at[q] # "started"
          /\ \A p \in Runs : p # q => at'[p] = at[p]
          /\ at'[q] \notin {"unready", "commented", "started"}
      BY <1>2 DEF FailRun, Goto, handed
    <2>2. QED BY <2>1 DEF HandInv, issue
  <1>3. CASE GithubAddLabels(q)
    <2>1. /\ Tracker = "github" /\ at[q] = "won" /\ at' = [at EXCEPT ![q] = "labelled"]
          /\ labels' = labels \cup {Claimed, InProgress}
          /\ UNCHANGED <<open, record, hand>>
      BY <1>3 DEF GithubAddLabels, MarkStep, Goto, handed
    <2>2. \A p \in Runs : p # q => at[p] \notin Marked
      BY <2>1 DEF StartInv, Working
    <2>3. CASE r = q
      BY <2>1, <2>3 DEF HandInv
    <2>4. CASE r # q
      BY <2>1, <2>2, <2>4 DEF HandInv, Marked
    <2>5. QED BY <2>3, <2>4
  <1>4. CASE GithubRemoveReady(q)
    <2>1. /\ Tracker = "github" /\ at[q] = "labelled" /\ at' = [at EXCEPT ![q] = "unready"]
          /\ labels' = labels \ {Ready}
          /\ UNCHANGED <<open, record, hand>>
      BY <1>4 DEF GithubRemoveReady, MarkStep, Goto, handed
    <2>2. QED BY <2>1 DEF HandInv, Ready, Done
  <1>5. CASE GithubPostStart(q)
    <2>1. /\ Tracker = "github" /\ at[q] = "unready" /\ at' = [at EXCEPT ![q] = "commented"]
          /\ UNCHANGED <<labels, open, record, hand>>
      BY <1>5 DEF GithubPostStart, MarkStep, Goto, handed
    <2>2. QED BY <2>1 DEF HandInv
  <1>6. CASE LinearPostStart(q) \/ LinearSetState(q)
    <2>1. /\ Tracker = "linear" /\ at[q] \in {"won", "announced"}
          /\ \A p \in Runs : p # q => at'[p] = at[p]
          /\ UNCHANGED <<record, hand>>
      BY <1>6 DEF LinearPostStart, LinearSetState, MarkStep, Goto, handed
    <2>2. QED BY <2>1 DEF HandInv
  <1>7. CASE SaveRecord(q)
    <2>1. /\ at[q] \in {"commented", "labelled"} /\ at' = [at EXCEPT ![q] = "started"]
          /\ Tracker = "github" => at[q] = "commented"
          /\ record' = [record EXCEPT ![q] = "started"]
          /\ UNCHANGED <<labels, open, hand>>
      BY <1>7 DEF SaveRecord, Goto, handed, issue
    <2>2. CASE r = q
      BY <2>1, <2>2 DEF HandInv
    <2>3. CASE r # q
      BY <2>1, <2>3 DEF HandInv
    <2>4. QED BY <2>2, <2>3
  <1>8. QED BY <1>1, <1>2, <1>3, <1>4, <1>5, <1>6, <1>7 DEF Mark

\* A handoff relabels the issue in an order in which Done comes before the close.
LEMMA HandKeepsHands ==
  ASSUME TypeOK, NEW q \in Runs, HandOff(q) \/ FailHandoff(q), NEW r \in Runs,
         HandInv(r), HandInv(q)
  PROVE  HandInv(r)'
  <1> USE DEF TypeOK
  <1>1. UNCHANGED at
    BY DEF HandOff, FailHandoff, HandComment, GithubUnmark, GithubReview,
           GithubUnreview, GithubAddDone, GithubClose, LinearHandState,
           SaveHandoff, HandRelabel, HandStep
  <1>2. ASSUME NEW done \in BOOLEAN, HandComment(q, done)
        PROVE  HandInv(r)'
    <2>1. /\ record[q] # "none" /\ hand' = [hand EXCEPT ![q] = "posted"]
          /\ UNCHANGED <<labels, record>>
      BY <1>2 DEF HandComment, HandStep, issue
    <2>2. QED BY <1>1, <2>1 DEF HandInv
  <1>3. CASE SaveHandoff(q)
    <2>1. /\ hand[q] = "saving" /\ hand' = [hand EXCEPT ![q] = "idle"]
          /\ UNCHANGED labels
          /\ \A p \in Runs : p # q => record'[p] = record[p]
      BY <1>3 DEF SaveHandoff, HandStep, issue
    <2>2. QED BY <1>1, <2>1 DEF HandInv
  <1>4. CASE FailHandoff(q)
    <2>1. hand' = [hand EXCEPT ![q] = "idle"] /\ UNCHANGED <<labels, record>>
      BY <1>4 DEF FailHandoff, issue
    <2>2. QED BY <1>1, <2>1 DEF HandInv
  <1>5. CASE LinearHandState(q)
    <2>1. Tracker = "linear" /\ hand[q] = "posted" /\ hand' = [hand EXCEPT ![q] = "saving"]
          /\ UNCHANGED record
      BY <1>5 DEF LinearHandState, HandRelabel, HandStep
    <2>2. QED BY <1>1, <2>1 DEF HandInv
  <1>6. CASE \/ GithubUnmark(q) \/ GithubReview(q) \/ GithubUnreview(q)
             \/ GithubAddDone(q) \/ GithubClose(q)
    <2>1. /\ Tracker = "github" /\ hand[q] # "idle" /\ UNCHANGED record
          /\ \A p \in Runs : p # q => hand'[p] = hand[p]
      BY <1>6
      DEF GithubUnmark, GithubReview, GithubUnreview, GithubAddDone, GithubClose,
          HandRelabel, HandStep
    <2>2. /\ hand'[q] \in {"unmarked", "unreviewed", "labelled", "saving"}
          /\ hand[q] = "posted" => InProgress \notin labels'
          /\ hand'[q] = "labelled" => Done \in labels'
          /\ Done \in labels => Done \in labels'
          /\ Ready \in labels' => Ready \in labels
          /\ InProgress \in labels' => InProgress \in labels
          /\ hand[q] \in {"posted", "unmarked", "unreviewed", "labelled", "saving"}
      BY <1>6
      DEF GithubUnmark, GithubReview, GithubUnreview, GithubAddDone, GithubClose,
          HandRelabel, HandStep, Ready, InProgress, InReview, Done
    <2>3. hand[q] # "posted" => InProgress \notin labels
      BY <1>6, <2>1
      DEF HandInv, GithubUnmark, GithubReview, GithubUnreview, GithubAddDone, GithubClose,
          HandRelabel, HandStep
    <2>4. QED BY <1>1, <2>1, <2>2, <2>3 DEF HandInv
  <1>7. QED BY <1>2, <1>3, <1>4, <1>5, <1>6 DEF HandOff

\* Nothing takes Done from a closed issue, or marks it as ready or in progress.
LEMMA ClosedNext ==
  ASSUME TypeOK, StartInv, ClosedInv, \A r \in Runs : HandInv(r), [Next]_vars
  PROVE  ClosedInv'
  <1> USE DEF TypeOK
  <1>1. ASSUME open'
        PROVE  ClosedInv'
    BY <1>1 DEF ClosedInv
  <1>2. ASSUME ~ open, ~ open'
        PROVE  ClosedInv'
    <2>1. PICK r \in Runs : at[r] = "started"
      BY <1>2 DEF ClosedInv
    <2>2. Tracker = "github" /\ Done \in labels /\ {Ready, InProgress} \cap labels = {}
      BY <1>2 DEF ClosedInv, ClosedIsDone
    <2>3. \A q \in Runs : at[q] # "won"
      BY <2>1 DEF StartInv, Working, Marked
    <2>4. at'[r] = "started"
      <3>1. ASSUME NEW q \in Runs, Claim(q) \/ Mark(q) \/ LoseAnswer(q) \/ FailRun(q)
            PROVE  at'[r] = at[r]
        BY <2>1, <3>1
        DEF Claim, Import, FindReady, ReadIssue, Compose, PostLease, LoseAnswer,
            CreateLease, ListComments, Decide, Judge, FailRun, Goto,
            Mark, GithubAddLabels, GithubRemoveReady, GithubPostStart, LinearPostStart,
            LinearSetState, MarkStep, SaveRecord
      <3>2. ASSUME NEW q \in Runs, HandOff(q) \/ FailHandoff(q)
            PROVE  at' = at
        BY <3>2
        DEF HandOff, FailHandoff, HandComment, GithubUnmark, GithubReview,
            GithubUnreview, GithubAddDone, GithubClose, LinearHandState,
            SaveHandoff, HandRelabel, HandStep
      <3>3. QED BY <2>1, <3>1, <3>2 DEF Next, Failure, Tick, vars
    <2>5. Done \in labels' /\ {Ready, InProgress} \cap labels' = {}
      <3>1. ASSUME NEW q \in Runs, Claim(q) \/ Mark(q) \/ LoseAnswer(q) \/ FailRun(q)
            PROVE  labels' \in {labels, labels \ {Ready}}
        BY <2>2, <2>3, <3>1
        DEF Claim, Import, FindReady, ReadIssue, Compose, PostLease, LoseAnswer,
            CreateLease, ListComments, Decide, Judge, FailRun, issue,
            Mark, GithubAddLabels, GithubRemoveReady, GithubPostStart, LinearPostStart,
            LinearSetState, MarkStep, SaveRecord
      <3>2. ASSUME NEW q \in Runs, HandOff(q) \/ FailHandoff(q)
            PROVE  labels' \in {labels, labels \ {InProgress}, labels \cup {InReview},
                                labels \ {InReview}, labels \cup {Done}}
        BY <2>2, <3>2
        DEF HandOff, FailHandoff, HandComment, GithubUnmark, GithubReview,
            GithubUnreview, GithubAddDone, GithubClose, LinearHandState,
            SaveHandoff, HandRelabel, HandStep, issue
      <3>3. labels' \in {labels, labels \ {Ready}, labels \ {InProgress},
                         labels \cup {InReview}, labels \ {InReview}, labels \cup {Done}}
        BY <3>1, <3>2 DEF Next, Failure, Tick, vars, issue
      <3>4. QED BY <2>2, <3>3 DEF Ready, InProgress, InReview, Done
    <2>6. QED BY <2>2, <2>4, <2>5 DEF ClosedInv, ClosedIsDone
  <1>3. ASSUME open, ~ open'
        PROVE  ClosedInv'
    <2>1. PICK q \in Runs : GithubClose(q)
      <3>1. ASSUME NEW q \in Runs, Claim(q) \/ Mark(q) \/ LoseAnswer(q) \/ FailRun(q)
            PROVE  open' = open
        BY <3>1
        DEF Claim, Import, FindReady, ReadIssue, Compose, PostLease, LoseAnswer,
            CreateLease, ListComments, Decide, Judge, FailRun, issue,
            Mark, GithubAddLabels, GithubRemoveReady, GithubPostStart, LinearPostStart,
            LinearSetState, MarkStep, SaveRecord
      <3>2. ASSUME NEW q \in Runs, HandOff(q) \/ FailHandoff(q), ~ GithubClose(q)
            PROVE  open' = open
        BY <3>2
        DEF HandOff, FailHandoff, HandComment, GithubUnmark, GithubReview,
            GithubUnreview, GithubAddDone, LinearHandState,
            SaveHandoff, HandRelabel, HandStep, issue
      <3>3. QED BY <1>3, <3>1, <3>2 DEF Next, Failure, Tick, vars, issue
    <2>2. /\ Tracker = "github" /\ hand[q] = "labelled" /\ UNCHANGED <<labels, at>>
      BY <2>1 DEF GithubClose, HandRelabel, HandStep
    <2>3. HandInv(q)
      OBVIOUS
    <2>4. /\ at[q] = "started" /\ Done \in labels
          /\ Ready \notin labels /\ InProgress \notin labels
      BY <2>2, <2>3 DEF HandInv
    <2>5. QED BY <2>2, <2>4 DEF ClosedInv, ClosedIsDone
  <1>4. QED BY <1>1, <1>2, <1>3

\* An issue that was closed stays marked as done, and whatever the other runs
\* are about to do does not mark it as ready or in progress again.
THEOREM ClosedStaysDone ==
  ASSUME StartsInTime
  PROVE  Spec => []ClosedIsDone
  <1> DEFINE Inv == (\A r \in Runs : HandInv(r)) /\ ClosedInv
  <1>1. Init => StartInv /\ Inv
    <2>1. Init => Inv
      BY DEF Init, HandInv, ClosedInv
    <2>2. QED BY <2>1, StartInit
  <1>2. ASSUME TypeOK, StartInv, Inv, [Next]_vars
        PROVE  Inv'
    <2>1. ASSUME NEW r \in Runs
          PROVE  HandInv(r)'
      <3>1. CASE Tick \/ UNCHANGED vars
        BY <1>2, <3>1 DEF Tick, vars, issue, handed, HandInv
      <3>2. QED BY <1>2, <3>1, RunKeepsHands, HandKeepsHands DEF Next, Failure
    <2>2. ClosedInv'
      BY <1>2, ClosedNext
    <2>3. QED BY <2>1, <2>2
  <1>3. Inv => ClosedIsDone
    BY DEF ClosedInv, ClosedIsDone
  <1>4. TypeOK /\ LeaseInv /\ StartInv /\ [Next]_vars => StartInv'
    BY StartNext
  <1> HIDE DEF Inv
  <1>5. TypeOK /\ LeaseInv /\ StartInv /\ Inv /\ [Next]_vars => StartInv' /\ Inv'
    BY <1>2, <1>4
  <1>6. QED BY <1>1, <1>3, <1>5, LeaseInvariant, PTL DEF Spec
=============================================================================
