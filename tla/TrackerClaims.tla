--------------------------- MODULE TrackerClaims ----------------------------
(***************************************************************************)
(* How runs of omc-team, on different machines, claim one issue of a       *)
(* tracker, start it and hand it off (omc-team/src/trackers.rs, and the    *)
(* commands start, claim and handoff in lib.rs and main.rs).               *)
(*                                                                         *)
(* A claim is a lease written as a comment of the issue: the run whose     *)
(* unexpired lease comes first among the comments has the issue.  Each     *)
(* HTTP request is an action: other runs' requests, and time, may pass     *)
(* between any two.  The tracker orders comments by the time it creates    *)
(* them and their ids; the code compares the ids as strings.               *)
(***************************************************************************)
EXTENDS Integers, FiniteSets

CONSTANTS
  Tracker,         \* "github" or "linear"
  States,          \* the states the Linear team has
  Runs,            \* the runs, each with an id of its own and a root
  Starters,        \* the runs of `start`; the others are of `claim`
  TTL,             \* LEASE_TTL_SECONDS
  FirstId,         \* the id of the first comment
  IdLess(_, _),    \* how the strings of two ids compare
  MaxStall,        \* the longest a run takes from reading the issue to marking it
  MaxTime,         \* bound: the last value of the clock
  MaxHandoffs,     \* bound: the number of handoffs
  MaxFailures      \* bound: the number of runs and handoffs that fail

Ready      == "agent-ready"
Claimed    == "omc/claimed"
InProgress == "omc/in-progress"
InReview   == "omc/in-review"
Done       == "omc/done"
Progress   == {Claimed, InProgress, InReview, Done}
Labels     == {Ready} \cup Progress

ASSUME TrackerAssumption ==
  /\ Tracker \in {"github", "linear"}
  /\ States \subseteq Progress
  /\ IsFiniteSet(Runs)
  /\ Starters \subseteq Runs
  /\ TTL \in Nat /\ FirstId \in Nat /\ MaxStall \in Nat /\ MaxTime \in Nat
  /\ MaxHandoffs \in Nat /\ MaxFailures \in Nat

\* GitHub's ids grow, and have had the same number of digits for years.
ASSUME IdsCompareAsNumbers ==
  \A i, j \in FirstId .. FirstId + Cardinality(Runs) : IdLess(i, j) <=> i < j

VARIABLES
  now,          \* the time, in the unit of the tracker's created_at
  labels,       \* the labels of the issue; a Linear state counts as a label
  open,         \* whether the issue is open
  at,           \* where each run is
  began,        \* when each run read the issue it claims
  expiresAt,    \* the expiry written in each run's lease
  posted,       \* the runs whose lease is a comment of the issue
  createdAt,    \* when the tracker created each lease comment
  id,           \* the id it gave the comment
  seen,         \* the leases in the list of comments each run fetched
  hand,         \* where the handoff of each run is
  finishing,    \* whether that handoff is --done
  commented,    \* how many handoff comments each run has on the issue
  record,       \* last_known_state in each run's record file, or "none"
  commentKnown, \* whether the record file has a handoff_comment_id
  handoffs,     \* how many handoffs were started
  failures      \* how many runs and handoffs failed

issue  == <<labels, open>>
leases == <<expiresAt, posted, createdAt, id>>
handed == <<hand, finishing, commented, commentKnown, handoffs>>
vars   == <<now, issue, at, began, leases, seen, handed, record, failures>>

RunStates ==
  {"idle", "imported", "refused", "read", "composed", "posted", "listed",
   "lost", "claimed", "won", "announced", "labelled", "unready", "commented",
   "started", "failed", "abandoned", "stranded"}
HandStates ==
  {"idle", "posted", "unmarked", "unreviewed", "labelled", "saving"}

\* A run that has read the issue and not marked it yet.
Claiming == {"read", "composed", "posted", "listed", "won", "announced"}
\* A run that has marked the issue as in progress.
Marked   == {"labelled", "unready", "commented", "started", "stranded"}

TypeOK ==
  /\ now \in 0 .. MaxTime
  /\ labels \subseteq Labels
  /\ open \in BOOLEAN
  /\ at \in [Runs -> RunStates]
  /\ began \in [Runs -> Nat]
  /\ expiresAt \in [Runs -> Nat]
  /\ posted \subseteq Runs
  /\ createdAt \in [Runs -> Nat]
  /\ id \in [Runs -> FirstId .. FirstId + Cardinality(Runs)]
  /\ seen \in [Runs -> SUBSET Runs]
  /\ hand \in [Runs -> HandStates]
  /\ finishing \in [Runs -> BOOLEAN]
  /\ commented \in [Runs -> Nat]
  /\ record \in [Runs -> {"none", "started", "review", "done"}]
  /\ commentKnown \in [Runs -> BOOLEAN]
  /\ handoffs \in 0 .. MaxHandoffs
  /\ failures \in 0 .. MaxFailures

-----------------------------------------------------------------------------
(* The leases.                                                             *)

\* The order in which earliest_active_lease sorts.
Precedes(q, r) ==
  \/ createdAt[q] < createdAt[r]
  \/ createdAt[q] = createdAt[r] /\ IdLess(id[q], id[r])

Active(q) == expiresAt[q] > now

EarliestActive(q, S) ==
  /\ q \in S
  /\ Active(q)
  /\ \A p \in S : Active(p) /\ p # q => Precedes(q, p)

-----------------------------------------------------------------------------
(* claim_specific_issue, and the checks that start and claim make first.   *)

Goto(r, s) == at' = [at EXCEPT ![r] = s]

\* start imports the issue: its card must be agent_ready.
Import(r) ==
  /\ r \in Starters
  /\ at[r] = "idle"
  /\ Goto(r, IF Ready \in labels THEN "imported" ELSE "refused")
  /\ UNCHANGED <<now, issue, began, leases, seen, handed, record, failures>>

\* claim takes the first issue that is ready, idle and not leased.  Only
\* GitHub's list leaves out the closed ones.
FindReady(r) ==
  /\ r \notin Starters
  /\ at[r] = "idle"
  /\ Goto(r, IF /\ Ready \in labels
                /\ labels \cap Progress = {}
                /\ Tracker = "github" => open
                /\ \A q \in posted : ~ Active(q)
             THEN "imported" ELSE "refused")
  /\ UNCHANGED <<now, issue, began, leases, seen, handed, record, failures>>

\* Faulty: only agent-ready is asked for.
ReadReadyIssue(r) ==
  /\ at[r] = "imported"
  /\ Goto(r, IF Ready \in labels THEN "read" ELSE "refused")
  /\ began' = [began EXCEPT ![r] = now]
  /\ UNCHANGED <<now, issue, leases, seen, handed, record, failures>>

ReadIssue(r) ==
  /\ at[r] = "imported"
  /\ IF Ready \in labels /\ labels \cap Progress = {}
     THEN /\ Goto(r, "read")
          /\ began' = [began EXCEPT ![r] = now]
     ELSE /\ Goto(r, "refused")
          /\ UNCHANGED began
  /\ UNCHANGED <<now, issue, leases, seen, handed, record, failures>>

\* Faulty: the lease is written as expired.
ComposeExpired(r) ==
  /\ at[r] = "read"
  /\ expiresAt' = [expiresAt EXCEPT ![r] = now - TTL]
  /\ Goto(r, "composed")
  /\ UNCHANGED <<now, issue, began, posted, createdAt, id,
                 seen, handed, record, failures>>

\* lease_comment: the expiry is written when the request is built.
Compose(r) ==
  /\ at[r] = "read"
  /\ expiresAt' = [expiresAt EXCEPT ![r] = now + TTL]
  /\ Goto(r, "composed")
  /\ UNCHANGED <<now, issue, began, posted, createdAt, id,
                 seen, handed, record, failures>>

\* The tracker creates the comment.  Ids are GitHub's, which grow; Linear's
\* are random, but its times are fine enough that no two are equal.
CreateLease(r) ==
  /\ at[r] = "composed"
  /\ Tracker = "linear" => \A q \in posted : createdAt[q] < now
  /\ posted' = posted \cup {r}
  /\ createdAt' = [createdAt EXCEPT ![r] = now]
  /\ id' = [id EXCEPT ![r] = FirstId + Cardinality(posted)]
  /\ UNCHANGED <<now, issue, began, expiresAt, seen, handed, record>>

PostLease(r) ==
  /\ CreateLease(r)
  /\ Goto(r, "posted")
  /\ UNCHANGED failures

Fails ==
  /\ failures < MaxFailures
  /\ failures' = failures + 1

\* The comment is created but its answer is lost: the run gives up.
LoseAnswer(r) ==
  /\ CreateLease(r)
  /\ Goto(r, "failed")
  /\ Fails

ListComments(r) ==
  /\ at[r] = "posted"
  /\ seen' = [seen EXCEPT ![r] = posted]
  /\ Goto(r, "listed")
  /\ UNCHANGED <<now, issue, began, leases, handed, record, failures>>

\* The claim command reports its claim and ends; start goes on.
Judge(r, wins) ==
  /\ at[r] = "listed"
  /\ Goto(r, CASE ~ wins                  -> "lost"
               [] wins /\ r \in Starters -> "won"
               [] OTHER                   -> "claimed")
  /\ seen' = [seen EXCEPT ![r] = {}]
  /\ UNCHANGED <<now, issue, began, leases, handed, record, failures>>

\* Faulty: the latest active lease wins.
DecideByLatest(r) ==
  Judge(r, /\ Active(r)
           /\ \A p \in seen[r] : Active(p) /\ p # r => Precedes(p, r))

\* Faulty: a run wins when nobody else has an active lease.
DecideAlone(r) == Judge(r, {p \in seen[r] : Active(p)} = {r})

\* The list is judged by the time after it was fetched, and dropped.  A run
\* that loses leaves its lease where it is.
Decide(r) == Judge(r, EarliestActive(r, seen[r]))

\* A request fails, or the process dies: nothing is undone.
FailRun(r) ==
  /\ at[r] \notin {"idle", "refused", "lost", "claimed", "started",
                   "failed", "abandoned", "stranded"}
  /\ Goto(r, CASE at[r] \in Marked               -> "stranded"
               [] at[r] \in {"won", "announced"} -> "abandoned"
               [] OTHER                          -> "failed")
  /\ Fails
  /\ UNCHANGED <<now, issue, began, leases, seen, handed, record>>

-----------------------------------------------------------------------------
(* mark_started, and the run record that is saved after it.                *)

\* Linear's issue moves to the state of that name, if the team has one.
MoveTo(state) ==
  labels' = IF state \in States THEN (labels \cap {Ready}) \cup {state}
            ELSE labels

MarkStep(r, tracker, from, to) ==
  /\ Tracker = tracker
  /\ r \in Starters
  /\ at[r] = from
  /\ Goto(r, to)
  /\ UNCHANGED <<now, open, began, leases, seen, handed, record, failures>>

GithubAddLabels(r) ==
  /\ MarkStep(r, "github", "won", "labelled")
  /\ labels' = labels \cup {Claimed, InProgress}

GithubRemoveReady(r) ==
  /\ MarkStep(r, "github", "labelled", "unready")
  /\ labels' = labels \ {Ready}

GithubPostStart(r) ==
  /\ MarkStep(r, "github", "unready", "commented")
  /\ UNCHANGED labels

LinearPostStart(r) ==
  /\ MarkStep(r, "linear", "won", "announced")
  /\ UNCHANGED labels

LinearSetState(r) ==
  /\ MarkStep(r, "linear", "announced", "labelled")
  /\ MoveTo(InProgress)

SaveRecord(r) ==
  /\ at[r] = IF Tracker = "github" THEN "commented" ELSE "labelled"
  /\ record' = [record EXCEPT ![r] = "started"]
  /\ Goto(r, "started")
  /\ UNCHANGED <<now, issue, began, leases, seen, handed, failures>>

-----------------------------------------------------------------------------
(* post_handoff_to_tracker: the record is found, the comment posted or     *)
(* patched, the issue relabelled, and the record saved with the comment.   *)

HandStep(r, from, to) ==
  /\ hand[r] = from
  /\ hand' = [hand EXCEPT ![r] = to]
  /\ UNCHANGED <<now, at, began, leases, seen>>

HandComment(r, done) ==
  /\ handoffs < MaxHandoffs
  /\ handoffs' = handoffs + 1
  /\ record[r] # "none"
  /\ HandStep(r, "idle", "posted")
  /\ finishing' = [finishing EXCEPT ![r] = done]
  /\ commented' = [commented EXCEPT ![r] = IF commentKnown[r] THEN @ ELSE @ + 1]
  /\ UNCHANGED <<issue, commentKnown, record, failures>>

HandRelabel(r, tracker, from, to) ==
  /\ Tracker = tracker
  /\ HandStep(r, from, to)
  /\ UNCHANGED <<finishing, commented, commentKnown, handoffs, record, failures>>

GithubUnmark(r) ==
  /\ HandRelabel(r, "github", "posted", "unmarked")
  /\ labels' = labels \ {InProgress}
  /\ UNCHANGED open

GithubReview(r) ==
  /\ ~ finishing[r]
  /\ HandRelabel(r, "github", "unmarked", "saving")
  /\ labels' = labels \cup {InReview}
  /\ UNCHANGED open

GithubUnreview(r) ==
  /\ finishing[r]
  /\ HandRelabel(r, "github", "unmarked", "unreviewed")
  /\ labels' = labels \ {InReview}
  /\ UNCHANGED open

\* Faulty: the issue is done but not labelled so.
GithubSkipDone(r) ==
  /\ HandRelabel(r, "github", "unreviewed", "labelled")
  /\ UNCHANGED issue

GithubAddDone(r) ==
  /\ HandRelabel(r, "github", "unreviewed", "labelled")
  /\ labels' = labels \cup {Done}
  /\ UNCHANGED open

GithubClose(r) ==
  /\ HandRelabel(r, "github", "labelled", "saving")
  /\ open' = FALSE
  /\ UNCHANGED labels

LinearHandState(r) ==
  /\ HandRelabel(r, "linear", "posted", "saving")
  /\ MoveTo(IF finishing[r] THEN Done ELSE InReview)
  /\ UNCHANGED open

\* Faulty: the record is saved without the id of the comment.
SaveStateOnly(r) ==
  /\ HandStep(r, "saving", "idle")
  /\ record' = [record EXCEPT ![r] = IF finishing[r] THEN "done" ELSE "review"]
  /\ UNCHANGED <<issue, finishing, commented, commentKnown, handoffs, failures>>

SaveHandoff(r) ==
  /\ HandStep(r, "saving", "idle")
  /\ record' = [record EXCEPT ![r] = IF finishing[r] THEN "done" ELSE "review"]
  /\ commentKnown' = [commentKnown EXCEPT ![r] = TRUE]
  /\ UNCHANGED <<issue, finishing, commented, handoffs, failures>>

\* A request fails, or the process dies, before the record is saved.
FailHandoff(r) ==
  /\ hand[r] # "idle"
  /\ Fails
  /\ hand' = [hand EXCEPT ![r] = "idle"]
  /\ UNCHANGED <<now, issue, at, began, leases, seen, finishing, commented,
                 commentKnown, handoffs, record>>

-----------------------------------------------------------------------------
\* Time passes, but no run takes longer than MaxStall from reading the issue
\* to marking it.  The code has no such limit: curl runs without a timeout.
Tick ==
  /\ now < MaxTime
  /\ \A r \in Runs : at[r] \in Claiming => now - began[r] < MaxStall
  /\ now' = now + 1
  /\ UNCHANGED <<issue, at, began, leases, seen, handed, record, failures>>

Init ==
  /\ now = 0
  /\ labels = {Ready}
  /\ open = TRUE
  /\ at = [r \in Runs |-> "idle"]
  /\ began = [r \in Runs |-> 0]
  /\ expiresAt = [r \in Runs |-> 0]
  /\ posted = {}
  /\ createdAt = [r \in Runs |-> 0]
  /\ id = [r \in Runs |-> FirstId]
  /\ seen = [r \in Runs |-> {}]
  /\ hand = [r \in Runs |-> "idle"]
  /\ finishing = [r \in Runs |-> FALSE]
  /\ commented = [r \in Runs |-> 0]
  /\ record = [r \in Runs |-> "none"]
  /\ commentKnown = [r \in Runs |-> FALSE]
  /\ handoffs = 0
  /\ failures = 0

Claim(r) ==
  \/ Import(r)
  \/ FindReady(r)
  \/ ReadIssue(r)
  \/ Compose(r)
  \/ PostLease(r)
  \/ ListComments(r)
  \/ Decide(r)

Mark(r) ==
  \/ GithubAddLabels(r)
  \/ GithubRemoveReady(r)
  \/ GithubPostStart(r)
  \/ LinearPostStart(r)
  \/ LinearSetState(r)
  \/ SaveRecord(r)

HandOff(r) ==
  \/ \E done \in BOOLEAN : HandComment(r, done)
  \/ GithubUnmark(r)
  \/ GithubReview(r)
  \/ GithubUnreview(r)
  \/ GithubAddDone(r)
  \/ GithubClose(r)
  \/ LinearHandState(r)
  \/ SaveHandoff(r)

Failure(r) == LoseAnswer(r) \/ FailRun(r) \/ FailHandoff(r)

Next ==
  \/ \E r \in Runs : Claim(r) \/ Mark(r) \/ HandOff(r) \/ Failure(r)
  \/ Tick

Spec == Init /\ [][Next]_vars

\* A run that is not dead goes on, and time passes.
FairSpec ==
  /\ Spec
  /\ \A r \in Runs : WF_vars(Claim(r) \/ Mark(r))
  /\ WF_vars(Tick)
=============================================================================
