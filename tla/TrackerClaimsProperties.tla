---------------------- MODULE TrackerClaimsProperties -----------------------
(***************************************************************************)
(* What the leases of an issue should guarantee.                           *)
(***************************************************************************)
EXTENDS TrackerClaims

\* A run told that it won the claim, whatever became of it.
Won == {"claimed", "won", "announced", "abandoned"} \cup Marked

\* Two runs that both read their lease as the earliest never hold the issue
\* together: the leases of all winners but one have expired.
OneHolder ==
  \A p, q \in Runs :
    at[p] \in Won /\ at[q] \in Won /\ Active(p) /\ Active(q) => p = q

\* Only one run ever starts work on the issue, also after the leases have
\* expired and after runs have failed at any point, if no run takes half the
\* life of a lease from reading the issue to marking it.
StartedOnce ==
  \A p, q \in Runs : at[p] \in Marked /\ at[q] \in Marked => p = q

\* An issue the code has closed is done and is not offered as work again,
\* whatever other runs were about to do with it.
ClosedIsDone == ~ open => Done \in labels /\ {Ready, InProgress} \cap labels = {}

\* Handing off again, to finish what is in review, patches the comment of the
\* run instead of adding one, unless a handoff failed after it commented.
OneHandoffComment ==
  \A r \in Runs : hand[r] = "idle" /\ failures = 0 => commented[r] <= 1

\* Competing runs do not all lose: when no run fails, one gets the issue.
SomeRunWins ==
  [](failures = 0) => <>(\E r \in Runs : at[r] \in Won)

-----------------------------------------------------------------------------
(* Why: the inductive invariant of OneHolder and StartedOnce.              *)

\* What a run has done by where it is.
Stage(r) ==
  /\ at[r] \in Claiming =>
       began[r] <= now /\ now <= began[r] + MaxStall
  /\ at[r] \in {"composed", "posted", "listed"} \cup Won =>
       began[r] + TTL <= expiresAt[r]
  /\ at[r] \in {"posted", "listed"} \cup Won => r \in posted
  /\ at[r] \in {"idle", "imported", "read", "composed"} => r \notin posted

\* The order of the leases is the order in which they were posted.
Order ==
  /\ \A r \in posted :
       /\ createdAt[r] <= now
       /\ id[r] < FirstId + Cardinality(posted)
  /\ \A p, q \in posted : id[p] = id[q] => p = q

\* A run that fetched the list has every lease that precedes its own.
Fetched(r) ==
  at[r] = "listed" => \A q \in posted : Precedes(q, r) => q \in seen[r]

\* The leases that precede a winner's have expired.
First(p) ==
  at[p] \in Won => \A q \in posted : Precedes(q, p) => ~ Active(q)

\* A run that read the issue before another marked it is bound to decide
\* while the lease of that other is active.
Covered(p, q) ==
  at[p] \in Marked /\ at[q] \in Claiming =>
    began[q] + MaxStall < expiresAt[p]

LeaseInv ==
  /\ Order
  /\ \A r \in Runs : Stage(r) /\ Fetched(r) /\ First(r)

Working == {"won", "announced"} \cup Marked

\* The labels, or the state, that keep other runs from reading it as ready.
MarkShows ==
  IF Tracker = "github" THEN Claimed \in labels ELSE labels \cap Progress # {}

\* What StartedOnce assumes of the world: a start is quick, and the team of a
\* Linear issue has the state that start moves it to.
StartsInTime ==
  /\ 2 * MaxStall < TTL
  /\ Tracker = "linear" => InProgress \in States

StartInv ==
  /\ (\E r \in Runs : at[r] \in Marked) => MarkShows
  /\ \A p, q \in Runs : Covered(p, q)
  /\ \A p, q \in Runs : at[p] \in Working /\ at[q] \in Working => p = q

\* Handoffs are of runs that have started, and only GitHub issues are closed:
\* from the close on, nothing takes the label back, and no run is about to
\* mark the issue anew, since the one that closed it has started.
HandInv(r) ==
  /\ hand[r] # "idle" => record[r] # "none"
  /\ record[r] # "none" => at[r] = "started"
  /\ Tracker = "github" =>
       /\ at[r] \in {"unready", "commented", "started"} => Ready \notin labels
       /\ hand[r] \in {"unmarked", "unreviewed", "labelled", "saving"} =>
            InProgress \notin labels
       /\ hand[r] = "labelled" => Done \in labels

ClosedInv ==
  ~ open => /\ Tracker = "github" /\ ClosedIsDone
            /\ \E r \in Runs : at[r] = "started"

\* The comments a run has made, as long as nothing failed.
CommentInv(r) ==
  failures = 0 =>
    /\ commented[r] <= 1
    /\ hand[r] = "idle" /\ ~ commentKnown[r] => commented[r] = 0

-----------------------------------------------------------------------------
(* Stated by the repository, refuted by the code.                          *)

\* A run that is told "lost GitHub claim race for ...; winning lease comment
\* is X" (trackers.rs:909) lost to a run that did not itself lose.
NamedWinnerWon ==
  [][\A r, q \in Runs :
       /\ at[r] = "listed" /\ at'[r] = "lost"
       /\ EarliestActive(q, seen[r])
       => at[q] # "lost"]_vars
=============================================================================
