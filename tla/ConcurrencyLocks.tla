-------------------------- MODULE ConcurrencyLocks --------------------------
(***************************************************************************)
(* The two mutexes of the concurrency manager of omc-team                  *)
(* (background/concurrency.rs), one action per lock taken or dropped.      *)
(*                                                                         *)
(* BackgroundManager says what the methods do to permits and counts, one   *)
(* action per region; here is only who holds which mutex and waits for     *)
(* which, of the methods that take both, for keys that are limited.        *)
(***************************************************************************)
EXTENDS Naturals

CONSTANTS
  Threads,  \* the threads that share the manager
  Keys,     \* the limited concurrency keys
  NoOne     \* the holder of a free mutex

Methods == {"acquire", "release", "get_count", "get_queue_length", "clear"}
Mutexes == {"semaphores", "active_counts"}

VARIABLES
  holder,      \* the thread that holds each mutex
  semaphores,  \* the keys that have an entry in the map
  method,      \* the method each thread is in, or was in last
  key,         \* its argument
  at           \* where in that method it is

vars == <<holder, semaphores, method, key, at>>

Init ==
  /\ holder = [m \in Mutexes |-> NoOne]
  /\ semaphores = {}
  /\ method \in [Threads -> {"get_count"}]
  /\ key \in [Threads -> Keys]
  /\ at = [t \in Threads |-> "outside"]

\* Thread t, at one place of method m, takes a mutex and goes on to the next.
Lock(t, m, from, mutex, to) ==
  /\ method[t] = m /\ at[t] = from
  /\ holder[mutex] = NoOne
  /\ holder' = [holder EXCEPT ![mutex] = t]
  /\ at' = [at EXCEPT ![t] = to]
  /\ UNCHANGED <<method, key>>

\* A guard goes out of scope.
Unlock(t, m, from, mutex, to) ==
  /\ method[t] = m /\ at[t] = from
  /\ holder' = [holder EXCEPT ![mutex] = NoOne]
  /\ at' = [at EXCEPT ![t] = to]
  /\ UNCHANGED <<semaphores, method, key>>

Call(t) ==
  /\ at[t] = "outside"
  /\ \E m \in Methods, k \in Keys :
       /\ method' = [method EXCEPT ![t] = m]
       /\ key' = [key EXCEPT ![t] = k]
  /\ at' = [at EXCEPT ![t] = "called"]
  /\ UNCHANGED <<holder, semaphores>>

\* The wait for the permit, before the counts are locked, holds no mutex.
Acquire(t) ==
  \/ /\ Lock(t, "acquire", "called", "semaphores", "cloning")
     /\ semaphores' = semaphores \cup {key[t]}
  \/ Unlock(t, "acquire", "cloning", "semaphores", "cloned")
  \/ /\ Lock(t, "acquire", "cloned", "active_counts", "counting")
     /\ UNCHANGED semaphores
  \/ Unlock(t, "acquire", "counting", "active_counts", "outside")

\* The counts stay locked while the semaphores are; the guards are dropped in
\* the reverse of the order they were taken.
Release(t) ==
  \/ /\ Lock(t, "release", "called", "active_counts", "counted")
     /\ UNCHANGED semaphores
  \/ /\ Lock(t, "release", "counted", "semaphores", "adding")
     /\ UNCHANGED semaphores
  \/ Unlock(t, "release", "adding", "semaphores", "added")
  \/ Unlock(t, "release", "added", "active_counts", "outside")

\* get_count, and is_at_capacity and get_active_counts, which lock the same.
GetCount(t) ==
  \/ /\ Lock(t, "get_count", "called", "active_counts", "counting")
     /\ UNCHANGED semaphores
  \/ Unlock(t, "get_count", "counting", "active_counts", "outside")

\* The semaphores stay locked while get_count locks the counts, if the key has
\* an entry.
GetQueueLength(t) ==
  \/ /\ Lock(t, "get_queue_length", "called", "semaphores", "mapped")
     /\ UNCHANGED semaphores
  \/ /\ key[t] \in semaphores
     /\ Lock(t, "get_queue_length", "mapped", "active_counts", "counting")
     /\ UNCHANGED semaphores
  \/ Unlock(t, "get_queue_length", "counting", "active_counts", "counted")
  \/ Unlock(t, "get_queue_length", "counted", "semaphores", "outside")
  \/ /\ key[t] \notin semaphores
     /\ Unlock(t, "get_queue_length", "mapped", "semaphores", "outside")

\* Each map is cleared in a statement of its own, which drops its guard.
Clear(t) ==
  \/ /\ Lock(t, "clear", "called", "active_counts", "counting")
     /\ UNCHANGED semaphores
  \/ Unlock(t, "clear", "counting", "active_counts", "cleared")
  \/ /\ Lock(t, "clear", "cleared", "semaphores", "clearing")
     /\ semaphores' = {}
  \/ Unlock(t, "clear", "clearing", "semaphores", "outside")

Next ==
  \E t \in Threads :
    \/ Call(t) \/ Acquire(t) \/ Release(t) \/ GetCount(t)
    \/ GetQueueLength(t) \/ Clear(t)

Spec == Init /\ [][Next]_vars

-----------------------------------------------------------------------------
(* Stated by the repository, refuted by the code.                          *)

\* The mutex a thread cannot go on without.
Wanted(t) ==
  CASE method[t] = "acquire" /\ at[t] = "called" -> {"semaphores"}
    [] method[t] = "acquire" /\ at[t] = "cloned" -> {"active_counts"}
    [] method[t] = "release" /\ at[t] = "called" -> {"active_counts"}
    [] method[t] = "release" /\ at[t] = "counted" -> {"semaphores"}
    [] method[t] = "get_count" /\ at[t] = "called" -> {"active_counts"}
    [] method[t] = "get_queue_length" /\ at[t] = "called" -> {"semaphores"}
    [] method[t] = "get_queue_length" /\ at[t] = "mapped"
       /\ key[t] \in semaphores -> {"active_counts"}
    [] method[t] = "clear" /\ at[t] = "called" -> {"active_counts"}
    [] method[t] = "clear" /\ at[t] = "cleared" -> {"semaphores"}
    [] OTHER -> {}

Awaits(t, u) == \E m \in Wanted(t) : holder[m] = u

\* No two calls wait for each other's mutex forever, and none for its own: a
\* call that "is an approximation" (concurrency.rs:91) still answers.  release
\* and get_queue_length take the two mutexes in opposite orders, and no other
\* method holds one while it waits for the other.
NoCircle == \A t, u \in Threads : ~ (Awaits(t, u) /\ Awaits(u, t))
=============================================================================
