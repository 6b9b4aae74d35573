---------------------------- MODULE ToolServers -----------------------------
(***************************************************************************)
(* The MCP tools that keep their state in files under .omc: the goal       *)
(* ledger, the mode states, the project memory and the notepad             *)
(* (omc-mcp/src/{goal,state,memory,notepad}_tools.rs and                   *)
(* omc-shared/src/{goal_contract.rs,state/goal_ledger.rs}).                *)
(*                                                                         *)
(* Each host starts a server process of its own, which serves one call at  *)
(* a time; the servers meet in the files, without a lock.  A call that     *)
(* changes something is a sequence of actions, one per access to a file:   *)
(* load and compute, open, write, rename, reply.  A server may die at any  *)
(* point.  Calls that only read are the formulas over `files` they report. *)
(***************************************************************************)
EXTENDS Integers, Sequences, FiniteSets, FiniteSetsExt

CONSTANTS
  Servers,       \* the server processes
  Goals,         \* the goals, each in a file of its own
  Checkpoints,   \* the checkpoint ids
  Sessions,      \* the sessions, each with a file for the mode's state
  Legacy,        \* the file of the mode's state without a session
  Memory,        \* project-memory.json
  Notepad,       \* notepad.md
  Values,        \* values of a mode's state, and of the memory's base fields
  Lines,         \* the lines of notes
  Headings,      \* those that start with "## "
  Notes,         \* notes, directives and notepad entries, each of some lines
  Lists,         \* what a memory given to the tool brings as its notes
  Unsaid,        \* ... nothing
  NoList,        \* ... something that is no array
  Stamp,         \* the time in front of a notepad entry's first line
  Placeholder,   \* the text "(empty)" of a section without content
  Leftover,      \* what is left of a longer text under a shorter one
  NoFile, Empty, \* see FileSystem
  Torn,          \* JSON with the rest of a longer one behind it
  None,          \* no argument, no call
  Budgets        \* bound: how many calls of each family, and how many crashes

States == Sessions \cup {Legacy}
Files == Goals \cup States \cup {Memory, Notepad}

Statuses == {"planned", "active", "blocked", "completed"}
GoalRecords == [status : Statuses, checkpoints : SUBSET Checkpoints]
Memories == [base : Values, notes : (SUBSET Notes) \cup {NoList}]

\* The notepad is one text.
Pages == {"priority", "working", "manual"}
Marker == [priority |-> "## Priority Context", working |-> "## Working Memory",
           manual |-> "## MANUAL"]
Markers == {Marker[page] : page \in Pages}
Notepads == Seq(Lines \cup Markers \cup {Stamp, Placeholder, Leftover})

\* What a file holds after a call has finished with it.
Records(f) ==
  CASE f \in Goals -> GoalRecords
    [] f \in States -> Values
    [] f = Memory -> Memories
    [] f = Notepad -> Notepads

Families == {"goal", "state", "memory", "notepad", "crash"}

Calls ==
  [tool : {"create", "start", "block", "complete"}, file : Goals, arg : {None}]
    \cup [tool : {"checkpoint"}, file : Goals, arg : Checkpoints]
    \cup [tool : {"write"}, file : States, arg : Values]
    \cup [tool : {"clear"}, file : States, arg : {None}]
    \cup [tool : {"merge", "replace"}, file : {Memory}, arg : [base : Values, notes : Lists]]
    \cup [tool : {"add"}, file : {Memory}, arg : Notes]
    \cup [tool : Pages, file : {Notepad}, arg : Notes]

ASSUME FilesAssumption ==
  /\ Goals \cap States = {} /\ Legacy \notin Sessions
  /\ Memory \notin Goals \cup States
  /\ Notepad \notin Goals \cup States \cup {Memory}
  /\ NoFile # Empty /\ Torn \notin {NoFile, Empty}
  /\ \A x \in {NoFile, Empty, Torn}, f \in Files : x \notin Records(f)
  /\ Notes \subseteq Seq(Lines) \ {<<>>} /\ Lists \subseteq (SUBSET Notes) \cup {Unsaid, NoList}
  /\ None \notin Calls
  /\ Budgets \subseteq [Families -> Nat]

Family(f) ==
  CASE f \in Goals -> "goal"
    [] f \in States -> "state"
    [] f = Memory -> "memory"
    [] f = Notepad -> "notepad"

VARIABLES
  files, tmp, fd,  \* see FileSystem
  dirs,       \* the sessions whose directory exists
  call,       \* the call each server is serving
  pc,         \* where in that call it is
  held,       \* the content it is about to write
  todo,       \* the files its state_clear has not come to
  budget,     \* calls and crashes left
  mishap,     \* history: what has happened to calls that change each file
  expected,   \* history: the contents each file may have, by the calls so far
  acked       \* history: the notes and entries answered for and not replaced since

INSTANCE FileSystem

server == <<call, pc, held, todo>>
vars == <<files, tmp, fd, dirs, call, pc, held, todo, budget, mishap, expected, acked>>

-----------------------------------------------------------------------------
(* What each tool makes of the content it loads.                           *)

\* Faulty: a completed goal may be started again.
AcceptsUnlessActive(c, x) ==
  CASE c.tool = "create" -> x = NoFile
    [] c.tool = "start" -> x \in GoalRecords /\ x.status # "active"
    [] c.tool = "add" -> x \in Memories
    [] OTHER -> c.file \in Goals => x \in GoalRecords

\* Whether the call writes: the goal exists in a status that allows it, or
\* does not exist yet; notes are only added to a memory that parses.
Accepts(c, x) ==
  CASE c.tool = "create" -> x = NoFile
    [] c.tool = "start" -> x \in GoalRecords /\ x.status \in {"planned", "blocked"}
    [] c.tool = "block" -> x \in GoalRecords /\ x.status # "completed"
    [] c.tool = "complete" -> x \in GoalRecords /\ x.status = "active"
    [] c.tool = "checkpoint" -> /\ x \in GoalRecords /\ x.status # "completed"
                                /\ c.arg \notin x.checkpoints
    [] c.tool = "add" -> x \in Memories
    [] OTHER -> TRUE

NewGoal == [status |-> "planned", checkpoints |-> {}]

GoalAfter(c, g) ==
  CASE c.tool = "create" -> NewGoal
    [] c.tool = "start" -> [g EXCEPT !.status = "active"]
    [] c.tool = "block" -> [g EXCEPT !.status = "blocked"]
    [] c.tool = "complete" -> [g EXCEPT !.status = "completed"]
    [] c.tool = "checkpoint" -> [g EXCEPT !.checkpoints = @ \cup {c.arg}]

\* The notes of a memory after a merge or a replacement that brings list.
Overlaid(list, notes) == IF list = Unsaid THEN notes ELSE list

\* A memory that does not parse counts as none, and a merge replaces it.  Notes
\* that are no array take no note, and the call succeeds all the same.
MemoryAfter(c, m) ==
  CASE c.tool = "merge" /\ m \in Memories ->
         [base |-> c.arg.base, notes |-> Overlaid(c.arg.notes, m.notes)]
    [] c.tool = "add" -> IF m.notes = NoList THEN m ELSE [m EXCEPT !.notes = @ \cup {c.arg}]
    [] OTHER -> [base |-> c.arg.base, notes |-> Overlaid(c.arg.notes, {})]

\* Where a text has lines that start with "## ".
Headed(x) == {i \in DOMAIN x : x[i] \in Headings \cup Markers}

\* A section of a text: from the first place its marker is found at, in an
\* entry or not, past one line at least, to a line that starts with "## ".  The
\* placeholder is content like any other.
Section(x, page) ==
  LET found == {i \in DOMAIN x : x[i] = Marker[page]}
      start == Min(found) + 1
      ends == {j \in Headed(x) : j > start /\ x[j - 1] # Stamp}
  IN  IF x \notin Notepads \/ found = {} THEN <<>>
      ELSE SubSeq(x, start, IF ends = {} THEN Len(x) ELSE Min(ends) - 1)

Filled(text) == IF text = <<>> THEN <<Placeholder>> ELSE text

Build(text) ==
  <<Marker["priority"]>> \o Filled(text["priority"])
    \o <<Marker["working"]>> \o Filled(text["working"])
    \o <<Marker["manual"]>> \o Filled(text["manual"])

\* Faulty: the other sections are not read.
NotepadAfterOneSection(c, x) ==
  Build([page \in Pages |->
     IF c.tool # page THEN <<>>
     ELSE IF page = "priority" THEN c.arg
     ELSE Section(x, page) \o <<Stamp>> \o c.arg])

\* The sections are taken out of the text and built into a new one.
NotepadAfter(c, x) ==
  Build([page \in Pages |->
     IF c.tool # page THEN Section(x, page)
     ELSE IF page = "priority" THEN c.arg
     ELSE Section(x, page) \o <<Stamp>> \o c.arg])

After(c, x) ==
  CASE c.tool = "clear" -> NoFile
    [] c.tool = "write" -> c.arg
    [] c.file \in Goals -> GoalAfter(c, x)
    [] c.file = Memory -> MemoryAfter(c, x)
    [] c.file = Notepad -> NotepadAfter(c, x)

\* state_clear of a session takes the shared file along; without a session it
\* takes every session's.
Touches(c) ==
  IF c.tool # "clear" THEN {c.file}
  ELSE IF c.file = Legacy THEN States ELSE {c.file, Legacy}

-----------------------------------------------------------------------------
Init ==
  /\ files = [f \in Files |-> NoFile]
  /\ tmp = [f \in Files |-> NoFile]
  /\ fd = [s \in Servers |-> Closed]
  /\ dirs = {}
  /\ call = [s \in Servers |-> None]
  /\ pc = [s \in Servers |-> "idle"]
  /\ held = [s \in Servers |-> NoFile]
  /\ todo = [s \in Servers |-> {}]
  /\ budget \in Budgets
  /\ mishap = [f \in Files |-> {}]
  /\ expected = [f \in Files |-> {NoFile}]
  /\ acked = [f \in {Memory, Notepad} |-> {}]

Busy(s, f) == pc[s] # "idle" /\ f \in Touches(call[s])
Goto(s, place) == pc' = [pc EXCEPT ![s] = place]

\* A host sends its server a call.
Call(s) ==
  /\ pc[s] = "idle"
  /\ \E c \in Calls :
       /\ budget[Family(c.file)] > 0
       /\ budget' = [budget EXCEPT ![Family(c.file)] = @ - 1]
       /\ call' = [call EXCEPT ![s] = c]
       /\ Goto(s, IF c.tool = "clear" THEN "clear" ELSE "load")
       /\ todo' = [todo EXCEPT ![s] =
                     IF c.tool = "clear" THEN {c.file, Legacy} ELSE {}]
       /\ mishap' = [f \in Files |->
            IF f \in Touches(c) /\ \E t \in Servers \ {s} : Busy(t, f)
            THEN mishap[f] \cup {"overlap"} ELSE mishap[f]]
  /\ UNCHANGED <<files, tmp, fd, dirs, held, expected, acked>>

\* Read the file, check and compute; or answer with an error.
Load(s) ==
  /\ pc[s] = "load"
  /\ LET c == call[s]
         x == files[c.file]
     IN  \/ /\ Accepts(c, x)
            /\ held' = [held EXCEPT ![s] = After(c, x)]
            /\ Goto(s, "open")
         \/ /\ ~ Accepts(c, x)
            /\ Goto(s, "failed")
            /\ UNCHANGED held
  /\ UNCHANGED <<files, tmp, fd, dirs, call, todo, budget, mishap, expected, acked>>

\* Faulty: every file is written in place.
OpenInPlace(s) ==
  /\ pc[s] = "open"
  /\ OpenFile(s, call[s].file)
  /\ dirs' = dirs \cup ({call[s].file} \cap Sessions)
  /\ Goto(s, "write")
  /\ UNCHANGED <<call, held, todo, budget, mishap, expected, acked>>

\* Faulty: the shared file's directory counts as a session's.
OpenAnyDirectory(s) ==
  /\ pc[s] = "open"
  /\ OpenTmp(s, call[s].file)
  /\ dirs' = dirs \cup ({call[s].file} \cap States)
  /\ Goto(s, "write")
  /\ UNCHANGED <<call, held, todo, budget, mishap, expected, acked>>

\* Saving a loaded goal looks again whether its file exists.
Open(s) ==
  /\ pc[s] = "open"
  /\ LET f == call[s].file
         gone == f \in Goals /\ call[s].tool # "create" /\ files[f] = NoFile
     IN  IF gone
         THEN Goto(s, "failed") /\ UNCHANGED <<files, tmp, fd, dirs>>
         ELSE /\ Goto(s, "write")
              /\ IF f = Notepad THEN OpenFile(s, f) ELSE OpenTmp(s, f)
              /\ dirs' = dirs \cup ({f} \cap Sessions)
  /\ UNCHANGED <<call, held, todo, budget, mishap, expected, acked>>

\* Writing over a longer content leaves its end.
Landed(f, old, new) ==
  CASE old = Empty -> {new}
    [] old # Empty /\ f = Notepad -> {new, Append(new, Leftover)}
    [] OTHER -> {new, Torn}

Write(s) ==
  /\ pc[s] = "write"
  /\ LET f == call[s].file
     IN  /\ \E x \in Landed(f, Behind(s, f), held[s]) : Put(s, f, x)
         /\ Goto(s, IF f = Notepad THEN "done" ELSE "rename")
  /\ UNCHANGED <<dirs, call, held, todo, budget, mishap, expected, acked>>

\* Faulty: the temporary file is left where it is.
RenameNever(s) ==
  /\ pc[s] = "rename"
  /\ Goto(s, "done")
  /\ UNCHANGED <<files, tmp, fd, dirs, call, held, todo, budget, mishap, expected, acked>>

\* The temporary file is gone if another writer of this file has renamed it.
Rename(s) ==
  /\ pc[s] = "rename"
  /\ LET f == call[s].file
     IN  \/ /\ tmp[f] # NoFile
            /\ RenameTmp(f)
            /\ Goto(s, "done")
         \/ /\ tmp[f] = NoFile
            /\ Goto(s, IF f \in Goals THEN "unlink" ELSE "failed")
            /\ UNCHANGED <<files, tmp, fd>>
  /\ UNCHANGED <<dirs, call, held, todo, budget, mishap, expected, acked>>

\* The ledger removes the temporary file after a rename that failed.
Unlink(s) ==
  /\ pc[s] = "unlink"
  /\ RemoveTmp(call[s].file)
  /\ Goto(s, "failed")
  /\ UNCHANGED <<dirs, call, held, todo, budget, mishap, expected, acked>>

\* state_clear removes one file after another: the session's and then the
\* shared one, or the shared one and then those of the sessions it finds.
ClearNext(s) ==
  IF call[s].file \in todo[s] THEN {call[s].file} ELSE todo[s]

Clear(s) ==
  /\ pc[s] = "clear"
  /\ \/ \E f \in ClearNext(s) :
          /\ todo' = [todo EXCEPT ![s] =
               IF call[s].file = Legacy /\ f = Legacy THEN dirs ELSE @ \ {f}]
          /\ IF files[f] # NoFile THEN RemoveFile(f) ELSE UNCHANGED <<files, tmp, fd>>
          /\ UNCHANGED pc
     \/ /\ todo[s] = {}
        /\ Goto(s, "done")
        /\ UNCHANGED <<files, tmp, fd, todo>>
  /\ UNCHANGED <<dirs, call, held, budget, mishap, expected, acked>>

\* Forget the call, the temporary variables of its handler included.
Idle(s) ==
  /\ Goto(s, "idle")
  /\ call' = [call EXCEPT ![s] = None]
  /\ held' = [held EXCEPT ![s] = NoFile]
  /\ todo' = [todo EXCEPT ![s] = {}]

Effects(s, f) == {After(call[s], x) : x \in {y \in expected[f] : Accepts(call[s], y)}}

\* Two calls have been on the file at once, and none has left it alone and
\* whole since.
Overlapped(f) == "overlap" \in mishap[f]

Settles(s, f) ==
  /\ f \in Touches(call[s])
  /\ \A t \in Servers \ {s} : ~ Busy(t, f)
  /\ files[f] \in Records(f) \cup {NoFile}

\* The call of server s ends: its effect on a file that calls have overlapped on
\* is what they have left there, and on any other file one of new[f].
Settle(s, new) ==
  expected' = [f \in Files |->
    IF f \notin Touches(call[s]) THEN expected[f]
    ELSE IF ~ Overlapped(f) THEN new[f]
    ELSE IF Settles(s, f) THEN {files[f]} ELSE expected[f]]

\* A memory that takes notes, a notepad whose only such lines are its three
\* headings.
Clean(f, x) ==
  /\ x \in Records(f)
  /\ f = Memory => x.notes # NoList
  /\ f = Notepad => /\ Cardinality(Headed(x)) = 3
                    /\ \A i \in Headed(x) : i = 1 \/ x[i - 1] # Stamp

Replaces(c) == \/ c.tool = "replace"
               \/ c.tool = "merge" /\ c.arg.notes # Unsaid

\* What has been answered for, until a call replaces it or the file's content
\* is not clean.
Acknowledge(s, new) ==
  acked' = [f \in {Memory, Notepad} |->
    IF f \notin Touches(call[s]) THEN acked[f]
    ELSE IF \/ Overlapped(f) \/ Replaces(call[s])
            \/ \E x \in expected'[f] : ~ Clean(f, x)
    THEN {}
    ELSE acked[f] \cup new]

Adds(c) == IF c.tool \in {"add", "working", "manual"} THEN {<<c.tool, c.arg>>} ELSE {}

\* The reply: the call has had its effect, or refused and had none.
Reply(s) ==
  /\ pc[s] \in {"done", "failed"}
  /\ Idle(s)
  /\ mishap' = [f \in Files |-> IF Settles(s, f) THEN {} ELSE mishap[f]]
  /\ Settle(s, [f \in Files |->
       IF pc[s] = "done" THEN Effects(s, f)
       ELSE {x \in expected[f] : ~ Accepts(call[s], x)}])
  /\ Acknowledge(s, IF pc[s] = "done" THEN Adds(call[s]) ELSE {})
  /\ UNCHANGED <<files, tmp, fd, dirs, budget>>

\* The server is killed and started again: what it had not yet answered has
\* had its effect on a file or has not, or has left the notepad cut off.
Crash(s) ==
  /\ pc[s] # "idle"
  /\ budget["crash"] > 0
  /\ budget' = [budget EXCEPT !["crash"] = @ - 1]
  /\ Idle(s)
  /\ Drop(s)
  /\ mishap' = [f \in Files |->
       IF f \notin Touches(call[s]) THEN mishap[f]
       ELSE IF Settles(s, f) THEN {} ELSE mishap[f] \cup {"crash"}]
  /\ Settle(s, [f \in Files |->
       expected[f] \cup Effects(s, f) \cup ({Empty} \cap {files[f]})])
  /\ Acknowledge(s, {})
  /\ UNCHANGED dirs

Next ==
  \E s \in Servers :
    \/ Call(s) \/ Load(s) \/ Open(s) \/ Write(s) \/ Rename(s) \/ Unlink(s)
    \/ Clear(s) \/ Reply(s) \/ Crash(s)

Spec == Init /\ [][Next]_vars
=============================================================================
