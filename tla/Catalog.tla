------------------------------ MODULE Catalog -------------------------------
(***************************************************************************)
(* The catalog of profiles, models and dependencies that is in force, kept *)
(* in a directory of files (omc-host/src/catalog.rs).                      *)
(*                                                                         *)
(* Each omc command is a process that makes one call and may be killed at  *)
(* any access to a file.  A catalog is a value; a file that holds none is  *)
(* torn.  Digests, signatures, schemas and the download are left out: a    *)
(* refresh begins with a catalog that has passed them.  The registry of    *)
(* trusted sources, which decides whether it may begin, is left out too.   *)
(***************************************************************************)
EXTENDS TeamBounds

CONSTANTS
  Commands,     \* the omc processes
  Catalogs,     \* the catalogs a refresh may bring
  Bundled,      \* the one compiled into the program
  Compatible,   \* the <<x, y>> of which y may follow x
  NoCatalog,    \* what a name without a file holds
  Torn          \* what is read of a file that is being written or was cut off

ASSUME CatalogAssumption ==
  /\ {Bundled, NoCatalog, Torn} \cap Catalogs = {}
  /\ NoCatalog # Torn
  /\ Compatible \subseteq (Catalogs \cup {Bundled}) \X Catalogs
  /\ {"status", "refresh", "rollback", "iofault", "kill"} \subseteq Kinds

CatalogFiles ==
  {"active", "previous", "staged", "swap", "recovered", "corrupt"}

VARIABLES
  disk,         \* the content of each file of the directory
  writes,       \* the file each command has open for writing
  command,      \* the call each command is in, and where in it
  may,          \* history: the catalogs that may be in force
  overlapped    \* history: two calls were once made at the same time

catalogVars == <<disk, writes, command, may, overlapped>>

Directory == INSTANCE FileSystem WITH
  Files <- CatalogFiles, NoFile <- NoCatalog, Empty <- Torn,
  files <- disk, tmp <- <<>>, fd <- writes

NoCommand == [do |-> "none", at |-> "end", new |-> Bundled, got |-> Bundled]

CatalogInit ==
  /\ disk = [f \in CatalogFiles |-> NoCatalog]
  /\ writes = [p \in Commands |-> Directory!Closed]
  /\ command = [p \in Commands |-> NoCommand]
  /\ may = {Bundled}
  /\ overlapped = FALSE

IsFile(f) == disk[f] # NoCatalog

\* read_valid: the file is there and its catalog passes validation.
ReadValid(f) == disk[f] \in Catalogs

\* What may take the place of active while it is moved aside: previous, or what
\* an earlier refresh has staged and not activated.
Others == {disk[f] : f \in {g \in {"previous", "staged"} : ReadValid(g)}}

Reaches(p, label) == command[p].at = label
GoOn(p, label) == command' = [command EXCEPT ![p].at = label]
GoOnWith(p, x, label) ==
  command' = [command EXCEPT ![p].at = label, ![p].got = x]
EndCall(p) == command' = [command EXCEPT ![p] = NoCommand]

\* The steps that access no file but to ask whether it is there.
Questions ==
  {"end", "look", "spare", "bundled", "keep", "older", "failed", "vacant", "begin",
   "current", "swap"}

Keeps == UNCHANGED <<disk, writes>>
Silent == UNCHANGED <<may, overlapped>>

\* if f.is_file()
Asks(p, f, yes, no) ==
  GoOn(p, IF IsFile(f) THEN yes ELSE no) /\ Keeps /\ Silent

\* The write of fs::write goes to the file that was opened, whatever its name is
\* by now.
Fill(p, x) ==
  IF writes[p] = Directory!Closed THEN Keeps ELSE Directory!Put(p, writes[p].file, x)

\* fs::rename with ?: an error ends the call.
Moves(p, a, b, label) ==
  IF IsFile(a) THEN Directory!RenameFile(a, b) /\ GoOn(p, label)
  ELSE EndCall(p) /\ Keeps

Removes(p, f, label) ==
  IF IsFile(f) THEN Directory!RemoveFile(f) /\ GoOn(p, label)
  ELSE EndCall(p) /\ Keeps

-----------------------------------------------------------------------------
(* The calls.                                                              *)

Call(p, kind, label, x) ==
  /\ command[p] = NoCommand
  /\ Spend(kind)
  /\ command' = [command EXCEPT ![p] =
                   [do |-> kind, at |-> label, new |-> x, got |-> Bundled]]
  /\ overlapped' = (overlapped \/ \E q \in Commands \ {p} : command[q] # NoCommand)
  /\ Keeps /\ UNCHANGED may

\* omc catalog status, and every command that asks for the catalog.
Active(p) == Call(p, "status", "look", Bundled)

\* refresh_file, and refresh_source of a trusted source, up to the call of
\* active in verify_and_activate.
Refresh(p) == \E c \in Catalogs : Call(p, "refresh", "look", c)

Rollback(p) == Call(p, "rollback", "begin", Bundled)

\* A call of active returns x to whoever called it.
Returns(p, x) ==
  IF command[p].do = "refresh" /\ <<x, command[p].new>> \in Compatible
  THEN GoOn(p, "stage")
  ELSE EndCall(p)

Reports(p, x) == Returns(p, x) /\ may' = {x} /\ UNCHANGED overlapped

BecomesActive(p, f) ==
  IF IsFile(f) THEN Directory!RenameFile(f, "active") /\ Reports(p, command[p].got)
  ELSE EndCall(p) /\ Keeps /\ Silent

-----------------------------------------------------------------------------
(* active: what is in force, repaired where a call was cut off.            *)

LookActive(p) == Reaches(p, "look") /\ Asks(p, "active", "read", "missing")

\* Active does not parse: go on with previous, if that does.
Read(p) ==
  /\ Reaches(p, "read")
  /\ IF ReadValid("active") THEN Reports(p, disk["active"])
     ELSE GoOn(p, "unreadable") /\ Silent
  /\ Keeps

Unreadable(p) ==
  /\ Reaches(p, "unreadable")
  /\ IF ReadValid("previous") THEN GoOnWith(p, disk["previous"], "copy")
     ELSE EndCall(p)
  /\ Keeps /\ Silent

\* The copy of previous that replaces active.
OpenRecovered(p) ==
  /\ Reaches(p, "copy")
  /\ Directory!OpenFile(p, "recovered")
  /\ GoOn(p, "fill") /\ Silent

WriteRecovered(p) ==
  /\ Reaches(p, "fill")
  /\ Fill(p, command[p].got)
  /\ GoOn(p, "spare") /\ Silent

\* Active is kept as corrupt, in the place of an earlier one.
Spare(p) == Reaches(p, "spare") /\ Asks(p, "corrupt", "discard", "quarantine")

Discard(p) ==
  /\ Reaches(p, "discard")
  /\ Removes(p, "corrupt", "quarantine") /\ Silent

Quarantined(p) ==
  /\ Reaches(p, "quarantine")
  /\ Moves(p, "active", "corrupt", "replace") /\ Silent

Replace(p) == Reaches(p, "replace") /\ BecomesActive(p, "recovered")

\* recover_missing_active: a staged catalog that is valid, or else the previous
\* one, becomes active; with neither, the bundled one is in force.
Candidate(p, f, label, otherwise) ==
  /\ IF ReadValid(f) THEN GoOnWith(p, disk[f], label) ELSE GoOn(p, otherwise)
  /\ Keeps /\ Silent

TryStaged(p) == Reaches(p, "missing") /\ Candidate(p, "staged", "finish", "fallback")
TryPrevious(p) == Reaches(p, "fallback") /\ Candidate(p, "previous", "undone", "bundled")

Promote(p) ==
  \/ Reaches(p, "finish") /\ BecomesActive(p, "staged")
  \/ Reaches(p, "undone") /\ BecomesActive(p, "previous")

\* Also where neither could be read.
UseBundled(p) == Reaches(p, "bundled") /\ Returns(p, Bundled) /\ Keeps /\ Silent

-----------------------------------------------------------------------------
(* activate.                                                               *)

OpenStaged(p) ==
  /\ Reaches(p, "stage")
  /\ Directory!OpenFile(p, "staged")
  /\ GoOn(p, "write")
  /\ may' = may \cup {command[p].new}
  /\ UNCHANGED overlapped

WriteStaged(p) ==
  /\ Reaches(p, "write")
  /\ Fill(p, command[p].new)
  /\ GoOn(p, "reread") /\ Silent

\* The staged file is read back and validated; by then it may be the work of
\* another process.
Reread(p) ==
  /\ Reaches(p, "reread")
  /\ IF ReadValid("staged") THEN GoOn(p, "keep") ELSE EndCall(p)
  /\ Keeps /\ Silent

\* Active, if there is one, becomes previous.
Keep(p) ==
  \/ Reaches(p, "keep") /\ Asks(p, "active", "older", "commit")
  \/ Reaches(p, "older") /\ Asks(p, "previous", "forget", "retire")

Forget(p) == Reaches(p, "forget") /\ Removes(p, "previous", "retire") /\ Silent
Retire(p) == Reaches(p, "retire") /\ Moves(p, "active", "previous", "commit") /\ Silent

Commit(p) ==
  /\ Reaches(p, "commit")
  /\ IF IsFile("staged")
     THEN /\ Directory!RenameFile("staged", "active")
          /\ EndCall(p)
          /\ may' = {command[p].new}
     ELSE GoOn(p, "failed") /\ Keeps /\ UNCHANGED may
  /\ UNCHANGED overlapped

\* The commit failed: previous is put back, if nothing is active.
Failed(p) ==
  /\ \/ Reaches(p, "failed") /\ IF IsFile("previous") THEN GoOn(p, "vacant") ELSE EndCall(p)
     \/ Reaches(p, "vacant") /\ IF IsFile("active") THEN EndCall(p) ELSE GoOn(p, "restore")
  /\ Keeps /\ Silent

Restore(p) ==
  /\ Reaches(p, "restore")
  /\ IF IsFile("previous") THEN Directory!RenameFile("previous", "active") ELSE Keeps
  /\ EndCall(p) /\ Silent

-----------------------------------------------------------------------------
(* rollback.                                                               *)

\* Faulty: a rollback with nothing to roll back to.
BeginRollbackAnyway(p) ==
  /\ Reaches(p, "begin")
  /\ GoOn(p, "current")
  /\ Keeps /\ Silent

BeginRollback(p) ==
  /\ Reaches(p, "begin")
  /\ IF IsFile("previous")
     THEN /\ GoOn(p, "current")
          /\ may' = may \cup Others
     ELSE EndCall(p) /\ UNCHANGED may
  /\ Keeps /\ UNCHANGED overlapped

Current(p) == Reaches(p, "current") /\ Asks(p, "active", "aside", "back")
Aside(p) == Reaches(p, "aside") /\ Moves(p, "active", "swap", "back") /\ Silent
Back(p) == Reaches(p, "back") /\ Moves(p, "previous", "active", "swap") /\ Silent

Swap(p) == Reaches(p, "swap") /\ Asks(p, "swap", "exchange", "look")
Exchange(p) == Reaches(p, "exchange") /\ Moves(p, "swap", "previous", "look") /\ Silent

-----------------------------------------------------------------------------
(* What goes wrong.                                                        *)

\* Where a call goes on after an error; from every other step it returns it.
\* Whether a file is there is taken to be known.
Survives ==
  [read |-> "unreadable", missing |-> "fallback", fallback |-> "bundled",
   commit |-> "failed"]

\* An access to a file fails.  Active, when it cannot be read, is replaced.
IOFault(p) ==
  /\ command[p].at \notin Questions
  /\ Spend("iofault")
  /\ IF command[p].at \in DOMAIN Survives THEN GoOn(p, Survives[command[p].at])
     ELSE EndCall(p)
  /\ may' = IF Reaches(p, "read") THEN may \cup Others ELSE may
  /\ Directory!Drop(p) /\ UNCHANGED overlapped

Kill(p) ==
  /\ command[p] # NoCommand
  /\ Spend("kill")
  /\ EndCall(p)
  /\ Directory!Drop(p) /\ Silent

CatalogStep(p) ==
  \/ LookActive(p) \/ Read(p) \/ Unreadable(p) \/ OpenRecovered(p) \/ WriteRecovered(p)
  \/ Spare(p) \/ Discard(p) \/ Quarantined(p) \/ Replace(p)
  \/ TryStaged(p) \/ TryPrevious(p) \/ Promote(p) \/ UseBundled(p)
  \/ OpenStaged(p) \/ WriteStaged(p) \/ Reread(p) \/ Keep(p) \/ Forget(p)
  \/ Retire(p) \/ Commit(p) \/ Failed(p) \/ Restore(p)
  \/ BeginRollback(p) \/ Current(p) \/ Aside(p) \/ Back(p) \/ Swap(p) \/ Exchange(p)

CatalogNext ==
  \E p \in Commands :
    \/ Active(p) \/ Refresh(p) \/ Rollback(p)
    \/ CatalogStep(p) /\ UNCHANGED budget
    \/ IOFault(p) \/ Kill(p)

CatalogSpec ==
  CatalogInit /\ budget \in Budgets /\ [][CatalogNext]_<<catalogVars, budget>>
=============================================================================
