----------------------- MODULE ToolServersProperties ------------------------
(***************************************************************************)
(* What a host may rely on when it calls the tools.                        *)
(***************************************************************************)
EXTENDS ToolServers

Places == {"idle", "load", "open", "write", "rename", "unlink", "clear",
           "done", "failed"}

\* Every variable has its type; a temporary file never belongs to the notepad.
TypeOK ==
  /\ DOMAIN files = Files
  /\ \A f \in Files : files[f] \in Records(f) \cup {NoFile, Empty, Torn}
  /\ DOMAIN tmp = Files
  /\ \A f \in Files : tmp[f] \in Records(f) \cup {NoFile, Empty, Torn}
  /\ tmp[Notepad] = NoFile
  /\ fd \in [Servers -> Handles]
  /\ dirs \subseteq Sessions
  /\ call \in [Servers -> Calls \cup {None}]
  /\ pc \in [Servers -> Places]
  /\ \A s \in Servers : pc[s] = "idle" <=> call[s] = None
  /\ DOMAIN held = Servers
  /\ \A s \in Servers : pc[s] \in {"open", "write", "rename"} =>
                          held[s] \in Records(call[s].file)
  /\ todo \in [Servers -> SUBSET States]
  /\ budget \in [Families -> Nat]
  /\ mishap \in [Files -> SUBSET {"overlap", "crash"}]
  /\ DOMAIN expected = Files
  /\ acked \in [{Memory, Notepad} -> SUBSET ({"add", "working", "manual"} \X Notes)]

\* A reader never meets half a file: every file is absent or parses, at every
\* point of every call and after a crash at any of them.  Exempt are a file while
\* two calls are on it, or have been and no call has left it alone and whole
\* since; and the notepad, which is written in place: it is empty while a call
\* writes it, and after a crash at that point until the next call.
WholeRecords ==
  \A f \in Files :
    ~ Overlapped(f) =>
      \/ files[f] \in Records(f) \cup {NoFile}
      \/ /\ f = Notepad /\ files[f] = Empty
         /\ "crash" \in mishap[f] \/ \E s \in Servers : pc[s] = "write" /\ Busy(s, f)

\* Between calls a file holds what the calls answered so far make of it in
\* the order of their answers, whatever each of them makes of what it finds;
\* a call cut off by a crash has had all of its effect on the file or none, or
\* has left the notepad empty; a call refused has changed nothing.  A file that
\* two calls are on is exempt until a call leaves it alone and whole: what it
\* holds then is what the next calls go on from.
AsIfOneAtATime ==
  \A f \in Files :
    ~ Overlapped(f) /\ (\A s \in Servers : ~ Busy(s, f)) => files[f] \in expected[f]

\* The notes of a memory, the entries in a section of a notepad.
Entries(f, x) ==
  IF f = Memory
  THEN {<<"add", n>> : n \in IF x \in Memories /\ x.notes # NoList THEN x.notes ELSE {}}
  ELSE {e \in {"working", "manual"} \X Notes :
          LET text == Section(x, e[1])
              entry == <<Stamp>> \o e[2]
          IN  \E i \in 0 .. Len(text) - Len(entry) :
                \A k \in DOMAIN entry : text[i + k] = entry[k]}

\* A note or entry answered for stays in its file until a call replaces the
\* notes, over any later calls and crashes, as long as every content the calls
\* leave is clean: a memory whose notes are an array, a notepad in which no
\* entry has a line that starts with "## ".  A crash that leaves the notepad
\* empty, and a meeting of two calls, give up what was there before.
EntriesKept ==
  \A f \in {Memory, Notepad} :
    ~ Overlapped(f) /\ (\A s \in Servers : ~ Busy(s, f)) => acked[f] \subseteq Entries(f, files[f])

GoalTransitions ==
  {<<"planned", "active">>, <<"planned", "blocked">>, <<"active", "blocked">>,
   <<"active", "completed">>, <<"blocked", "active">>}

\* A goal is not deleted, moves only along the contract's transitions, keeps its
\* checkpoints and is final once completed, also when servers crash.  Exempt is
\* a goal that two calls are on, or have been on and no call has left alone and
\* whole since: the ledger has no lock, and such calls undo each other's steps.
GoalSteps ==
  [][\A g \in Goals :
       ~ Overlapped(g) /\ files[g] # NoFile =>
         /\ files'[g] \in GoalRecords
         /\ files[g].checkpoints \subseteq files'[g].checkpoints
         /\ \/ <<files[g].status, files'[g].status>> \in GoalTransitions
            \/ files[g].status = files'[g].status
         /\ files[g].status = "completed" => files'[g] = files[g]]_vars
=============================================================================
