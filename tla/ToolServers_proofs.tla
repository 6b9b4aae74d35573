------------------------- MODULE ToolServers_proofs -------------------------
(***************************************************************************)
(* Proofs about the tool servers, for any servers, files, calls and        *)
(* crashes.                                                                *)
(***************************************************************************)
EXTENDS ToolServersProperties, FiniteSetTheorems, SequenceTheorems,
        WellFoundedInduction, TLAPS

-----------------------------------------------------------------------------
(* The calls and the contents they make.                                   *)

GoalTools == {"create", "start", "block", "complete", "checkpoint"}

\* A tool is for one kind of file, and so are its arguments.
LEMMA CallFacts ==
  ASSUME NEW c \in Calls
  PROVE  /\ c.file \in Files
         /\ c.file \in Goals <=> c.tool \in GoalTools
         /\ c.file \in States <=> c.tool \in {"write", "clear"}
         /\ c.file = Memory <=> c.tool \in {"merge", "replace", "add"}
         /\ c.file = Notepad <=> c.tool \in Pages
         /\ c.tool = "checkpoint" => c.arg \in Checkpoints
         /\ c.tool = "write" => c.arg \in Values
         /\ c.tool \in {"merge", "replace"} => c.arg \in [base : Values, notes : Lists]
         /\ c.tool = "add" \/ c.tool \in Pages => c.arg \in Notes
<1>1. CASE c \in [tool : {"create", "start", "block", "complete"}, file : Goals, arg : {None}]
  BY <1>1, FilesAssumption DEF FilesAssumption, Files, GoalTools, Pages
<1>2. CASE c \in [tool : {"checkpoint"}, file : Goals, arg : Checkpoints]
  BY <1>2, FilesAssumption DEF FilesAssumption, Files, GoalTools, Pages
<1>3. CASE c \in [tool : {"write"}, file : States, arg : Values]
  BY <1>3, FilesAssumption DEF FilesAssumption, Files, GoalTools, Pages
<1>4. CASE c \in [tool : {"clear"}, file : States, arg : {None}]
  BY <1>4, FilesAssumption DEF FilesAssumption, Files, GoalTools, Pages
<1>5. CASE c \in [tool : {"merge", "replace"}, file : {Memory}, arg : [base : Values, notes : Lists]]
  BY <1>5, FilesAssumption DEF FilesAssumption, Files, GoalTools, Pages
<1>6. CASE c \in [tool : {"add"}, file : {Memory}, arg : Notes]
  BY <1>6, FilesAssumption DEF FilesAssumption, Files, GoalTools, Pages
<1>7. CASE c \in [tool : Pages, file : {Notepad}, arg : Notes]
  BY <1>7, FilesAssumption DEF FilesAssumption, Files, GoalTools, Pages
<1>8. QED BY <1>1, <1>2, <1>3, <1>4, <1>5, <1>6, <1>7 DEF Calls

\* The records of each kind of file; none of them is a file that is missing,
\* cut off or torn.
LEMMA RecordFacts ==
  /\ \A f \in Goals : f \in Files /\ Records(f) = GoalRecords
  /\ \A f \in States : f \in Files /\ f \notin Goals /\ Records(f) = Values
  /\ Memory \in Files /\ Records(Memory) = Memories
  /\ Notepad \in Files /\ Notepad \notin Goals \cup States \cup {Memory}
  /\ Records(Notepad) = Notepads
  /\ \A f \in Files : NoFile \notin Records(f) /\ Empty \notin Records(f) /\ Torn \notin Records(f)
  /\ NoFile # Empty /\ NoFile # Torn /\ Empty # Torn
<1> USE FilesAssumption DEF FilesAssumption
<1>1. Goals \cap States = {} /\ Memory \notin Goals \cup States
      /\ Notepad \notin Goals \cup States \cup {Memory}
  OBVIOUS
<1>2. \A f \in Goals : f \in Files /\ Records(f) = GoalRecords
  BY DEF Records, Files
<1>3. \A f \in States : f \in Files /\ f \notin Goals /\ Records(f) = Values
  BY <1>1 DEF Records, Files
<1>4. Memory \in Files /\ Records(Memory) = Memories
  BY <1>1 DEF Records, Files
<1>5. Notepad \in Files /\ Records(Notepad) = Notepads
  BY <1>1 DEF Records, Files
<1>6. QED BY <1>1, <1>2, <1>3, <1>4, <1>5

\* A set of numbers that is not empty has a least one.
LEMMA Least ==
  ASSUME NEW S, S \subseteq Nat, S # {}
  PROVE  Min(S) \in S /\ \A y \in S : Min(S) <= y
<1> DEFINE R == {ss \in Nat \X Nat : ss[1] < ss[2]}
<1>1. OpToRel(<, Nat) = R
  BY Zenon DEF OpToRel
<1>2. PICK x \in S : \A y \in S : ~ (<<y, x>> \in R)
  <2> HIDE DEF R
  <2>1. QED BY <1>1, NatLessThanWellFounded, WFMin
<1>3. ASSUME NEW y \in S
      PROVE  x <= y
  <2>1. x \in Nat /\ y \in Nat /\ ~ (<<y, x>> \in R)
    BY <1>2
  <2>2. <<y, x>> \in R <=> y < x
    BY <2>1
  <2>3. QED BY <2>1, <2>2
<1>4. QED BY <1>3 DEF Min

\* A section is some text, possibly none.
LEMMA SectionType ==
  ASSUME NEW x, NEW page
  PROVE  Section(x, page) \in Notepads
<1> DEFINE found == {i \in DOMAIN x : x[i] = Marker[page]}
           start == Min(found) + 1
           ends == {j \in Headed(x) : j > start /\ x[j - 1] # Stamp}
           end == IF ends = {} THEN Len(x) ELSE Min(ends) - 1
<1>1. CASE x \notin Notepads \/ found = {}
  BY <1>1 DEF Section, Notepads
<1>2. CASE x \in Notepads /\ found # {}
  <2>1. DOMAIN x = 1 .. Len(x) /\ Len(x) \in Nat
    BY <1>2 DEF Notepads
  <2>2. start \in 2 .. Len(x) + 1
    BY <1>2, <2>1, Least
  <2> HIDE DEF start
  <2>3. end \in Int /\ end <= Len(x)
    <3>1. ends \subseteq Nat /\ \A j \in ends : j <= Len(x)
      BY <2>1, <2>2 DEF Headed
    <3>2. ends # {} => Min(ends) \in ends /\ Min(ends) \in Nat
      BY <3>1, Least
    <3> HIDE DEF ends
    <3>3. QED BY <2>1, <3>1, <3>2
  <2> HIDE DEF end
  <2>4. SubSeq(x, start, end) \in Notepads
    BY <1>2, <2>2, <2>3, SubSeqProperties DEF Notepads
  <2>5. Section(x, page) = SubSeq(x, start, end)
    BY <1>2 DEF Section, start, end
  <2>6. QED BY <2>4, <2>5
<1>3. QED BY <1>1, <1>2

\* A text built of sections is a text.
LEMMA BuildType ==
  ASSUME NEW t \in [Pages -> Notepads]
  PROVE  Build(t) \in Notepads
<1>1. \A u, v \in Notepads : u \o v \in Notepads
  BY DEF Notepads
<1>2. \A page \in Pages : <<Marker[page]>> \in Notepads
  BY DEF Notepads, Markers
<1>3. \A page \in Pages : Filled(t[page]) \in Notepads
  <2>1. <<Placeholder>> \in Notepads
    BY DEF Notepads
  <2>2. QED BY <2>1 DEF Filled
<1>4. QED BY <1>1, <1>2, <1>3 DEF Build, Pages

\* What a call that changes a file makes of it is a record of that file.
LEMMA AfterType ==
  ASSUME NEW c \in Calls, NEW x, c.tool # "clear", Accepts(c, x)
  PROVE  After(c, x) \in Records(c.file)
<1>1. CASE c.file \in Goals
  <2>1. /\ c.tool \in GoalTools /\ c.tool # "write" /\ Records(c.file) = GoalRecords
        /\ c.file # Memory /\ c.file # Notepad
    BY <1>1, CallFacts, RecordFacts, FilesAssumption DEF GoalTools, FilesAssumption
  <2>2. After(c, x) = GoalAfter(c, x)
    BY <1>1, <2>1 DEF After
  <2>3. CASE c.tool = "create"
    BY <2>1, <2>2, <2>3 DEF GoalAfter, NewGoal, GoalRecords, Statuses
  <2>4. CASE c.tool # "create"
    <3>1. x \in GoalRecords
      BY <2>1, <2>4 DEF Accepts, GoalTools
    <3>2. CASE c.tool = "checkpoint"
      <4>1. GoalAfter(c, x) = [x EXCEPT !.checkpoints = @ \cup {c.arg}]
        BY <3>2 DEF GoalAfter
      <4>2. c.arg \in Checkpoints
        BY <3>2, CallFacts
      <4>3. QED BY <2>1, <2>2, <3>1, <4>1, <4>2 DEF GoalRecords
    <3>3. CASE c.tool # "checkpoint"
      <4>1. PICK st \in Statuses : GoalAfter(c, x) = [x EXCEPT !.status = st]
        BY <2>1, <2>4, <3>3 DEF GoalAfter, GoalTools, Statuses
      <4>2. QED BY <2>1, <2>2, <3>1, <4>1 DEF GoalRecords
    <3>4. QED BY <3>2, <3>3
  <2>5. QED BY <2>3, <2>4
<1>2. CASE c.file \in States
  BY <1>2, CallFacts, RecordFacts DEF After
<1>3. CASE c.file = Memory
  <2>1. /\ c.tool \in {"merge", "replace", "add"} /\ c.file \notin Goals
        /\ c.tool # "write" /\ c.file # Notepad /\ Records(c.file) = Memories
    BY <1>3, CallFacts, RecordFacts, FilesAssumption DEF FilesAssumption
  <2>2. After(c, x) = MemoryAfter(c, x)
    BY <1>3, <2>1 DEF After
  <2>3. CASE c.tool = "add"
    <3>1. x \in Memories /\ c.arg \in Notes
      BY <2>3, CallFacts DEF Accepts
    <3>2. MemoryAfter(c, x) = IF x.notes = NoList THEN x ELSE [x EXCEPT !.notes = @ \cup {c.arg}]
      BY <2>3 DEF MemoryAfter
    <3>3. QED BY <2>1, <2>2, <3>1, <3>2 DEF Memories
  <2>4. CASE c.tool # "add"
    <3>1. /\ c.arg \in [base : Values, notes : Lists] /\ c.arg.base \in Values
          /\ Lists \subseteq (SUBSET Notes) \cup {Unsaid, NoList}
      BY <2>1, <2>4, CallFacts, FilesAssumption DEF FilesAssumption
    <3>2. \A l \in (SUBSET Notes) \cup {NoList} :
            Overlaid(c.arg.notes, l) \in (SUBSET Notes) \cup {NoList}
      BY <3>1 DEF Overlaid
    <3>3. PICK l \in (SUBSET Notes) \cup {NoList} :
            MemoryAfter(c, x) = [base |-> c.arg.base, notes |-> Overlaid(c.arg.notes, l)]
      <4>1. CASE c.tool = "merge" /\ x \in Memories
        BY <4>1 DEF MemoryAfter, Memories
      <4>2. CASE ~ (c.tool = "merge" /\ x \in Memories)
        BY <2>4, <4>2 DEF MemoryAfter
      <4>3. QED BY <4>1, <4>2
    <3>4. QED BY <2>1, <2>2, <3>1, <3>2, <3>3 DEF Memories
  <2>5. QED BY <2>3, <2>4
<1>4. CASE c.file = Notepad
  <2>1. /\ c.tool \in Pages /\ c.tool \notin {"clear", "write"} /\ c.arg \in Notes
        /\ c.file \notin Goals /\ c.file # Memory /\ Records(c.file) = Notepads
    BY <1>4, CallFacts, RecordFacts DEF Pages
  <2>2. After(c, x) = NotepadAfter(c, x)
    BY <1>4, <2>1 DEF After
  <2>3. c.arg \in Notepads /\ <<Stamp>> \in Notepads /\ <<Placeholder>> \in Notepads
    <3>1. c.arg \in Seq(Lines)
      BY <2>1, FilesAssumption DEF FilesAssumption
    <3>2. QED BY <3>1 DEF Notepads
  <2>4. \A t \in [Pages -> Notepads] : Build(t) \in Notepads
    BY <2>3, BuildType
  <2>5. \A t, u \in Notepads : t \o u \in Notepads
    BY DEF Notepads
  <2>6. NotepadAfter(c, x) \in Notepads
    <3>1. \A page \in Pages :
            Section(x, page) \in Notepads /\ Section(x, page) \o <<Stamp>> \o c.arg \in Notepads
      BY <2>3, <2>5, SectionType
    <3>2. QED BY <2>3, <2>4, <3>1 DEF NotepadAfter
  <2>7. QED BY <2>1, <2>2, <2>6
<1>5. QED BY <1>1, <1>2, <1>3, <1>4, CallFacts DEF Files

-----------------------------------------------------------------------------
(* Types, in three parts: the disk, the calls, and the books.              *)

\* A step of server p.
Step(p) ==
  \/ Call(p) \/ Load(p) \/ Open(p) \/ Write(p) \/ Rename(p) \/ Unlink(p)
  \/ Clear(p) \/ Reply(p) \/ Crash(p)

Contents(g) ==
  DOMAIN g = Files /\ \A f \in Files : g[f] \in Records(f) \cup {NoFile, Empty, Torn}

Disk ==
  /\ Contents(files) /\ Contents(tmp) /\ tmp[Notepad] = NoFile
  /\ fd \in [Servers -> Handles]
  /\ \A s \in Servers : fd[s] # At("tmp", Notepad)

CallTyped(s) ==
  /\ call[s] \in Calls \cup {None}
  /\ pc[s] \in Places
  /\ pc[s] = "idle" <=> call[s] = None
  /\ pc[s] \in {"open", "write", "rename"} => held[s] \in Records(call[s].file)
  /\ pc[s] \in {"load", "open", "write", "rename", "unlink"} => call[s].tool # "clear"
  /\ todo[s] \in SUBSET States
  /\ pc[s] = "clear" => call[s].tool = "clear" /\ todo[s] \subseteq Touches(call[s])

Shapes ==
  /\ call = [s \in Servers |-> call[s]] /\ pc = [s \in Servers |-> pc[s]]
  /\ held = [s \in Servers |-> held[s]] /\ todo = [s \in Servers |-> todo[s]]

CallsTyped ==
  /\ Shapes
  /\ dirs \subseteq Sessions
  /\ \A s \in Servers : CallTyped(s)

Books ==
  /\ budget \in [Families -> Nat]
  /\ mishap \in [Files -> SUBSET {"overlap", "crash"}]
  /\ DOMAIN expected = Files
  /\ acked \in [{Memory, Notepad} -> SUBSET ({"add", "working", "manual"} \X Notes)]

\* The types of the run, with what a call's place says of its tool.
Typed == Disk /\ CallsTyped /\ Books

\* Opening, writing, renaming and removing files leaves a disk.
LEMMA DiskSteps ==
  ASSUME Disk, NEW s \in Servers, NEW f \in Files
  PROVE  /\ f # Notepad /\ OpenTmp(s, f) => Disk'
         /\ OpenFile(s, f) => Disk'
         /\ \A x \in Records(f) \cup {Torn} : Put(s, f, x) => Disk'
         /\ tmp[f] # NoFile /\ RenameTmp(f) => Disk'
         /\ RemoveFile(f) \/ RemoveTmp(f) \/ Drop(s) => Disk'
         /\ UNCHANGED <<files, tmp, fd>> => Disk'
<1> USE DEF Disk, Contents
<1>1. Notepad \in Files
  BY RecordFacts
<1>2. Closed \in Handles /\ \A g \in Files : At("file", g) \in Handles /\ At("tmp", g) \in Handles
  BY DEF Closed, Handles, At
<1>3. /\ \A g \in Files, h \in Files : At("file", g) # At("tmp", h)
      /\ \A g \in Files : Closed # At("tmp", g)
      /\ \A g \in Files, h \in Files : At("tmp", g) = At("tmp", h) => g = h
  BY DEF At, Closed
<1>4. ASSUME f # Notepad, OpenTmp(s, f)
      PROVE  Disk'
  BY <1>1, <1>2, <1>3, <1>4 DEF OpenTmp
<1>5. ASSUME OpenFile(s, f)
      PROVE  Disk'
  BY <1>1, <1>2, <1>3, <1>5 DEF OpenFile
<1>6. ASSUME NEW x \in Records(f) \cup {Torn}, Put(s, f, x)
      PROVE  Disk'
  <2>1. Contents(files)' /\ Contents(tmp)'
    BY <1>6 DEF Put
  <2>2. (tmp[Notepad] = NoFile)'
    BY <1>1, <1>6 DEF Put
  <2>3. (fd \in [Servers -> Handles])' /\ \A t \in Servers : fd'[t] # At("tmp", Notepad)
    BY <1>1, <1>2, <1>3, <1>6 DEF Put
  <2>4. QED BY <2>1, <2>2, <2>3
<1>7. ASSUME tmp[f] # NoFile, RenameTmp(f)
      PROVE  Disk'
  <2>1. Contents(files)' /\ Contents(tmp)' /\ (tmp[Notepad] = NoFile)'
    BY <1>1, <1>7 DEF RenameTmp
  <2>2. (fd \in [Servers -> Handles])' /\ \A t \in Servers : fd'[t] # At("tmp", Notepad)
    BY <1>1, <1>2, <1>3, <1>7 DEF RenameTmp
  <2>3. QED BY <2>1, <2>2
<1>8. ASSUME RemoveFile(f) \/ RemoveTmp(f) \/ Drop(s)
      PROVE  Disk'
  <2>1. Contents(files)' /\ Contents(tmp)' /\ (tmp[Notepad] = NoFile)'
    BY <1>1, <1>8 DEF RemoveFile, RemoveTmp, Drop
  <2>2. (fd \in [Servers -> Handles])' /\ \A t \in Servers : fd'[t] # At("tmp", Notepad)
    BY <1>1, <1>2, <1>3, <1>8 DEF RemoveFile, RemoveTmp, Drop, Orphaned
  <2>3. QED BY <2>1, <2>2
<1>9. QED BY <1>4, <1>5, <1>6, <1>7, <1>8

\* A server that moves leaves the calls typed if its own is, and the others'
\* are the same.
LEMMA OneCall ==
  ASSUME CallsTyped, NEW s \in Servers, CallTyped(s)', dirs' \subseteq Sessions, Shapes',
         \A t \in Servers \ {s} : /\ call'[t] = call[t] /\ pc'[t] = pc[t]
                                  /\ held'[t] = held[t] /\ todo'[t] = todo[t]
  PROVE  CallsTyped'
<1>1. ASSUME NEW t \in Servers \ {s}
      PROVE  CallTyped(t)'
  BY DEF CallsTyped, CallTyped
<1>2. QED BY <1>1 DEF CallsTyped

\* Nothing has happened, and everything has its type.
LEMMA TypedInit == Init => Typed
<1> SUFFICES ASSUME Init
             PROVE  Typed
  OBVIOUS
<1>1. Disk
  BY RecordFacts DEF Init, Disk, Contents, Closed, Handles, At
<1>2. CallsTyped
  BY DEF Init, CallsTyped, Shapes, CallTyped, Places
<1>3. Books
  BY FilesAssumption DEF Init, Books, FilesAssumption
<1>4. QED BY <1>1, <1>2, <1>3 DEF Typed

\* Accepting a call and going from place to place leaves the calls typed.
LEMMA TypedCall ==
  ASSUME Typed, NEW s \in Servers, Call(s)
  PROVE  Typed'
<1>1. PICK c \in Calls :
        /\ budget[Family(c.file)] > 0
        /\ budget' = [budget EXCEPT ![Family(c.file)] = @ - 1]
        /\ call' = [call EXCEPT ![s] = c]
        /\ pc' = [pc EXCEPT ![s] = IF c.tool = "clear" THEN "clear" ELSE "load"]
        /\ todo' = [todo EXCEPT ![s] = IF c.tool = "clear" THEN {c.file, Legacy} ELSE {}]
        /\ mishap' = [f \in Files |->
             IF f \in Touches(c) /\ \E t \in Servers \ {s} : Busy(t, f)
             THEN mishap[f] \cup {"overlap"} ELSE mishap[f]]
  BY DEF Call, Goto
<1>2. UNCHANGED <<files, tmp, fd, dirs, held, expected, acked>>
  BY DEF Call
<1>3. Disk'
  BY <1>2 DEF Typed, Disk, Contents
<1>4. Books'
  <2>1. budget' \in [Families -> Nat]
    <3>1. PICK k : budget[k] > 0 /\ budget' = [budget EXCEPT ![k] = @ - 1]
      BY <1>1
    <3>2. budget \in [Families -> Nat]
      BY DEF Typed, Books
    <3>3. CASE k \in Families
      BY <3>1, <3>2, <3>3
    <3>4. CASE k \notin Families
      BY <3>1, <3>2, <3>4
    <3>5. QED BY <3>3, <3>4
  <2>2. mishap' \in [Files -> SUBSET {"overlap", "crash"}]
    <3>1. mishap \in [Files -> SUBSET {"overlap", "crash"}]
      BY DEF Typed, Books
    <3>2. QED BY <1>1, <3>1
  <2>3. QED BY <1>2, <2>1, <2>2 DEF Typed, Books
<1>5. CallsTyped'
  <2>1. /\ call'[s] = c /\ pc'[s] = IF c.tool = "clear" THEN "clear" ELSE "load"
        /\ todo'[s] = IF c.tool = "clear" THEN {c.file, Legacy} ELSE {}
        /\ Shapes' /\ dirs' \subseteq Sessions
        /\ \A t \in Servers \ {s} : /\ call'[t] = call[t] /\ pc'[t] = pc[t]
                                    /\ held'[t] = held[t] /\ todo'[t] = todo[t]
    BY <1>1, <1>2 DEF Typed, CallsTyped, Shapes
  <2>2. /\ todo'[s] \in SUBSET States
        /\ c.tool = "clear" => todo'[s] \subseteq Touches(c)
    BY <2>1, CallFacts DEF Touches, States
  <2>3. c # None
    BY FilesAssumption DEF FilesAssumption
  <2>4. CallTyped(s)'
    BY <2>1, <2>2, <2>3 DEF CallTyped, Places
  <2>5. QED BY <2>1, <2>4, OneCall DEF Typed
<1>6. QED BY <1>3, <1>4, <1>5 DEF Typed

\* Loading, or refusing, leaves everything typed.
LEMMA TypedLoad ==
  ASSUME Typed, NEW s \in Servers, Load(s)
  PROVE  Typed'
<1>1. /\ pc[s] = "load" /\ call[s] \in Calls /\ call[s].tool # "clear"
      /\ UNCHANGED <<files, tmp, fd, dirs, call, todo, budget, mishap, expected, acked>>
      /\ todo[s] \in SUBSET States
  BY DEF Load, Typed, CallsTyped, CallTyped
<1>2. \/ /\ held' = [held EXCEPT ![s] = After(call[s], files[call[s].file])]
         /\ pc' = [pc EXCEPT ![s] = "open"]
         /\ Accepts(call[s], files[call[s].file])
      \/ held' = held /\ pc' = [pc EXCEPT ![s] = "failed"]
  BY DEF Load, Goto
<1>3. /\ \/ pc'[s] = "open" /\ held'[s] \in Records(call[s].file)
         \/ pc'[s] = "failed"
      /\ Shapes'
      /\ \A t \in Servers \ {s} : pc'[t] = pc[t] /\ held'[t] = held[t]
  BY <1>1, <1>2, AfterType DEF Typed, CallsTyped, Shapes
<1>4. CallTyped(s)'
  BY <1>1, <1>3 DEF CallTyped, Places, Typed, CallsTyped
<1>5. CallsTyped'
  BY <1>1, <1>3, <1>4, OneCall DEF Typed, CallsTyped
<1>6. QED BY <1>1, <1>5 DEF Typed, Disk, Contents, Books

\* A step inside a call that changes the disk as a file system does, and goes
\* on to a place where it holds no less, leaves everything typed.
LEMMA TypedStep ==
  ASSUME Typed, NEW s \in Servers, NEW place \in Places \ {"idle", "load", "open", "clear"},
         call[s].tool # "clear" \/ place \in {"done", "failed"}, pc[s] # "idle",
         Goto(s, place), place \in {"write", "rename"} => held[s] \in Records(call[s].file),
         UNCHANGED <<call, held, todo, budget, mishap, expected, acked>>,
         dirs' \subseteq Sessions, Disk'
  PROVE  Typed'
<1>1. /\ pc'[s] = place /\ Shapes' /\ call[s] # None
      /\ \A t \in Servers \ {s} : pc'[t] = pc[t]
  BY DEF Typed, CallsTyped, CallTyped, Shapes, Goto
<1>2. CallTyped(s)'
  BY <1>1 DEF CallTyped, Typed, CallsTyped
<1>3. CallsTyped'
  BY <1>1, <1>2, OneCall DEF Typed
<1>4. QED BY <1>3 DEF Typed, Books

\* Opening, writing, renaming and unlinking leave everything typed.
LEMMA TypedWriting ==
  ASSUME Typed, NEW s \in Servers, Open(s) \/ Write(s) \/ Rename(s) \/ Unlink(s)
  PROVE  Typed'
<1> DEFINE f == call[s].file
<1>1. /\ pc[s] \in {"open", "write", "rename", "unlink"} /\ pc[s] # "idle"
      /\ call[s] \in Calls /\ call[s].tool # "clear" /\ f \in Files
      /\ pc[s] # "unlink" => held[s] \in Records(f)
      /\ Disk /\ dirs \subseteq Sessions /\ Typed
  BY CallFacts DEF Open, Write, Rename, Unlink, Typed, CallsTyped, CallTyped
<1> HIDE DEF f
<1>2. CASE Open(s)
  <2>1. /\ dirs' \subseteq Sessions /\ UNCHANGED <<call, held, todo, budget, mishap, expected, acked>>
        /\ pc[s] = "open"
    BY <1>1, <1>2 DEF Open
  <2>2. \/ Goto(s, "failed") /\ UNCHANGED <<files, tmp, fd>>
        \/ Goto(s, "write") /\ f = Notepad /\ OpenFile(s, f)
        \/ Goto(s, "write") /\ f # Notepad /\ OpenTmp(s, f)
    BY <1>2 DEF Open, f
  <2>3. Disk'
    BY <1>1, <2>2, DiskSteps
  <2>4. \E place \in {"failed", "write"} : Goto(s, place)
    BY <2>2
  <2>5. QED BY <1>1, <2>1, <2>3, <2>4, TypedStep DEF Places, f
<1>3. CASE Write(s)
  <2>1. /\ UNCHANGED <<dirs, call, held, todo, budget, mishap, expected, acked>> /\ pc[s] = "write"
        /\ \E place \in {"done", "rename"} : Goto(s, place)
    BY <1>3 DEF Write
  <2>2. PICK x \in Landed(f, Behind(s, f), held[s]) : Put(s, f, x)
    BY <1>3 DEF Write, f
  <2>3. x \in Records(f) \cup {Torn}
    <3>1. \/ x = held[s] \/ x = Torn
          \/ f = Notepad /\ x = Append(held[s], Leftover)
      BY <2>2 DEF Landed
    <3>2. ASSUME f = Notepad
          PROVE  Append(held[s], Leftover) \in Records(f)
      <4>1. held[s] \in Notepads /\ Records(f) = Notepads
        BY <1>1, <2>1, <3>2, RecordFacts
      <4>2. QED BY <4>1 DEF Notepads
    <3>3. QED BY <1>1, <2>1, <3>1, <3>2
  <2>4. Disk'
    BY <1>1, <2>2, <2>3, DiskSteps
  <2>5. QED BY <1>1, <2>1, <2>4, TypedStep DEF Places, f
<1>4. CASE Rename(s)
  <2>1. /\ UNCHANGED <<dirs, call, held, todo, budget, mishap, expected, acked>> /\ pc[s] = "rename"
        /\ \E place \in {"done", "failed", "unlink"} : Goto(s, place)
    BY <1>4 DEF Rename
  <2>2. \/ tmp[f] # NoFile /\ RenameTmp(f)
        \/ UNCHANGED <<files, tmp, fd>>
    BY <1>4 DEF Rename, f
  <2>3. Disk'
    BY <1>1, <2>2, DiskSteps
  <2>4. QED BY <1>1, <2>1, <2>3, TypedStep DEF Places
<1>5. CASE Unlink(s)
  <2>1. /\ UNCHANGED <<dirs, call, held, todo, budget, mishap, expected, acked>>
        /\ Goto(s, "failed") /\ RemoveTmp(f)
    BY <1>5 DEF Unlink, f
  <2>2. Disk'
    BY <1>1, <2>1, DiskSteps
  <2>3. QED BY <1>1, <2>1, <2>2, TypedStep DEF Places
<1>6. QED BY <1>2, <1>3, <1>4, <1>5

\* Clearing files one by one leaves everything typed.
LEMMA TypedClear ==
  ASSUME Typed, NEW s \in Servers, Clear(s)
  PROVE  Typed'
<1>1. /\ pc[s] = "clear" /\ call[s] \in Calls /\ call[s].tool = "clear"
      /\ todo[s] \subseteq Touches(call[s]) /\ todo[s] \in SUBSET States
      /\ call[s].file \in States /\ Disk /\ dirs \subseteq Sessions
      /\ UNCHANGED <<dirs, call, held, budget, mishap, expected, acked>>
  BY CallFacts DEF Clear, Typed, CallsTyped, CallTyped
<1>2. ASSUME NEW f \in ClearNext(s),
             todo' = [todo EXCEPT ![s] =
               IF call[s].file = Legacy /\ f = Legacy THEN dirs ELSE @ \ {f}],
             RemoveFile(f) \/ UNCHANGED <<files, tmp, fd>>, UNCHANGED pc
      PROVE  Typed'
  <2>1. f \in Files
    BY <1>1, RecordFacts DEF ClearNext
  <2>2. Disk'
    BY <1>1, <1>2, <2>1, DiskSteps
  <2>3. todo'[s] \in SUBSET States /\ todo'[s] \subseteq Touches(call[s])
    <3>1. CASE call[s].file = Legacy /\ f = Legacy
      <4>1. todo'[s] = dirs
        BY <1>2, <3>1 DEF Typed, CallsTyped, Shapes
      <4>2. QED BY <1>1, <3>1, <4>1 DEF Touches, States
    <3>2. CASE ~ (call[s].file = Legacy /\ f = Legacy)
      <4>1. todo'[s] = todo[s] \ {f}
        BY <1>2, <3>2 DEF Typed, CallsTyped, Shapes
      <4>2. QED BY <1>1, <4>1
    <3>3. QED BY <3>1, <3>2
  <2>4. Shapes' /\ \A t \in Servers \ {s} : todo'[t] = todo[t]
    BY <1>1, <1>2 DEF Typed, CallsTyped, Shapes
  <2>5. CallTyped(s)'
    BY <1>1, <1>2, <2>3 DEF CallTyped, Typed, CallsTyped, Touches
  <2>6. CallsTyped'
    BY <1>1, <1>2, <2>4, <2>5, OneCall DEF Typed, CallsTyped
  <2>7. QED BY <1>1, <2>2, <2>6 DEF Typed, Books
<1>3. ASSUME Goto(s, "done"), UNCHANGED <<files, tmp, fd, todo>>
      PROVE  Typed'
  <2>1. Disk'
    BY <1>1, <1>3, RecordFacts, DiskSteps
  <2>2. QED BY <1>1, <1>3, <2>1, TypedStep DEF Places
<1>4. QED BY <1>2, <1>3 DEF Clear

\* Replying to a call and dying in one leave everything typed.
LEMMA TypedEnd ==
  ASSUME Typed, NEW s \in Servers, Reply(s) \/ Crash(s)
  PROVE  Typed'
<1>1. Idle(s) /\ UNCHANGED dirs
  BY DEF Reply, Crash
<1>2. /\ call'[s] = None /\ pc'[s] = "idle" /\ todo'[s] = {} /\ Shapes'
      /\ \A t \in Servers \ {s} : /\ call'[t] = call[t] /\ pc'[t] = pc[t]
                                  /\ held'[t] = held[t] /\ todo'[t] = todo[t]
  BY <1>1 DEF Idle, Goto, Typed, CallsTyped, Shapes
<1>3. CallTyped(s)'
  BY <1>2 DEF CallTyped, Places
<1>4. CallsTyped'
  BY <1>1, <1>2, <1>3, OneCall DEF Typed, CallsTyped
<1>5. Disk'
  BY RecordFacts, DiskSteps DEF Reply, Crash, Typed
<1>6. Books'
  <2>1. budget' \in [Families -> Nat]
    BY DEF Reply, Crash, Typed, Books
  <2>2. mishap' \in [Files -> SUBSET {"overlap", "crash"}]
    <3>1. mishap \in [Files -> SUBSET {"overlap", "crash"}]
      BY DEF Typed, Books
    <3>2. QED BY <3>1 DEF Reply, Crash
  <2>3. DOMAIN expected' = Files
    BY DEF Reply, Crash, Settle
  <2>4. acked' \in [{Memory, Notepad} -> SUBSET ({"add", "working", "manual"} \X Notes)]
    <3>1. Adds(call[s]) \subseteq {"add", "working", "manual"} \X Notes
      <4>1. call[s] \in Calls
        BY DEF Reply, Crash, Typed, CallsTyped, CallTyped, Places
      <4>2. QED BY <4>1, CallFacts DEF Adds, Pages
    <3>2. acked \in [{Memory, Notepad} -> SUBSET ({"add", "working", "manual"} \X Notes)]
      BY DEF Typed, Books
    <3>3. \E new \in SUBSET ({"add", "working", "manual"} \X Notes) : Acknowledge(s, new)
      BY <3>1 DEF Reply, Crash
    <3>4. QED BY <3>2, <3>3 DEF Acknowledge
  <2>5. QED BY <2>1, <2>2, <2>3, <2>4 DEF Books
<1>7. QED BY <1>4, <1>5, <1>6 DEF Typed

\* Every step of a server leaves everything typed.
LEMMA StepsTyped ==
  ASSUME Typed, NEW p \in Servers, Step(p)
  PROVE  Typed'
  BY TypedCall, TypedLoad, TypedWriting, TypedClear, TypedEnd DEF Step

\* Every step leaves everything typed.
LEMMA TypedNext == Typed /\ [Next]_vars => Typed'
<1> SUFFICES ASSUME Typed, [Next]_vars
             PROVE  Typed'
  OBVIOUS
<1>1. CASE UNCHANGED vars
  BY <1>1 DEF vars, Typed, Disk, Contents, CallsTyped, CallTyped, Shapes, Books, Touches
<1>2. CASE Next
  BY <1>2, StepsTyped DEF Next, Step
<1>3. QED BY <1>1, <1>2

\* Everything is typed in every reachable state.
LEMMA TypedAlways == Spec => []Typed
<1>1. QED BY TypedInit, TypedNext, PTL DEF Spec

\* Every variable has its type in every reachable state.
THEOREM TypeCorrect == Spec => []TypeOK
<1>1. Typed => TypeOK
  BY DEF Typed, Disk, Contents, CallsTyped, Shapes, CallTyped, Books, TypeOK
<1>2. QED BY <1>1, TypedAlways, PTL

-----------------------------------------------------------------------------
(* What one server's step leaves to the others.                            *)

\* An access of server p to the file g or to its temporary file.
Access(p, g) ==
  \/ OpenTmp(p, g) \/ OpenFile(p, g) \/ \E x : Put(p, g, x)
  \/ RenameTmp(g) \/ RemoveFile(g) \/ RemoveTmp(g)

\* Places of one file differ from those of another, and from none at all.
LEMMA Handling ==
  \A f \in Files, g \in Files :
    /\ At("tmp", f) # At("file", g) /\ Closed # At("tmp", f) /\ Closed # At("file", f)
    /\ At("tmp", f) = At("tmp", g) => f = g
    /\ At("file", f) = At("file", g) => f = g
  BY DEF At, Closed

\* Accessing one file leaves the others, and who has them open.
LEMMA Elsewhere ==
  ASSUME Typed, NEW p \in Servers, NEW g \in Files, Access(p, g),
         NEW f \in Files, f # g
  PROVE  /\ files'[f] = files[f] /\ tmp'[f] = tmp[f]
         /\ \A t \in Servers \ {p} :
              /\ fd[t] = At("tmp", f) => fd'[t] = At("tmp", f)
              /\ fd[t] = At("file", f) => fd'[t] = At("file", f)
<1>1. DOMAIN files = Files /\ DOMAIN tmp = Files /\ DOMAIN fd = Servers
  BY DEF Typed, Disk, Contents
<1>2. CASE OpenTmp(p, g)
  BY <1>1, <1>2, Handling DEF OpenTmp
<1>3. CASE OpenFile(p, g)
  BY <1>1, <1>3, Handling DEF OpenFile
<1>4. ASSUME NEW x, Put(p, g, x)
      PROVE  /\ files'[f] = files[f] /\ tmp'[f] = tmp[f]
             /\ \A t \in Servers \ {p} : fd'[t] = fd[t]
  BY <1>1, <1>4 DEF Put
<1>5. CASE RenameTmp(g)
  BY <1>1, <1>5, Handling DEF RenameTmp
<1>6. CASE RemoveFile(g)
  BY <1>1, <1>6, Handling DEF RemoveFile, Orphaned
<1>7. CASE RemoveTmp(g)
  BY <1>1, <1>7, Handling DEF RemoveTmp, Orphaned
<1>8. QED BY <1>2, <1>3, <1>4, <1>5, <1>6, <1>7 DEF Access

\* Who has a file open after an access had it open before, or has opened it.
LEMMA Kept ==
  ASSUME Typed, NEW p \in Servers, NEW g \in Files, Access(p, g),
         NEW f \in Files, NEW t \in Servers, fd'[t] \in {At("tmp", f), At("file", f)}
  PROVE  \/ fd[t] \in {At("tmp", f), At("file", f)} /\ ~ (t = p /\ \E x : Put(p, g, x))
         \/ t = p /\ f = g /\ (OpenTmp(p, g) \/ OpenFile(p, g))
<1>1. DOMAIN fd = Servers
  BY DEF Typed, Disk
<1>2. CASE OpenTmp(p, g)
  BY <1>1, <1>2, Handling DEF OpenTmp, Put
<1>3. CASE OpenFile(p, g)
  BY <1>1, <1>3, Handling DEF OpenFile, Put
<1>4. CASE \E x : Put(p, g, x)
  BY <1>1, <1>4, Handling DEF Put
<1>5. CASE t = p /\ \E x : Put(p, g, x)
  BY <1>1, <1>5, Handling DEF Put
<1>6. CASE RenameTmp(g)
  BY <1>1, <1>5, <1>6, Handling DEF RenameTmp
<1>7. CASE RemoveFile(g)
  BY <1>1, <1>5, <1>7, Handling DEF RemoveFile, Orphaned
<1>8. CASE RemoveTmp(g)
  BY <1>1, <1>5, <1>8, Handling DEF RemoveTmp, Orphaned
<1>9. QED BY <1>2, <1>3, <1>4, <1>6, <1>7, <1>8 DEF Access

\* A server touches the file of its call; one that writes touches no other.
LEMMA Touching ==
  ASSUME Typed, NEW s \in Servers, pc[s] # "idle"
  PROVE  /\ call[s] \in Calls /\ call[s].file \in Files /\ Busy(s, call[s].file)
         /\ call[s].tool # "clear" => Touches(call[s]) = {call[s].file}
  BY CallFacts, RecordFacts DEF Typed, CallsTyped, CallTyped, Busy, Touches, States

\* A step of one server leaves the calls of the others, forgets no mishap but
\* when it settles a file, and accesses only a file that its call is about.
LEMMA StepFrame ==
  ASSUME Typed, NEW p \in Servers, Step(p)
  PROVE  /\ \A t \in Servers \ {p} : /\ call'[t] = call[t] /\ pc'[t] = pc[t]
                                     /\ held'[t] = held[t] /\ todo'[t] = todo[t]
         /\ \A f \in Files : \/ mishap[f] \subseteq mishap'[f]
                             \/ (Reply(p) \/ Crash(p)) /\ Settles(p, f)
         /\ pc[p] # "idle" => pc'[p] = "idle" \/ call'[p] = call[p]
         /\ \/ \E g \in Files : Access(p, g) /\ Busy(p, g)
            \/ Crash(p)
            \/ UNCHANGED <<files, tmp, fd>>
<1>1. \A t \in Servers \ {p} : /\ call'[t] = call[t] /\ pc'[t] = pc[t]
                               /\ held'[t] = held[t] /\ todo'[t] = todo[t]
  <2>1. Shapes
    BY DEF Typed, CallsTyped
  <2>2. CASE Call(p)
    BY <2>1, <2>2 DEF Call, Goto, Shapes
  <2>3. CASE Load(p) \/ Open(p) \/ Write(p) \/ Rename(p) \/ Unlink(p)
    BY <2>1, <2>3 DEF Load, Open, Write, Rename, Unlink, Goto, Shapes
  <2>4. CASE Clear(p)
    BY <2>1, <2>4 DEF Clear, Goto, Shapes
  <2>5. CASE Reply(p) \/ Crash(p)
    BY <2>1, <2>5 DEF Reply, Crash, Idle, Goto, Shapes
  <2>6. QED BY <2>2, <2>3, <2>4, <2>5 DEF Step
<1>2. \A f \in Files : \/ mishap[f] \subseteq mishap'[f]
                       \/ (Reply(p) \/ Crash(p)) /\ Settles(p, f)
  BY DEF Step, Call, Load, Open, Write, Rename, Unlink, Clear, Reply, Crash
<1>3. pc[p] # "idle" => pc'[p] = "idle" \/ call'[p] = call[p]
  <2>1. Call(p) => pc[p] = "idle"
    BY DEF Call
  <2>2. Reply(p) \/ Crash(p) => pc'[p] = "idle"
    BY DEF Reply, Crash, Idle, Goto, Typed, CallsTyped, Shapes
  <2>3. Load(p) \/ Open(p) \/ Write(p) \/ Rename(p) \/ Unlink(p) \/ Clear(p) => UNCHANGED call
    BY DEF Load, Open, Write, Rename, Unlink, Clear
  <2>4. QED BY <2>1, <2>2, <2>3 DEF Step
<1>4. \/ \E g \in Files : Access(p, g) /\ Busy(p, g)
      \/ Crash(p)
      \/ UNCHANGED <<files, tmp, fd>>
  <2>1. CASE Call(p) \/ Load(p) \/ Reply(p)
    BY <2>1 DEF Call, Load, Reply
  <2>2. CASE Open(p) \/ Write(p) \/ Rename(p) \/ Unlink(p)
    <3> DEFINE g == call[p].file
    <3>1. g \in Files /\ Busy(p, g)
      BY <2>2, Touching DEF Open, Write, Rename, Unlink
    <3>2. Access(p, g) \/ UNCHANGED <<files, tmp, fd>>
      BY <2>2 DEF Access, Open, Write, Rename, Unlink
    <3>3. QED BY <3>1, <3>2
  <2>3. CASE Clear(p)
    <3>1. pc[p] = "clear" /\ todo[p] \subseteq Touches(call[p]) /\ Touches(call[p]) \subseteq Files
          /\ call[p].file \in Touches(call[p])
      BY <2>3, CallFacts, RecordFacts
         DEF Clear, Typed, CallsTyped, CallTyped, Touches, States
    <3>2. \A g \in ClearNext(p) : g \in Files /\ Busy(p, g)
      BY <3>1 DEF ClearNext, Busy
    <3>3. QED BY <2>3, <3>2 DEF Clear, Access
  <2>4. QED BY <2>1, <2>2, <2>3 DEF Step
<1>5. QED BY <1>1, <1>2, <1>3, <1>4

-----------------------------------------------------------------------------
(* A file that no two calls have changed at a time.                        *)

\* Two servers change one file only if that is on record.
Alone ==
  \A f \in Files : \A s, t \in Servers :
    s # t /\ Busy(s, f) /\ Busy(t, f) => Overlapped(f)

\* Only a server about to write a file has it open.
Hands ==
  \A s \in Servers, f \in Files :
    fd[s] \in {At("tmp", f), At("file", f)} => pc[s] = "write" /\ call[s].file = f

\* How far server s has come: what it holds is what its call makes of the
\* content the file has now, and the temporary file is its own.
Fresh(s) ==
  LET f == call[s].file
  IN  Accepts(call[s], files[f]) /\ held[s] = After(call[s], files[f])

Stage(s) ==
  LET f == call[s].file
  IN  ~ Overlapped(f) =>
        /\ pc[s] = "open" => Fresh(s)
        /\ pc[s] = "write" /\ f # Notepad =>
             Fresh(s) /\ fd[s] = At("tmp", f) /\ tmp[f] = Empty
        /\ pc[s] = "write" /\ f = Notepad => fd[s] = At("file", f) /\ files[f] = Empty
        /\ pc[s] = "rename" => Fresh(s) /\ tmp[f] = held[s]
        /\ pc[s] # "unlink"

\* The invariant from which the properties of the files follow.
StepsInv == Alone /\ Hands /\ (\A s \in Servers : Stage(s)) /\ WholeRecords

\* Before the first call every file is missing and no one has one open.
LEMMA StepsInit == Init => StepsInv
<1> SUFFICES ASSUME Init
             PROVE  StepsInv
  OBVIOUS
<1>1. Alone
  BY DEF Init, Alone, Busy
<1>2. Hands
  BY Handling DEF Init, Hands
<1>3. ASSUME NEW s \in Servers
      PROVE  Stage(s)
  BY DEF Init, Stage
<1>4. WholeRecords
  BY DEF Init, WholeRecords
<1>5. QED BY <1>1, <1>2, <1>3, <1>4 DEF StepsInv

\* A call is let in on a file that another is changing, but not unnoticed.
LEMMA AloneStep ==
  ASSUME Typed, Alone, NEW p \in Servers, Step(p)
  PROVE  Alone'
<1> SUFFICES ASSUME NEW f \in Files, NEW s \in Servers, NEW t \in Servers, s # t,
                    Busy(s, f)', Busy(t, f)'
             PROVE  Overlapped(f)'
  BY DEF Alone
<1>1. \A u \in Servers \ {p} : Busy(u, f)' <=> Busy(u, f)
  BY StepFrame DEF Busy, Touches
<1>2. CASE Busy(s, f) /\ Busy(t, f)
  <2>1. Overlapped(f) /\ ~ Settles(p, f)
    BY <1>2 DEF Alone, Settles
  <2>2. QED BY <2>1, StepFrame DEF Overlapped
<1>3. CASE Call(p)
  <2>1. PICK c \in Calls :
          /\ pc[p] = "idle" /\ call' = [call EXCEPT ![p] = c]
          /\ mishap' = [g \in Files |->
               IF g \in Touches(c) /\ \E u \in Servers \ {p} : Busy(u, g)
               THEN mishap[g] \cup {"overlap"} ELSE mishap[g]]
    BY <1>3 DEF Call
  <2>2. call'[p] = c
    BY <2>1 DEF Typed, CallsTyped, Shapes
  <2>3. Busy(p, f)' => f \in Touches(c)
    BY <2>2 DEF Busy, Touches
  <2>4. CASE s = p \/ t = p
    BY <1>1, <2>1, <2>3, <2>4 DEF Overlapped
  <2>5. CASE s # p /\ t # p
    BY <1>1, <1>2, <2>5
  <2>6. QED BY <2>4, <2>5
<1>4. CASE ~ Call(p)
  <2>1. pc[p] # "idle"
    BY <1>4 DEF Step, Load, Open, Write, Rename, Unlink, Clear, Reply, Crash
  <2>2. Busy(p, f)' => Busy(p, f)
    BY <2>1, StepFrame DEF Busy, Touches
  <2>3. QED BY <1>1, <1>2, <2>2
<1>5. QED BY <1>3, <1>4

\* Descriptors follow the place in the call.
LEMMA HandsStep ==
  ASSUME Typed, Hands, NEW p \in Servers, Step(p)
  PROVE  Hands'
<1> SUFFICES ASSUME NEW t \in Servers, NEW f \in Files,
                    fd'[t] \in {At("tmp", f), At("file", f)}
             PROVE  pc'[t] = "write" /\ call'[t].file = f
  BY DEF Hands
<1>1. CASE t # p
  <2>1. fd[t] \in {At("tmp", f), At("file", f)}
    <3>1. CASE \E g \in Files : Access(p, g)
      BY <1>1, <3>1, Kept
    <3>2. CASE Crash(p)
      BY <1>1, <3>2 DEF Crash, Drop, Typed, Disk
    <3>3. CASE UNCHANGED <<files, tmp, fd>>
      BY <3>3
    <3>4. QED BY <3>1, <3>2, <3>3, StepFrame
  <2>2. QED BY <1>1, <2>1, StepFrame DEF Hands
<1>2. CASE t = p
  <2> DEFINE g == call[p].file
  <2>1. CASE Open(p)
    <3>1. pc[p] = "open" /\ UNCHANGED call
      BY <2>1 DEF Open
    <3>2. g \in Files /\ fd[p] \notin {At("tmp", f), At("file", f)}
      BY <3>1, Touching DEF Hands
    <3>3. (OpenTmp(p, g) \/ OpenFile(p, g)) /\ Goto(p, "write")
      BY <1>2, <2>1, <3>2 DEF Open
    <3>4. g = f
      BY <1>2, <3>2, <3>3, Handling DEF OpenTmp, OpenFile, Typed, Disk
    <3>5. QED BY <1>2, <3>1, <3>3, <3>4 DEF Goto, Typed, CallsTyped, Shapes
  <2>2. CASE Write(p)
    <3>1. PICK x : Put(p, g, x)
      BY <2>2 DEF Write
    <3>2. fd'[p] = Closed
      BY <3>1 DEF Put, Typed, Disk
    <3>3. QED BY <1>2, <3>2, Handling
  <2>3. CASE Crash(p)
    <3>1. fd'[p] = Closed
      BY <2>3 DEF Crash, Drop, Typed, Disk
    <3>2. QED BY <1>2, <3>1, Handling
  <2>4. CASE Call(p) \/ Load(p) \/ Reply(p)
    BY <1>2, <2>4 DEF Hands, Call, Load, Reply
  <2>5. CASE Rename(p) \/ Unlink(p) \/ Clear(p)
    <3>1. fd[p] \notin {At("tmp", f), At("file", f)}
      BY <2>5 DEF Hands, Rename, Unlink, Clear
    <3>2. \A h \in Files : (RenameTmp(h) \/ RemoveFile(h) \/ RemoveTmp(h)) =>
                             fd'[p] \notin {At("tmp", f), At("file", f)}
      BY <3>1, Handling DEF RenameTmp, RemoveFile, RemoveTmp, Orphaned, Typed, Disk
    <3>3. \/ \E h \in Files : RenameTmp(h) \/ RemoveFile(h) \/ RemoveTmp(h)
          \/ UNCHANGED fd
      <4>1. CASE Rename(p) \/ Unlink(p)
        BY <4>1, Touching DEF Rename, Unlink
      <4>2. CASE Clear(p)
        <5>1. ClearNext(p) \subseteq Files
          BY <4>2, CallFacts, RecordFacts
             DEF Clear, ClearNext, Typed, CallsTyped, CallTyped
        <5>2. QED BY <4>2, <5>1 DEF Clear
      <4>3. QED BY <2>5, <4>1, <4>2
    <3>4. QED BY <1>2, <3>1, <3>2, <3>3
  <2>6. QED BY <2>1, <2>2, <2>3, <2>4, <2>5 DEF Step
<1>3. QED BY <1>1, <1>2

\* A server that changes a file no other is changing is not disturbed.
LEMMA Undisturbed ==
  ASSUME Typed, Alone, NEW p \in Servers, Step(p), NEW t \in Servers \ {p},
         NEW f \in Files, Busy(t, f), ~ Overlapped(f)'
  PROVE  /\ ~ Overlapped(f) /\ ~ Busy(p, f)
         /\ files'[f] = files[f] /\ tmp'[f] = tmp[f]
         /\ fd[t] = At("tmp", f) => fd'[t] = At("tmp", f)
         /\ fd[t] = At("file", f) => fd'[t] = At("file", f)
<1>1. ~ Overlapped(f)
  BY StepFrame DEF Overlapped, Settles
<1>2. ~ Busy(p, f)
  BY <1>1 DEF Alone
<1>3. CASE \E g \in Files : Access(p, g) /\ Busy(p, g)
  <2>1. PICK g \in Files \ {f} : Access(p, g)
    BY <1>2, <1>3
  <2>2. QED BY <1>1, <1>2, <2>1, Elsewhere
<1>4. CASE Crash(p)
  BY <1>1, <1>2, <1>4 DEF Crash, Drop, Typed, Disk
<1>5. CASE UNCHANGED <<files, tmp, fd>>
  BY <1>1, <1>2, <1>5
<1>6. QED BY <1>3, <1>4, <1>5, StepFrame

\* So the others stay as far as they have come.
LEMMA OtherStage ==
  ASSUME Typed, StepsInv, NEW p \in Servers, Step(p), NEW t \in Servers \ {p}
  PROVE  Stage(t)'
<1>1. call'[t] = call[t] /\ pc'[t] = pc[t] /\ held'[t] = held[t]
  BY StepFrame
<1>2. CASE pc[t] \notin {"open", "write", "rename", "unlink"}
  BY <1>1, <1>2 DEF Stage
<1>3. CASE pc[t] \in {"open", "write", "rename", "unlink"}
  <2>1. PICK f \in Files : f = call[t].file
    BY <1>3, Touching
  <2>2. CASE Overlapped(f)'
    BY <1>1, <2>1, <2>2 DEF Stage, Overlapped
  <2>3. CASE ~ Overlapped(f)'
    <3>1. Busy(t, f) /\ Stage(t)
      BY <1>3, <2>1, Touching DEF StepsInv
    <3>2. /\ ~ Overlapped(f) /\ files'[f] = files[f] /\ tmp'[f] = tmp[f]
          /\ fd[t] = At("tmp", f) => fd'[t] = At("tmp", f)
          /\ fd[t] = At("file", f) => fd'[t] = At("file", f)
      BY <2>3, <3>1, Undisturbed DEF StepsInv
    <3>3. Fresh(t) => Fresh(t)'
      BY <1>1, <2>1, <3>2 DEF Fresh
    <3>4. QED BY <1>1, <2>1, <3>1, <3>2, <3>3 DEF Stage
  <2>4. QED BY <2>2, <2>3
<1>4. QED BY <1>2, <1>3

\* A write to an empty file that is one's own leaves what is held.
LEMMA OwnWrite ==
  ASSUME Typed, StepsInv, NEW p \in Servers, Write(p),
         NEW f \in Files, f = call[p].file, ~ Overlapped(f)
  PROVE  /\ f # Notepad => /\ tmp' = [tmp EXCEPT ![f] = held[p]] /\ files' = files
                           /\ pc' = [pc EXCEPT ![p] = "rename"] /\ Fresh(p)
         /\ f = Notepad => files' = [files EXCEPT ![f] = held[p]]
         /\ held[p] \in Records(f)
         /\ UNCHANGED <<call, held, mishap, expected, acked, dirs>>
<1>1. /\ pc[p] = "write" /\ Stage(p) /\ held[p] \in Records(f)
      /\ UNCHANGED <<call, held, mishap, expected, acked, dirs>>
  BY DEF Write, StepsInv, Typed, CallsTyped, CallTyped
<1>2. PICK x \in Landed(f, Behind(p, f), held[p]) : Put(p, f, x)
  BY DEF Write
<1>3. Behind(p, f) = Empty
  BY <1>1, Handling DEF Stage, Behind
<1>4. x = held[p]
  BY <1>2, <1>3 DEF Landed
<1>5. ASSUME f # Notepad
      PROVE  /\ tmp' = [tmp EXCEPT ![f] = held[p]] /\ files' = files
             /\ pc' = [pc EXCEPT ![p] = "rename"] /\ Fresh(p)
  <2>1. fd[p] = At("tmp", f) /\ Fresh(p)
    BY <1>1, <1>5 DEF Stage
  <2>2. tmp' = [tmp EXCEPT ![f] = held[p]] /\ files' = files
    BY <1>2, <1>4, <2>1, Handling DEF Put
  <2>3. pc' = [pc EXCEPT ![p] = "rename"]
    BY <1>5 DEF Write, Goto
  <2>4. QED BY <2>1, <2>2, <2>3
<1>6. ASSUME f = Notepad
      PROVE  files' = [files EXCEPT ![f] = held[p]]
  <2>1. fd[p] = At("file", f)
    BY <1>1, <1>6 DEF Stage
  <2>2. QED BY <1>2, <1>4, <2>1 DEF Put
<1>7. QED BY <1>1, <1>5, <1>6

\* A rename of a temporary file that is one's own puts what is held in place.
LEMMA OwnRename ==
  ASSUME Typed, StepsInv, NEW p \in Servers, Rename(p),
         NEW f \in Files, f = call[p].file, ~ Overlapped(f)
  PROVE  /\ files' = [files EXCEPT ![f] = held[p]] /\ Fresh(p)
         /\ held[p] \in Records(f) /\ pc' = [pc EXCEPT ![p] = "done"]
<1>1. /\ pc[p] = "rename" /\ Stage(p) /\ held[p] \in Records(f)
  BY DEF Rename, StepsInv, Typed, CallsTyped, CallTyped
<1>2. Fresh(p) /\ tmp[f] = held[p] /\ tmp[f] # NoFile
  BY <1>1, RecordFacts DEF Stage
<1>3. QED BY <1>1, <1>2 DEF Rename, RenameTmp, Goto

\* What a step takes a server to is the next place of its call, with what it
\* needs there.
LEMMA OwnStage ==
  ASSUME Typed, StepsInv, NEW p \in Servers, Step(p)
  PROVE  Stage(p)'
<1>1. Shapes
  BY DEF Typed, CallsTyped
<1>2. CASE Call(p)
  <2>1. pc'[p] \in {"clear", "load"}
    BY <1>1, <1>2 DEF Call, Goto, Shapes
  <2>2. QED BY <2>1 DEF Stage
<1>3. CASE Clear(p) \/ Unlink(p) \/ Reply(p) \/ Crash(p)
  <2>1. pc'[p] \in {"clear", "done", "failed", "idle"}
    BY <1>1, <1>3 DEF Clear, Unlink, Reply, Crash, Idle, Goto, Shapes
  <2>2. QED BY <2>1 DEF Stage
<1>4. CASE Load(p)
  <2>1. UNCHANGED <<files, call, mishap>>
    BY <1>4 DEF Load
  <2>2. CASE /\ Accepts(call[p], files[call[p].file])
             /\ held' = [held EXCEPT ![p] = After(call[p], files[call[p].file])]
             /\ pc' = [pc EXCEPT ![p] = "open"]
    <3>1. /\ held'[p] = After(call[p], files[call[p].file]) /\ pc'[p] = "open"
      BY <1>1, <2>2 DEF Shapes
    <3>2. Fresh(p)'
      BY <2>1, <2>2, <3>1 DEF Fresh
    <3>3. QED BY <3>1, <3>2 DEF Stage
  <2>3. CASE pc' = [pc EXCEPT ![p] = "failed"]
    <3>1. pc'[p] = "failed"
      BY <1>1, <2>3 DEF Shapes
    <3>2. QED BY <3>1 DEF Stage
  <2>4. QED BY <1>4, <2>2, <2>3 DEF Load, Goto
<1>5. CASE Open(p) \/ Write(p) \/ Rename(p)
  <2>1. PICK f \in Files : f = call[p].file
    BY <1>5, Touching DEF Open, Write, Rename
  <2>2. UNCHANGED <<call, held, mishap>> /\ Stage(p)
    BY <1>5 DEF Open, Write, Rename, StepsInv
  <2>3. CASE Overlapped(f)
    BY <2>1, <2>2, <2>3 DEF Stage, Overlapped
  <2>4. CASE ~ Overlapped(f) /\ Open(p)
    <3>1. CASE pc' = [pc EXCEPT ![p] = "failed"]
      <4>1. pc'[p] = "failed"
        BY <1>1, <3>1 DEF Shapes
      <4>2. QED BY <4>1 DEF Stage
    <3>2. CASE /\ pc' = [pc EXCEPT ![p] = "write"]
               /\ IF f = Notepad THEN OpenFile(p, f) ELSE OpenTmp(p, f)
      <4>1. pc'[p] = "write" /\ pc[p] = "open"
        BY <1>1, <2>4, <3>2 DEF Shapes, Open
      <4>2. CASE f = Notepad
        <5>1. files'[f] = Empty /\ fd'[p] = At("file", f)
          BY <3>2, <4>2 DEF OpenFile, Typed, Disk, Contents
        <5>2. QED BY <2>1, <2>2, <4>1, <4>2, <5>1 DEF Stage
      <4>3. CASE f # Notepad
        <5>1. files' = files /\ tmp'[f] = Empty /\ fd'[p] = At("tmp", f)
          BY <3>2, <4>3 DEF OpenTmp, Typed, Disk, Contents
        <5>2. Fresh(p)
          BY <2>1, <2>2, <2>4, <4>1 DEF Stage
        <5>3. Fresh(p)'
          BY <2>2, <5>1, <5>2 DEF Fresh
        <5>4. QED BY <2>1, <2>2, <4>1, <4>3, <5>1, <5>3 DEF Stage
      <4>4. QED BY <4>2, <4>3
    <3>3. QED BY <2>1, <2>4, <3>1, <3>2 DEF Open, Goto
  <2>5. CASE ~ Overlapped(f) /\ Write(p)
    <3>1. CASE f = Notepad
      <4>1. pc'[p] = "done"
        BY <1>1, <2>1, <2>5, <3>1 DEF Write, Goto, Shapes
      <4>2. QED BY <4>1 DEF Stage
    <3>2. CASE f # Notepad
      <4>1. /\ tmp' = [tmp EXCEPT ![f] = held[p]] /\ files' = files
            /\ pc' = [pc EXCEPT ![p] = "rename"] /\ Fresh(p)
        BY <2>1, <2>5, <3>2, OwnWrite
      <4>2. tmp'[f] = held[p] /\ pc'[p] = "rename"
        BY <1>1, <4>1 DEF Shapes, Typed, Disk, Contents
      <4>3. Fresh(p)'
        BY <2>2, <4>1 DEF Fresh
      <4>4. QED BY <2>1, <2>2, <4>2, <4>3 DEF Stage
    <3>3. QED BY <3>1, <3>2
  <2>6. CASE ~ Overlapped(f) /\ Rename(p)
    <3>1. pc' = [pc EXCEPT ![p] = "done"]
      BY <2>1, <2>6, OwnRename
    <3>2. pc'[p] = "done"
      BY <1>1, <3>1 DEF Shapes
    <3>3. QED BY <3>2 DEF Stage
  <2>7. QED BY <1>5, <2>3, <2>4, <2>5, <2>6
<1>6. QED BY <1>2, <1>3, <1>4, <1>5 DEF Step

\* How a step changes the content of a file that is not overlapped: it opens
\* the notepad, puts what it holds in place, or removes the file.
LEMMA FileChanges ==
  ASSUME Typed, StepsInv, NEW p \in Servers, Step(p), NEW f \in Files, ~ Overlapped(f)
  PROVE  \/ files'[f] = files[f]
         \/ /\ f = Notepad /\ files'[f] = Empty
            /\ pc'[p] = "write" /\ call'[p] = call[p] /\ call[p].file = f
         \/ /\ (Write(p) /\ f = Notepad) \/ (Rename(p) /\ Fresh(p))
            /\ call[p].file = f /\ files'[f] = held[p] /\ held[p] \in Records(f)
         \/ Clear(p) /\ f \in ClearNext(p) /\ files'[f] = NoFile
<1>1. DOMAIN files = Files /\ Shapes
  BY DEF Typed, Disk, Contents, CallsTyped
<1>2. CASE Call(p) \/ Load(p) \/ Reply(p) \/ Crash(p) \/ Unlink(p)
  BY <1>2 DEF Call, Load, Reply, Crash, Unlink, Drop, RemoveTmp
<1>3. CASE Open(p)
  <2>1. PICK g \in Files : g = call[p].file
    BY <1>3, Touching DEF Open
  <2>2. UNCHANGED call
    BY <1>3 DEF Open
  <2>3. \/ UNCHANGED files
        \/ g = Notepad /\ OpenFile(p, g) /\ pc' = [pc EXCEPT ![p] = "write"]
    BY <1>3, <2>1 DEF Open, OpenTmp, Goto
  <2>4. CASE g = f
    <3>1. OpenFile(p, g) => files'[f] = Empty
      BY <1>1, <2>4 DEF OpenFile
    <3>2. QED BY <1>1, <2>1, <2>2, <2>3, <2>4, <3>1 DEF Shapes
  <2>5. CASE g # f
    BY <1>1, <2>2, <2>3, <2>5 DEF OpenFile
  <2>6. QED BY <2>4, <2>5
<1>4. CASE Write(p)
  <2>1. PICK g \in Files : g = call[p].file
    BY <1>4, Touching DEF Write
  <2>2. CASE g # f
    <3>1. \E x : Put(p, g, x)
      BY <1>4, <2>1 DEF Write
    <3>2. files'[f] = files[f]
      BY <2>2, <3>1, Elsewhere DEF Access
    <3>3. QED BY <2>1, <2>2, <3>2
  <2>3. CASE g = f
    <3>1. /\ f # Notepad => files' = files
          /\ f = Notepad => files' = [files EXCEPT ![f] = held[p]]
          /\ held[p] \in Records(f)
      BY <1>4, <2>1, <2>3, OwnWrite
    <3>2. f = Notepad => files'[f] = held[p]
      BY <1>1, <3>1
    <3>3. QED BY <1>4, <2>1, <2>3, <3>1, <3>2
  <2>4. QED BY <2>2, <2>3
<1>5. CASE Rename(p)
  <2>1. PICK g \in Files : g = call[p].file
    BY <1>5, Touching DEF Rename
  <2>2. CASE g # f
    <3>1. RenameTmp(g) \/ UNCHANGED files
      BY <1>5, <2>1 DEF Rename
    <3>2. files'[f] = files[f]
      BY <2>2, <3>1, Elsewhere DEF Access
    <3>3. QED BY <2>1, <2>2, <3>2
  <2>3. CASE g = f
    <3>1. /\ files' = [files EXCEPT ![f] = held[p]] /\ Fresh(p)
          /\ held[p] \in Records(f)
      BY <1>5, <2>1, <2>3, OwnRename
    <3>2. QED BY <1>1, <1>5, <2>1, <2>3, <3>1
  <2>4. QED BY <2>2, <2>3
<1>6. CASE Clear(p)
  <2>1. ASSUME NEW g \in ClearNext(p), RemoveFile(g)
        PROVE  files'[f] = files[f] \/ (f \in ClearNext(p) /\ files'[f] = NoFile)
    <3>1. files' = [files EXCEPT ![g] = NoFile]
      BY <2>1 DEF RemoveFile
    <3>2. CASE f = g
      BY <1>1, <2>1, <3>1, <3>2
    <3>3. CASE f # g
      BY <1>1, <3>1, <3>3
    <3>4. QED BY <3>2, <3>3
  <2>2. QED BY <1>6, <2>1 DEF Clear
<1>7. QED BY <1>2, <1>3, <1>4, <1>5, <1>6 DEF Step

\* No step leaves half a file behind.
LEMMA WholeStep ==
  ASSUME Typed, StepsInv, NEW p \in Servers, Step(p)
  PROVE  WholeRecords'
<1> SUFFICES ASSUME NEW f \in Files, ~ Overlapped(f)'
             PROVE  \/ files'[f] \in Records(f) \cup {NoFile}
                    \/ /\ f = Notepad /\ files'[f] = Empty
                       /\ \/ "crash" \in mishap'[f]
                          \/ \E s \in Servers : pc'[s] = "write" /\ Busy(s, f)'
  BY DEF WholeRecords
<1>1. CASE (Reply(p) \/ Crash(p)) /\ Settles(p, f)
  BY <1>1 DEF Reply, Crash, Drop, Settles
<1>2. CASE ~ ((Reply(p) \/ Crash(p)) /\ Settles(p, f))
  <2>0. ~ Overlapped(f) /\ mishap[f] \subseteq mishap'[f]
    BY <1>2, StepFrame DEF Overlapped
  <2>1. CASE files'[f] = files[f]
   <3>1. CASE files[f] \in Records(f) \cup {NoFile}
     BY <2>1, <3>1
   <3>2. CASE files[f] \notin Records(f) \cup {NoFile}
     <4>1. /\ f = Notepad /\ files'[f] = Empty
           /\ "crash" \in mishap[f] \/ \E s \in Servers : pc[s] = "write" /\ Busy(s, f)
       BY <2>0, <2>1, <3>2 DEF StepsInv, WholeRecords
     <4>2. CASE "crash" \in mishap[f]
       BY <2>0, <4>1, <4>2
     <4>3. ASSUME NEW s \in Servers \ {p}, pc[s] = "write", Busy(s, f)
           PROVE  pc'[s] = "write" /\ Busy(s, f)'
       BY <4>3, StepFrame DEF Busy, Touches
     <4>4. CASE pc[p] = "write" /\ Busy(p, f)
       <5>1. call[p].file = f
         BY <4>4, Touching DEF Busy, Typed, CallsTyped, CallTyped
       <5>2. Write(p) \/ Crash(p)
         BY <4>4 DEF Step, Call, Load, Open, Rename, Unlink, Clear, Reply
       <5>3. CASE Write(p)
         <6>1. files' = [files EXCEPT ![f] = held[p]] /\ held[p] \in Records(f)
           BY <2>0, <4>1, <5>1, <5>3, OwnWrite
         <6>2. QED BY <6>1 DEF Typed, Disk, Contents
       <5>4. CASE Crash(p)
         <6>1. "crash" \in mishap'[f]
           BY <1>2, <4>4, <5>4 DEF Crash, Busy
         <6>2. QED BY <4>1, <6>1
       <5>5. QED BY <5>2, <5>3, <5>4
     <4>5. QED BY <4>1, <4>2, <4>3, <4>4
   <3>3. QED BY <3>1, <3>2
  <2>2. CASE /\ f = Notepad /\ files'[f] = Empty
             /\ pc'[p] = "write" /\ call'[p] = call[p] /\ call[p].file = f
   <3>1. Typed' /\ call'[p] \in Calls
     BY <2>2, StepsTyped DEF Typed, CallsTyped, CallTyped
   <3>2. f \in Touches(call[p])
     BY <2>2, <3>1, CallFacts, RecordFacts DEF Touches, Pages
   <3>3. Busy(p, f)'
     BY <2>2, <3>2 DEF Busy, Touches
   <3>4. QED BY <2>2, <3>3
  <2>3. CASE files'[f] = held[p] /\ held[p] \in Records(f)
   BY <2>3
  <2>4. CASE files'[f] = NoFile
   BY <2>4
  <2>5. QED BY <2>0, <2>1, <2>2, <2>3, <2>4, FileChanges
<1>3. QED BY <1>1, <1>2

\* The invariant holds in every reachable state.
LEMMA StepsCorrect == Spec => []StepsInv
<1>1. Typed /\ StepsInv /\ [Next]_vars => StepsInv'
  <2> SUFFICES ASSUME Typed, StepsInv, [Next]_vars
               PROVE  StepsInv'
    OBVIOUS
  <2>1. CASE UNCHANGED vars
    BY <2>1 DEF vars, StepsInv, Alone, Hands, Stage, Fresh, WholeRecords, Overlapped,
                Settles, Busy, Touches
  <2>2. ASSUME NEW p \in Servers, Step(p)
        PROVE  StepsInv'
    <3>1. Alone' /\ Hands' /\ WholeRecords'
      BY <2>2, AloneStep, HandsStep, WholeStep DEF StepsInv
    <3>2. \A s \in Servers : Stage(s)'
      BY <2>2, OtherStage, OwnStage
    <3>3. QED BY <3>1, <3>2 DEF StepsInv
  <2>3. QED BY <2>1, <2>2 DEF Next, Step
<1>2. QED BY <1>1, StepsInit, TypedAlways, PTL DEF Spec

\* Every file is absent or parses unless calls have overlapped on it.
THEOREM Whole == Spec => []WholeRecords
<1>1. StepsInv => WholeRecords
  BY DEF StepsInv
<1>2. QED BY <1>1, StepsCorrect, PTL

\* Goals move along the contract's transitions, keep their checkpoints, are
\* never deleted and are final once completed.
THEOREM Transitions == Spec => GoalSteps
<1> DEFINE Kind(g) ==
      ~ Overlapped(g) /\ files[g] # NoFile =>
        /\ files'[g] \in GoalRecords
        /\ files[g].checkpoints \subseteq files'[g].checkpoints
        /\ \/ <<files[g].status, files'[g].status>> \in GoalTransitions
           \/ files[g].status = files'[g].status
        /\ files[g].status = "completed" => files'[g] = files[g]
<1>1. ASSUME Typed, StepsInv, [Next]_vars, NEW g \in Goals
      PROVE  Kind(g)
  <2> SUFFICES ASSUME ~ Overlapped(g), files[g] # NoFile
               PROVE  /\ files'[g] \in GoalRecords
                      /\ files[g].checkpoints \subseteq files'[g].checkpoints
                      /\ \/ <<files[g].status, files'[g].status>> \in GoalTransitions
                         \/ files[g].status = files'[g].status
                      /\ files[g].status = "completed" => files'[g] = files[g]
    OBVIOUS
  <2>1. g \in Files /\ g \notin States /\ g # Notepad /\ Records(g) = GoalRecords
    BY RecordFacts
  <2>2. ~ Overlapped(g)
    OBVIOUS
  <2>3. files[g] \in GoalRecords
    BY <1>1, <2>1, <2>2 DEF StepsInv, WholeRecords
  <2>4. CASE files'[g] = files[g]
    BY <2>3, <2>4
  <2>5. ASSUME NEW p \in Servers, Step(p), files'[g] # files[g]
        PROVE  /\ files'[g] \in GoalRecords
               /\ files[g].checkpoints \subseteq files'[g].checkpoints
               /\ <<files[g].status, files'[g].status>> \in GoalTransitions
                    \/ files[g].status = files'[g].status
               /\ files[g].status # "completed"
    <3>1. ~ (Clear(p) /\ g \in ClearNext(p))
      BY <1>1, <2>1, CallFacts DEF Clear, ClearNext, Typed, CallsTyped, CallTyped
    <3>2. Rename(p) /\ Fresh(p) /\ call[p].file = g /\ files'[g] = held[p]
      BY <1>1, <2>1, <2>2, <2>5, <3>1, FileChanges
    <3>3. PICK c \in Calls : c = call[p]
      BY <3>2, Touching, <1>1 DEF Rename
    <3>4. /\ c.tool \in GoalTools /\ Accepts(c, files[g]) /\ files'[g] = After(c, files[g])
          /\ c.file = g /\ c.tool \notin {"clear", "write"} /\ g # Memory
      BY <2>1, <3>2, <3>3, CallFacts, FilesAssumption DEF Fresh, GoalTools, FilesAssumption
    <3>5. files'[g] = GoalAfter(c, files[g])
      BY <2>1, <3>4 DEF After
    <3>6. CASE c.tool = "create"
      BY <3>4, <3>6 DEF Accepts
    <3>7. CASE c.tool = "start"
      <4>1. files[g].status \in {"planned", "blocked"}
        BY <3>4, <3>7 DEF Accepts
      <4>2. files'[g] = [files[g] EXCEPT !.status = "active"]
        BY <3>5, <3>7 DEF GoalAfter
      <4>3. QED BY <2>3, <4>1, <4>2 DEF GoalRecords, Statuses, GoalTransitions
    <3>8. CASE c.tool = "block"
      <4>1. files[g].status # "completed"
        BY <3>4, <3>8 DEF Accepts
      <4>2. files'[g] = [files[g] EXCEPT !.status = "blocked"]
        BY <3>5, <3>8 DEF GoalAfter
      <4>3. QED BY <2>3, <4>1, <4>2 DEF GoalRecords, Statuses, GoalTransitions
    <3>9. CASE c.tool = "complete"
      <4>1. files[g].status = "active"
        BY <3>4, <3>9 DEF Accepts
      <4>2. files'[g] = [files[g] EXCEPT !.status = "completed"]
        BY <3>5, <3>9 DEF GoalAfter
      <4>3. QED BY <2>3, <4>1, <4>2 DEF GoalRecords, Statuses, GoalTransitions
    <3>10. CASE c.tool = "checkpoint"
      <4>1. files[g].status # "completed" /\ c.arg \in Checkpoints
        BY <3>4, <3>10, CallFacts DEF Accepts
      <4>2. files'[g] = [files[g] EXCEPT !.checkpoints = @ \cup {c.arg}]
        BY <3>5, <3>10 DEF GoalAfter
      <4>3. QED BY <2>3, <4>1, <4>2 DEF GoalRecords
    <3>11. QED BY <3>4, <3>6, <3>7, <3>8, <3>9, <3>10 DEF GoalTools
  <2>6. QED BY <1>1, <2>4, <2>5 DEF Next, Step, vars
<1>2. Typed /\ StepsInv /\ [Next]_vars => [\A g \in Goals : Kind(g)]_vars
  BY <1>1
<1>3. Spec => []Typed /\ []StepsInv /\ [][Next]_vars
  BY TypedAlways, StepsCorrect DEF Spec
<1>4. Spec => [][\A g \in Goals : Kind(g)]_vars
  BY <1>2, <1>3, PTL
<1>5. QED BY <1>4 DEF GoalSteps

-----------------------------------------------------------------------------
(* Calls on one file take effect one at a time.                            *)

\* A session's file, or one about to appear, is in a directory that exists;
\* so a state_clear that looks for the sessions' directories finds it.
DirsInv ==
  \A f \in Sessions :
    \/ files[f] # NoFile
    \/ tmp[f] # NoFile
    \/ \E s \in Servers : pc[s] = "write" /\ call[s].file = f
    => f \in dirs

\* What the calls answered before the one of server s allow file f to hold, at
\* each place of that call.
Point(s, f) ==
  /\ \/ pc[s] \in {"load", "open", "rename"}
     \/ pc[s] = "write" /\ f # Notepad
     => files[f] \in expected[f]
  /\ pc[s] = "write" /\ f = Notepad => held[s] \in Effects(s, f)
  /\ pc[s] = "failed" => files[f] \in expected[f] /\ ~ Accepts(call[s], files[f])
  /\ pc[s] = "done" => files[f] \in Effects(s, f)
  /\ pc[s] = "clear" =>
       /\ expected[f] # {} /\ files[f] \in expected[f] \cup {NoFile}
       /\ files[f] # NoFile => \/ f \in todo[s]
                               \/ call[s].file = Legacy /\ Legacy \in todo[s]

\* AsIfOneAtATime, and where each call stands in between.
CallInv ==
  \A f \in Files : ~ Overlapped(f) =>
    /\ (\A s \in Servers : ~ Busy(s, f)) => files[f] \in expected[f]
    /\ \A s \in Servers : Busy(s, f) => Point(s, f)

\* A directory is made before its file, and never removed.
LEMMA DirsStep ==
  ASSUME Typed, StepsInv, DirsInv, NEW p \in Servers, Step(p)
  PROVE  DirsInv'
<1> SUFFICES ASSUME NEW f \in Sessions, f \notin dirs'
             PROVE  /\ files'[f] = NoFile /\ tmp'[f] = NoFile
                    /\ \A s \in Servers : ~ (pc'[s] = "write" /\ call'[s].file = f)
  BY DEF DirsInv
<1>1. f \in Files /\ f # Notepad
  BY RecordFacts DEF States
<1>2. f \notin dirs
  BY DEF Step, Call, Load, Open, Write, Rename, Unlink, Clear, Reply, Crash
<1>3. /\ files[f] = NoFile /\ tmp[f] = NoFile
      /\ \A s \in Servers : ~ (pc[s] = "write" /\ call[s].file = f)
  BY <1>2 DEF DirsInv
<1>4. Shapes /\ DOMAIN files = Files /\ DOMAIN tmp = Files
  BY DEF Typed, CallsTyped, Disk, Contents
<1>5. ~ (Open(p) /\ call[p].file = f /\ ~ UNCHANGED <<files, tmp>>)
      /\ ~ (Open(p) /\ call[p].file = f /\ pc'[p] = "write")
  BY <1>2, <1>4 DEF Open, Goto, Shapes
<1>6. /\ files'[f] = NoFile /\ tmp'[f] = NoFile
  <2>1. ASSUME NEW g \in Files, Access(p, g), g # f
        PROVE  files'[f] = NoFile /\ tmp'[f] = NoFile
    BY <1>1, <1>3, <2>1, Elsewhere
  <2>2. CASE Call(p) \/ Load(p) \/ Reply(p) \/ Crash(p)
    BY <1>3, <2>2 DEF Call, Load, Reply, Crash, Drop
  <2>3. CASE Open(p)
    <3>1. PICK g \in Files : g = call[p].file
      BY <2>3, Touching DEF Open
    <3>2. Access(p, g) \/ UNCHANGED <<files, tmp>>
      BY <2>3, <3>1 DEF Open, Access
    <3>3. QED BY <1>3, <1>5, <2>1, <2>3, <3>1, <3>2
  <2>4. CASE Write(p)
    <3>1. PICK g \in Files : g = call[p].file
      BY <2>4, Touching DEF Write
    <3>2. g # f /\ Access(p, g)
      BY <1>3, <2>4, <3>1 DEF Write, Access
    <3>3. QED BY <2>1, <3>2
  <2>5. CASE Rename(p)
    <3>1. PICK g \in Files : g = call[p].file
      BY <2>5, Touching DEF Rename
    <3>2. (tmp[g] # NoFile /\ Access(p, g)) \/ UNCHANGED <<files, tmp>>
      BY <2>5, <3>1 DEF Rename, Access
    <3>3. QED BY <1>3, <2>1, <3>2
  <2>6. CASE Unlink(p) \/ Clear(p)
    <3>1. PICK g : RemoveTmp(g) \/ RemoveFile(g) \/ UNCHANGED <<files, tmp>>
      BY <2>6 DEF Unlink, Clear
    <3>2. QED BY <1>1, <1>3, <1>4, <3>1 DEF RemoveTmp, RemoveFile
  <2>7. QED BY <2>2, <2>3, <2>4, <2>5, <2>6 DEF Step
<1>7. ASSUME NEW s \in Servers, pc'[s] = "write", call'[s].file = f
      PROVE  FALSE
  <2>1. CASE s # p
    BY <1>3, <1>7, <2>1, StepFrame
  <2>2. CASE s = p
    <3>1. Open(p) /\ UNCHANGED call
      BY <1>4, <1>7, <2>2
         DEF Step, Call, Load, Open, Write, Rename, Unlink, Clear, Reply, Crash,
             Idle, Goto, Shapes
    <3>2. QED BY <1>5, <1>7, <2>2, <3>1
  <2>3. QED BY <2>1, <2>2
<1>8. QED BY <1>6, <1>7

\* Before the first call.
LEMMA CallInit == Init => DirsInv /\ CallInv
<1> SUFFICES ASSUME Init
             PROVE  DirsInv /\ CallInv
  OBVIOUS
<1>1. DirsInv
  BY RecordFacts DEF Init, DirsInv, States
<1>2. CallInv
  BY DEF Init, CallInv, Busy
<1>3. QED BY <1>1, <1>2

\* Clearing accepts whatever is there and leaves nothing.
LEMMA Clearing ==
  ASSUME NEW c \in Calls, NEW x, c.tool = "clear"
  PROVE  Accepts(c, x) /\ After(c, x) = NoFile
<1>1. c.file \in States /\ c.file \notin Goals /\ c.file # Memory /\ c.file # Notepad
  BY CallFacts, RecordFacts, FilesAssumption DEF FilesAssumption
<1>2. Accepts(c, x)
  BY <1>1 DEF Accepts
<1>3. After(c, x) = NoFile
  BY <1>1 DEF After
<1>4. QED BY <1>2, <1>3

\* A server that is on a file alone stands where it stood when another moves.
LEMMA OtherPoint ==
  ASSUME Typed, StepsInv, CallInv, NEW p \in Servers, Step(p),
         NEW t \in Servers \ {p}, NEW f \in Files, ~ Overlapped(f)', Busy(t, f)'
  PROVE  Point(t, f)'
<1>1. /\ call'[t] = call[t] /\ pc'[t] = pc[t] /\ held'[t] = held[t] /\ todo'[t] = todo[t]
  BY StepFrame
<1>2. Busy(t, f)
  BY <1>1 DEF Busy, Touches
<1>3. ~ Overlapped(f) /\ ~ Busy(p, f) /\ files'[f] = files[f]
  BY <1>2, Undisturbed DEF StepsInv
<1>4. Point(t, f)
  BY <1>2, <1>3 DEF CallInv
<1>5. expected'[f] = expected[f]
  <2>1. CASE Reply(p) \/ Crash(p)
    <3>1. f \notin Touches(call[p])
      BY <1>3, <2>1 DEF Reply, Crash, Busy
    <3>2. QED BY <2>1, <3>1 DEF Reply, Crash, Settle
  <2>2. CASE ~ (Reply(p) \/ Crash(p))
    BY <2>2 DEF Step, Call, Load, Open, Write, Rename, Unlink, Clear
  <2>3. QED BY <2>1, <2>2
<1>6. Effects(t, f)' = Effects(t, f)
  BY <1>1, <1>5 DEF Effects
<1>7. QED BY <1>1, <1>3, <1>4, <1>5, <1>6 DEF Point

\* A file that no call is on stays as it is, and as expected.
LEMMA NobodyOn ==
  ASSUME Typed, StepsInv, CallInv, NEW p \in Servers, Step(p), NEW f \in Files, ~ Overlapped(f)',
         \A s \in Servers : ~ Busy(s, f)
  PROVE  files'[f] = files[f] /\ expected'[f] = expected[f] /\ files[f] \in expected[f]
<1>1. ~ Overlapped(f)
  <2>1. ~ ((Reply(p) \/ Crash(p)) /\ Settles(p, f))
    BY DEF Reply, Crash, Settles, Busy
  <2>2. QED BY <2>1, StepFrame DEF Overlapped
<1>2. files[f] \in expected[f]
  BY <1>1 DEF CallInv
<1>3. files'[f] = files[f]
  <2>1. CASE \E g \in Files : Access(p, g) /\ Busy(p, g)
    BY <2>1, Elsewhere
  <2>2. CASE Crash(p) \/ UNCHANGED <<files, tmp, fd>>
    BY <2>2 DEF Crash, Drop
  <2>3. QED BY <2>1, <2>2, StepFrame
<1>4. expected'[f] = expected[f]
  <2>1. CASE Reply(p) \/ Crash(p)
    <3>1. f \notin Touches(call[p])
      BY <2>1 DEF Reply, Crash, Busy
    <3>2. QED BY <2>1, <3>1 DEF Reply, Crash, Settle
  <2>2. CASE ~ (Reply(p) \/ Crash(p))
    BY <2>2 DEF Step, Call, Load, Open, Write, Rename, Unlink, Clear
  <2>3. QED BY <2>1, <2>2
<1>5. QED BY <1>2, <1>3, <1>4

\* A file that the last call has just left is as expected.
LEMMA Settled ==
  ASSUME Typed, StepsInv, CallInv, NEW p \in Servers, Step(p), NEW f \in Files, ~ Overlapped(f)',
         \A s \in Servers : ~ Busy(s, f)'
  PROVE  files'[f] \in expected'[f]
<1>1. CASE \A s \in Servers : ~ Busy(s, f)
  BY <1>1, NobodyOn
<1>2. CASE (\E s \in Servers : Busy(s, f)) /\ Overlapped(f)
  <2>1. (Reply(p) \/ Crash(p)) /\ Settles(p, f)
    BY <1>2, StepFrame DEF Overlapped
  <2>2. expected'[f] = {files[f]} /\ files' = files
    BY <1>2, <2>1 DEF Reply, Crash, Settle, Settles, Drop
  <2>3. QED BY <2>2
<1>3. CASE (\E s \in Servers : Busy(s, f)) /\ ~ Overlapped(f)
  <2>1. Busy(p, f)
    BY <1>3, StepFrame DEF Busy, Touches
  <2>2. Point(p, f) /\ f \in Touches(call[p])
    BY <1>3, <2>1 DEF CallInv, Busy
  <2>3. Reply(p) \/ Crash(p)
    <3>1. CASE Call(p)
      BY <2>1, <3>1 DEF Call, Busy
    <3>2. CASE Load(p) \/ Open(p) \/ Write(p) \/ Rename(p) \/ Unlink(p) \/ Clear(p)
      <4>1. pc'[p] # "idle" /\ UNCHANGED call
        BY <2>1, <3>2
           DEF Load, Open, Write, Rename, Unlink, Clear, Goto, Busy, Typed, CallsTyped, Shapes
      <4>2. QED BY <2>2, <4>1 DEF Busy, Touches
    <3>3. QED BY <3>1, <3>2 DEF Step
  <2>4. CASE Reply(p)
    <3>1. UNCHANGED files
      BY <2>4 DEF Reply
    <3>2. CASE pc[p] = "done"
      <4>1. expected'[f] = Effects(p, f)
        BY <1>3, <2>2, <2>4, <3>2 DEF Reply, Settle
      <4>2. QED BY <2>2, <3>1, <3>2, <4>1 DEF Point
    <3>3. CASE pc[p] = "failed"
      <4>1. expected'[f] = {x \in expected[f] : ~ Accepts(call[p], x)}
        BY <1>3, <2>2, <2>4, <3>3 DEF Reply, Settle
      <4>2. QED BY <2>2, <3>1, <3>3, <4>1 DEF Point
    <3>4. QED BY <2>4, <3>2, <3>3 DEF Reply
  <2>5. CASE Crash(p)
    <3>1. expected'[f] = expected[f] \cup Effects(p, f) \cup ({Empty} \cap {files[f]})
      BY <1>3, <2>2, <2>5 DEF Crash, Settle
    <3>2. files' = files
      BY <2>5 DEF Crash, Drop
    <3>3. files[f] \in expected[f] \cup Effects(p, f) \cup {Empty}
      <4>1. CASE pc[p] = "clear"
        <5>1. call[p].tool = "clear" /\ call[p] \in Calls
          BY <4>1, Touching DEF Typed, CallsTyped, CallTyped
        <5>2. \A x : Accepts(call[p], x) /\ After(call[p], x) = NoFile
          BY <5>1, Clearing
        <5>3. expected[f] # {} => NoFile \in Effects(p, f)
          BY <5>2 DEF Effects
        <5>4. QED BY <2>2, <4>1, <5>3 DEF Point
      <4>2. CASE pc[p] # "clear"
        <5>1. pc[p] \in Places \ {"idle", "clear"} /\ Stage(p)
          BY <2>1, <4>2 DEF StepsInv, Typed, CallsTyped, CallTyped, Busy
        <5>2. CASE pc[p] \in {"done", "failed"}
          BY <2>2, <5>2 DEF Point
        <5>3. CASE pc[p] \notin {"done", "failed"}
          <6>1. call[p].tool # "clear"
            BY <5>1, <5>3 DEF Places, Typed, CallsTyped, CallTyped
          <6>2. call[p].file = f
            BY <2>2, <6>1 DEF Touches
          <6>3. pc[p] \in {"load", "open", "write", "rename"}
            BY <1>3, <5>1, <5>3, <6>2 DEF Stage, Places
          <6>4. pc[p] = "write" /\ f = Notepad => files[f] = Empty
            BY <1>3, <5>1, <6>2 DEF Stage
          <6>5. QED BY <2>2, <6>3, <6>4 DEF Point
        <5>4. QED BY <5>2, <5>3
      <4>3. QED BY <4>1, <4>2
    <3>4. QED BY <3>1, <3>2, <3>3
  <2>6. QED BY <2>3, <2>4, <2>5
<1>4. QED BY <1>1, <1>2, <1>3

\* A call just sent is on files as expected.
LEMMA CallPoint ==
  ASSUME Typed, StepsInv, CallInv, NEW p \in Servers, Call(p), NEW f \in Files,
         ~ Overlapped(f)', Busy(p, f)'
  PROVE  Point(p, f)'
<1>1. Shapes /\ Step(p)
  BY DEF Typed, CallsTyped, Step
<1>2. PICK c \in Calls :
        /\ pc[p] = "idle" /\ call' = [call EXCEPT ![p] = c]
        /\ pc' = [pc EXCEPT ![p] = IF c.tool = "clear" THEN "clear" ELSE "load"]
        /\ todo' = [todo EXCEPT ![p] = IF c.tool = "clear" THEN {c.file, Legacy} ELSE {}]
        /\ mishap' = [g \in Files |->
             IF g \in Touches(c) /\ \E u \in Servers \ {p} : Busy(u, g)
             THEN mishap[g] \cup {"overlap"} ELSE mishap[g]]
  BY DEF Call, Goto
<1>3. /\ call'[p] = c /\ pc'[p] = IF c.tool = "clear" THEN "clear" ELSE "load"
      /\ todo'[p] = IF c.tool = "clear" THEN {c.file, Legacy} ELSE {}
  BY <1>1, <1>2 DEF Shapes
<1>4. f \in Touches(c)
  BY <1>3 DEF Busy, Touches
<1>5. \A u \in Servers : ~ Busy(u, f)
  <2>1. ~ Busy(p, f)
    BY <1>2 DEF Busy
  <2>2. \A u \in Servers \ {p} : ~ Busy(u, f)
    BY <1>2, <1>4 DEF Overlapped
  <2>3. QED BY <2>1, <2>2
<1>6. /\ files'[f] \in expected'[f]
  BY <1>1, <1>5, NobodyOn
<1>7. c.tool = "clear" => f \in todo'[p] \/ (call'[p].file = Legacy /\ Legacy \in todo'[p])
  BY <1>3, <1>4 DEF Touches
<1>8. QED BY <1>3, <1>6, <1>7 DEF Point

\* A call that is loading, opening, writing or renaming goes on to a place
\* whose conditions the file meets.
LEMMA WritingPoint ==
  ASSUME Typed, StepsInv, CallInv, NEW p \in Servers,
         Load(p) \/ Open(p) \/ Write(p) \/ Rename(p),
         NEW f \in Files, ~ Overlapped(f)', Busy(p, f)
  PROVE  Point(p, f)'
<1>1. /\ Shapes /\ UNCHANGED <<call, mishap, expected, acked>> /\ call[p].file = f
      /\ DOMAIN files = Files
  <2>1. call[p].tool # "clear" /\ pc[p] # "idle"
    BY DEF Load, Open, Write, Rename, Typed, CallsTyped, CallTyped
  <2>2. call[p].file = f
    BY <2>1 DEF Busy, Touches
  <2>3. QED BY <2>2 DEF Load, Open, Write, Rename, Typed, CallsTyped, Disk, Contents
<1>2. ~ Overlapped(f)
  BY <1>1 DEF Overlapped
<1>3. Point(p, f) /\ Stage(p)
  BY <1>2 DEF CallInv, StepsInv
<1>4. CASE Load(p)
  <2>1. files[f] \in expected[f] /\ UNCHANGED files
    BY <1>3, <1>4 DEF Load, Point
  <2>2. \/ pc'[p] = "open"
        \/ pc'[p] = "failed" /\ ~ Accepts(call[p], files[f])
    BY <1>1, <1>4 DEF Load, Goto, Shapes
  <2>3. QED BY <1>1, <2>1, <2>2 DEF Point
<1>5. CASE Open(p)
  <2>1. files[f] \in expected[f] /\ Fresh(p) /\ pc[p] = "open" /\ UNCHANGED held
    BY <1>1, <1>2, <1>3, <1>5 DEF Open, Point, Stage
  <2>2. CASE f \in Goals /\ call[p].tool # "create" /\ files[f] = NoFile
    <3>1. PICK c \in Calls : c = call[p]
      BY <2>1, Touching
    <3>2. c.tool \in GoalTools \ {"create"} /\ Accepts(c, NoFile) /\ NoFile \notin GoalRecords
      BY <1>1, <2>1, <2>2, <3>1, CallFacts, RecordFacts DEF Fresh
    <3>3. QED BY <3>2 DEF Accepts, GoalTools
  <2>3. CASE f = Notepad /\ Goto(p, "write")
    <3>1. held[p] \in Effects(p, f)
      BY <1>1, <2>1 DEF Fresh, Effects
    <3>2. pc'[p] = "write" /\ held'[p] \in Effects(p, f)'
      BY <1>1, <2>1, <2>3, <3>1 DEF Effects, Goto, Shapes
    <3>3. QED BY <2>3, <3>2 DEF Point
  <2>4. CASE f # Notepad /\ OpenTmp(p, f) /\ Goto(p, "write")
    <3>1. pc'[p] = "write" /\ UNCHANGED files
      BY <1>1, <2>4 DEF Goto, Shapes, OpenTmp
    <3>2. QED BY <1>1, <2>1, <2>4, <3>1 DEF Point
  <2>5. QED BY <1>1, <1>5, <2>2, <2>3, <2>4 DEF Open
<1>6. CASE Write(p) /\ f # Notepad
  <2>1. files' = files /\ pc' = [pc EXCEPT ![p] = "rename"]
    BY <1>1, <1>2, <1>6, OwnWrite
  <2>2. pc'[p] = "rename" /\ files[f] \in expected[f]
    BY <1>1, <1>3, <1>6, <2>1 DEF Shapes, Point, Write
  <2>3. QED BY <1>1, <2>1, <2>2 DEF Point
<1>7. CASE Write(p) /\ f = Notepad
  <2>1. files'[f] = held[p]
    BY <1>1, <1>2, <1>7, OwnWrite
  <2>2. pc'[p] = "done" /\ held[p] \in Effects(p, f)
    BY <1>1, <1>3, <1>7 DEF Shapes, Point, Write, Goto
  <2>3. files'[f] \in Effects(p, f)'
    BY <1>1, <2>1, <2>2 DEF Effects
  <2>4. QED BY <2>2, <2>3 DEF Point
<1>8. CASE Rename(p)
  <2>1. /\ files' = [files EXCEPT ![f] = held[p]] /\ Fresh(p)
        /\ pc' = [pc EXCEPT ![p] = "done"]
    BY <1>1, <1>2, <1>8, OwnRename
  <2>2. /\ files'[f] = held[p] /\ pc'[p] = "done" /\ files[f] \in expected[f]
    BY <1>1, <1>3, <1>8, <2>1 DEF Shapes, Point, Rename
  <2>3. files'[f] \in Effects(p, f)'
    BY <1>1, <2>1, <2>2 DEF Fresh, Effects
  <2>4. QED BY <2>2, <2>3 DEF Point
<1>9. QED BY <1>4, <1>5, <1>6, <1>7, <1>8

\* A state_clear has removed what is no longer on its list.
LEMMA ClearPoint ==
  ASSUME Typed, StepsInv, DirsInv, CallInv, NEW p \in Servers, Clear(p),
         NEW f \in Files, ~ Overlapped(f)', Busy(p, f)
  PROVE  Point(p, f)'
<1>1. /\ Shapes /\ UNCHANGED <<call, mishap, expected, acked, dirs>> /\ pc[p] = "clear"
      /\ call[p].tool = "clear" /\ call[p] \in Calls /\ f \in Touches(call[p])
      /\ DOMAIN files = Files
  BY DEF Clear, Typed, CallsTyped, CallTyped, Disk, Contents, Busy
<1>2. ~ Overlapped(f)
  BY <1>1 DEF Overlapped
<1>3. /\ expected[f] # {} /\ files[f] \in expected[f] \cup {NoFile}
      /\ files[f] # NoFile => \/ f \in todo[p]
                              \/ call[p].file = Legacy /\ Legacy \in todo[p]
  BY <1>1, <1>2 DEF CallInv, Point
<1>4. CASE todo[p] = {} /\ Goto(p, "done") /\ UNCHANGED files
  <2>1. pc'[p] = "done" /\ files'[f] = NoFile
    BY <1>1, <1>3, <1>4 DEF Goto, Shapes
  <2>2. NoFile \in Effects(p, f)'
    <3>1. \A x : Accepts(call[p], x) /\ After(call[p], x) = NoFile
      BY <1>1, Clearing
    <3>2. PICK x : x \in expected[f]
      BY <1>3
    <3>3. QED BY <1>1, <3>1, <3>2 DEF Effects
  <2>3. QED BY <2>1, <2>2 DEF Point
<1>5. ASSUME NEW g \in ClearNext(p),
             todo' = [todo EXCEPT ![p] =
               IF call[p].file = Legacy /\ g = Legacy THEN dirs ELSE @ \ {g}],
             IF files[g] # NoFile THEN RemoveFile(g) ELSE UNCHANGED <<files, tmp, fd>>,
             UNCHANGED pc
      PROVE  Point(p, f)'
  <2>1. files'[g] = NoFile /\ (files'[f] = files[f] \/ files'[f] = NoFile) /\ g \in Files
    <3>1. g \in Files
      BY <1>1, CallFacts, RecordFacts DEF ClearNext, Typed, CallsTyped, CallTyped
    <3>2. files' = [files EXCEPT ![g] = NoFile] \/ (files' = files /\ files[g] = NoFile)
      BY <1>5 DEF RemoveFile
    <3>3. QED BY <1>1, <3>1, <3>2
  <2>2. todo'[p] = IF call[p].file = Legacy /\ g = Legacy THEN dirs ELSE todo[p] \ {g}
    BY <1>1, <1>5 DEF Shapes
  <2>3. ASSUME files'[f] # NoFile
        PROVE  f \in todo'[p] \/ (call'[p].file = Legacy /\ Legacy \in todo'[p])
    <3>1. f # g /\ files[f] # NoFile
      BY <2>1, <2>3
    <3>2. CASE call[p].file = Legacy /\ g = Legacy
      <4>1. f \in Sessions
        BY <1>1, <3>1, <3>2 DEF Touches, States
      <4>2. f \in dirs
        BY <3>1, <4>1 DEF DirsInv
      <4>3. QED BY <2>2, <3>2, <4>2
    <3>3. CASE call[p].file = Legacy /\ g # Legacy
      <4>1. Legacy \notin todo[p]
        BY <1>5, <3>3 DEF ClearNext
      <4>2. QED BY <1>3, <2>2, <3>1, <3>3, <4>1
    <3>4. CASE call[p].file # Legacy
      BY <1>3, <2>2, <3>1, <3>4
    <3>5. QED BY <3>2, <3>3, <3>4
  <2>4. pc'[p] = "clear"
    BY <1>1, <1>5
  <2>5. QED BY <1>1, <1>3, <2>1, <2>3, <2>4 DEF Point
<1>6. QED BY <1>1, <1>4, <1>5 DEF Clear

\* Every step keeps the calls' standing.
LEMMA CallStep ==
  ASSUME Typed, StepsInv, DirsInv, CallInv, NEW p \in Servers, Step(p)
  PROVE  CallInv'
<1> SUFFICES ASSUME NEW f \in Files, ~ Overlapped(f)'
             PROVE  /\ (\A s \in Servers : ~ Busy(s, f)') => files'[f] \in expected'[f]
                    /\ \A s \in Servers : Busy(s, f)' => Point(s, f)'
  BY DEF CallInv
<1>1. (\A s \in Servers : ~ Busy(s, f)') => files'[f] \in expected'[f]
  BY Settled
<1>2. \A s \in Servers \ {p} : Busy(s, f)' => Point(s, f)'
  BY OtherPoint
<1>3. ASSUME Busy(p, f)'
      PROVE  Point(p, f)'
  <2>1. CASE Call(p)
    BY <1>3, <2>1, CallPoint
  <2>2. pc'[p] # "idle"
    BY <1>3 DEF Busy
  <2>3. ~ (Reply(p) \/ Crash(p))
    BY <2>2 DEF Reply, Crash, Idle, Goto, Typed, CallsTyped, Shapes
  <2>4. CASE Load(p) \/ Open(p) \/ Write(p) \/ Rename(p) \/ Unlink(p) \/ Clear(p)
    <3>1. UNCHANGED <<call, mishap>> /\ pc[p] # "idle"
      BY <2>4 DEF Load, Open, Write, Rename, Unlink, Clear
    <3>2. Busy(p, f)
      BY <1>3, <3>1 DEF Busy, Touches
    <3>3. CASE Load(p) \/ Open(p) \/ Write(p) \/ Rename(p)
      BY <3>2, <3>3, WritingPoint
    <3>4. CASE Clear(p)
      BY <3>2, <3>4, ClearPoint
    <3>5. CASE Unlink(p)
      <4>1. call[p].file = f /\ pc[p] = "unlink"
        BY <3>2, <3>5 DEF Unlink, Busy, Touches, Typed, CallsTyped, CallTyped
      <4>2. ~ Overlapped(f)
        BY <3>1 DEF Overlapped
      <4>3. QED BY <4>1, <4>2 DEF StepsInv, Stage
    <3>6. QED BY <2>4, <3>3, <3>4, <3>5
  <2>5. QED BY <2>1, <2>3, <2>4 DEF Step
<1>4. QED BY <1>1, <1>2, <1>3

\* Between calls a file holds what the calls answered make of it, one at a
\* time, unless calls have overlapped on it.
THEOREM OneAtATime == Spec => []AsIfOneAtATime
<1>1. Typed /\ StepsInv /\ DirsInv /\ CallInv /\ [Next]_vars => DirsInv' /\ CallInv'
  <2> SUFFICES ASSUME Typed, StepsInv, DirsInv, CallInv, [Next]_vars
               PROVE  DirsInv' /\ CallInv'
    OBVIOUS
  <2>1. CASE UNCHANGED vars
    <3>1. DirsInv'
      BY <2>1 DEF vars, DirsInv
    <3>2. CallInv'
      BY <2>1 DEF vars, CallInv, Point, Effects, Overlapped, Busy, Touches
    <3>3. QED BY <3>1, <3>2
  <2>2. ASSUME NEW p \in Servers, Step(p)
        PROVE  DirsInv' /\ CallInv'
    BY <2>2, DirsStep, CallStep
  <2>3. QED BY <2>1, <2>2 DEF Next, Step
<1>2. CallInv => AsIfOneAtATime
  BY DEF CallInv, AsIfOneAtATime
<1>3. QED BY <1>1, <1>2, CallInit, TypedAlways, StepsCorrect, PTL DEF Spec

-----------------------------------------------------------------------------
(* What has been answered for stays in the file.                           *)

\* The items of a concatenation are those of the one text and then the other.
LEMMA Joined ==
  ASSUME NEW u \in Notepads, NEW v \in Notepads
  PROVE  /\ u \o v \in Notepads /\ Len(u \o v) = Len(u) + Len(v)
         /\ Len(u) \in Nat /\ Len(v) \in Nat
         /\ DOMAIN (u \o v) = 1 .. Len(u) + Len(v)
         /\ \A k \in 1 .. Len(u) : (u \o v)[k] = u[k]
         /\ \A k \in 1 .. Len(v) : (u \o v)[Len(u) + k] = v[k]
  BY DEF Notepads

\* Where the headings and the sections of a text lie that is built of parts.
LEMMA Layout ==
  ASSUME NEW t \in [Pages -> Notepads]
  PROVE  LET y == Build(t)
             p == Len(Filled(t["priority"]))
             w == Len(Filled(t["working"]))
             m == Len(Filled(t["manual"]))
         IN  /\ y \in Notepads /\ DOMAIN y = 1 .. Len(y) /\ Len(y) = p + w + m + 3
             /\ p \in Nat \ {0} /\ w \in Nat \ {0} /\ m \in Nat \ {0}
             /\ y[1] = Marker["priority"]
             /\ \A k \in 1 .. p : y[1 + k] = Filled(t["priority"])[k]
             /\ y[p + 2] = Marker["working"]
             /\ \A k \in 1 .. w : y[p + 2 + k] = Filled(t["working"])[k]
             /\ y[p + w + 3] = Marker["manual"]
             /\ \A k \in 1 .. m : y[p + w + 3 + k] = Filled(t["manual"])[k]
<1> DEFINE P == Filled(t["priority"])
           W == Filled(t["working"])
           M == Filled(t["manual"])
           h1 == <<Marker["priority"]>>
           h2 == <<Marker["working"]>>
           h3 == <<Marker["manual"]>>
           y1 == h1 \o P
           y2 == y1 \o h2
           y3 == y2 \o W
           y4 == y3 \o h3
           y5 == y4 \o M
<1>1. /\ h1 \in Notepads /\ h2 \in Notepads /\ h3 \in Notepads
      /\ Len(h1) = 1 /\ Len(h2) = 1 /\ Len(h3) = 1
      /\ h1[1] = Marker["priority"] /\ h2[1] = Marker["working"] /\ h3[1] = Marker["manual"]
  BY DEF Notepads, Markers, Pages
<1>2. \A page \in Pages :
        Filled(t[page]) \in Notepads /\ Len(Filled(t[page])) \in Nat \ {0}
  <2>1. <<Placeholder>> \in Notepads /\ Len(<<Placeholder>>) = 1
    BY DEF Notepads
  <2>2. \A u \in Notepads : u # <<>> => Len(u) \in Nat \ {0}
    BY DEF Notepads
  <2>3. QED BY <2>1, <2>2 DEF Filled
<1>3. /\ P \in Notepads /\ W \in Notepads /\ M \in Notepads
      /\ Len(P) \in Nat \ {0} /\ Len(W) \in Nat \ {0} /\ Len(M) \in Nat \ {0}
  BY <1>2 DEF Pages
<1>4. Build(t) = y5
  BY DEF Build
<1> HIDE DEF P, W, M, h1, h2, h3
<1>5. /\ y1 \in Notepads /\ Len(y1) = 1 + Len(P) /\ y1[1] = Marker["priority"]
      /\ \A k \in 1 .. Len(P) : y1[1 + k] = P[k]
  <2>1. /\ h1 \o P \in Notepads /\ Len(h1 \o P) = Len(h1) + Len(P)
        /\ \A k \in 1 .. Len(h1) : (h1 \o P)[k] = h1[k]
        /\ \A k \in 1 .. Len(P) : (h1 \o P)[Len(h1) + k] = P[k]
    BY <1>1, <1>3, Joined
  <2>2. 1 \in 1 .. Len(h1)
    BY <1>1
  <2>3. QED BY <1>1, <2>1, <2>2
<1> HIDE DEF y1
<1>6. /\ y2 \in Notepads /\ Len(y2) = 2 + Len(P) /\ y2[2 + Len(P)] = Marker["working"]
      /\ \A k \in 1 .. Len(y1) : y2[k] = y1[k]
  <2>1. /\ y1 \o h2 \in Notepads /\ Len(y1 \o h2) = Len(y1) + Len(h2)
        /\ \A k \in 1 .. Len(y1) : (y1 \o h2)[k] = y1[k]
        /\ \A k \in 1 .. Len(h2) : (y1 \o h2)[Len(y1) + k] = h2[k]
    BY <1>1, <1>5, Joined
  <2>2. Len(y1) + 1 = 2 + Len(P) /\ 1 \in 1 .. Len(h2)
    BY <1>1, <1>3, <1>5
  <2>3. QED BY <1>1, <2>1, <2>2
<1> HIDE DEF y2
<1>7. /\ y3 \in Notepads /\ Len(y3) = 2 + Len(P) + Len(W)
      /\ \A k \in 1 .. Len(y2) : y3[k] = y2[k]
      /\ \A k \in 1 .. Len(W) : y3[2 + Len(P) + k] = W[k]
  <2>1. /\ y2 \o W \in Notepads /\ Len(y2 \o W) = Len(y2) + Len(W)
        /\ \A k \in 1 .. Len(y2) : (y2 \o W)[k] = y2[k]
        /\ \A k \in 1 .. Len(W) : (y2 \o W)[Len(y2) + k] = W[k]
    BY <1>3, <1>6, Joined
  <2>2. QED BY <1>3, <1>6, <2>1
<1> HIDE DEF y3
<1>8. /\ y4 \in Notepads /\ Len(y4) = 3 + Len(P) + Len(W)
      /\ y4[3 + Len(P) + Len(W)] = Marker["manual"]
      /\ \A k \in 1 .. Len(y3) : y4[k] = y3[k]
  <2>1. /\ y3 \o h3 \in Notepads /\ Len(y3 \o h3) = Len(y3) + Len(h3)
        /\ \A k \in 1 .. Len(y3) : (y3 \o h3)[k] = y3[k]
        /\ \A k \in 1 .. Len(h3) : (y3 \o h3)[Len(y3) + k] = h3[k]
    BY <1>1, <1>7, Joined
  <2>2. Len(y3) + 1 = 3 + Len(P) + Len(W) /\ 1 \in 1 .. Len(h3)
    BY <1>1, <1>3, <1>7
  <2>3. QED BY <1>1, <2>1, <2>2
<1> HIDE DEF y4
<1>9. /\ y5 \in Notepads /\ Len(y5) = 3 + Len(P) + Len(W) + Len(M)
      /\ DOMAIN y5 = 1 .. Len(y5)
      /\ \A k \in 1 .. Len(y4) : y5[k] = y4[k]
      /\ \A k \in 1 .. Len(M) : y5[3 + Len(P) + Len(W) + k] = M[k]
  <2>1. /\ DOMAIN (y4 \o M) = 1 .. Len(y4) + Len(M)
        /\ y4 \o M \in Notepads /\ Len(y4 \o M) = Len(y4) + Len(M)
        /\ \A k \in 1 .. Len(y4) : (y4 \o M)[k] = y4[k]
        /\ \A k \in 1 .. Len(M) : (y4 \o M)[Len(y4) + k] = M[k]
    BY <1>3, <1>8, Joined
  <2>2. QED BY <1>3, <1>8, <2>1
<1> HIDE DEF y5
<1>10. /\ y5[1] = Marker["priority"]
       /\ \A k \in 1 .. Len(P) : y5[1 + k] = P[k]
  BY <1>3, <1>5, <1>6, <1>7, <1>8, <1>9
<1>11. y5[Len(P) + 2] = Marker["working"]
  BY <1>3, <1>6, <1>7, <1>8, <1>9
<1>12. \A k \in 1 .. Len(W) : y5[Len(P) + 2 + k] = W[k]
  BY <1>3, <1>7, <1>8, <1>9
<1>13. y5[Len(P) + Len(W) + 3] = Marker["manual"]
  BY <1>3, <1>8, <1>9
<1>14. \A k \in 1 .. Len(M) : y5[Len(P) + Len(W) + 3 + k] = M[k]
  BY <1>3, <1>9
<1>15. QED BY <1>3, <1>4, <1>9, <1>10, <1>11, <1>12, <1>13, <1>14 DEF P, W, M

\* A stretch of a text that reads like another is the other.
LEMMA PartOf ==
  ASSUME NEW y \in Notepads, NEW u \in Notepads, NEW i \in Nat, NEW j \in Int,
         i + Len(u) <= Len(y), j = i + Len(u), \A k \in 1 .. Len(u) : y[i + k] = u[k]
  PROVE  SubSeq(y, i + 1, j) = u
<1>1. /\ Len(u) \in Nat /\ DOMAIN u = 1 .. Len(u) /\ u = [k \in 1 .. Len(u) |-> u[k]]
  BY DEF Notepads
<1>2. \A k \in i + 1 .. j : y[k] \in Lines \cup Markers \cup {Stamp, Placeholder, Leftover}
  BY <1>1 DEF Notepads
<1>3. /\ SubSeq(y, i + 1, j) \in Notepads /\ Len(SubSeq(y, i + 1, j)) = Len(u)
      /\ \A k \in 1 .. Len(u) : SubSeq(y, i + 1, j)[k] = u[k]
  <2>1. /\ SubSeq(y, i + 1, j) \in Notepads
        /\ Len(SubSeq(y, i + 1, j)) = IF i + 1 <= j THEN j - (i + 1) + 1 ELSE 0
        /\ \A k \in 1 .. j - (i + 1) + 1 : SubSeq(y, i + 1, j)[k] = y[(i + 1) + k - 1]
    BY <1>1, <1>2, SubSeqProperties DEF Notepads
  <2>2. \A k \in 1 .. Len(u) : k \in 1 .. j - (i + 1) + 1 /\ y[(i + 1) + k - 1] = u[k]
    BY <1>1
  <2>3. QED BY <1>1, <2>1, <2>2
<1>4. QED BY <1>1, <1>3, SeqEqual DEF Notepads

\* A section whose marker is found at one place only starts behind it and ends
\* before the next heading, or with the text.
LEMMA SectionAt ==
  ASSUME NEW y \in Notepads, NEW page, NEW s \in Int, NEW e \in Int,
         s - 1 \in DOMAIN y, y[s - 1] = Marker[page],
         \A k \in DOMAIN y : y[k] = Marker[page] => k = s - 1,
         \/ /\ e = Len(y)
            /\ \A j \in Headed(y) : ~ (j > s /\ y[j - 1] # Stamp)
         \/ /\ e + 1 \in Headed(y) /\ e + 1 > s /\ y[(e + 1) - 1] # Stamp
            /\ \A j \in Headed(y) : j > s /\ y[j - 1] # Stamp => e + 1 <= j
  PROVE  Section(y, page) = SubSeq(y, s, e)
<1> DEFINE found == {k \in DOMAIN y : y[k] = Marker[page]}
           start == Min(found) + 1
           ends == {j \in Headed(y) : j > start /\ y[j - 1] # Stamp}
<1>1. found = {s - 1}
  OBVIOUS
<1>2. Min({s - 1}) = s - 1
  <2>1. \A x \in {s - 1} : (\A z \in {s - 1} : x <= z) /\ x = s - 1
    OBVIOUS
  <2>2. QED BY <2>1 DEF Min
<1>3. start = s
  <2> HIDE DEF found
  <2>1. Min(found) = s - 1
    BY <1>1, <1>2
  <2>2. QED BY <2>1
<1>4. Headed(y) \subseteq Int
  BY DEF Headed, Notepads
<1>5. Section(y, page) = SubSeq(y, start, IF ends = {} THEN Len(y) ELSE Min(ends) - 1)
  <2>1. Section(y, page) = IF found = {} THEN <<>>
                           ELSE SubSeq(y, start, IF ends = {} THEN Len(y) ELSE Min(ends) - 1)
    BY DEF Section
  <2>2. QED BY <1>1, <2>1
<1> HIDE DEF start
<1>6. (IF ends = {} THEN Len(y) ELSE Min(ends) - 1) = e
  <2>1. CASE ends = {}
    <3>1. \A j \in Headed(y) : ~ (j > s /\ y[j - 1] # Stamp)
      BY <1>3, <2>1
    <3>2. QED BY <2>1, <3>1
  <2>2. CASE ends # {}
    <3>1. \E j \in Headed(y) : j > s /\ y[j - 1] # Stamp
      BY <1>3, <2>2
    <3>2. e + 1 \in ends /\ (\A z \in ends : e + 1 <= z)
      BY <1>3, <3>1
    <3>3. \A x \in ends : (\A z \in ends : x <= z) => x = e + 1
      BY <1>4, <3>2
    <3>4. Min(ends) = e + 1
      <4> HIDE DEF ends
      <4>1. QED BY <3>2, <3>3 DEF Min
    <3>5. QED BY <2>2, <3>4
  <2>3. QED BY <2>1, <2>2
<1>7. QED BY <1>3, <1>5, <1>6

\* The sections of a clean text are the parts it was built of.
LEMMA BuiltSection ==
  ASSUME NEW t \in [Pages -> Notepads], Clean(Notepad, Build(t)), NEW page \in Pages
  PROVE  Section(Build(t), page) = Filled(t[page])
<1> DEFINE y == Build(t)
           p == Len(Filled(t["priority"]))
           w == Len(Filled(t["working"]))
           m == Len(Filled(t["manual"]))
           b == p + 2
           d == p + w + 3
<1>1. /\ y \in Notepads /\ DOMAIN y = 1 .. Len(y) /\ Len(y) = p + w + m + 3
      /\ p \in Nat \ {0} /\ w \in Nat \ {0} /\ m \in Nat \ {0}
      /\ y[1] = Marker["priority"]
      /\ \A k \in 1 .. p : y[1 + k] = Filled(t["priority"])[k]
      /\ y[b] = Marker["working"]
      /\ \A k \in 1 .. w : y[b + k] = Filled(t["working"])[k]
      /\ y[d] = Marker["manual"]
      /\ \A k \in 1 .. m : y[d + k] = Filled(t["manual"])[k]
  BY Layout
<1>2. /\ Cardinality(Headed(y)) = 3
      /\ \A i \in Headed(y) : i = 1 \/ y[i - 1] # Stamp
  BY DEF Clean
<1>3. \A q \in Pages : Filled(t[q]) \in Notepads
  <2>1. <<Placeholder>> \in Notepads
    BY DEF Notepads
  <2>2. QED BY <2>1 DEF Filled
<1> HIDE DEF y, p, w, m
<1>4. Headed(y) = {1, b, d}
  <2>1. {1, b, d} \subseteq Headed(y)
    BY <1>1 DEF Headed, Markers, Pages
  <2>2. IsFiniteSet(Headed(y))
    <3>1. Headed(y) \in SUBSET (1 .. Len(y)) /\ Len(y) \in Int
      BY <1>1 DEF Headed
    <3>2. IsFiniteSet(1 .. Len(y))
      BY <3>1, FS_Interval
    <3>3. QED BY <3>1, <3>2, FS_Subset
  <2>3. Cardinality({1, b, d}) = 3
    <3>1. 1 # b /\ 1 # d /\ b # d
      BY <1>1
    <3> HIDE DEF b, d
    <3>2. Cardinality({1}) = 1 /\ IsFiniteSet({1})
      BY FS_Singleton
    <3>3. Cardinality({1} \cup {b}) = Cardinality({1}) + 1 /\ IsFiniteSet({1} \cup {b})
      <4>1. b \notin {1}
        BY <3>1
      <4>2. QED BY <3>2, <4>1, FS_AddElement, Zenon
    <3>4. Cardinality(({1} \cup {b}) \cup {d}) = Cardinality({1} \cup {b}) + 1
      <4>1. d \notin {1} \cup {b}
        BY <3>1
      <4>2. QED BY <3>3, <4>1, FS_AddElement, Zenon
    <3>5. ({1} \cup {b}) \cup {d} = {1, b, d}
      OBVIOUS
    <3>6. QED BY <3>2, <3>3, <3>4, <3>5
  <2>4. QED BY <1>2, <2>1, <2>2, <2>3, FS_Subset
<1>5. \A q \in Pages : {i \in DOMAIN y : y[i] = Marker[q]} =
        {CASE q = "priority" -> 1 [] q = "working" -> b [] q = "manual" -> d}
  <2>1. \A q \in Pages, i \in DOMAIN y : y[i] = Marker[q] => i \in {1, b, d}
    BY <1>4 DEF Headed, Markers
  <2>2. /\ Marker["priority"] # Marker["working"] /\ Marker["priority"] # Marker["manual"]
        /\ Marker["working"] # Marker["manual"]
    BY DEF Marker
  <2>3. 1 \in DOMAIN y /\ b \in DOMAIN y /\ d \in DOMAIN y
    BY <1>1
  <2>4. QED BY <1>1, <2>1, <2>2, <2>3 DEF Pages
<1>6. \A j \in Headed(y) : y[j - 1] # Stamp \/ j = 1
  BY <1>2
<1>7. CASE page = "priority"
  <2>1. Section(y, page) = SubSeq(y, 2, b - 1)
    <3>1. /\ 2 - 1 \in DOMAIN y /\ y[2 - 1] = Marker[page]
          /\ \A k \in DOMAIN y : y[k] = Marker[page] => k = 2 - 1
      BY <1>1, <1>5, <1>7
    <3>2. /\ (b - 1) + 1 \in Headed(y) /\ (b - 1) + 1 > 2 /\ y[((b - 1) + 1) - 1] # Stamp
          /\ \A j \in Headed(y) : j > 2 /\ y[j - 1] # Stamp => (b - 1) + 1 <= j
      BY <1>1, <1>4, <1>6
    <3>3. y \in Notepads /\ 2 \in Int /\ b - 1 \in Int
      BY <1>1
    <3> HIDE DEF b, d
    <3>4. QED BY <3>1, <3>2, <3>3, SectionAt, Zenon
  <2>2. SubSeq(y, 2, b - 1) = Filled(t["priority"])
    <3>1. /\ Filled(t["priority"]) \in Notepads /\ p = Len(Filled(t["priority"]))
          /\ 1 \in Nat /\ b - 1 \in Int /\ b - 1 = 1 + p /\ 1 + p <= Len(y)
      BY <1>1, <1>3 DEF Pages, p
    <3>2. SubSeq(y, 1 + 1, b - 1) = Filled(t["priority"])
      BY <1>1, <3>1, PartOf
    <3>3. QED BY <3>2
  <2>3. QED BY <1>7, <2>1, <2>2 DEF y
<1>8. CASE page = "working"
  <2>1. Section(y, page) = SubSeq(y, b + 1, d - 1)
    <3>1. /\ (b + 1) - 1 \in DOMAIN y /\ y[(b + 1) - 1] = Marker[page]
          /\ \A k \in DOMAIN y : y[k] = Marker[page] => k = (b + 1) - 1
      BY <1>1, <1>5, <1>8
    <3>2. /\ (d - 1) + 1 \in Headed(y) /\ (d - 1) + 1 > b + 1 /\ y[((d - 1) + 1) - 1] # Stamp
          /\ \A j \in Headed(y) : j > b + 1 /\ y[j - 1] # Stamp => (d - 1) + 1 <= j
      BY <1>1, <1>4, <1>6
    <3>3. y \in Notepads /\ b + 1 \in Int /\ d - 1 \in Int
      BY <1>1
    <3> HIDE DEF b, d
    <3>4. QED BY <3>1, <3>2, <3>3, SectionAt, Zenon
  <2>2. SubSeq(y, b + 1, d - 1) = Filled(t["working"])
    <3>1. /\ Filled(t["working"]) \in Notepads /\ w = Len(Filled(t["working"]))
          /\ b \in Nat /\ d - 1 \in Int /\ d - 1 = b + w /\ b + w <= Len(y)
      BY <1>1, <1>3 DEF Pages, w
    <3>2. SubSeq(y, b + 1, d - 1) = Filled(t["working"])
      BY <1>1, <3>1, PartOf
    <3>3. QED BY <3>2
  <2>3. QED BY <1>8, <2>1, <2>2 DEF y
<1>9. CASE page = "manual"
  <2>1. Section(y, page) = SubSeq(y, d + 1, Len(y))
    <3>1. /\ (d + 1) - 1 \in DOMAIN y /\ y[(d + 1) - 1] = Marker[page]
          /\ \A k \in DOMAIN y : y[k] = Marker[page] => k = (d + 1) - 1
      BY <1>1, <1>5, <1>9
    <3>2. \A j \in Headed(y) : ~ (j > d + 1 /\ y[j - 1] # Stamp)
      BY <1>1, <1>4
    <3>3. y \in Notepads /\ d + 1 \in Int /\ Len(y) \in Int
      BY <1>1
    <3> HIDE DEF b, d
    <3>4. QED BY <3>1, <3>2, <3>3, SectionAt, Zenon
  <2>2. SubSeq(y, d + 1, Len(y)) = Filled(t["manual"])
    <3>1. /\ Filled(t["manual"]) \in Notepads /\ m = Len(Filled(t["manual"]))
          /\ d \in Nat /\ Len(y) \in Int /\ Len(y) = d + m /\ d + m <= Len(y)
      BY <1>1, <1>3 DEF Pages, m
    <3>2. SubSeq(y, d + 1, Len(y)) = Filled(t["manual"])
      BY <1>1, <3>1, PartOf
    <3>3. QED BY <3>2
  <2>3. QED BY <1>9, <2>1, <2>2 DEF y
<1>10. QED BY <1>7, <1>8, <1>9 DEF Pages

\* A call that adds to the memory's notes or leaves them, and the outcome is
\* clean: the notes are there, and the new one with them.
LEMMA MemoryKeeps ==
  ASSUME NEW c \in Calls, c.file = Memory, ~ Replaces(c), NEW x, Accepts(c, x),
         Clean(Memory, After(c, x))
  PROVE  /\ Adds(c) \subseteq Entries(Memory, After(c, x))
         /\ Entries(Memory, x) \subseteq Entries(Memory, After(c, x))
<1> DEFINE y == After(c, x)
<1>1. c.tool \in {"merge", "replace", "add"} /\ Memory \notin Goals /\ Memory # Notepad
  BY CallFacts, FilesAssumption DEF FilesAssumption
<1>2. y \in Memories /\ y.notes # NoList
  BY RecordFacts DEF Clean
<1>3. y = MemoryAfter(c, x)
  <2>1. c.tool # "clear" /\ c.tool # "write"
    BY <1>1
  <2>2. After(c, x) = MemoryAfter(c, x)
    BY <1>1, <2>1 DEF After
  <2>3. QED BY <2>2
<1>4. Entries(Memory, y) = {<<"add", n>> : n \in y.notes}
  BY <1>2 DEF Entries
<1> HIDE DEF y
<1>5. CASE c.tool = "add"
  <2>1. x \in Memories
    BY <1>5 DEF Accepts
  <2>2. /\ x.notes # NoList /\ y = [x EXCEPT !.notes = @ \cup {c.arg}]
    BY <1>2, <1>3, <1>5 DEF MemoryAfter
  <2>3. y.notes = x.notes \cup {c.arg}
    BY <2>1, <2>2 DEF Memories
  <2>4. Entries(Memory, x) = {<<"add", n>> : n \in x.notes}
    BY <2>1, <2>2 DEF Entries
  <2>5. Adds(c) = {<<"add", c.arg>>}
    BY <1>5 DEF Adds
  <2>6. QED BY <1>4, <2>3, <2>4, <2>5 DEF y
<1>6. CASE c.tool = "merge"
  <2>1. c.arg.notes = Unsaid /\ Adds(c) = {}
    BY <1>6 DEF Replaces, Adds
  <2>2. CASE x \in Memories /\ x.notes # NoList
    <3>1. y.notes = x.notes
      BY <1>3, <1>6, <2>1, <2>2 DEF MemoryAfter, Overlaid
    <3>2. Entries(Memory, x) = {<<"add", n>> : n \in x.notes}
      BY <2>2 DEF Entries
    <3>3. QED BY <1>4, <2>1, <3>1, <3>2 DEF y
  <2>3. CASE ~ (x \in Memories /\ x.notes # NoList)
    <3>1. Entries(Memory, x) = {}
      BY <2>3 DEF Entries
    <3>2. QED BY <2>1, <3>1
  <2>4. QED BY <2>2, <2>3
<1>7. CASE c.tool = "replace"
  BY <1>7 DEF Replaces
<1>8. QED BY <1>1, <1>5, <1>6, <1>7

\* The lines of an entry: the stamp and those of the note.
LEMMA EntryText ==
  ASSUME NEW n \in Notepads
  PROVE  /\ <<Stamp>> \o n \in Notepads /\ Len(<<Stamp>> \o n) = 1 + Len(n)
         /\ DOMAIN (<<Stamp>> \o n) = 1 .. 1 + Len(n)
         /\ (<<Stamp>> \o n)[1] = Stamp
         /\ \A k \in 1 .. Len(n) : (<<Stamp>> \o n)[1 + k] = n[k]
<1> DEFINE u == <<Stamp>>
<1>1. u \in Notepads /\ Len(u) = 1 /\ u[1] = Stamp
  BY DEF Notepads
<1> HIDE DEF u
<1>2. /\ u \o n \in Notepads /\ Len(u \o n) = Len(u) + Len(n) /\ Len(n) \in Nat
      /\ DOMAIN (u \o n) = 1 .. Len(u) + Len(n)
      /\ \A k \in 1 .. Len(u) : (u \o n)[k] = u[k]
      /\ \A k \in 1 .. Len(n) : (u \o n)[Len(u) + k] = n[k]
  BY <1>1, Joined
<1>3. 1 \in 1 .. Len(u)
  BY <1>1
<1>4. QED BY <1>1, <1>2, <1>3 DEF u

\* A call that adds an entry to the notepad, and the outcome is clean: every
\* entry is there, and the new one with them.
LEMMA NotepadKeeps ==
  ASSUME NEW c \in Calls, c.file = Notepad, NEW x, Clean(Notepad, After(c, x))
  PROVE  /\ Adds(c) \subseteq Entries(Notepad, After(c, x))
         /\ Entries(Notepad, x) \subseteq Entries(Notepad, After(c, x))
<1> DEFINE T == [page \in Pages |->
                   IF c.tool # page THEN Section(x, page)
                   ELSE IF page = "priority" THEN c.arg
                   ELSE Section(x, page) \o <<Stamp>> \o c.arg]
<1>1. /\ c.tool \in Pages /\ c.arg \in Notes /\ Notepad \notin Goals /\ Notepad # Memory
  BY CallFacts, FilesAssumption DEF FilesAssumption
<1>2. \A n \in Notes : n \in Notepads
  BY FilesAssumption DEF FilesAssumption, Notepads
<1>3. <<Stamp>> \in Notepads /\ Len(<<Stamp>>) = 1
  BY DEF Notepads
<1>4. \A page : Section(x, page) \in Notepads
  BY SectionType
<1>5. \A u, v \in Notepads : u \o v \in Notepads
  BY Joined
<1>6. T \in [Pages -> Notepads]
  BY <1>1, <1>2, <1>3, <1>4, <1>5
<1>7. After(c, x) = Build(T)
  <2>1. c.tool # "clear" /\ c.tool # "write"
    BY <1>1 DEF Pages
  <2>2. After(c, x) = NotepadAfter(c, x)
    BY <1>1, <2>1 DEF After
  <2>3. QED BY <2>2 DEF NotepadAfter
<1>8. \A page \in {"working", "manual"} :
        /\ T[page] = IF c.tool # page THEN Section(x, page)
                     ELSE Section(x, page) \o <<Stamp>> \o c.arg
        /\ Section(After(c, x), page) = Filled(T[page])
  <2>1. \A page \in Pages : Section(Build(T), page) = Filled(T[page])
    <3> HIDE DEF T
    <3>1. QED BY <1>6, <1>7, BuiltSection
  <2>2. QED BY <1>7, <2>1 DEF Pages
<1> HIDE DEF T
<1>9. ASSUME NEW page \in {"working", "manual"}, NEW n \in Notes,
             NEW i \in Nat, i + Len(<<Stamp>> \o n) <= Len(T[page]),
             \A k \in DOMAIN (<<Stamp>> \o n) : T[page][i + k] = (<<Stamp>> \o n)[k]
      PROVE  <<page, n>> \in Entries(Notepad, After(c, x))
  <2> DEFINE entry == <<Stamp>> \o n
  <2>1. n \in Notepads /\ T[page] \in Notepads
    BY <1>2, <1>6 DEF Pages
  <2>2. Len(entry) \in Nat \ {0} /\ Len(T[page]) \in Nat /\ T[<<page, n>>[1]] = T[page]
    BY <1>3, <2>1, Joined DEF Notepads
  <2> HIDE DEF entry
  <2>3. T[page] # <<>>
    BY <1>9, <2>2 DEF entry
  <2>4. Section(After(c, x), page) = T[page]
    BY <1>8, <2>3 DEF Filled
  <2>5. i \in 0 .. Len(T[page]) - Len(entry)
    BY <1>9, <2>2 DEF entry
  <2>6. <<page, n>> \in {e \in {"working", "manual"} \X Notes :
          LET text == Section(After(c, x), e[1])
              item == <<Stamp>> \o e[2]
          IN  \E j \in 0 .. Len(text) - Len(item) :
                \A k \in DOMAIN item : text[j + k] = item[k]}
    BY <1>9, <2>4, <2>5 DEF entry
  <2>7. QED BY <1>1, <2>6 DEF Entries
<1>10. \A page \in {"working", "manual"} :
         /\ Len(Section(x, page)) \in Nat /\ Len(T[page]) \in Nat
         /\ Len(Section(x, page)) <= Len(T[page])
         /\ \A k \in 1 .. Len(Section(x, page)) : T[page][k] = Section(x, page)[k]
  <2> SUFFICES ASSUME NEW page \in {"working", "manual"}
               PROVE  /\ Len(Section(x, page)) \in Nat /\ Len(T[page]) \in Nat
                      /\ Len(Section(x, page)) <= Len(T[page])
                      /\ \A k \in 1 .. Len(Section(x, page)) : T[page][k] = Section(x, page)[k]
    OBVIOUS
  <2>1. Section(x, page) \in Notepads /\ c.arg \in Notepads
    BY <1>1, <1>2, <1>4
  <2>2. CASE c.tool # page
    BY <1>8, <2>1, <2>2 DEF Notepads
  <2>3. CASE c.tool = page
    <3> DEFINE S == Section(x, page)
               S1 == S \o <<Stamp>>
    <3>1. T[page] = S1 \o c.arg
      BY <1>8, <2>3
    <3> HIDE DEF S
    <3>2. /\ S1 \in Notepads /\ Len(S1) = Len(S) + 1 /\ Len(S) \in Nat
          /\ \A k \in 1 .. Len(S) : S1[k] = S[k]
      BY <1>3, <2>1, Joined DEF S
    <3> HIDE DEF S1
    <3>3. /\ Len(S1 \o c.arg) = Len(S1) + Len(c.arg) /\ Len(c.arg) \in Nat
          /\ \A k \in 1 .. Len(S1) : (S1 \o c.arg)[k] = S1[k]
      BY <2>1, <3>2, Joined
    <3>4. /\ Len(S) \in Nat /\ Len(T[page]) \in Nat /\ Len(S) <= Len(T[page])
          /\ \A k \in 1 .. Len(S) : k \in 1 .. Len(S1)
      <4>1. Len(T[page]) = Len(S1) + Len(c.arg)
        BY <3>1, <3>3, Zenon
      <4> DEFINE r == Len(c.arg)
                 l == Len(T[page])
      <4> HIDE DEF r, l
      <4>2. l = Len(S1) + r /\ Len(S1) = Len(S) + 1 /\ Len(S) \in Nat /\ r \in Nat
        BY <3>2, <3>3, <4>1, Zenon DEF r, l
      <4>3. /\ Len(S) \in Nat /\ l \in Nat /\ Len(S) <= l
            /\ \A k \in 1 .. Len(S) : k \in 1 .. Len(S1)
        BY <4>2
      <4>4. QED BY <4>3, Zenon DEF l
    <3>5. \A k \in 1 .. Len(S) : T[page][k] = S[k]
      BY <3>1, <3>2, <3>3, <3>4
    <3>6. QED BY <3>4, <3>5 DEF S
  <2>4. QED BY <2>2, <2>3
<1>11. Adds(c) \subseteq Entries(Notepad, After(c, x))
  <2>1. CASE c.tool \in {"working", "manual"}
    <3> DEFINE S == Section(x, c.tool)
               S1 == S \o <<Stamp>>
    <3>1. Adds(c) = {<<c.tool, c.arg>>} /\ T[c.tool] = S1 \o c.arg
      BY <1>8, <2>1 DEF Adds
    <3>2. S \in Notepads /\ c.arg \in Notepads
      BY <1>1, <1>2, <1>4
    <3> HIDE DEF S
    <3>3. /\ S1 \in Notepads /\ Len(S1) = Len(S) + 1 /\ Len(S) \in Nat
          /\ S1[Len(S) + 1] = Stamp
      BY <1>3, <3>2, Joined
    <3> HIDE DEF S1
    <3>4. /\ Len(S1 \o c.arg) = Len(S1) + Len(c.arg) /\ Len(c.arg) \in Nat
          /\ \A k \in 1 .. Len(S1) : (S1 \o c.arg)[k] = S1[k]
          /\ \A k \in 1 .. Len(c.arg) : (S1 \o c.arg)[Len(S1) + k] = c.arg[k]
      BY <3>2, <3>3, Joined
    <3>5. /\ <<Stamp>> \o c.arg \in Notepads
          /\ Len(<<Stamp>> \o c.arg) = 1 + Len(c.arg)
          /\ DOMAIN (<<Stamp>> \o c.arg) = 1 .. 1 + Len(c.arg)
          /\ (<<Stamp>> \o c.arg)[1] = Stamp
          /\ \A k \in 1 .. Len(c.arg) : (<<Stamp>> \o c.arg)[1 + k] = c.arg[k]
      BY <3>2, EntryText
    <3>6. Len(S) + Len(<<Stamp>> \o c.arg) <= Len(T[c.tool])
      <4>1. Len(T[c.tool]) = Len(S1) + Len(c.arg)
        BY <3>1, <3>4, Zenon
      <4> DEFINE r == Len(c.arg)
                 l == Len(T[c.tool])
                 n == Len(<<Stamp>> \o c.arg)
      <4> HIDE DEF r, l, n
      <4>2. l = Len(S1) + r /\ Len(S1) = Len(S) + 1 /\ Len(S) \in Nat /\ n = 1 + r /\ r \in Nat
        BY <3>3, <3>4, <3>5, <4>1, Zenon DEF r, l, n
      <4>3. Len(S) + n <= l
        BY <4>2
      <4>4. QED BY <4>3, Zenon DEF l, n
    <3>7. ASSUME NEW k \in DOMAIN (<<Stamp>> \o c.arg)
          PROVE  T[c.tool][Len(S) + k] = (<<Stamp>> \o c.arg)[k]
      <4>1. CASE k = 1
        BY <3>1, <3>3, <3>4, <3>5, <4>1
      <4>2. CASE k # 1
        <5> DEFINE r == Len(c.arg)
        <5> HIDE DEF r
        <5>1. k \in 1 .. 1 + r /\ r \in Nat
          BY <3>4, <3>5, Zenon DEF r
        <5>2. k - 1 \in 1 .. r /\ k = 1 + (k - 1) /\ Len(S) + k = Len(S1) + (k - 1)
          BY <3>3, <4>2, <5>1
        <5>3. QED BY <3>1, <3>4, <3>5, <5>2 DEF r
      <4>3. QED BY <4>1, <4>2
    <3>8. QED BY <1>1, <1>9, <2>1, <3>1, <3>3, <3>6, <3>7
  <2>2. CASE c.tool \notin {"working", "manual"}
    BY <1>1, <2>2 DEF Adds, Pages
  <2>3. QED BY <2>1, <2>2
<1>12. ASSUME NEW e \in Entries(Notepad, x)
       PROVE  e \in Entries(Notepad, After(c, x))
  <2>1. Entries(Notepad, x) =
          {d \in {"working", "manual"} \X Notes :
             LET text == Section(x, d[1])
                 item == <<Stamp>> \o d[2]
             IN  \E j \in 0 .. Len(text) - Len(item) :
                   \A k \in DOMAIN item : text[j + k] = item[k]}
    BY <1>1 DEF Entries
  <2>2. PICK page \in {"working", "manual"}, n \in Notes : e = <<page, n>>
    BY <2>1
  <2> DEFINE entry == <<Stamp>> \o n
  <2>3. PICK i \in 0 .. Len(Section(x, page)) - Len(entry) :
          \A k \in DOMAIN entry : Section(x, page)[i + k] = entry[k]
    BY <2>1, <2>2
  <2>4. Len(entry) \in Nat /\ DOMAIN entry = 1 .. Len(entry)
    BY <1>2, <1>3, Joined DEF Notepads
  <2> HIDE DEF entry
  <2>5. i \in Nat /\ i + Len(entry) <= Len(T[page])
    BY <1>10, <2>3, <2>4
  <2>6. \A k \in DOMAIN entry : T[page][i + k] = entry[k]
    <3>1. \A k \in DOMAIN entry : i + k \in 1 .. Len(Section(x, page))
      BY <1>10, <2>3, <2>4
    <3>2. QED BY <1>10, <2>3, <3>1
  <2>7. QED BY <1>9, <2>2, <2>5, <2>6 DEF entry
<1>13. QED BY <1>11, <1>12

\* Whatever the file may hold, what has been answered for is in it.
EntriesInv ==
  \A f \in {Memory, Notepad} :
    ~ Overlapped(f) => \A x \in expected[f] : acked[f] \subseteq Entries(f, x)

\* The end of a call that has left the file clean keeps the entries.
LEMMA EntriesEnd ==
  ASSUME Typed, EntriesInv, NEW p \in Servers, Reply(p) \/ Crash(p),
         NEW f \in {Memory, Notepad}, f \in Touches(call[p]), ~ Overlapped(f),
         ~ Replaces(call[p]), \A x \in expected'[f] : Clean(f, x),
         NEW x \in expected'[f]
  PROVE  acked'[f] \subseteq Entries(f, x)
<1> DEFINE c == call[p]
           new == IF Reply(p) /\ pc[p] = "done" THEN Adds(c) ELSE {}
<1>1. c \in Calls /\ c.file = f /\ f \in Files
  <2>1. pc[p] # "idle"
    BY DEF Reply, Crash
  <2>2. c \in Calls /\ (c.tool # "clear" => Touches(c) = {c.file})
    BY <2>1, Touching
  <2>3. f \notin States /\ f \in Files
    BY RecordFacts, FilesAssumption DEF FilesAssumption
  <2>4. c.tool = "clear" => Touches(c) \subseteq States
    <3>1. c.tool = "clear" => c.file \in States
      BY <2>2, CallFacts
    <3>2. QED BY <3>1 DEF Touches, States
  <2>5. QED BY <2>2, <2>3, <2>4
<1>2. f \in Files /\ Empty \notin Records(f)
  BY <1>1, RecordFacts
<1>3. ASSUME NEW y \in expected[f], Accepts(c, y), x = After(c, y)
      PROVE  Adds(c) \cup acked[f] \subseteq Entries(f, x)
  <2>1. acked[f] \subseteq Entries(f, y)
    BY <1>3 DEF EntriesInv
  <2>2. Clean(f, After(c, y))
    BY <1>3
  <2>3. CASE f = Memory
    BY <1>1, <1>3, <2>1, <2>2, <2>3, MemoryKeeps
  <2>4. CASE f = Notepad
    BY <1>1, <1>3, <2>1, <2>2, <2>4, NotepadKeeps
  <2>5. QED BY <2>3, <2>4
<1>4. \A y \in expected[f] : acked[f] \subseteq Entries(f, y)
  BY DEF EntriesInv
<1>5. CASE Reply(p)
  <2>1. /\ expected'[f] = IF pc[p] = "done" THEN Effects(p, f)
                          ELSE {y \in expected[f] : ~ Accepts(call[p], y)}
        /\ acked'[f] = acked[f] \cup (IF pc[p] = "done" THEN Adds(call[p]) ELSE {})
    BY <1>1, <1>5 DEF Reply, Settle, Acknowledge
  <2>2. CASE pc[p] = "done"
    BY <1>3, <2>1, <2>2 DEF Effects
  <2>3. CASE pc[p] # "done"
    BY <1>4, <2>1, <2>3
  <2>4. QED BY <2>2, <2>3
<1>6. CASE Crash(p)
  <2>1. /\ expected'[f] = expected[f] \cup Effects(p, f) \cup ({Empty} \cap {files[f]})
        /\ acked'[f] = acked[f] \cup {}
    BY <1>1, <1>6 DEF Crash, Settle, Acknowledge
  <2>2. x # Empty
    BY <1>2 DEF Clean
  <2>3. CASE x \in expected[f]
    BY <1>4, <2>1, <2>3
  <2>4. CASE x \in Effects(p, f)
    BY <1>3, <2>1, <2>4 DEF Effects
  <2>5. QED BY <2>1, <2>2, <2>3, <2>4
<1>7. QED BY <1>5, <1>6

\* No step of a server loses an entry from what a file may hold.
LEMMA EntriesStep ==
  ASSUME Typed, EntriesInv, NEW p \in Servers, Step(p)
  PROVE  EntriesInv'
<1> SUFFICES ASSUME NEW f \in {Memory, Notepad}, ~ Overlapped(f)', NEW x \in expected'[f]
             PROVE  acked'[f] \subseteq Entries(f, x)
  BY DEF EntriesInv
<1>1. f \in Files
  BY RecordFacts
<1>2. CASE Reply(p) \/ Crash(p)
  <2>1. CASE f \notin Touches(call[p])
    <3>1. expected'[f] = expected[f] /\ acked'[f] = acked[f] /\ mishap'[f] = mishap[f]
      BY <1>1, <1>2, <2>1 DEF Reply, Crash, Settle, Acknowledge, Settles
    <3>2. QED BY <3>1 DEF EntriesInv, Overlapped
  <2>2. CASE /\ f \in Touches(call[p])
             /\ \/ Overlapped(f) \/ Replaces(call[p])
                \/ \E y \in expected'[f] : ~ Clean(f, y)
    <3>1. acked'[f] = {}
      BY <1>2, <2>2 DEF Reply, Crash, Acknowledge
    <3>2. QED BY <3>1
  <2>3. CASE /\ f \in Touches(call[p]) /\ ~ Overlapped(f) /\ ~ Replaces(call[p])
             /\ \A y \in expected'[f] : Clean(f, y)
    BY <1>2, <2>3, EntriesEnd
  <2>4. QED BY <2>1, <2>2, <2>3
<1>3. CASE ~ (Reply(p) \/ Crash(p))
  <2>1. UNCHANGED <<expected, acked>>
    BY <1>3 DEF Step, Call, Load, Open, Write, Rename, Unlink, Clear
  <2>2. ~ Overlapped(f)
    BY <1>1, <1>3, StepFrame DEF Overlapped
  <2>3. QED BY <2>1, <2>2 DEF EntriesInv
<1>4. QED BY <1>2, <1>3

\* A note or an entry answered for stays in its file while the calls leave it
\* clean, until one replaces it, or two meet there.
THEOREM KeptEntries == Spec => []EntriesKept
<1>1. Init => EntriesInv
  BY DEF Init, EntriesInv
<1>2. Typed /\ EntriesInv /\ [Next]_vars => EntriesInv'
  <2> SUFFICES ASSUME Typed, EntriesInv, [Next]_vars
               PROVE  EntriesInv'
    OBVIOUS
  <2>1. CASE UNCHANGED vars
    BY <2>1 DEF vars, EntriesInv, Overlapped
  <2>2. ASSUME NEW p \in Servers, Step(p)
        PROVE  EntriesInv'
    BY <2>2, EntriesStep
  <2>3. QED BY <2>1, <2>2 DEF Next, Step
<1>3. AsIfOneAtATime /\ EntriesInv => EntriesKept
  BY RecordFacts DEF AsIfOneAtATime, EntriesInv, EntriesKept
<1>4. QED BY <1>1, <1>2, <1>3, TypedAlways, OneAtATime, PTL DEF Spec
=============================================================================
