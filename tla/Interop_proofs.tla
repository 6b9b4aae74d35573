--------------------------- MODULE Interop_proofs ---------------------------
(***************************************************************************)
(* Proofs about the files shared with omx, for any number of hosts.        *)
(***************************************************************************)
EXTENDS InteropProperties, SequenceTheorems, TLAPS

LastOf(s) == s[Len(s)]
Fresh(f) == IF f \in SharedTasks THEN [status |-> "Pending", closed |-> FALSE]
            ELSE [read |-> FALSE]

\* What a host has in its hands, by what it does and where it is.
HasMail(h) ==
  /\ job[h].file \in OmxWorkers
  /\ image[h] \in Seq(Nat) /\ image[h] # <<>> /\ LastOf(image[h]) \in 1 .. mails
Writes(h) ==
  LET f == job[h].file
  IN  \/ job[h].do = "add" /\ f \in made /\ image[h] = Fresh(f)
      \/ job[h].do = "update" /\ f \in made \cap SharedTasks /\ image[h] \in TaskRecords
      \/ job[h].do = "mark" /\ f \in made \cap SharedMessages /\ image[h] = [read |-> TRUE]
      \/ job[h].do = "omx" /\ HasMail(h)
Writing(h) == Stage(h, "open") \/ Stage(h, "write")
HostInv(h) ==
  LET f == job[h].file
  IN  /\ Writing(h) => Writes(h)
      /\ Stage(h, "event") =>
           /\ job[h].do = "omx" /\ HasMail(h)
           /\ \E i \in 1 .. Len(delivered[f]) : delivered[f][i] = LastOf(image[h])
      /\ Stage(h, "delete") => job[h].do = "cleanup" /\ f \in made
      /\ job[h] # NoJob =>
           /\ job[h].do = "mark" => rest[h] \subseteq SharedMessages
           /\ job[h].do = "cleanup" => rest[h] \subseteq SharedFiles
           /\ job[h].do = "omx" => rest[h] \subseteq OmxWorkers
      /\ \/ handle[h] = Disk!Closed
         \/ Stage(h, "write") /\ handle[h] = Disk!At("file", f)
      /\ Stage(h, "write") /\ handle[h] = Disk!Closed => f \in cleaned

\* Who adds a file is the only one to know of it.
AddInv(h) ==
  Writing(h) /\ job[h].do = "add" =>
    LET f == job[h].file
    IN  /\ f \notin marked \cup cleaned
        /\ shared[f] \in {Absent, Blank}
        /\ \A g \in Hosts \ {h} : f \notin Holds(g)

\* An id that was not generated yet has no file.
UnmadeInv ==
  \A f \in SharedFiles \ made :
    /\ shared[f] = Absent
    /\ f \notin marked \cup cleaned
    /\ \A h \in Hosts : f \notin Holds(h)

\* A message comes back only as read.
ReadInv == \A m \in (marked \cup cleaned) \cap SharedMessages : IsWhole(m) => shared[m].read

\* A file that no two hosts changed at once and no crash cut: who holds it does
\* so alone, and what it will write follows from what was there.
Sole == \A f \in InteropFiles \ spoilt : \A g, h \in Hosts : f \in Holds(g) \cap Holds(h) => g = h

\* What a file holds between writes, and what its holder knows of it.
Settled(f) ==
  /\ f \in OmxWorkers =>
       \/ shared[f] = delivered[f]
       \/ shared[f] = Absent /\ delivered[f] = <<>>
  /\ f \in SharedFiles =>
       /\ IsWhole(f) \/ shared[f] = Absent
       /\ f \in marked \cap SharedTasks /\ IsWhole(f) => shared[f].closed
       /\ f \in cleaned => shared[f] = Absent

HeldInv(h) ==
  LET f == job[h].file
  IN  Holds(h) # {} /\ f \notin spoilt =>
        /\ Stage(h, "write") => shared[f] = Blank /\ handle[h] = Disk!At("file", f)
        /\ ~ Stage(h, "write") => Settled(f)
        /\ ~ Stage(h, "event") => f \notin cleaned
        /\ Writing(h) /\ f \in marked \cap SharedTasks => image[h].closed
        /\ Writing(h) /\ f \in OmxWorkers =>
             image[h] = Append(delivered[f], LastOf(image[h]))

\* What the log says of a mailbox has been written to it.
EventInv ==
  \A w \in OmxWorkers : \A n \in 1 .. mails :
    <<w, n>> \in events => \E i \in 1 .. Len(delivered[w]) : delivered[w][i] = n

SettledInv == \A f \in InteropFiles \ spoilt : BeingWritten(f) \/ Settled(f)

\* What the steps keep of the files, and the inductive invariant.
FileInv ==
  /\ UnmadeInv /\ ReadInv /\ Sole /\ SettledInv
  /\ \A h \in Hosts : AddInv(h) /\ HeldInv(h)

InteropInv ==
  InteropTypeOK /\ (\A h \in Hosts : HostInv(h)) /\ EventInv /\ FileInv

-----------------------------------------------------------------------------
(* Files and jobs.                                                         *)

LEMMA Contents ==
  /\ \A t \in SharedTasks :
       ContentsOf(t) = TaskRecords /\ t \in SharedFiles /\ t \notin SharedMessages \cup OmxWorkers
  /\ \A m \in SharedMessages :
       ContentsOf(m) = MessageRecords /\ m \in SharedFiles /\ m \notin SharedTasks \cup OmxWorkers
  /\ \A w \in OmxWorkers : ContentsOf(w) = Mail /\ w \notin SharedFiles
  /\ \A f \in InteropFiles : {Absent, Blank, Mixed} \cap ContentsOf(f) = {}
  BY InteropAssumption DEF ContentsOf, SharedFiles

LEMMA WholeThere ==
  ASSUME NEW f \in InteropFiles, IsWhole(f)
  PROVE  shared[f] \notin {Absent, Blank, Mixed}
  BY Contents DEF IsWhole

LEMMA FreshWhole == \A f \in SharedFiles : Fresh(f) \in ContentsOf(f)
  BY Contents DEF Fresh, SharedFiles, TaskRecords, MessageRecords, TaskStates

\* What a host holds is the file of its job, or nothing.
LEMMA HoldsFacts ==
  ASSUME NEW h \in Hosts
  PROVE  /\ Holds(h) # {} => Holds(h) = {job[h].file} /\ job[h] # NoJob
         /\ Holds(h) # {} <=> Writing(h) \/ Stage(h, "event") \/ Stage(h, "delete")
  BY DEF Holds, Writing, Stage

\* A host that gets another job, and those that do not.
LEMMA JobFacts ==
  ASSUME InteropTypeOK, NEW h \in Hosts, NEW kind, NEW f, NEW place,
         SetJob(h, kind, f, place), [do |-> kind, file |-> f, at |-> place] \in HostJobs
  PROVE  /\ job' \in [Hosts -> HostJobs \cup {NoJob}]
         /\ job'[h] = [do |-> kind, file |-> f, at |-> place] /\ job'[h] # NoJob
         /\ \A g \in Hosts \ {h} : job'[g] = job[g]
         /\ \A q : Stage(h, q)' <=> q = place
         /\ Holds(h)' = IF place \in {"open", "write", "delete", "event"} THEN {f} ELSE {}
<1>1. /\ job' \in [Hosts -> HostJobs \cup {NoJob}]
      /\ job'[h] = [do |-> kind, file |-> f, at |-> place]
      /\ \A g \in Hosts \ {h} : job'[g] = job[g]
  BY DEF InteropTypeOK, SetJob
<1>2. job'[h] # NoJob
  BY <1>1, InteropAssumption
<1>3. QED BY <1>1, <1>2 DEF Stage, Holds

LEMMA NoJobFacts ==
  ASSUME InteropTypeOK, NEW h \in Hosts, EndJob(h)
  PROVE  /\ job' \in [Hosts -> HostJobs \cup {NoJob}]
         /\ job'[h] = NoJob
         /\ \A g \in Hosts \ {h} : job'[g] = job[g]
         /\ \A q : ~ Stage(h, q)'
         /\ Holds(h)' = {}
<1>1. /\ job' \in [Hosts -> HostJobs \cup {NoJob}]
      /\ job'[h] = NoJob
      /\ \A g \in Hosts \ {h} : job'[g] = job[g]
  BY DEF InteropTypeOK, EndJob
<1>2. QED BY <1>1 DEF Stage, Holds

\* The calls of FileSystem on a descriptor of a file's own name.
LEMMA Descriptors ==
  /\ \A f : Disk!At("file", f) # Disk!Closed /\ Disk!At("tmp", f) # Disk!Closed
  /\ \A f, g : Disk!At("file", f) # Disk!At("tmp", g)
  /\ \A f, g : Disk!At("file", f) = Disk!At("file", g) => f = g
<1>1. \A f : Disk!At("file", f).at = "file" /\ Disk!At("tmp", f).at = "tmp"
  BY DEF Disk!At
<1>2. Disk!Closed.at = "closed"
  BY DEF Disk!Closed
<1>3. \A f : Disk!At("file", f).file = f
  BY DEF Disk!At
<1>4. QED BY <1>1, <1>2, <1>3

LEMMA OpenFacts ==
  ASSUME InteropTypeOK, NEW h \in Hosts, NEW f \in InteropFiles, Disk!OpenFile(h, f)
  PROVE  /\ shared'[f] = Blank /\ handle'[h] = Disk!At("file", f)
         /\ \A e \in InteropFiles \ {f} : shared'[e] = shared[e]
         /\ \A g \in Hosts \ {h} : handle'[g] = handle[g]
         /\ DOMAIN shared' = InteropFiles
         /\ handle' \in [Hosts -> Disk!Handles]
  BY DEF InteropTypeOK, Disk!OpenFile, Disk!Handles, Disk!At

LEMMA PutFacts ==
  ASSUME InteropTypeOK, NEW h \in Hosts, NEW f \in InteropFiles, NEW x, Disk!Put(h, f, x),
         handle[h] = Disk!Closed \/ handle[h] = Disk!At("file", f)
  PROVE  /\ shared'[f] = IF handle[h] = Disk!Closed THEN shared[f] ELSE x
         /\ handle'[h] = Disk!Closed
         /\ \A e \in InteropFiles \ {f} : shared'[e] = shared[e]
         /\ \A g \in Hosts \ {h} : handle'[g] = handle[g]
         /\ DOMAIN shared' = InteropFiles
         /\ handle' \in [Hosts -> Disk!Handles]
         /\ Disk!Behind(h, f) = shared[f]
<1>1. handle' \in [Hosts -> Disk!Handles] /\ handle'[h] = Disk!Closed
      /\ \A g \in Hosts \ {h} : handle'[g] = handle[g]
  BY DEF InteropTypeOK, Disk!Put, Disk!Handles
<1>2. Disk!Behind(h, f) = shared[f]
  BY Descriptors DEF Disk!Behind
<1>3. shared' = IF handle[h] = Disk!Closed THEN shared ELSE [shared EXCEPT ![f] = x]
  BY Descriptors DEF Disk!Put
<1>4. QED BY <1>1, <1>2, <1>3 DEF InteropTypeOK

LEMMA RemoveFacts ==
  ASSUME InteropTypeOK, NEW f \in InteropFiles, Disk!RemoveFile(f)
  PROVE  /\ shared'[f] = Absent
         /\ \A e \in InteropFiles \ {f} : shared'[e] = shared[e]
         /\ \A g \in Hosts : handle'[g] = IF handle[g] = Disk!At("file", f) THEN Disk!Closed
                                          ELSE handle[g]
         /\ DOMAIN shared' = InteropFiles
         /\ handle' \in [Hosts -> Disk!Handles]
<1>1. DOMAIN handle = Hosts /\ DOMAIN shared = InteropFiles
  BY DEF InteropTypeOK
<1>2. handle' = [g \in Hosts |-> IF handle[g] = Disk!At("file", f) THEN Disk!Closed
                                 ELSE handle[g]]
  BY <1>1 DEF Disk!RemoveFile, Disk!Orphaned
<1>3. shared' = [shared EXCEPT ![f] = Absent]
  BY DEF Disk!RemoveFile
<1>4. handle \in [Hosts -> Disk!Handles] /\ Disk!Closed \in Disk!Handles
  BY DEF InteropTypeOK, Disk!Handles
<1>5. QED BY <1>1, <1>2, <1>3, <1>4

-----------------------------------------------------------------------------
(* What a step does to the hosts that take no part in it.                  *)

Same(g) ==
  /\ job'[g] = job[g] /\ image'[g] = image[g] /\ rest'[g] = rest[g]
  /\ handle'[g] = handle[g]

LEMMA SameFacts ==
  ASSUME NEW g \in Hosts, job'[g] = job[g]
  PROVE  /\ \A q : Stage(g, q)' <=> Stage(g, q)
         /\ Writing(g)' <=> Writing(g)
         /\ Holds(g)' = Holds(g)
  BY DEF Stage, Holds, Writing

\* Ids, messages and mailboxes only grow.
Grows ==
  /\ mails \in Nat /\ mails' \in Nat /\ mails <= mails' /\ made \subseteq made'
  /\ cleaned \subseteq cleaned'
  /\ \A w \in OmxWorkers :
       /\ Len(delivered[w]) \in Nat /\ Len(delivered'[w]) \in Nat
       /\ Len(delivered[w]) <= Len(delivered'[w])
       /\ \A i \in 1 .. Len(delivered[w]) : delivered'[w][i] = delivered[w][i]

LEMMA SameHost ==
  ASSUME NEW g \in Hosts, HostInv(g), Grows,
         job'[g] = job[g], image'[g] = image[g], rest'[g] = rest[g],
         \/ handle'[g] = handle[g]
         \/ handle'[g] = Disk!Closed /\ job[g].file \in cleaned'
  PROVE  HostInv(g)'
<1> DEFINE f == job[g].file
<1>1. /\ \A q : Stage(g, q)' <=> Stage(g, q)
      /\ Writing(g)' <=> Writing(g)
  BY SameFacts
<1>2. HasMail(g) => HasMail(g)'
  BY DEF HasMail, Grows
<1>3. Writes(g) => Writes(g)'
  <2> HIDE DEF f
  <2>1. made \subseteq made'
    BY DEF Grows
  <2>2. QED BY <1>2, <2>1 DEF Writes, Fresh
<1>4. ASSUME Stage(g, "event")
      PROVE  /\ job[g].do = "omx" /\ HasMail(g)'
             /\ \E i \in 1 .. Len(delivered'[f]) : delivered'[f][i] = LastOf(image[g])
  <2>1. /\ job[g].do = "omx" /\ HasMail(g) /\ f \in OmxWorkers
        /\ \E i \in 1 .. Len(delivered[f]) : delivered[f][i] = LastOf(image[g])
    BY <1>4 DEF HostInv, HasMail
  <2>2. \A i \in 1 .. Len(delivered[f]) : i \in 1 .. Len(delivered'[f])
    BY <2>1 DEF Grows
  <2> HIDE DEF f
  <2>3. QED BY <1>2, <2>1, <2>2 DEF Grows
<1>5. Writing(g)' => Writes(g)'
  BY <1>1, <1>3 DEF HostInv
<1>6. Stage(g, "event")' =>
         /\ job'[g].do = "omx" /\ HasMail(g)'
         /\ \E i \in 1 .. Len(delivered'[job'[g].file]) :
              delivered'[job'[g].file][i] = LastOf(image'[g])
  BY <1>1, <1>4
<1>7. Stage(g, "delete")' => job'[g].do = "cleanup" /\ job'[g].file \in made'
  BY <1>1 DEF HostInv, Grows
<1>8. job'[g] # NoJob =>
        /\ job'[g].do = "mark" => rest'[g] \subseteq SharedMessages
        /\ job'[g].do = "cleanup" => rest'[g] \subseteq SharedFiles
        /\ job'[g].do = "omx" => rest'[g] \subseteq OmxWorkers
  BY DEF HostInv
<1>9. \/ handle'[g] = Disk!Closed
      \/ Stage(g, "write")' /\ handle'[g] = Disk!At("file", job'[g].file)
  BY <1>1 DEF HostInv
<1>10. Stage(g, "write")' /\ handle'[g] = Disk!Closed => job'[g].file \in cleaned'
  BY <1>1 DEF HostInv, Grows
<1>11. QED BY <1>5, <1>6, <1>7, <1>8, <1>9, <1>10 DEF HostInv, LastOf

LEMMA GrowsSame ==
  ASSUME InteropTypeOK, mails' \in {mails, mails + 1}, made \subseteq made',
         UNCHANGED <<delivered, cleaned>>
  PROVE  Grows
<1>1. mails \in Nat /\ \A w \in OmxWorkers : delivered[w] \in Seq(1 .. mails)
  BY DEF InteropTypeOK
<1>2. \A w \in OmxWorkers : Len(delivered[w]) \in Nat
  BY <1>1, LenProperties
<1>3. QED BY <1>1, <1>2 DEF Grows

\* The file part of the invariant, when no file changes and a host gives up
\* what it holds.
LEMMA Release ==
  ASSUME InteropInv, NEW h \in Hosts,
         UNCHANGED <<shared, made, delivered, marked, cleaned>>,
         spoilt \subseteq spoilt',
         Stage(h, "write") => job[h].file \in spoilt',
         Holds(h)' = {}, ~ Writing(h)',
         \A g \in Hosts \ {h} : Same(g)
  PROVE  FileInv'
<1>1. ASSUME NEW g \in Hosts, g # h
      PROVE  /\ \A q : Stage(g, q)' <=> Stage(g, q)
             /\ Writing(g)' <=> Writing(g)
             /\ Holds(g)' = Holds(g)
             /\ job'[g] = job[g] /\ image'[g] = image[g] /\ handle'[g] = handle[g]
  BY <1>1, SameFacts DEF Same
<1>2. \A g \in Hosts : Holds(g)' \subseteq Holds(g)
  BY <1>1
<1>3. /\ \A f : IsWhole(f)' <=> IsWhole(f)
      /\ \A f : Settled(f)' <=> Settled(f)
  BY DEF IsWhole, Settled
<1>4. UnmadeInv' /\ ReadInv'
  BY <1>2, <1>3 DEF InteropInv, FileInv, UnmadeInv, ReadInv
<1>5. Sole'
  BY <1>2 DEF InteropInv, FileInv, Sole
<1>6. SettledInv'
  <2>1. ASSUME NEW f \in InteropFiles, f \notin spoilt' PROVE BeingWritten(f)' \/ Settled(f)'
    <3>1. CASE BeingWritten(f)
      <4>1. PICK g \in Hosts : Stage(g, "write") /\ job[g].file = f
        BY <3>1 DEF BeingWritten
      <4>2. g # h
        BY <2>1, <4>1
      <4>3. QED BY <1>1, <4>1, <4>2 DEF BeingWritten
    <3>2. CASE Settled(f)
      BY <1>3, <3>2
    <3>3. QED BY <2>1, <3>1, <3>2 DEF InteropInv, FileInv, SettledInv
  <2>2. QED BY <2>1 DEF SettledInv
<1>7. ASSUME NEW g \in Hosts PROVE AddInv(g)' /\ HeldInv(g)'
  <2>1. CASE g = h
    <3>1. AddInv(g)'
      BY <2>1 DEF AddInv
    <3>2. HeldInv(g)'
      BY <2>1 DEF HeldInv
    <3>3. QED BY <3>1, <3>2
  <2>2. CASE g # h
    <3>1. AddInv(g)'
      BY <1>1, <1>2, <2>2 DEF InteropInv, FileInv, AddInv
    <3>2. HeldInv(g)'
      BY <1>1, <1>3, <2>2 DEF InteropInv, FileInv, HeldInv, LastOf
    <3>3. QED BY <3>1, <3>2
  <2>3. QED BY <2>1, <2>2
<1>8. QED BY <1>4, <1>5, <1>6, <1>7 DEF FileInv

\* The same when no file changes and a host comes to hold one.
LEMMA Take ==
  ASSUME InteropInv, NEW h \in Hosts, NEW f \in InteropFiles,
         UNCHANGED <<shared, handle, delivered, marked, cleaned>>,
         made \subseteq made',
         Meet(h, f),
         Holds(h) = {}, Holds(h)' = {f}, job'[h].file = f,
         Stage(h, "open")' \/ Stage(h, "delete")',
         f \in SharedFiles => f \in made' /\ (IsWhole(f) \/ f \notin made),
         Writing(h)' /\ job'[h].do = "add" => f \in SharedFiles \ made,
         Writing(h)' /\ f \notin spoilt /\ Settled(f) =>
           /\ f \in marked \cap SharedTasks => image'[h].closed
           /\ f \in OmxWorkers => image'[h] = Append(delivered[f], LastOf(image'[h])),
         \A g \in Hosts \ {h} : Same(g)
  PROVE  FileInv'
<1>1. ASSUME NEW g \in Hosts, g # h
      PROVE  /\ \A q : Stage(g, q)' <=> Stage(g, q)
             /\ Writing(g)' <=> Writing(g)
             /\ Holds(g)' = Holds(g)
             /\ job'[g] = job[g] /\ image'[g] = image[g] /\ handle'[g] = handle[g]
  BY <1>1, SameFacts DEF Same
<1>2. \A g \in Hosts : Holds(g)' \subseteq Holds(g) \cup {f}
  BY <1>1
<1>3. /\ \A e : IsWhole(e)' <=> IsWhole(e)
      /\ \A e : Settled(e)' <=> Settled(e)
  BY DEF IsWhole, Settled
<1>4. /\ spoilt \subseteq spoilt'
      /\ f \notin spoilt' => \A g \in Hosts \ {h} : f \notin Holds(g)
  BY DEF Meet
<1>5. ~ Stage(h, "write") /\ ~ Stage(h, "write")' /\ ~ Stage(h, "event")'
  <2>1. ~ Stage(h, "write")
    BY HoldsFacts DEF Writing
  <2>2. job'[h].at \in {"open", "delete"}
    BY DEF Stage
  <2>3. QED BY <2>1, <2>2 DEF Stage
<1>6. UnmadeInv' /\ ReadInv'
  <2>1. \A e \in SharedFiles \ made' : e \notin made /\ e # f
    OBVIOUS
  <2>2. UnmadeInv'
    BY <1>2, <2>1 DEF InteropInv, FileInv, UnmadeInv
  <2>3. ReadInv'
    BY <1>3 DEF InteropInv, FileInv, ReadInv
  <2>4. QED BY <2>2, <2>3
<1>7. Sole'
  <2>1. ASSUME NEW e \in InteropFiles, e \notin spoilt', NEW g \in Hosts, NEW k \in Hosts,
               e \in Holds(g)' \cap Holds(k)'
        PROVE  g = k
    <3>1. CASE e = f
      BY <1>1, <1>4, <2>1, <3>1
    <3>2. CASE e # f
      BY <1>2, <1>4, <2>1, <3>2 DEF InteropInv, FileInv, Sole
    <3>3. QED BY <3>1, <3>2
  <2>2. QED BY <2>1 DEF Sole
<1>8. \A e : BeingWritten(e)' <=> BeingWritten(e)
  BY <1>1, <1>5 DEF BeingWritten
<1>9. SettledInv'
  BY <1>3, <1>4, <1>8 DEF InteropInv, FileInv, SettledInv
<1>10. f \notin spoilt' => Settled(f)
  <2>1. ASSUME f \notin spoilt' PROVE Settled(f)
    <3>1. ~ BeingWritten(f)
      <4>1. ASSUME NEW g \in Hosts, Stage(g, "write"), job[g].file = f PROVE FALSE
        <5>1. g # h
          BY <1>5, <4>1
        <5>2. f \in Holds(g)
          BY <4>1 DEF Stage, Holds
        <5>3. QED BY <1>4, <2>1, <5>1, <5>2
      <4>2. QED BY <4>1 DEF BeingWritten
    <3>2. QED BY <1>4, <2>1, <3>1 DEF InteropInv, FileInv, SettledInv
  <2>2. QED BY <2>1
<1>11. AddInv(h)'
  <2>1. ASSUME Writing(h)', job'[h].do = "add"
        PROVE  /\ f \notin marked \cup cleaned
               /\ shared[f] = Absent
               /\ \A g \in Hosts \ {h} : f \notin Holds(g)'
    BY <1>1, <2>1 DEF InteropInv, FileInv, UnmadeInv
  <2>2. QED BY <2>1 DEF AddInv
<1>12. HeldInv(h)'
  <2>1. ASSUME f \notin spoilt' PROVE f \notin cleaned
    <3>1. CASE f \in SharedFiles
      <4>1. CASE IsWhole(f)
        <5>1. shared[f] # Absent
          BY <4>1, WholeThere
        <5>2. QED BY <1>10, <2>1, <3>1, <5>1 DEF Settled
      <4>2. CASE f \notin made
        BY <3>1, <4>2 DEF InteropInv, FileInv, UnmadeInv
      <4>3. QED BY <3>1, <4>1, <4>2
    <3>2. CASE f \notin SharedFiles
      BY <3>2 DEF InteropInv, InteropTypeOK
    <3>3. QED BY <3>1, <3>2
  <2>2. ASSUME f \notin spoilt'
        PROVE  /\ ~ Stage(h, "write")' /\ Settled(f)' /\ f \notin cleaned
               /\ Writing(h)' /\ f \in marked \cap SharedTasks => image'[h].closed
               /\ Writing(h)' /\ f \in OmxWorkers =>
                    image'[h] = Append(delivered[f], LastOf(image'[h]))
    BY <1>3, <1>4, <1>5, <1>10, <2>1, <2>2
  <2>3. QED BY <2>2 DEF HeldInv, LastOf
<1>13. ASSUME NEW g \in Hosts, g # h PROVE AddInv(g)' /\ HeldInv(g)'
  <2>1. AddInv(g)'
    <3>1. ASSUME Writing(g), job[g].do = "add" PROVE job[g].file # f
      <4>1. job[g].file \in made /\ shared[job[g].file] \in {Absent, Blank}
        BY <1>13, <3>1 DEF InteropInv, FileInv, AddInv, HostInv, Writes
      <4>2. job[g].file \in InteropFiles /\ job[g].file \in SharedFiles
        BY <4>1 DEF InteropInv, InteropTypeOK, InteropFiles
      <4>3. ~ IsWhole(job[g].file)
        BY <4>1, <4>2, WholeThere
      <4>4. QED BY <4>1, <4>2, <4>3
    <3>2. AddInv(g)
      BY DEF InteropInv, FileInv
    <3>3. QED BY <1>1, <1>2, <1>13, <3>1, <3>2 DEF AddInv
  <2>2. HeldInv(g)'
    <3>1. HeldInv(g)
      BY DEF InteropInv, FileInv
    <3>2. QED BY <1>1, <1>3, <1>4, <1>13, <3>1 DEF HeldInv, LastOf
  <2>3. QED BY <2>1, <2>2
<1>14. QED BY <1>6, <1>7, <1>9, <1>11, <1>12, <1>13 DEF FileInv

-----------------------------------------------------------------------------
(* Steps that change no file.                                              *)

LEMMA SeqGrows ==
  ASSUME NEW m \in Nat, NEW n \in Nat, m <= n, NEW s \in Seq(1 .. m)
  PROVE  s \in Seq(1 .. n)
<1>1. /\ Len(s) \in Nat /\ s \in [1 .. Len(s) -> 1 .. m]
  BY LenProperties
<1>2. s \in [1 .. Len(s) -> 1 .. n]
  <2>1. 1 .. m \subseteq 1 .. n
    OBVIOUS
  <2>2. QED BY <1>1, <2>1
<1>3. QED BY <1>1, <1>2, SeqDef

LEMMA GrownTypes ==
  ASSUME InteropTypeOK, mails' \in {mails, mails + 1}, UNCHANGED <<events, delivered>>
  PROVE  /\ mails' \in Nat
         /\ events' \subseteq OmxWorkers \X (1 .. mails')
         /\ delivered' \in [OmxWorkers -> Seq(1 .. mails')]
<1>1. mails \in Nat /\ mails' \in Nat /\ mails <= mails'
  BY DEF InteropTypeOK
<1>2. 1 .. mails \subseteq 1 .. mails'
  BY <1>1
<1>3. \A w \in OmxWorkers : delivered[w] \in Seq(1 .. mails')
  BY <1>1, SeqGrows DEF InteropTypeOK
<1>4. events' \subseteq OmxWorkers \X (1 .. mails')
  BY <1>2 DEF InteropTypeOK
<1>5. delivered' \in [OmxWorkers -> Seq(1 .. mails')]
  BY <1>3 DEF InteropTypeOK
<1>6. QED BY <1>1, <1>4, <1>5

LEMMA OtherHosts ==
  ASSUME InteropInv, Grows, NEW h \in Hosts, \A g \in Hosts \ {h} : Same(g)
  PROVE  \A g \in Hosts \ {h} : HostInv(g)'
  BY SameHost DEF Same, InteropInv

LEMMA SameEvents ==
  ASSUME InteropInv, Grows, UNCHANGED events
  PROVE  EventInv'
<1>1. ASSUME NEW w \in OmxWorkers, NEW n \in 1 .. mails', <<w, n>> \in events
      PROVE  \E i \in 1 .. Len(delivered'[w]) : delivered'[w][i] = n
  <2>1. n \in 1 .. mails
    BY <1>1 DEF InteropInv, InteropTypeOK
  <2>2. PICK i \in 1 .. Len(delivered[w]) : delivered[w][i] = n
    BY <1>1, <2>1 DEF InteropInv, EventInv
  <2>3. i \in 1 .. Len(delivered'[w]) /\ delivered'[w][i] = n
    BY <2>2 DEF Grows
  <2>4. QED BY <2>3
<1>2. QED BY <1>1 DEF EventInv

\* A host that is not in the middle of a file.
LEMMA Idle ==
  ASSUME NEW h \in Hosts, \A q : Stage(h, q)' => q = "next",
         handle'[h] = Disk!Closed,
         job'[h] # NoJob =>
           /\ job'[h].do = "mark" => rest'[h] \subseteq SharedMessages
           /\ job'[h].do = "cleanup" => rest'[h] \subseteq SharedFiles
           /\ job'[h].do = "omx" => rest'[h] \subseteq OmxWorkers
  PROVE  HostInv(h)' /\ ~ Writing(h)'
<1>1. ~ Writing(h)' /\ ~ Stage(h, "event")' /\ ~ Stage(h, "delete")'
  BY DEF Writing
<1>2. QED BY <1>1 DEF HostInv

LEMMA Quiet ==
  ASSUME InteropInv, NEW h \in Hosts,
         UNCHANGED <<shared, made, mails, events, delivered, marked, cleaned>>,
         job' \in [Hosts -> HostJobs \cup {NoJob}], DOMAIN image' = Hosts,
         rest' \in [Hosts -> SUBSET InteropFiles], handle' \in [Hosts -> Disk!Handles],
         spoilt \subseteq spoilt', spoilt' \subseteq InteropFiles,
         Stage(h, "write") => job[h].file \in spoilt',
         \A g \in Hosts \ {h} : Same(g),
         \A q : Stage(h, q)' => q = "next", Holds(h)' = {}, handle'[h] = Disk!Closed,
         job'[h] # NoJob =>
           /\ job'[h].do = "mark" => rest'[h] \subseteq SharedMessages
           /\ job'[h].do = "cleanup" => rest'[h] \subseteq SharedFiles
           /\ job'[h].do = "omx" => rest'[h] \subseteq OmxWorkers
  PROVE  InteropInv'
<1>1. Grows
  BY GrowsSame DEF InteropInv
<1>2. InteropTypeOK'
  BY DEF InteropInv, InteropTypeOK
<1>3. EventInv'
  BY <1>1, SameEvents
<1>4. HostInv(h)' /\ ~ Writing(h)'
  BY Idle
<1>5. \A g \in Hosts : HostInv(g)'
  BY <1>1, <1>4, OtherHosts
<1>6. FileInv'
  BY <1>4, Release
<1>7. QED BY <1>2, <1>3, <1>5, <1>6 DEF InteropInv

LEMMA Taken ==
  ASSUME InteropInv, NEW h \in Hosts, NEW f \in InteropFiles,
         UNCHANGED <<shared, handle, events, delivered, marked, cleaned>>,
         mails' \in {mails, mails + 1}, made \subseteq made', made' \subseteq SharedFiles,
         job' \in [Hosts -> HostJobs \cup {NoJob}], DOMAIN image' = Hosts,
         rest' \in [Hosts -> SUBSET InteropFiles],
         Meet(h, f),
         Holds(h) = {}, Holds(h)' = {f}, job'[h].file = f,
         Stage(h, "open")' \/ Stage(h, "delete")',
         f \in SharedFiles => f \in made' /\ (IsWhole(f) \/ f \notin made),
         Writing(h)' /\ job'[h].do = "add" => f \in SharedFiles \ made,
         Writing(h)' /\ f \notin spoilt /\ Settled(f) =>
           /\ f \in marked \cap SharedTasks => image'[h].closed
           /\ f \in OmxWorkers => image'[h] = Append(delivered[f], LastOf(image'[h])),
         \A g \in Hosts \ {h} : Same(g),
         HostInv(h)'
  PROVE  InteropInv'
<1>1. Grows
  BY GrowsSame DEF InteropInv
<1>2. InteropTypeOK'
  <2>1. spoilt' \subseteq InteropFiles
    BY DEF InteropInv, InteropTypeOK, Meet
  <2>2. QED BY <2>1, GrownTypes DEF InteropInv, InteropTypeOK
<1>3. EventInv'
  BY <1>1, SameEvents
<1>4. \A g \in Hosts : HostInv(g)'
  BY <1>1, OtherHosts
<1>5. FileInv'
  BY Take
<1>6. QED BY <1>2, <1>3, <1>4, <1>5 DEF InteropInv

LEMMA Idling ==
  ASSUME InteropInv, NEW h \in Hosts, job[h] = NoJob \/ Stage(h, "next")
  PROVE  Holds(h) = {} /\ ~ Stage(h, "write") /\ handle[h] = Disk!Closed
<1>1. ~ Stage(h, "write")
  BY DEF Stage
<1>2. Holds(h) = {}
  BY DEF Stage, Holds
<1>3. QED BY <1>1, <1>2 DEF InteropInv, HostInv

LEMMA SharedInterop == SharedFiles \subseteq InteropFiles /\ OmxWorkers \subseteq InteropFiles
  BY DEF InteropFiles

\* A host takes a job that goes over several files.
LEMMA Lists ==
  ASSUME InteropInv, NEW h \in Hosts, job[h] = NoJob,
         NEW kind \in {"mark", "cleanup", "omx"}, NEW set \in SUBSET InteropFiles,
         kind = "mark" => set \subseteq SharedMessages,
         kind = "cleanup" => set \subseteq SharedFiles,
         kind = "omx" => set \subseteq OmxWorkers,
         rest' = [rest EXCEPT ![h] = set],
         SetJob(h, kind, Absent, "next"),
         UNCHANGED <<shared, handle, image, made, mails, events, delivered, marked,
                     spoilt, cleaned>>
  PROVE  InteropInv'
<1>1. InteropTypeOK
  BY DEF InteropInv
<1>2. [do |-> kind, file |-> Absent, at |-> "next"] \in HostJobs
  BY DEF HostJobs
<1>3. /\ job' \in [Hosts -> HostJobs \cup {NoJob}]
      /\ job'[h] = [do |-> kind, file |-> Absent, at |-> "next"]
      /\ \A g \in Hosts \ {h} : job'[g] = job[g]
      /\ \A q : Stage(h, q)' <=> q = "next"
      /\ Holds(h)' = {}
  BY <1>1, <1>2, JobFacts
<1>4. rest' \in [Hosts -> SUBSET InteropFiles] /\ rest'[h] = set
      /\ \A g \in Hosts \ {h} : rest'[g] = rest[g]
  BY <1>1 DEF InteropTypeOK
<1>5. \A g \in Hosts \ {h} : Same(g)
  BY <1>3, <1>4 DEF Same
<1>6. ~ Stage(h, "write") /\ handle'[h] = Disk!Closed
  BY Idling
<1>7. /\ DOMAIN image' = Hosts /\ handle' \in [Hosts -> Disk!Handles]
      /\ spoilt' \subseteq InteropFiles /\ spoilt \subseteq spoilt'
  BY <1>1 DEF InteropTypeOK
<1>8. QED BY <1>3, <1>4, <1>5, <1>6, <1>7, Quiet

LEMMA ReadMessagesStep ==
  ASSUME InteropInv, NEW h \in Hosts, ReadMessages(h)
  PROVE  InteropInv'
<1>1. PICK listed \in SUBSET {m \in SharedMessages : IsWhole(m)} :
        rest' = [rest EXCEPT ![h] = listed]
  BY DEF ReadMessages
<1>2. listed \subseteq SharedMessages /\ listed \in SUBSET InteropFiles
  BY DEF InteropFiles, SharedFiles
<1>3. QED BY <1>1, <1>2, Lists DEF ReadMessages

LEMMA CleanupStep ==
  ASSUME InteropInv, NEW h \in Hosts, Cleanup(h)
  PROVE  InteropInv'
<1>1. PICK old \in SUBSET {f \in SharedFiles : shared[f] # Absent} :
        rest' = [rest EXCEPT ![h] = old]
  BY DEF Cleanup
<1>2. old \subseteq SharedFiles /\ old \in SUBSET InteropFiles
  BY DEF InteropFiles
<1>3. QED BY <1>1, <1>2, Lists DEF Cleanup

LEMMA SendOmxStep ==
  ASSUME InteropInv, NEW h \in Hosts, SendOmx(h)
  PROVE  InteropInv'
<1>1. PICK to \in {{w} : w \in OmxWorkers} \cup {OmxWorkers} :
        rest' = [rest EXCEPT ![h] = to]
  BY DEF SendOmx
<1>2. to \subseteq OmxWorkers /\ to \in SUBSET InteropFiles
  BY DEF InteropFiles
<1>3. QED BY <1>1, <1>2, Lists DEF SendOmx

\* It passes over a file.
LEMMA Passes ==
  ASSUME InteropInv, NEW h \in Hosts, Stage(h, "next"), NEW f,
         rest' = [rest EXCEPT ![h] = @ \ {f}],
         UNCHANGED <<shared, handle, job, image, made, mails, events, delivered, marked,
                     spoilt, cleaned>>
  PROVE  InteropInv'
<1>1. InteropTypeOK /\ HostInv(h)
  BY DEF InteropInv
<1>2. /\ rest' \in [Hosts -> SUBSET InteropFiles] /\ rest'[h] = rest[h] \ {f}
      /\ \A g \in Hosts \ {h} : rest'[g] = rest[g]
  BY <1>1 DEF InteropTypeOK
<1>3. \A g \in Hosts \ {h} : Same(g)
  BY <1>2 DEF Same
<1>4. Holds(h)' = {} /\ ~ Stage(h, "write") /\ handle'[h] = Disk!Closed
  BY Idling DEF Holds
<1>5. \A q : Stage(h, q)' => q = "next"
  BY DEF Stage
<1>6. /\ job' \in [Hosts -> HostJobs \cup {NoJob}]
      /\ DOMAIN image' = Hosts /\ handle' \in [Hosts -> Disk!Handles]
      /\ spoilt' \subseteq InteropFiles /\ spoilt \subseteq spoilt'
  BY <1>1 DEF InteropTypeOK
<1>7. job'[h] # NoJob =>
           /\ job'[h].do = "mark" => rest'[h] \subseteq SharedMessages
           /\ job'[h].do = "cleanup" => rest'[h] \subseteq SharedFiles
           /\ job'[h].do = "omx" => rest'[h] \subseteq OmxWorkers
  BY <1>1, <1>2 DEF HostInv
<1>8. QED BY <1>2, <1>3, <1>4, <1>5, <1>6, <1>7, Quiet

\* It prepares to write a file, or to remove it.
LEMMA Starts ==
  ASSUME InteropInv, NEW h \in Hosts, job[h] = NoJob \/ Stage(h, "next"),
         NEW kind \in {"add", "update", "mark", "omx"}, NEW f \in InteropFiles, NEW content,
         Prepare(h, kind, f, content),
         UNCHANGED <<shared, handle, events, delivered, marked, cleaned>>,
         mails' \in {mails, mails + 1}, made \subseteq made', made' \subseteq SharedFiles,
         rest' \in [Hosts -> SUBSET InteropFiles],
         \A g \in Hosts \ {h} : rest'[g] = rest[g],
         kind = "mark" => rest'[h] \subseteq SharedMessages,
         kind = "omx" => rest'[h] \subseteq OmxWorkers,
         f \in SharedFiles => f \in made' /\ (IsWhole(f) \/ f \notin made),
         \/ kind = "add" /\ f \in SharedFiles \ made /\ content = Fresh(f)
         \/ kind = "update" /\ f \in SharedTasks /\ content \in TaskRecords
         \/ kind = "mark" /\ f \in SharedMessages /\ content = [read |-> TRUE]
         \/ /\ kind = "omx" /\ f \in OmxWorkers
            /\ content \in Seq(Nat) /\ content # <<>> /\ LastOf(content) \in 1 .. mails',
         f \notin spoilt /\ Settled(f) =>
           /\ f \in marked \cap SharedTasks => content.closed
           /\ f \in OmxWorkers => content = Append(delivered[f], LastOf(content))
  PROVE  InteropInv'
<1>1. InteropTypeOK
  BY DEF InteropInv
<1>2. [do |-> kind, file |-> f, at |-> "open"] \in HostJobs
  BY DEF HostJobs
<1>3. /\ job' \in [Hosts -> HostJobs \cup {NoJob}]
      /\ job'[h] = [do |-> kind, file |-> f, at |-> "open"]
      /\ job'[h] # NoJob
      /\ \A g \in Hosts \ {h} : job'[g] = job[g]
      /\ \A q : Stage(h, q)' <=> q = "open"
      /\ Holds(h)' = {f}
  BY <1>1, <1>2, JobFacts DEF Prepare
<1>4. /\ DOMAIN image' = Hosts /\ image'[h] = content
      /\ \A g \in Hosts \ {h} : image'[g] = image[g]
  BY <1>1 DEF InteropTypeOK, Prepare
<1>5. Holds(h) = {} /\ handle'[h] = Disk!Closed
  BY Idling
<1>6. \A g \in Hosts \ {h} : Same(g)
  BY <1>3, <1>4 DEF Same
<1>7. HostInv(h)'
  <2>1. /\ job'[h].do = kind /\ job'[h].file = f /\ job'[h].at = "open"
    BY <1>3
  <2>2. f \in SharedTasks \/ f \in SharedMessages => f \in made'
    BY DEF SharedFiles
  <2>3. Writes(h)'
    BY <1>4, <2>1, <2>2 DEF Writes, HasMail, Fresh, LastOf
  <2>4. QED BY <1>3, <1>5, <2>1, <2>3 DEF HostInv
<1>8. QED
  <2>1. Stage(h, "open")' /\ job'[h].file = f /\ job'[h].do = kind
    BY <1>3
  <2>2. Writing(h)' /\ job'[h].do = "add" => f \in SharedFiles \ made
    BY <2>1
  <2>3. Meet(h, f)
    BY DEF Prepare
  <2>4. f \notin spoilt /\ Settled(f) =>
          /\ f \in marked \cap SharedTasks => image'[h].closed
          /\ f \in OmxWorkers => image'[h] = Append(delivered[f], LastOf(image'[h]))
    BY <1>4
  <2>5. QED BY <1>3, <1>4, <1>5, <1>6, <1>7, <2>1, <2>2, <2>3, <2>4, Taken

LEMMA RestShrinks ==
  ASSUME InteropInv, NEW h \in Hosts, Stage(h, "next"), NEW f,
         rest' = [rest EXCEPT ![h] = @ \ {f}]
  PROVE  /\ rest' \in [Hosts -> SUBSET InteropFiles]
         /\ \A g \in Hosts \ {h} : rest'[g] = rest[g]
         /\ job[h].do = "mark" => rest'[h] \subseteq SharedMessages /\ rest[h] \subseteq SharedMessages
         /\ job[h].do = "cleanup" => rest'[h] \subseteq SharedFiles /\ rest[h] \subseteq SharedFiles
         /\ job[h].do = "omx" => rest'[h] \subseteq OmxWorkers /\ rest[h] \subseteq OmxWorkers
<1>1. rest \in [Hosts -> SUBSET InteropFiles] /\ job[h] # NoJob /\ HostInv(h)
  BY DEF InteropInv, InteropTypeOK, Stage
<1>2. /\ rest' \in [Hosts -> SUBSET InteropFiles]
      /\ rest'[h] = rest[h] \ {f}
      /\ \A g \in Hosts \ {h} : rest'[g] = rest[g]
  BY <1>1
<1>3. QED BY <1>1, <1>2 DEF HostInv

LEMMA WholeMade ==
  ASSUME InteropInv, NEW f \in SharedFiles, IsWhole(f)
  PROVE  f \in made
<1>1. shared[f] # Absent
  BY SharedInterop, WholeThere
<1>2. QED BY <1>1 DEF InteropInv, FileInv, UnmadeInv

LEMMA AddStep ==
  ASSUME InteropInv, NEW h \in Hosts, Add(h)
  PROVE  InteropInv'
<1>1. PICK f \in SharedFiles \ made :
        made' = made \cup {f} /\ Prepare(h, "add", f, Fresh(f))
  BY DEF Add, Fresh
<1>2. /\ job[h] = NoJob /\ rest' = rest
      /\ UNCHANGED <<shared, handle, mails, events, delivered, marked, cleaned>>
  BY DEF Add
<1>3. rest' \in [Hosts -> SUBSET InteropFiles] /\ made' \subseteq SharedFiles
  BY <1>1, <1>2 DEF InteropInv, InteropTypeOK
<1>4. f \notin marked /\ f \notin OmxWorkers /\ f \in InteropFiles
  BY Contents, SharedInterop DEF InteropInv, FileInv, UnmadeInv, SharedFiles
<1>5. QED BY <1>1, <1>2, <1>3, <1>4, Starts

LEMMA UpdateStep ==
  ASSUME InteropInv, NEW h \in Hosts, Update(h)
  PROVE  InteropInv'
<1>1. PICK t \in SharedTasks, s \in TaskStates :
        /\ IsWhole(t)
        /\ Prepare(h, "update", t, [status |-> s, closed |-> shared[t].closed \/ Final(s)])
  BY DEF Update
<1>2. /\ job[h] = NoJob /\ rest' = rest
      /\ UNCHANGED <<shared, handle, made, mails, events, delivered, marked, cleaned>>
  BY DEF Update
<1> DEFINE content == [status |-> s, closed |-> shared[t].closed \/ Final(s)]
<1>3. t \in SharedFiles /\ t \in InteropFiles /\ t \notin OmxWorkers
  BY Contents, SharedInterop
<1>4. content \in TaskRecords
  <2>1. (shared[t].closed \/ Final(s)) \in BOOLEAN
    OBVIOUS
  <2>2. QED BY <2>1 DEF TaskRecords
<1>5. t \in made
  BY <1>1, <1>3, WholeMade
<1>6. Settled(t) => (t \in marked \cap SharedTasks => content.closed)
  BY <1>1, <1>3 DEF Settled
<1>7. rest' \in [Hosts -> SUBSET InteropFiles] /\ made' \subseteq SharedFiles
  BY <1>2 DEF InteropInv, InteropTypeOK
<1> HIDE DEF content
<1>8. Prepare(h, "update", t, content)
  BY <1>1 DEF content
<1>9. QED BY <1>1, <1>2, <1>3, <1>4, <1>5, <1>6, <1>7, <1>8, Starts

LEMMA MarkStep ==
  ASSUME InteropInv, NEW h \in Hosts, Mark(h)
  PROVE  InteropInv'
<1>1. /\ Stage(h, "next") /\ job[h].do = "mark"
      /\ UNCHANGED <<shared, handle, made, mails, events, delivered, marked, cleaned>>
  BY DEF Mark
<1>2. PICK m \in rest[h] :
        /\ rest' = [rest EXCEPT ![h] = @ \ {m}]
        /\ IF IsWhole(m) THEN Prepare(h, "mark", m, [read |-> TRUE])
           ELSE UNCHANGED <<job, image, spoilt>>
  BY DEF Mark
<1>3. /\ rest' \in [Hosts -> SUBSET InteropFiles] /\ rest'[h] \subseteq SharedMessages
      /\ \A g \in Hosts \ {h} : rest'[g] = rest[g]
      /\ m \in SharedMessages
  BY <1>1, <1>2, RestShrinks
<1>4. CASE ~ IsWhole(m)
  BY <1>1, <1>2, <1>4, Passes
<1>5. CASE IsWhole(m)
  <2>1. m \in SharedFiles /\ m \in InteropFiles /\ m \notin OmxWorkers /\ m \notin SharedTasks
    BY <1>3, Contents, SharedInterop
  <2>2. m \in made
    BY <1>5, <2>1, WholeMade
  <2>3. made' \subseteq SharedFiles
    BY <1>1 DEF InteropInv, InteropTypeOK
  <2>4. QED BY <1>1, <1>2, <1>3, <1>5, <2>1, <2>2, <2>3, Starts
<1>6. QED BY <1>4, <1>5

LEMMA LookStep ==
  ASSUME InteropInv, NEW h \in Hosts, Look(h)
  PROVE  InteropInv'
<1>1. /\ Stage(h, "next") /\ job[h].do = "cleanup"
      /\ UNCHANGED <<shared, handle, image, made, mails, events, delivered, marked, cleaned>>
  BY DEF Look
<1>2. PICK f \in rest[h] :
        /\ rest' = [rest EXCEPT ![h] = @ \ {f}]
        /\ IF IsWhole(f) THEN SetJob(h, "cleanup", f, "delete") /\ Meet(h, f)
           ELSE UNCHANGED <<job, spoilt>>
  BY DEF Look
<1>3. /\ rest' \in [Hosts -> SUBSET InteropFiles] /\ rest'[h] \subseteq SharedFiles
      /\ \A g \in Hosts \ {h} : rest'[g] = rest[g]
      /\ f \in SharedFiles
  BY <1>1, <1>2, RestShrinks
<1>4. CASE ~ IsWhole(f)
  BY <1>1, <1>2, <1>4, Passes
<1>5. CASE IsWhole(f)
  <2>1. f \in made /\ f \in InteropFiles /\ f \notin OmxWorkers
    BY <1>3, <1>5, WholeMade, SharedInterop, InteropAssumption
  <2>2. InteropTypeOK /\ made' \subseteq SharedFiles /\ DOMAIN image' = Hosts
    BY <1>1 DEF InteropInv, InteropTypeOK
  <2>3. [do |-> "cleanup", file |-> f, at |-> "delete"] \in HostJobs
    BY <2>1 DEF HostJobs
  <2>4. /\ job' \in [Hosts -> HostJobs \cup {NoJob}]
        /\ job'[h] = [do |-> "cleanup", file |-> f, at |-> "delete"]
        /\ job'[h] # NoJob
        /\ \A g \in Hosts \ {h} : job'[g] = job[g]
        /\ \A q : Stage(h, q)' <=> q = "delete"
        /\ Holds(h)' = {f}
    BY <1>2, <1>5, <2>2, <2>3, JobFacts
  <2>5. Holds(h) = {} /\ handle'[h] = Disk!Closed
    BY <1>1, Idling
  <2>6. \A g \in Hosts \ {h} : Same(g)
    BY <1>1, <1>3, <2>4 DEF Same
  <2>7. ~ Writing(h)' /\ ~ Stage(h, "event")' /\ Stage(h, "delete")'
    BY <2>4 DEF Writing
  <2>8. HostInv(h)'
    BY <1>1, <1>3, <2>1, <2>4, <2>5, <2>7 DEF HostInv
  <2>9. QED BY <1>1, <1>2, <1>3, <1>5, <2>1, <2>2, <2>4, <2>5, <2>6, <2>7, <2>8, Taken
<1>6. QED BY <1>4, <1>5

LEMMA ReadMailboxStep ==
  ASSUME InteropInv, NEW h \in Hosts, ReadMailbox(h)
  PROVE  InteropInv'
<1>1. /\ Stage(h, "next") /\ job[h].do = "omx" /\ mails' = mails + 1
      /\ UNCHANGED <<shared, handle, made, events, delivered, marked, cleaned>>
  BY DEF ReadMailbox
<1> DEFINE old(w) == IF IsWhole(w) THEN shared[w] ELSE <<>>
           content(w) == Append(old(w), mails + 1)
<1>2. PICK w \in rest[h] :
        rest' = [rest EXCEPT ![h] = @ \ {w}] /\ Prepare(h, "omx", w, content(w))
  BY DEF ReadMailbox
<1>3. /\ rest' \in [Hosts -> SUBSET InteropFiles] /\ rest'[h] \subseteq OmxWorkers
      /\ \A g \in Hosts \ {h} : rest'[g] = rest[g]
      /\ w \in OmxWorkers
  BY <1>1, <1>2, RestShrinks
<1>4. w \in InteropFiles /\ w \notin SharedFiles
  BY <1>3, SharedInterop, InteropAssumption
<1>5. mails \in Nat /\ mails + 1 \in Nat /\ made' \subseteq SharedFiles
      /\ delivered[w] \in Seq(1 .. mails)
  BY <1>1, <1>3 DEF InteropInv, InteropTypeOK
<1>6. old(w) \in Seq(Nat)
  <2>1. IsWhole(w) => shared[w] \in Seq(Nat)
    BY <1>3, Contents DEF IsWhole, Mail
  <2>2. QED BY <2>1
<1>7. /\ content(w) \in Seq(Nat) /\ content(w) # <<>>
      /\ LastOf(content(w)) = mails + 1
  <2> DEFINE s == old(w)
             e == mails + 1
  <2>1. s \in Seq(Nat) /\ e \in Nat
    BY <1>5, <1>6
  <2> HIDE DEF s, e
  <2>2. /\ Append(s, e) \in Seq(Nat) /\ Append(s, e) # <<>>
        /\ Len(Append(s, e)) = Len(s) + 1 /\ Append(s, e)[Len(s) + 1] = e
    BY <2>1, AppendProperties
  <2>3. LastOf(Append(s, e)) = e
    BY <2>2 DEF LastOf
  <2>4. QED BY <2>2, <2>3 DEF s, e
<1>8. Settled(w) => old(w) = delivered[w]
  <2>1. CASE shared[w] = delivered[w]
    <3>1. delivered[w] \in Seq(Nat)
      <4>1. delivered[w] \in [1 .. Len(delivered[w]) -> 1 .. mails] /\ Len(delivered[w]) \in Nat
        BY <1>5, LenProperties
      <4>2. delivered[w] \in [1 .. Len(delivered[w]) -> Nat]
        BY <4>1, <1>5
      <4>3. QED BY <4>1, <4>2, SeqDef
    <3>2. IsWhole(w)
      BY <1>3, <2>1, <3>1, Contents DEF IsWhole, Mail
    <3>3. QED BY <2>1, <3>2
  <2>2. CASE shared[w] = Absent /\ delivered[w] = <<>>
    <3>1. ~ IsWhole(w)
      BY <1>4, <2>2, WholeThere
    <3>2. QED BY <2>2, <3>1
  <2>3. QED BY <1>3, <2>1, <2>2 DEF Settled
<1>9. Settled(w) => content(w) = Append(delivered[w], LastOf(content(w)))
  BY <1>7, <1>8
<1> HIDE DEF content
<1>10. w \notin SharedTasks
  BY <1>4 DEF SharedFiles
<1>11. LastOf(content(w)) \in 1 .. mails'
  BY <1>1, <1>5, <1>7
<1>12. QED BY <1>1, <1>2, <1>3, <1>4, <1>5, <1>7, <1>9, <1>10, <1>11, Starts

LEMMA LogEventStep ==
  ASSUME InteropInv, NEW h \in Hosts, LogEvent(h)
  PROVE  InteropInv'
<1> DEFINE f == job[h].file
           n == LastOf(image[h])
<1>1. /\ Stage(h, "event")
      /\ events' = events \cup {<<f, n>>}
      /\ SetJob(h, "omx", Absent, "next")
      /\ UNCHANGED <<shared, handle, image, rest, made, mails, delivered, marked, spoilt,
                     cleaned>>
  BY DEF LogEvent, LastOf
<1>2. InteropTypeOK /\ HostInv(h) /\ EventInv
  BY DEF InteropInv
<1>3. job[h] # NoJob /\ ~ Stage(h, "write")
  BY <1>1 DEF Stage
<1>4. /\ job[h].do = "omx" /\ f \in OmxWorkers /\ n \in 1 .. mails
      /\ \E i \in 1 .. Len(delivered[f]) : delivered[f][i] = n
  BY <1>1, <1>2 DEF HostInv, HasMail
<1> HIDE DEF f, n
<1>5. [do |-> "omx", file |-> Absent, at |-> "next"] \in HostJobs
  BY DEF HostJobs
<1>6. /\ job' \in [Hosts -> HostJobs \cup {NoJob}]
      /\ job'[h] = [do |-> "omx", file |-> Absent, at |-> "next"]
      /\ \A g \in Hosts \ {h} : job'[g] = job[g]
      /\ \A q : Stage(h, q)' <=> q = "next"
      /\ Holds(h)' = {}
  BY <1>1, <1>2, <1>5, JobFacts
<1>7. Grows
  BY <1>1, <1>2, GrowsSame
<1>8. \A g \in Hosts \ {h} : Same(g)
  BY <1>1, <1>6 DEF Same
<1>9. HostInv(h)' /\ ~ Writing(h)'
  <2>1. handle'[h] = Disk!Closed
    BY <1>1, <1>2, <1>3 DEF HostInv
  <2>2. rest'[h] \subseteq OmxWorkers
    BY <1>1, <1>2, <1>3, <1>4 DEF HostInv
  <2>3. QED BY <1>6, <2>1, <2>2, Idle
<1>10. \A g \in Hosts : HostInv(g)'
  BY <1>7, <1>8, <1>9, OtherHosts
<1>11. InteropTypeOK'
  <2>1. <<f, n>> \in OmxWorkers \X (1 .. mails)
    BY <1>4
  <2>2. QED BY <1>1, <1>2, <1>6, <2>1 DEF InteropTypeOK
<1>12. EventInv'
  BY <1>1, <1>2, <1>4 DEF EventInv
<1>13. FileInv'
  BY <1>1, <1>3, <1>6, <1>8, <1>9, Release
<1>14. QED BY <1>10, <1>11, <1>12, <1>13 DEF InteropInv

LEMMA EndFacts ==
  ASSUME InteropInv, NEW h \in Hosts, EndJob(h)
  PROVE  /\ DOMAIN image' = Hosts
         /\ rest' \in [Hosts -> SUBSET InteropFiles]
         /\ \A g \in Hosts \ {h} : image'[g] = image[g] /\ rest'[g] = rest[g]
  BY DEF EndJob, InteropInv, InteropTypeOK

LEMMA DoneStep ==
  ASSUME InteropInv, NEW h \in Hosts, Done(h)
  PROVE  InteropInv'
<1>1. /\ Stage(h, "next") /\ EndJob(h)
      /\ UNCHANGED <<shared, handle, made, mails, events, delivered, marked, spoilt, cleaned>>
  BY DEF Done
<1>2. InteropTypeOK
  BY DEF InteropInv
<1>3. /\ job' \in [Hosts -> HostJobs \cup {NoJob}]
      /\ job'[h] = NoJob
      /\ \A g \in Hosts \ {h} : job'[g] = job[g]
      /\ \A q : ~ Stage(h, q)'
      /\ Holds(h)' = {}
  BY <1>1, <1>2, NoJobFacts
<1>4. \A g \in Hosts \ {h} : Same(g)
  BY <1>1, <1>3, EndFacts DEF Same
<1>5. ~ Stage(h, "write") /\ handle'[h] = Disk!Closed
  BY <1>1, Idling
<1>6. /\ handle' \in [Hosts -> Disk!Handles]
      /\ spoilt' \subseteq InteropFiles /\ spoilt \subseteq spoilt'
  BY <1>1, <1>2 DEF InteropTypeOK
<1>7. QED BY <1>1, <1>3, <1>4, <1>5, <1>6, EndFacts, Quiet

LEMMA HostCrashStep ==
  ASSUME InteropInv, NEW h \in Hosts, HostCrash(h)
  PROVE  InteropInv'
<1>1. /\ job[h] # NoJob /\ EndJob(h) /\ Disk!Drop(h)
      /\ spoilt' = IF Stage(h, "write") THEN spoilt \cup {job[h].file} ELSE spoilt
      /\ UNCHANGED <<made, mails, events, delivered, marked, cleaned>>
  BY DEF HostCrash
<1>2. InteropTypeOK
  BY DEF InteropInv
<1>3. /\ job' \in [Hosts -> HostJobs \cup {NoJob}]
      /\ job'[h] = NoJob
      /\ \A g \in Hosts \ {h} : job'[g] = job[g]
      /\ \A q : ~ Stage(h, q)'
      /\ Holds(h)' = {}
  BY <1>1, <1>2, NoJobFacts
<1>4. /\ shared' = shared /\ handle'[h] = Disk!Closed
      /\ handle' \in [Hosts -> Disk!Handles]
      /\ \A g \in Hosts \ {h} : handle'[g] = handle[g]
  BY <1>1, <1>2 DEF InteropTypeOK, Disk!Drop, Disk!Handles
<1>5. \A g \in Hosts \ {h} : Same(g)
  BY <1>1, <1>3, <1>4, EndFacts DEF Same
<1>6. Stage(h, "write") => job[h].file \in InteropFiles
  <2>1. ASSUME Stage(h, "write") PROVE job[h].file \in InteropFiles
    <3>1. Writes(h)
      BY <2>1 DEF InteropInv, HostInv, Writing
    <3>2. QED BY <1>2, <3>1 DEF Writes, HasMail, InteropTypeOK, InteropFiles
  <2>2. QED BY <2>1
<1>7. spoilt' \subseteq InteropFiles /\ spoilt \subseteq spoilt'
  BY <1>1, <1>2, <1>6 DEF InteropTypeOK
<1>8. QED BY <1>1, <1>3, <1>4, <1>5, <1>7, EndFacts, Quiet

-----------------------------------------------------------------------------
(* Steps that change a file.                                               *)

LEMMA WritesContent ==
  ASSUME InteropInv, NEW h \in Hosts, Writing(h)
  PROVE  /\ Writes(h) /\ job[h].file \in InteropFiles
         /\ image[h] \in ContentsOf(job[h].file)
         /\ job[h].file \in SharedFiles => job[h].file \in made
         /\ job[h].do \in {"add", "update", "mark", "omx"}
         /\ job[h].do = "omx" <=> job[h].file \in OmxWorkers
<1> DEFINE f == job[h].file
<1>1. Writes(h)
  BY DEF InteropInv, HostInv
<1>2. made \subseteq SharedFiles
  BY DEF InteropInv, InteropTypeOK
<1>3. CASE job[h].do = "add" /\ f \in made /\ image[h] = Fresh(f)
  <2>1. f \in SharedFiles /\ f \notin OmxWorkers /\ image[h] \in ContentsOf(f)
    BY <1>2, <1>3, FreshWhole, InteropAssumption
  <2>2. QED BY <1>1, <1>3, <2>1, SharedInterop
<1>4. CASE job[h].do = "update" /\ f \in made \cap SharedTasks /\ image[h] \in TaskRecords
  BY <1>1, <1>4, Contents, SharedInterop
<1>5. CASE job[h].do = "mark" /\ f \in made \cap SharedMessages /\ image[h] = [read |-> TRUE]
  BY <1>1, <1>5, Contents, SharedInterop DEF MessageRecords
<1>6. CASE job[h].do = "omx" /\ HasMail(h)
  BY <1>1, <1>6, Contents, SharedInterop DEF HasMail, Mail
<1>7. QED BY <1>1, <1>3, <1>4, <1>5, <1>6 DEF Writes

\* A step that changes file f only, which host h holds.
Elsewhere(f) ==
  \A e \in InteropFiles \ {f} :
    /\ shared'[e] = shared[e]
    /\ e \in marked' <=> e \in marked
    /\ e \in cleaned' <=> e \in cleaned
    /\ e \in OmxWorkers => delivered'[e] = delivered[e]

LEMMA HeldFile ==
  ASSUME InteropInv, NEW g \in Hosts, Holds(g) # {}
  PROVE  job[g].file \in InteropFiles
<1>1. CASE Writing(g)
  BY <1>1, WritesContent
<1>2. CASE Stage(g, "event")
  BY <1>2, SharedInterop DEF InteropInv, HostInv, HasMail
<1>3. CASE Stage(g, "delete")
  BY <1>3, SharedInterop DEF InteropInv, HostInv, InteropTypeOK
<1>4. QED BY <1>1, <1>2, <1>3, HoldsFacts

LEMMA OneFile ==
  ASSUME InteropInv, NEW h \in Hosts, NEW f \in InteropFiles,
         f \in Holds(h), Holds(h)' \subseteq {f}, job[h].file = f,
         UNCHANGED <<made, spoilt>>, Elsewhere(f),
         f \in SharedFiles => f \in made,
         \A g \in Hosts \ {h} :
           /\ job'[g] = job[g] /\ image'[g] = image[g] /\ rest'[g] = rest[g]
           /\ handle'[g] = handle[g] \/ handle[g] = Disk!At("file", f),
         f \notin spoilt => BeingWritten(f)' \/ Settled(f)',
         f \in (marked' \cup cleaned') \cap SharedMessages /\ IsWhole(f)' => shared'[f].read,
         AddInv(h)', HeldInv(h)'
  PROVE  FileInv'
<1>1. FileInv
  BY DEF InteropInv
<1>2. ASSUME NEW g \in Hosts, g # h
      PROVE  /\ \A q : Stage(g, q)' <=> Stage(g, q)
             /\ Writing(g)' <=> Writing(g)
             /\ Holds(g)' = Holds(g)
             /\ job'[g] = job[g] /\ image'[g] = image[g]
  BY <1>2, SameFacts
<1>3. \A g \in Hosts : Holds(g)' \subseteq Holds(g)
  BY <1>2
<1>4. \A e \in InteropFiles \ {f} : IsWhole(e)' <=> IsWhole(e)
  BY DEF Elsewhere, IsWhole
<1>5. \A e \in InteropFiles \ {f} : Settled(e)' <=> Settled(e)
  BY <1>4 DEF Elsewhere, Settled
<1>6. SharedMessages \subseteq InteropFiles /\ SharedFiles \subseteq InteropFiles
  BY DEF InteropFiles, SharedFiles
<1>7. UnmadeInv'
  <2>1. ASSUME NEW e \in SharedFiles \ made
        PROVE  /\ shared'[e] = Absent /\ e \notin marked' \cup cleaned'
               /\ \A g \in Hosts : e \notin Holds(g)'
    <3>1. e \in InteropFiles \ {f}
      BY <1>6
    <3>2. QED BY <1>1, <1>3, <3>1 DEF FileInv, UnmadeInv, Elsewhere
  <2>2. QED BY <2>1 DEF UnmadeInv
<1>8. ReadInv'
  <2>1. ASSUME NEW m \in (marked' \cup cleaned') \cap SharedMessages, IsWhole(m)'
        PROVE  shared'[m].read
    <3>1. CASE m = f
      BY <2>1, <3>1
    <3>2. CASE m # f
      <4>1. m \in InteropFiles \ {f}
        BY <1>6, <3>2
      <4>2. m \in marked \cup cleaned /\ IsWhole(m) /\ shared'[m] = shared[m]
        BY <1>4, <2>1, <4>1 DEF Elsewhere
      <4>3. QED BY <1>1, <4>2 DEF FileInv, ReadInv
    <3>3. QED BY <3>1, <3>2
  <2>2. QED BY <2>1 DEF ReadInv
<1>9. Sole'
  BY <1>1, <1>3 DEF FileInv, Sole
<1>10. SettledInv'
  <2>1. ASSUME NEW e \in InteropFiles, e \notin spoilt' PROVE BeingWritten(e)' \/ Settled(e)'
    <3>1. CASE e = f
      BY <2>1, <3>1
    <3>2. CASE e # f /\ BeingWritten(e)
      <4>1. PICK g \in Hosts : Stage(g, "write") /\ job[g].file = e
        BY <3>2 DEF BeingWritten
      <4>2. g # h
        BY <3>2, <4>1
      <4>3. QED BY <1>2, <4>1, <4>2 DEF BeingWritten
    <3>3. CASE e # f /\ Settled(e)
      BY <1>5, <3>3
    <3>4. QED BY <1>1, <2>1, <3>1, <3>2, <3>3 DEF FileInv, SettledInv
  <2>2. QED BY <2>1 DEF SettledInv
<1>11. ASSUME NEW g \in Hosts, g # h PROVE AddInv(g)' /\ HeldInv(g)'
  <2>1. PICK e : e = job[g].file
    OBVIOUS
  <2>2. AddInv(g) /\ HeldInv(g)
    BY <1>1 DEF FileInv
  <2>3. job'[g].file = e /\ Holds(g)' = Holds(g)
    BY <1>2, <1>11, <2>1
  <2>4. AddInv(g)'
    <3>1. ASSUME Writing(g), job[g].do = "add"
          PROVE  /\ e \notin marked' \cup cleaned'
                 /\ shared'[e] \in {Absent, Blank}
                 /\ \A k \in Hosts \ {g} : e \notin Holds(k)'
      <4>1. /\ e \notin marked \cup cleaned
            /\ shared[e] \in {Absent, Blank}
            /\ \A k \in Hosts \ {g} : e \notin Holds(k)
        BY <2>1, <2>2, <3>1 DEF AddInv
      <4>2. e \in InteropFiles \ {f}
        BY <1>11, <2>1, <3>1, <4>1, WritesContent
      <4>3. QED BY <1>3, <4>1, <4>2 DEF Elsewhere
    <3>2. QED BY <1>2, <1>11, <2>3, <3>1 DEF AddInv
  <2>5. HeldInv(g)'
    <3>1. ASSUME Holds(g) # {}, e \notin spoilt
          PROVE  /\ Stage(g, "write") => shared'[e] = Blank /\ handle'[g] = Disk!At("file", e)
                 /\ ~ Stage(g, "write") => Settled(e)'
                 /\ ~ Stage(g, "event") => e \notin cleaned'
                 /\ Writing(g) /\ e \in marked' \cap SharedTasks => image[g].closed
                 /\ Writing(g) /\ e \in OmxWorkers =>
                      image[g] = Append(delivered'[e], LastOf(image[g]))
      <4>1. e \in InteropFiles /\ Holds(g) = {e}
        BY <2>1, <3>1, HeldFile, HoldsFacts
      <4>2. e # f
        BY <1>1, <1>11, <3>1, <4>1 DEF FileInv, Sole
      <4>3. /\ Stage(g, "write") => shared[e] = Blank /\ handle[g] = Disk!At("file", e)
            /\ ~ Stage(g, "write") => Settled(e)
            /\ ~ Stage(g, "event") => e \notin cleaned
            /\ Writing(g) /\ e \in marked \cap SharedTasks => image[g].closed
            /\ Writing(g) /\ e \in OmxWorkers =>
                 image[g] = Append(delivered[e], LastOf(image[g]))
        BY <2>1, <2>2, <3>1 DEF HeldInv
      <4>4. Stage(g, "write") => handle'[g] = handle[g]
        BY <1>11, <4>2, <4>3, Descriptors
      <4>5. QED BY <1>5, <4>1, <4>2, <4>3, <4>4 DEF Elsewhere
    <3>2. QED BY <1>2, <1>11, <2>3, <3>1 DEF HeldInv, LastOf
  <2>6. QED BY <2>4, <2>5
<1>12. AddInv(h)' /\ HeldInv(h)'
  OBVIOUS
<1>13. \A g \in Hosts : AddInv(g)' /\ HeldInv(g)'
  BY <1>11, <1>12
<1>14. QED BY <1>7, <1>8, <1>9, <1>10, <1>13 DEF FileInv

LEMMA OpenSharedStep ==
  ASSUME InteropInv, NEW h \in Hosts, OpenShared(h)
  PROVE  InteropInv'
<1>0. PICK f, do : f = job[h].file /\ do = job[h].do
  OBVIOUS
<1>1. /\ Stage(h, "open") /\ Disk!OpenFile(h, f) /\ SetJob(h, do, f, "write")
      /\ UNCHANGED <<image, rest, made, mails, events, delivered, marked, spoilt, cleaned>>
  BY <1>0 DEF OpenShared
<1>2. InteropTypeOK /\ HostInv(h) /\ FileInv
  BY DEF InteropInv
<1>3. /\ Writes(h) /\ f \in InteropFiles
      /\ f \in SharedFiles => f \in made
      /\ do \in {"add", "update", "mark", "omx"}
  BY <1>0, <1>1, WritesContent DEF Writing
<1>4. Holds(h) = {f} /\ Writing(h) /\ ~ Stage(h, "write") /\ ~ Stage(h, "event") /\ job[h] # NoJob
  BY <1>0, <1>1 DEF Stage, Holds, Writing
<1>5. [do |-> do, file |-> f, at |-> "write"] \in HostJobs
  BY <1>3 DEF HostJobs
<1>6. /\ job' \in [Hosts -> HostJobs \cup {NoJob}]
      /\ job'[h] = [do |-> do, file |-> f, at |-> "write"] /\ job'[h] # NoJob
      /\ \A g \in Hosts \ {h} : job'[g] = job[g]
      /\ \A q : Stage(h, q)' <=> q = "write"
      /\ Holds(h)' = {f}
  BY <1>1, <1>2, <1>5, JobFacts
<1>7. /\ shared'[f] = Blank /\ handle'[h] = Disk!At("file", f)
      /\ \A e \in InteropFiles \ {f} : shared'[e] = shared[e]
      /\ \A g \in Hosts \ {h} : handle'[g] = handle[g]
      /\ DOMAIN shared' = InteropFiles
      /\ handle' \in [Hosts -> Disk!Handles]
  BY <1>1, <1>2, <1>3, OpenFacts
<1>8. job'[h].do = do /\ job'[h].file = f
  BY <1>6
<1>9. Grows
  BY <1>1, <1>2, GrowsSame
<1>10. \A g \in Hosts \ {h} : Same(g)
  BY <1>1, <1>6, <1>7 DEF Same
<1>11. HostInv(h)'
  <2>1. Writes(h)'
    BY <1>0, <1>1, <1>3, <1>8 DEF Writes, HasMail, Fresh, LastOf
  <2>2. rest'[h] = rest[h]
    BY <1>1
  <2>3. handle'[h] # Disk!Closed
    BY <1>7, Descriptors
  <2>4. QED BY <1>0, <1>2, <1>4, <1>6, <1>7, <1>8, <2>1, <2>2, <2>3 DEF HostInv
<1>12. \A g \in Hosts : HostInv(g)'
  BY <1>9, <1>10, <1>11, OtherHosts
<1>13. InteropTypeOK'
  BY <1>1, <1>2, <1>6, <1>7 DEF InteropTypeOK
<1>14. EventInv'
  BY <1>1, <1>9, SameEvents
<1>15. Elsewhere(f)
  BY <1>1, <1>7 DEF Elsewhere
<1>16. f \in Holds(h) /\ Holds(h)' \subseteq {f}
  BY <1>4, <1>6
<1>17. BeingWritten(f)'
  BY <1>6, <1>8 DEF BeingWritten
<1>18. ~ IsWhole(f)'
  BY <1>3, <1>7, Contents DEF IsWhole
<1>19. AddInv(h)' /\ HeldInv(h)'
  <2>1. AddInv(h) /\ HeldInv(h)
    BY <1>2 DEF FileInv
  <2>2. \A g \in Hosts \ {h} : Holds(g)' = Holds(g)
    BY <1>6, SameFacts
  <2>3. AddInv(h)'
    BY <1>0, <1>1, <1>4, <1>7, <1>8, <2>1, <2>2 DEF AddInv
  <2>4. HeldInv(h)'
    BY <1>0, <1>1, <1>4, <1>6, <1>7, <1>8, <2>1 DEF HeldInv, LastOf
  <2>5. QED BY <2>3, <2>4
<1>20. \A g \in Hosts \ {h} :
           /\ job'[g] = job[g] /\ image'[g] = image[g] /\ rest'[g] = rest[g]
           /\ handle'[g] = handle[g]
  BY <1>10 DEF Same
<1>21. FileInv'
  BY <1>0, <1>1, <1>3, <1>15, <1>16, <1>17, <1>18, <1>19, <1>20, OneFile
<1>22. QED BY <1>12, <1>13, <1>14, <1>21 DEF InteropInv

LEMMA DeleteStep ==
  ASSUME InteropInv, NEW h \in Hosts, Delete(h)
  PROVE  InteropInv'
<1>0. PICK f : f = job[h].file
  OBVIOUS
<1>1. InteropTypeOK /\ HostInv(h) /\ FileInv
  BY DEF InteropInv
<1>2. /\ Stage(h, "delete")
      /\ UNCHANGED <<made, mails, events, delivered, marked, spoilt>>
  BY DEF Delete
<1>3. /\ job[h] # NoJob /\ ~ Writing(h) /\ ~ Stage(h, "write") /\ Holds(h) = {f}
  BY <1>0, <1>2 DEF Stage, Holds, Writing
<1>4. /\ f \in made /\ job[h].do = "cleanup" /\ f \in SharedFiles /\ f \in InteropFiles
      /\ f \notin OmxWorkers
      /\ handle[h] = Disk!Closed
  <2>1. f \in made /\ job[h].do = "cleanup" /\ handle[h] = Disk!Closed
    BY <1>0, <1>1, <1>2, <1>3 DEF HostInv
  <2>2. f \in SharedFiles
    BY <1>1, <2>1 DEF InteropTypeOK
  <2>3. QED BY <2>1, <2>2, SharedInterop, InteropAssumption
<1>5. CASE shared[f] = Absent /\ EndJob(h) /\ UNCHANGED <<shared, handle, cleaned>>
  <2>1. /\ job' \in [Hosts -> HostJobs \cup {NoJob}]
        /\ job'[h] = NoJob
        /\ \A g \in Hosts \ {h} : job'[g] = job[g]
        /\ \A q : ~ Stage(h, q)'
        /\ Holds(h)' = {}
    BY <1>1, <1>5, NoJobFacts
  <2>2. \A g \in Hosts \ {h} : Same(g)
    BY <1>5, <2>1, EndFacts DEF Same
  <2>3. /\ handle' \in [Hosts -> Disk!Handles] /\ handle'[h] = Disk!Closed
        /\ spoilt' \subseteq InteropFiles /\ spoilt \subseteq spoilt'
    BY <1>1, <1>2, <1>4, <1>5 DEF InteropTypeOK
  <2>4. QED BY <1>2, <1>3, <1>5, <2>1, <2>2, <2>3, EndFacts, Quiet
<1>6. CASE /\ Disk!RemoveFile(f)
           /\ cleaned' = cleaned \cup {f}
           /\ SetJob(h, "cleanup", Absent, "next")
           /\ UNCHANGED <<image, rest>>
  <2>1. [do |-> "cleanup", file |-> Absent, at |-> "next"] \in HostJobs
    BY DEF HostJobs
  <2>2. /\ job' \in [Hosts -> HostJobs \cup {NoJob}]
        /\ job'[h] = [do |-> "cleanup", file |-> Absent, at |-> "next"]
        /\ \A g \in Hosts \ {h} : job'[g] = job[g]
        /\ \A q : Stage(h, q)' <=> q = "next"
        /\ Holds(h)' = {}
    BY <1>1, <1>6, <2>1, JobFacts
  <2>3. /\ shared'[f] = Absent
        /\ \A e \in InteropFiles \ {f} : shared'[e] = shared[e]
        /\ \A g \in Hosts : handle'[g] = IF handle[g] = Disk!At("file", f) THEN Disk!Closed
                                         ELSE handle[g]
        /\ DOMAIN shared' = InteropFiles
        /\ handle' \in [Hosts -> Disk!Handles]
    BY <1>1, <1>4, <1>6, RemoveFacts
  <2>4. Grows
    <3>1. /\ mails \in Nat /\ \A w \in OmxWorkers : Len(delivered[w]) \in Nat
      BY <1>1, LenProperties DEF InteropTypeOK
    <3>2. QED BY <1>2, <1>6, <3>1 DEF Grows
  <2>5. ASSUME NEW g \in Hosts, g # h PROVE HostInv(g)'
    <3>1. HostInv(g)
      BY DEF InteropInv
    <3>2. /\ job'[g] = job[g] /\ image'[g] = image[g] /\ rest'[g] = rest[g]
      BY <1>6, <2>2, <2>5
    <3>3. CASE handle[g] = Disk!At("file", f)
      <4>1. job[g].file = f
        BY <3>1, <3>3, Descriptors DEF HostInv
      <4>2. handle'[g] = Disk!Closed /\ job[g].file \in cleaned'
        BY <1>6, <2>3, <3>3, <4>1
      <4>3. QED BY <2>4, <3>1, <3>2, <4>2, SameHost
    <3>4. CASE handle[g] # Disk!At("file", f)
      <4>1. handle'[g] = handle[g]
        BY <2>3, <3>4
      <4>2. QED BY <2>4, <3>1, <3>2, <4>1, SameHost
    <3>5. QED BY <3>3, <3>4
  <2>6. HostInv(h)' /\ ~ Writing(h)'
    <3>1. handle'[h] = Disk!Closed
      BY <1>4, <2>3
    <3>2. rest'[h] \subseteq SharedFiles
      BY <1>1, <1>3, <1>4, <1>6 DEF HostInv
    <3>3. QED BY <2>2, <3>1, <3>2, Idle
  <2>7. InteropTypeOK'
    BY <1>1, <1>2, <1>4, <1>6, <2>2, <2>3 DEF InteropTypeOK
  <2>8. EventInv'
    BY <1>2, <2>4, SameEvents
  <2>9. Elsewhere(f)
    BY <1>2, <1>6, <2>3 DEF Elsewhere
  <2>10. ~ IsWhole(f)' /\ Settled(f)'
    <3>1. ~ IsWhole(f)'
      BY <1>4, <2>3, Contents DEF IsWhole
    <3>2. QED BY <1>4, <2>3, <3>1 DEF Settled
  <2>11. AddInv(h)' /\ HeldInv(h)'
    BY <2>2, <2>6 DEF AddInv, HeldInv
  <2>12. FileInv'
    <3>1. f \in Holds(h) /\ Holds(h)' \subseteq {f}
      BY <1>3, <2>2
    <3>2. \A g \in Hosts \ {h} :
           /\ job'[g] = job[g] /\ image'[g] = image[g] /\ rest'[g] = rest[g]
           /\ handle'[g] = handle[g] \/ handle[g] = Disk!At("file", f)
      BY <1>6, <2>2, <2>3
    <3>3. QED BY <1>0, <1>2, <1>4, <2>9, <2>10, <2>11, <3>1, <3>2, OneFile
  <2>13. QED BY <2>5, <2>6, <2>7, <2>8, <2>12 DEF InteropInv
<1>7. QED BY <1>0, <1>5, <1>6 DEF Delete

LEMMA WriteSharedStep ==
  ASSUME InteropInv, NEW h \in Hosts, WriteShared(h)
  PROVE  InteropInv'
<1>0. PICK f, do, next : /\ f = job[h].file /\ do = job[h].do
                         /\ next = IF do = "omx" THEN "event" ELSE "next"
  OBVIOUS
<1>1. InteropTypeOK /\ HostInv(h) /\ FileInv
  BY DEF InteropInv
<1>2. /\ Stage(h, "write")
      /\ delivered' = IF f \notin OmxWorkers THEN delivered
                      ELSE [delivered EXCEPT ![f] = Append(@, LastOf(image[h]))]
      /\ marked' = IF \/ f \in SharedMessages /\ image[h].read
                      \/ f \in SharedTasks /\ image[h].closed
                   THEN marked \cup {f} ELSE marked
      /\ SetJob(h, do, f, next)
      /\ UNCHANGED <<image, rest, made, mails, events, spoilt, cleaned>>
  BY <1>0 DEF WriteShared, LastOf
<1>3. /\ job[h] # NoJob /\ Writing(h) /\ ~ Stage(h, "event") /\ Holds(h) = {f}
  BY <1>0, <1>2 DEF Stage, Holds, Writing
<1>4. /\ Writes(h) /\ f \in InteropFiles /\ image[h] \in ContentsOf(f)
      /\ f \in SharedFiles => f \in made
      /\ do \in {"add", "update", "mark", "omx"}
      /\ do = "omx" <=> f \in OmxWorkers
  BY <1>0, <1>3, WritesContent
<1>5. handle[h] = Disk!Closed \/ handle[h] = Disk!At("file", f)
  BY <1>0, <1>1 DEF HostInv
<1>6. PICK x : /\ x \in {image[h], Mixed}
               /\ Disk!Behind(h, f) = Blank => x = image[h]
               /\ Disk!Put(h, f, x)
  BY <1>0 DEF WriteShared
<1>7. /\ shared'[f] = IF handle[h] = Disk!Closed THEN shared[f] ELSE x
      /\ handle'[h] = Disk!Closed
      /\ \A e \in InteropFiles \ {f} : shared'[e] = shared[e]
      /\ \A g \in Hosts \ {h} : handle'[g] = handle[g]
      /\ DOMAIN shared' = InteropFiles
      /\ handle' \in [Hosts -> Disk!Handles]
      /\ shared[f] = Blank => x = image[h]
  BY <1>1, <1>4, <1>5, <1>6, PutFacts
<1>8. [do |-> do, file |-> f, at |-> next] \in HostJobs
  BY <1>0, <1>4 DEF HostJobs
<1>9. /\ job' \in [Hosts -> HostJobs \cup {NoJob}]
      /\ job'[h] = [do |-> do, file |-> f, at |-> next] /\ job'[h] # NoJob
      /\ \A g \in Hosts \ {h} : job'[g] = job[g]
      /\ \A q : Stage(h, q)' <=> q = next
      /\ Holds(h)' = IF next \in {"open", "write", "delete", "event"} THEN {f} ELSE {}
  BY <1>1, <1>2, <1>8, JobFacts
<1>10. job'[h].do = do /\ job'[h].file = f /\ ~ Writing(h)' /\ ~ Stage(h, "delete")'
  BY <1>0, <1>9 DEF Writing
<1>11. \A g \in Hosts \ {h} : Same(g)
  BY <1>2, <1>7, <1>9 DEF Same
\* What is new in a mailbox.
<1>12. f \in OmxWorkers =>
         /\ image[h] \in Seq(Nat) /\ image[h] # <<>> /\ LastOf(image[h]) \in 1 .. mails
         /\ delivered[f] \in Seq(1 .. mails)
         /\ delivered'[f] = Append(delivered[f], LastOf(image[h]))
  BY <1>0, <1>1, <1>2, <1>4 DEF Writes, HasMail, InteropTypeOK
<1>13. f \in OmxWorkers =>
         /\ delivered'[f] \in Seq(1 .. mails)
         /\ Len(delivered[f]) \in Nat /\ Len(delivered'[f]) = Len(delivered[f]) + 1
         /\ \A i \in 1 .. Len(delivered[f]) : delivered'[f][i] = delivered[f][i]
         /\ delivered'[f][Len(delivered[f]) + 1] = LastOf(image[h])
  <2>1. ASSUME f \in OmxWorkers
        PROVE  /\ delivered'[f] \in Seq(1 .. mails)
               /\ Len(delivered[f]) \in Nat /\ Len(delivered'[f]) = Len(delivered[f]) + 1
               /\ \A i \in 1 .. Len(delivered[f]) : delivered'[f][i] = delivered[f][i]
               /\ delivered'[f][Len(delivered[f]) + 1] = LastOf(image[h])
    <3> DEFINE s == delivered[f]
               t == delivered'[f]
               e == LastOf(image[h])
               S == 1 .. mails
    <3>1. s \in Seq(S) /\ e \in S /\ t = Append(s, e)
      BY <1>12, <2>1
    <3> HIDE DEF s, t, e, S
    <3>2. /\ t \in Seq(S)
          /\ Len(s) \in Nat /\ Len(t) = Len(s) + 1
          /\ \A i \in 1 .. Len(s) : t[i] = s[i]
          /\ t[Len(s) + 1] = e
      BY <3>1, AppendProperties, LenProperties
    <3>3. QED BY <3>2 DEF s, t, e, S
  <2>2. QED BY <2>1
<1>14. \A w \in OmxWorkers \ {f} : delivered'[w] = delivered[w]
  BY <1>1, <1>2 DEF InteropTypeOK
<1>15. Grows
  <2>1. mails \in Nat /\ \A w \in OmxWorkers : Len(delivered[w]) \in Nat
    BY <1>1, LenProperties DEF InteropTypeOK
  <2>2. ASSUME NEW w \in OmxWorkers
        PROVE  /\ Len(delivered'[w]) \in Nat /\ Len(delivered[w]) <= Len(delivered'[w])
               /\ \A i \in 1 .. Len(delivered[w]) : delivered'[w][i] = delivered[w][i]
    <3>1. CASE w = f
      BY <1>13, <3>1
    <3>2. CASE w # f
      BY <1>14, <2>1, <3>2
    <3>3. QED BY <3>1, <3>2
  <2>3. QED BY <1>2, <2>1, <2>2 DEF Grows
<1>16. HostInv(h)'
  <2>1. CASE do = "omx"
    <3>1. f \in OmxWorkers /\ HasMail(h)'
      BY <1>2, <1>4, <1>10, <1>12, <2>1 DEF HasMail, LastOf
    <3>2. \E i \in 1 .. Len(delivered'[f]) : delivered'[f][i] = LastOf(image[h])
      <4>1. Len(delivered[f]) + 1 \in 1 .. Len(delivered'[f])
        BY <1>13, <3>1
      <4>2. QED BY <1>13, <3>1, <4>1
    <3>3. rest'[h] \subseteq OmxWorkers /\ ~ Stage(h, "write")'
      BY <1>0, <1>1, <1>2, <1>3, <1>9, <2>1 DEF HostInv
    <3>4. QED BY <1>2, <1>7, <1>10, <2>1, <3>1, <3>2, <3>3 DEF HostInv, LastOf
  <2>2. CASE do # "omx"
    <3>1. \A q : Stage(h, q)' => q = "next"
      BY <1>0, <1>9, <2>2
    <3>2. do = "mark" => rest'[h] \subseteq SharedMessages
      BY <1>0, <1>1, <1>2, <1>3 DEF HostInv
    <3>3. QED BY <1>4, <1>7, <1>10, <2>2, <3>1, <3>2, Idle
  <2>3. QED BY <2>1, <2>2
<1>17. \A g \in Hosts : HostInv(g)'
  BY <1>11, <1>15, <1>16, OtherHosts
<1>18. InteropTypeOK'
  <2>1. shared'[f] \in ContentsOf(f) \cup {Absent, Blank, Mixed}
    BY <1>1, <1>4, <1>6, <1>7 DEF InteropTypeOK
  <2>2. \A e \in InteropFiles : shared'[e] \in ContentsOf(e) \cup {Absent, Blank, Mixed}
    BY <1>1, <1>7, <2>1 DEF InteropTypeOK
  <2>3. delivered' \in [OmxWorkers -> Seq(1 .. mails)]
    BY <1>1, <1>2, <1>12, <1>13 DEF InteropTypeOK
  <2>4. marked' \subseteq SharedFiles
    BY <1>1, <1>2 DEF InteropTypeOK, SharedFiles
  <2>5. QED BY <1>1, <1>2, <1>7, <1>9, <2>2, <2>3, <2>4 DEF InteropTypeOK
<1>19. EventInv'
  BY <1>2, <1>15, SameEvents
<1>20. Elsewhere(f)
  BY <1>2, <1>7, <1>14 DEF Elsewhere
\* A file nobody else changes gets the whole content.
<1>21. ASSUME f \notin spoilt
       PROVE  /\ shared'[f] = image[h] /\ f \notin cleaned
              /\ f \in marked \cap SharedTasks => image[h].closed
              /\ f \in OmxWorkers => image[h] = Append(delivered[f], LastOf(image[h]))
  <2>1. /\ shared[f] = Blank /\ handle[h] = Disk!At("file", f) /\ f \notin cleaned
        /\ f \in marked \cap SharedTasks => image[h].closed
        /\ f \in OmxWorkers => image[h] = Append(delivered[f], LastOf(image[h]))
    BY <1>0, <1>1, <1>2, <1>3, <1>21 DEF FileInv, HeldInv
  <2>2. QED BY <1>7, <2>1, Descriptors
<1>22. f \notin spoilt => Settled(f)'
  <2>1. ASSUME f \notin spoilt PROVE Settled(f)'
    <3>1. f \in OmxWorkers => shared'[f] = delivered'[f]
      BY <1>12, <1>21, <2>1
    <3>2. f \in SharedFiles => IsWhole(f)' /\ f \notin cleaned'
      BY <1>2, <1>4, <1>21, <2>1 DEF IsWhole
    <3>3. f \in marked' \cap SharedTasks => shared'[f].closed
      BY <1>2, <1>21, <2>1, Contents
    <3>4. QED BY <3>1, <3>2, <3>3 DEF Settled
  <2>2. QED BY <2>1
<1>23. ASSUME f \in (marked' \cup cleaned') \cap SharedMessages, IsWhole(f)'
       PROVE  shared'[f].read
  <2>1. do = "add" => f \notin marked \cup cleaned /\ image[h] = Fresh(f) /\ ~ image[h].read
    <3>1. ASSUME do = "add" PROVE f \notin marked \cup cleaned /\ image[h] = Fresh(f)
      BY <1>0, <1>1, <1>3, <1>4, <3>1 DEF FileInv, AddInv, Writes
    <3>2. Fresh(f) = [read |-> FALSE]
      BY <1>23, Contents DEF Fresh
    <3>3. QED BY <3>1, <3>2
  <2>2. do # "add" => image[h].read
    BY <1>0, <1>4, <1>23, Contents DEF Writes, HasMail
  <2>3. do # "add"
    BY <1>2, <1>23, <2>1, Contents
  <2>4. CASE handle[h] = Disk!Closed
    <3>1. f \in cleaned /\ IsWhole(f)
      BY <1>0, <1>1, <1>2, <1>7, <1>23, <2>4 DEF HostInv, IsWhole
    <3>2. QED BY <1>1, <1>7, <1>23, <2>4, <3>1 DEF FileInv, ReadInv
  <2>5. CASE handle[h] # Disk!Closed
    <3>1. shared'[f] # Mixed
      BY <1>4, <1>23, Contents DEF IsWhole
    <3>2. shared'[f] = image[h]
      BY <1>6, <1>7, <2>5, <3>1
    <3>3. QED BY <2>2, <2>3, <3>2
  <2>6. QED BY <2>4, <2>5
<1>24. AddInv(h)' /\ HeldInv(h)'
  <2>1. AddInv(h)'
    BY <1>10 DEF AddInv
  <2>2. Holds(h)' # {} => Stage(h, "event")' /\ ~ Stage(h, "write")'
    BY <1>0, <1>9
  <2>3. HeldInv(h)'
    BY <1>2, <1>10, <1>22, <2>2 DEF HeldInv
  <2>4. QED BY <2>1, <2>3
<1>25. FileInv'
  <2>1. f \in Holds(h) /\ Holds(h)' \subseteq {f}
    BY <1>3, <1>9
  <2>2. \A g \in Hosts \ {h} :
           /\ job'[g] = job[g] /\ image'[g] = image[g] /\ rest'[g] = rest[g]
           /\ handle'[g] = handle[g]
    BY <1>11 DEF Same
  <2>3. QED BY <1>0, <1>2, <1>4, <1>20, <1>22, <1>23, <1>24, <2>1, <2>2, OneFile
<1>26. QED BY <1>17, <1>18, <1>19, <1>25 DEF InteropInv

LEMMA InitInv == InteropInit => InteropInv
<1> SUFFICES ASSUME InteropInit PROVE InteropInv
  OBVIOUS
<1>1. /\ \A f \in InteropFiles : shared[f] = Absent
      /\ \A h \in Hosts : handle[h] = Disk!Closed /\ job[h] = NoJob
      /\ \A w \in OmxWorkers : delivered[w] = <<>>
      /\ made = {} /\ events = {} /\ marked = {} /\ spoilt = {} /\ cleaned = {}
  BY DEF InteropInit
<1>2. \A h \in Hosts :
        /\ \A q : ~ Stage(h, q)
        /\ ~ Writing(h)
        /\ Holds(h) = {}
  BY <1>1 DEF Stage, Writing, Holds
<1>3. InteropTypeOK
  <2>1. <<>> \in Seq(1 .. mails)
    BY EmptySeq
  <2>2. handle \in [Hosts -> Disk!Handles]
    BY DEF InteropInit, Disk!Handles
  <2>3. /\ DOMAIN shared = InteropFiles
        /\ \A f \in InteropFiles : shared[f] \in ContentsOf(f) \cup {Absent, Blank, Mixed}
        /\ job \in [Hosts -> HostJobs \cup {NoJob}]
        /\ DOMAIN image = Hosts
        /\ rest \in [Hosts -> SUBSET InteropFiles]
    BY DEF InteropInit
  <2>4. /\ mails \in Nat
        /\ delivered \in [OmxWorkers -> Seq(1 .. mails)]
    BY <2>1 DEF InteropInit
  <2>5. QED BY <1>1, <2>2, <2>3, <2>4 DEF InteropTypeOK
<1>4. \A h \in Hosts : HostInv(h)
  BY <1>1, <1>2 DEF HostInv
<1>5. EventInv
  BY <1>1 DEF EventInv
<1>6. FileInv
  <2>1. UnmadeInv /\ ReadInv /\ Sole
    BY <1>1, <1>2, SharedInterop DEF UnmadeInv, ReadInv, Sole
  <2>2. SettledInv
    BY <1>1 DEF SettledInv, Settled
  <2>3. \A h \in Hosts : AddInv(h) /\ HeldInv(h)
    BY <1>2 DEF AddInv, HeldInv
  <2>4. QED BY <2>1, <2>2, <2>3 DEF FileInv
<1>7. QED BY <1>3, <1>4, <1>5, <1>6 DEF InteropInv

LEMMA StepInv == InteropInv /\ [InteropNext]_interopVars => InteropInv'
<1> SUFFICES ASSUME InteropInv, [InteropNext]_interopVars PROVE InteropInv'
  OBVIOUS
<1>1. ASSUME NEW h \in Hosts,
             \/ Add(h) \/ Update(h) \/ ReadMessages(h) \/ Cleanup(h) \/ SendOmx(h)
             \/ HostCrash(h)
      PROVE  InteropInv'
  BY <1>1, AddStep, UpdateStep, ReadMessagesStep, CleanupStep, SendOmxStep, HostCrashStep
<1>2. ASSUME NEW h \in Hosts,
             \/ Mark(h) \/ Look(h) \/ Delete(h) \/ ReadMailbox(h) \/ LogEvent(h)
             \/ OpenShared(h) \/ WriteShared(h) \/ Done(h)
      PROVE  InteropInv'
  BY <1>2, MarkStep, LookStep, DeleteStep, ReadMailboxStep, LogEventStep, OpenSharedStep,
     WriteSharedStep, DoneStep
<1>3. CASE UNCHANGED interopVars
  <2>1. UNCHANGED interopVars
    BY <1>3
  <2>2. \A h \in Hosts :
          /\ \A q : Stage(h, q)' <=> Stage(h, q)
          /\ Writing(h)' <=> Writing(h)
          /\ Holds(h)' = Holds(h)
    BY <2>1 DEF interopVars, Stage, Writing, Holds
  <2>3. InteropTypeOK'
    BY <2>1 DEF InteropInv, InteropTypeOK, interopVars
  <2>4. Grows
    BY <2>1, GrowsSame DEF InteropInv, interopVars
  <2>5. \A h \in Hosts : HostInv(h)'
    BY <2>1, <2>4, SameHost DEF InteropInv, interopVars
  <2>6. EventInv'
    BY <2>1, <2>4, SameEvents DEF interopVars
  <2>7. \A f : (IsWhole(f)' <=> IsWhole(f)) /\ (Settled(f)' <=> Settled(f))
    BY <2>1 DEF interopVars, IsWhole, Settled
  <2>8. \A f : BeingWritten(f)' <=> BeingWritten(f)
    BY <2>1, <2>2 DEF interopVars, BeingWritten
  <2>9. UnmadeInv' /\ ReadInv' /\ Sole' /\ SettledInv'
    BY <2>1, <2>2, <2>7, <2>8
    DEF InteropInv, FileInv, UnmadeInv, ReadInv, Sole, SettledInv, interopVars
  <2>10. ASSUME NEW h \in Hosts PROVE AddInv(h)' /\ HeldInv(h)'
    <3>1. AddInv(h) /\ HeldInv(h)
      BY DEF InteropInv, FileInv
    <3>2. AddInv(h)'
      BY <2>1, <2>2, <3>1 DEF AddInv, interopVars
    <3>3. HeldInv(h)'
      BY <2>1, <2>2, <2>7, <3>1 DEF HeldInv, interopVars
    <3>4. QED BY <3>2, <3>3
  <2>11. QED BY <2>3, <2>5, <2>6, <2>9, <2>10 DEF InteropInv, FileInv
<1>4. QED BY <1>1, <1>2, <1>3 DEF InteropNext

\* A file being written is empty, and not one that a cleanup has removed.
LEMMA WrittenBlank ==
  ASSUME InteropInv, NEW f \in InteropFiles \ spoilt, BeingWritten(f)
  PROVE  shared[f] = Blank /\ ~ IsWhole(f) /\ f \notin cleaned
<1>1. PICK h \in Hosts : Stage(h, "write") /\ job[h].file = f
  BY DEF BeingWritten
<1>2. Holds(h) # {} /\ ~ Stage(h, "event")
  BY <1>1 DEF Holds, Stage
<1>3. shared[f] = Blank /\ f \notin cleaned
  BY <1>1, <1>2 DEF InteropInv, FileInv, HeldInv
<1>4. QED BY <1>3, Contents DEF IsWhole

LEMMA KeepsAll == InteropInv => MailboxKeepsAll
<1> SUFFICES ASSUME InteropInv, NEW w \in OmxWorkers \ spoilt
             PROVE  /\ \/ shared[w] = delivered[w]
                       \/ shared[w] = Absent /\ delivered[w] = <<>>
                       \/ BeingWritten(w)
                    /\ \A n \in 1 .. mails : <<w, n>> \in events =>
                         \E i \in 1 .. Len(delivered[w]) : delivered[w][i] = n
  BY DEF MailboxKeepsAll
<1>1. BeingWritten(w) \/ Settled(w)
  BY SharedInterop DEF InteropInv, FileInv, SettledInv
<1>2. QED BY <1>1 DEF InteropInv, EventInv, Settled

LEMMA RecordsKept == InteropInv => SharedRecordsHold
<1> SUFFICES ASSUME InteropInv PROVE SharedRecordsHold
  OBVIOUS
<1>1. \A m \in marked \cap SharedMessages : IsWhole(m) => shared[m].read
  BY DEF InteropInv, FileInv, ReadInv
<1>2. ASSUME NEW f \in SharedFiles \ spoilt
      PROVE  /\ f \in marked \cap SharedTasks /\ IsWhole(f) => shared[f].closed
             /\ f \in cleaned => shared[f] = Absent
             /\ IsWhole(f) \/ shared[f] = Absent \/ BeingWritten(f)
  <2>1. f \in InteropFiles \ spoilt
    BY SharedInterop
  <2>2. CASE BeingWritten(f)
    BY <2>1, <2>2, WrittenBlank
  <2>3. CASE ~ BeingWritten(f)
    BY <2>1, <2>3 DEF InteropInv, FileInv, SettledInv, Settled
  <2>4. QED BY <2>2, <2>3
<1>3. QED BY <1>1, <1>2 DEF SharedRecordsHold

\* The invariant of which the others are parts or consequences: each step of a
\* host keeps it.
THEOREM InteropInvariant == InteropSpec => []InteropInv
<1>1. InteropInit => InteropInv
  BY InitInv
<1>2. InteropInv /\ [InteropNext]_<<interopVars, budget>> => InteropInv'
  BY StepInv
<1>3. QED BY <1>1, <1>2, PTL DEF InteropSpec

\* The variables of the shared files keep their types.
THEOREM InteropTypeCorrect == InteropSpec => []InteropTypeOK
<1>1. InteropInv => InteropTypeOK
  BY DEF InteropInv
<1>2. QED BY <1>1, InteropInvariant, PTL

\* However many hosts send, broadcast and crash, a mailbox that no two of them
\* wrote at once and no crash cut holds all the messages written to it, in
\* order, and the event log says nothing of it that it does not hold.
THEOREM MailKept == InteropSpec => []MailboxKeepsAll
<1>1. QED BY InteropInvariant, KeepsAll, PTL

\* However many hosts add, update, mark and clean up, a message marked as read
\* stays read, and a file that no two of them changed at once and no crash cut
\* is whole, stays closed once closed and away once removed.
THEOREM RecordsHold == InteropSpec => []SharedRecordsHold
<1>1. QED BY InteropInvariant, RecordsKept, PTL
=============================================================================
