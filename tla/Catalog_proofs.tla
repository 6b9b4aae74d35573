-------------------------- MODULE Catalog_proofs ---------------------------
(***************************************************************************)
(* Proofs about the catalog, for any commands, catalogs and failures.      *)
(***************************************************************************)
EXTENDS CatalogProperties, TLAPS

\* What a call carries: the catalog a refresh has verified, or a copy it has read.
Refreshing ==
  {"stage", "write", "reread", "keep", "older", "forget", "retire", "commit"}
Copying == {"copy", "fill", "spare", "discard", "quarantine", "replace", "undone"}

Carries(c) ==
  /\ c.do = "refresh" \/ c.at \in Refreshing => c.new \in Catalogs
  /\ c.at \in Copying \cup {"finish"} => c.got \in Catalogs

CatalogTypeInv == CatalogTypeOK /\ \A p \in Commands : Carries(command[p])

\* What a call knows of the files, and of what may be in force, where it is.
ActiveThere ==
  {"read", "unreadable", "copy", "fill", "spare", "discard", "quarantine", "older",
   "forget", "retire", "aside", "swap", "exchange"}
ActiveGone ==
  {"missing", "fallback", "finish", "undone", "bundled", "replace", "commit",
   "failed", "vacant", "restore", "back"}
PreviousThere == Copying \cup {"vacant", "restore", "current", "aside", "back"}

Knows(c) ==
  /\ c.at \in ActiveThere => IsFile("active")
  /\ c.at \in ActiveGone => ~ IsFile("active")
  /\ c.at \in PreviousThere => IsFile("previous")
  /\ c.at \in Copying => c.got = disk["previous"]
  /\ c.at \in {"spare", "discard", "quarantine", "replace"} => c.got = disk["recovered"]
  /\ c.at = "finish" => c.got = disk["staged"]
  /\ c.at \in Refreshing \ {"stage"} => c.new \in may
  /\ c.at \in Refreshing \ {"stage", "write"} => c.new = disk["staged"]
  /\ c.at \in {"unreadable", "current", "aside"} \cup Copying => Others \subseteq may

\* The file a call has open, where it is.
Handle(label) ==
  CASE label = "fill" -> Directory!At("file", "recovered")
    [] label = "write" -> Directory!At("file", "staged")
    [] OTHER -> Directory!Closed

NoneTorn == \A f \in {"active", "previous", "swap"} : disk[f] # Torn

\* The three ways to a catalog that may be in force.
Safe ==
  /\ IsFile("active") => disk["active"] \in may
  /\ ~ IsFile("active") => Others \subseteq may
  /\ IsFile("active") \/ IsFile("previous") \/ Bundled \in may

OneCall ==
  \A p, q \in Commands : command[p] # NoCommand /\ command[q] # NoCommand => p = q

CatalogInv ==
  overlapped \/ /\ OneCall /\ NoneTorn /\ Safe
                /\ \A p \in Commands : /\ Knows(command[p])
                                       /\ writes[p] = Handle(command[p].at)

-----------------------------------------------------------------------------
(* Types.                                                                  *)

\* The two marks are no catalogs, and differ.
LEMMA Marks ==
  /\ NoCatalog \notin Catalogs /\ Torn \notin Catalogs /\ Bundled \notin Catalogs
  /\ NoCatalog # Torn
  BY CatalogAssumption DEF CatalogAssumption

\* What the operations on the directory make of it.
LEMMA RenameFacts ==
  ASSUME CatalogTypeOK, NEW a \in CatalogFiles, NEW b \in CatalogFiles, a # b,
         Directory!RenameFile(a, b)
  PROVE  /\ disk' \in [CatalogFiles -> Catalogs \cup {NoCatalog, Torn}]
         /\ disk'[b] = disk[a] /\ disk'[a] = NoCatalog
         /\ \A f \in CatalogFiles \ {a, b} : disk'[f] = disk[f]
         /\ writes' \in [Commands -> {Directory!Closed} \cup [at : {"file"}, file : CatalogFiles]]
         /\ \A q \in Commands : writes[q] = Directory!Closed => writes'[q] = Directory!Closed
<1>1. DOMAIN writes = Commands /\ Directory!Closed.at = "closed"
  BY DEF CatalogTypeOK, Directory!Closed
<1>2. Directory!At("file", b) \in [at : {"file"}, file : CatalogFiles]
  BY DEF Directory!At
<1>3. \A f \in CatalogFiles : Directory!At("file", f) # Directory!Closed
  BY DEF Directory!At, Directory!Closed
<1>4. disk' = [disk EXCEPT ![b] = disk[a], ![a] = NoCatalog]
  BY DEF Directory!RenameFile
<1>5. writes' = [q \in Commands |->
                   IF writes[q] = Directory!At("file", a) THEN Directory!At("file", b)
                   ELSE IF writes[q] = Directory!At("file", b) THEN Directory!Closed
                   ELSE writes[q]]
  BY <1>1 DEF Directory!RenameFile
<1>6. /\ disk' \in [CatalogFiles -> Catalogs \cup {NoCatalog, Torn}]
      /\ disk'[b] = disk[a] /\ disk'[a] = NoCatalog
      /\ \A f \in CatalogFiles \ {a, b} : disk'[f] = disk[f]
  BY <1>4 DEF CatalogTypeOK
<1>7. writes' \in [Commands -> {Directory!Closed} \cup [at : {"file"}, file : CatalogFiles]]
  BY <1>2, <1>5 DEF CatalogTypeOK
<1>8. \A q \in Commands : writes[q] = Directory!Closed => writes'[q] = Directory!Closed
  BY <1>3, <1>5
<1>9. QED BY <1>6, <1>7, <1>8

LEMMA CommandRemoves ==
  ASSUME CatalogTypeOK, NEW a \in CatalogFiles, Directory!RemoveFile(a)
  PROVE  /\ disk' \in [CatalogFiles -> Catalogs \cup {NoCatalog, Torn}]
         /\ disk'[a] = NoCatalog
         /\ \A f \in CatalogFiles \ {a} : disk'[f] = disk[f]
         /\ writes' \in [Commands -> {Directory!Closed} \cup [at : {"file"}, file : CatalogFiles]]
         /\ \A q \in Commands : writes[q] = Directory!Closed => writes'[q] = Directory!Closed
<1>1. DOMAIN writes = Commands
  BY DEF CatalogTypeOK
<1>2. writes' = [q \in Commands |->
                   IF writes[q] = Directory!At("file", a) THEN Directory!Closed ELSE writes[q]]
  BY <1>1 DEF Directory!RemoveFile, Directory!Orphaned
<1>3. writes' \in [Commands -> {Directory!Closed} \cup [at : {"file"}, file : CatalogFiles]]
  BY <1>2 DEF CatalogTypeOK
<1>4. QED BY <1>2, <1>3 DEF CatalogTypeOK, Directory!RemoveFile

LEMMA CommandOpens ==
  ASSUME CatalogTypeOK, NEW a \in CatalogFiles, NEW p \in Commands,
         Directory!OpenFile(p, a)
  PROVE  /\ disk' \in [CatalogFiles -> Catalogs \cup {NoCatalog, Torn}]
         /\ disk'[a] = Torn
         /\ \A f \in CatalogFiles \ {a} : disk'[f] = disk[f]
         /\ writes' \in [Commands -> {Directory!Closed} \cup [at : {"file"}, file : CatalogFiles]]
         /\ writes'[p] = Directory!At("file", a)
         /\ \A q \in Commands \ {p} : writes'[q] = writes[q]
<1>1. Directory!At("file", a) \in [at : {"file"}, file : CatalogFiles]
  BY DEF Directory!At
<1>2. QED BY <1>1 DEF CatalogTypeOK, Directory!OpenFile

LEMMA FillFacts ==
  ASSUME CatalogTypeOK, NEW p \in Commands, NEW x \in Catalogs, Fill(p, x)
  PROVE  /\ disk' \in [CatalogFiles -> Catalogs \cup {NoCatalog, Torn}]
         /\ writes' \in [Commands -> {Directory!Closed} \cup [at : {"file"}, file : CatalogFiles]]
         /\ writes'[p] = Directory!Closed
         /\ \A q \in Commands \ {p} : writes'[q] = writes[q]
         /\ \A f \in CatalogFiles : writes[p] = Directory!At("file", f) =>
              /\ disk'[f] = x
              /\ \A g \in CatalogFiles \ {f} : disk'[g] = disk[g]
<1>1. CASE writes[p] = Directory!Closed
  <2>1. \A f \in CatalogFiles : writes[p] # Directory!At("file", f)
    BY <1>1 DEF Directory!At, Directory!Closed
  <2>2. disk' = disk /\ writes' = writes
    BY <1>1 DEF Fill, Keeps
  <2>3. QED BY <1>1, <2>1, <2>2 DEF CatalogTypeOK
<1>2. CASE writes[p] # Directory!Closed
  <2>1. PICK g \in CatalogFiles : writes[p] = Directory!At("file", g)
    BY <1>2 DEF CatalogTypeOK, Directory!At
  <2>2. writes[p].file = g
    BY <2>1 DEF Directory!At
  <2>3. disk' = [disk EXCEPT ![g] = x] /\ writes' = [writes EXCEPT ![p] = Directory!Closed]
    BY <1>2, <2>1, <2>2 DEF Fill, Directory!Put
  <2>4. \A f \in CatalogFiles : writes[p] = Directory!At("file", f) => f = g
    BY <2>1 DEF Directory!At
  <2>5. QED BY <2>3, <2>4 DEF CatalogTypeOK
<1>3. QED BY <1>1, <1>2

CallType ==
  [do : {"none", "status", "refresh", "rollback"}, at : Steps,
   new : Catalogs \cup {Bundled}, got : Catalogs \cup {Bundled}]

\* A step changes the call of one command; what that carries decides the rest.
LEMMA OneChanges ==
  ASSUME CatalogTypeInv, NEW p \in Commands, NEW c \in CallType, Carries(c),
         command' = [command EXCEPT ![p] = c]
  PROVE  /\ command' \in [Commands -> CallType]
         /\ \A q \in Commands : Carries(command'[q])
         /\ command'[p] = c
         /\ \A q \in Commands \ {p} : command'[q] = command[q]
  BY DEF CatalogTypeInv, CatalogTypeOK, CallType

LEMMA GoOnFacts ==
  ASSUME CatalogTypeInv, NEW p \in Commands, NEW label \in Steps, GoOn(p, label),
         label \in Refreshing => command[p].new \in Catalogs,
         label \in Copying \cup {"finish"} => command[p].got \in Catalogs
  PROVE  /\ command' \in [Commands -> CallType]
         /\ \A q \in Commands : Carries(command'[q])
         /\ command'[p] = [command[p] EXCEPT !.at = label]
         /\ command'[p].at = label
         /\ command'[p].do = command[p].do /\ command'[p].new = command[p].new
         /\ command'[p].got = command[p].got
         /\ \A q \in Commands \ {p} : command'[q] = command[q]
<1> DEFINE c == [command[p] EXCEPT !.at = label]
<1>1. command[p] \in CallType /\ Carries(command[p])
  BY DEF CatalogTypeInv, CatalogTypeOK, CallType
<1>2. /\ c \in CallType /\ c.at = label /\ c.do = command[p].do
      /\ c.new = command[p].new /\ c.got = command[p].got
  BY <1>1 DEF CallType
<1>3. Carries(c)
  BY <1>1, <1>2 DEF Carries
<1>4. command' = [command EXCEPT ![p] = c]
  BY <1>1 DEF GoOn, CatalogTypeInv, CatalogTypeOK
<1> HIDE DEF c
<1>5. QED BY <1>2, <1>3, <1>4, OneChanges DEF c

LEMMA GoOnWithFacts ==
  ASSUME CatalogTypeInv, NEW p \in Commands, NEW label \in Steps \ Refreshing,
         NEW x \in Catalogs, GoOnWith(p, x, label)
  PROVE  /\ command' \in [Commands -> CallType]
         /\ \A q \in Commands : Carries(command'[q])
         /\ command'[p].at = label /\ command'[p].got = x
         /\ \A q \in Commands \ {p} : command'[q] = command[q]
<1> DEFINE c == [command[p] EXCEPT !.at = label, !.got = x]
<1>1. command[p] \in CallType /\ Carries(command[p])
  BY DEF CatalogTypeInv, CatalogTypeOK, CallType
<1>2. /\ c \in CallType /\ c.at = label /\ c.do = command[p].do
      /\ c.new = command[p].new /\ c.got = x
  BY <1>1 DEF CallType
<1>3. Carries(c)
  BY <1>1, <1>2 DEF Carries
<1>4. command' = [command EXCEPT ![p] = c]
  BY <1>1 DEF GoOnWith, CatalogTypeInv, CatalogTypeOK
<1> HIDE DEF c
<1>5. QED BY <1>2, <1>3, <1>4, OneChanges

LEMMA CommandEnds ==
  ASSUME CatalogTypeInv, NEW p \in Commands, EndCall(p)
  PROVE  /\ command' \in [Commands -> CallType]
         /\ \A q \in Commands : Carries(command'[q])
         /\ command'[p] = NoCommand
         /\ \A q \in Commands \ {p} : command'[q] = command[q]
<1>1. NoCommand \in CallType /\ Carries(NoCommand)
  BY DEF NoCommand, CallType, Steps, Carries, Refreshing, Copying
<1>2. QED BY <1>1, OneChanges DEF EndCall

LEMMA ReturnsFacts ==
  ASSUME CatalogTypeInv, NEW p \in Commands, NEW x, Returns(p, x)
  PROVE  /\ command' \in [Commands -> CallType]
         /\ \A q \in Commands : Carries(command'[q])
         /\ command'[p] = NoCommand \/ command'[p].at = "stage"
         /\ \A q \in Commands \ {p} : command'[q] = command[q]
<1>1. CASE EndCall(p)
  BY <1>1, CommandEnds
<1>2. CASE command[p].do = "refresh" /\ GoOn(p, "stage")
  <2>1. command[p].new \in Catalogs
    BY <1>2 DEF CatalogTypeInv, Carries
  <2>2. "stage" \in Steps /\ "stage" \notin Copying \cup {"finish"}
    BY DEF Steps, Copying
  <2>3. QED BY <1>2, <2>1, <2>2, GoOnFacts
<1>3. QED BY <1>1, <1>2 DEF Returns

-----------------------------------------------------------------------------
(* The forms a step has.                                                   *)

FilesTyped ==
  /\ disk \in [CatalogFiles -> Catalogs \cup {NoCatalog, Torn}]
  /\ writes \in [Commands -> {Directory!Closed} \cup [at : {"file"}, file : CatalogFiles]]
CallsTyped ==
  /\ command \in [Commands -> CallType]
  /\ \A p \in Commands : Carries(command[p])

\* The others keep what they have; a descriptor that is closed stays closed.
OthersStay(p) ==
  \A q \in Commands \ {p} :
    /\ command'[q] = command[q]
    /\ writes[q] = Directory!Closed => writes'[q] = Directory!Closed

\* The call of p goes on at a label with what it carries.
AtLabel(p, label) ==
  /\ command'[p].at = label /\ command'[p].new = command[p].new
  /\ command'[p].got = command[p].got

SameFiles == disk' = disk /\ writes' = writes
Moved(a, b) ==
  /\ disk'[b] = disk[a] /\ disk'[a] = NoCatalog
  /\ \A f \in CatalogFiles \ {a, b} : disk'[f] = disk[f]

Fits(p, label) ==
  /\ label \in Steps
  /\ label \in Refreshing => command[p].new \in Catalogs
  /\ label \in Copying \cup {"finish"} => command[p].got \in Catalogs

LEMMA SameTyped ==
  ASSUME CatalogTypeInv, SameFiles
  PROVE  FilesTyped'
  BY DEF CatalogTypeInv, CatalogTypeOK, SameFiles, FilesTyped

LEMMA AsksFacts ==
  ASSUME CatalogTypeInv, NEW p \in Commands, NEW f, NEW yes, NEW no,
         Fits(p, yes), Fits(p, no), Asks(p, f, yes, no)
  PROVE  /\ FilesTyped' /\ CallsTyped' /\ OthersStay(p) /\ SameFiles
         /\ may' = may /\ overlapped' = overlapped
         /\ IF IsFile(f) THEN AtLabel(p, yes) ELSE AtLabel(p, no)
<1>1. SameFiles /\ may' = may /\ overlapped' = overlapped
  BY DEF Asks, Keeps, Silent, SameFiles
<1>2. CASE IsFile(f)
  <2>1. GoOn(p, yes)
    BY <1>2 DEF Asks
  <2>2. QED BY <1>1, <1>2, <2>1, SameTyped, GoOnFacts
            DEF Fits, CallsTyped, OthersStay, AtLabel, SameFiles
<1>3. CASE ~ IsFile(f)
  <2>1. GoOn(p, no)
    BY <1>3 DEF Asks
  <2>2. QED BY <1>1, <1>3, <2>1, SameTyped, GoOnFacts
            DEF Fits, CallsTyped, OthersStay, AtLabel, SameFiles
<1>4. QED BY <1>2, <1>3

LEMMA MovesFacts ==
  ASSUME CatalogTypeInv, NEW p \in Commands, NEW a \in CatalogFiles,
         NEW b \in CatalogFiles, a # b, NEW label, Fits(p, label),
         Moves(p, a, b, label)
  PROVE  /\ FilesTyped' /\ CallsTyped' /\ OthersStay(p)
         /\ writes[p] = Directory!Closed => writes'[p] = Directory!Closed
         /\ \/ IsFile(a) /\ Moved(a, b) /\ AtLabel(p, label)
            \/ ~ IsFile(a) /\ SameFiles /\ command'[p] = NoCommand
<1>1. CASE IsFile(a)
  <2>1. Directory!RenameFile(a, b) /\ GoOn(p, label) /\ CatalogTypeOK
    BY <1>1 DEF Moves, CatalogTypeInv
  <2>2. /\ FilesTyped' /\ Moved(a, b)
        /\ \A q \in Commands : writes[q] = Directory!Closed => writes'[q] = Directory!Closed
    BY <2>1, RenameFacts DEF FilesTyped, Moved
  <2>3. QED BY <1>1, <2>1, <2>2, GoOnFacts DEF Fits, CallsTyped, OthersStay, AtLabel
<1>2. CASE ~ IsFile(a)
  BY <1>2, SameTyped, CommandEnds DEF Moves, Keeps, SameFiles, CallsTyped, OthersStay
<1>3. QED BY <1>1, <1>2

LEMMA RemovesFacts ==
  ASSUME CatalogTypeInv, NEW p \in Commands, NEW a \in CatalogFiles,
         NEW label, Fits(p, label), Removes(p, a, label)
  PROVE  /\ FilesTyped' /\ CallsTyped' /\ OthersStay(p)
         /\ writes[p] = Directory!Closed => writes'[p] = Directory!Closed
         /\ \/ /\ IsFile(a) /\ AtLabel(p, label) /\ disk'[a] = NoCatalog
               /\ \A f \in CatalogFiles \ {a} : disk'[f] = disk[f]
            \/ ~ IsFile(a) /\ SameFiles /\ command'[p] = NoCommand
<1>1. CASE IsFile(a)
  <2>1. Directory!RemoveFile(a) /\ GoOn(p, label) /\ CatalogTypeOK
    BY <1>1 DEF Removes, CatalogTypeInv
  <2>2. /\ FilesTyped' /\ disk'[a] = NoCatalog
        /\ \A f \in CatalogFiles \ {a} : disk'[f] = disk[f]
        /\ \A q \in Commands : writes[q] = Directory!Closed => writes'[q] = Directory!Closed
    BY <2>1, CommandRemoves DEF FilesTyped
  <2>3. QED BY <1>1, <2>1, <2>2, GoOnFacts DEF Fits, CallsTyped, OthersStay, AtLabel
<1>2. CASE ~ IsFile(a)
  BY <1>2, SameTyped, CommandEnds DEF Removes, Keeps, SameFiles, CallsTyped, OthersStay
<1>3. QED BY <1>1, <1>2

LEMMA BecomesFacts ==
  ASSUME CatalogTypeInv, NEW p \in Commands, NEW a \in CatalogFiles, a # "active",
         "active" \in CatalogFiles, BecomesActive(p, a)
  PROVE  /\ FilesTyped' /\ CallsTyped' /\ OthersStay(p)
         /\ writes[p] = Directory!Closed => writes'[p] = Directory!Closed
         /\ overlapped' = overlapped
         /\ \/ /\ IsFile(a) /\ Moved(a, "active") /\ may' = {command[p].got}
               /\ command'[p] = NoCommand \/ command'[p].at = "stage"
            \/ ~ IsFile(a) /\ SameFiles /\ may' = may /\ command'[p] = NoCommand
<1>1. CASE IsFile(a)
  <2>1. /\ Directory!RenameFile(a, "active") /\ CatalogTypeOK
        /\ Returns(p, command[p].got) /\ may' = {command[p].got}
        /\ overlapped' = overlapped
    BY <1>1 DEF BecomesActive, Reports, CatalogTypeInv
  <2>2. /\ FilesTyped' /\ Moved(a, "active")
        /\ \A q \in Commands : writes[q] = Directory!Closed => writes'[q] = Directory!Closed
    BY <2>1, RenameFacts DEF FilesTyped, Moved
  <2>3. QED BY <1>1, <2>1, <2>2, ReturnsFacts DEF CallsTyped, OthersStay
<1>2. CASE ~ IsFile(a)
  BY <1>2, SameTyped, CommandEnds
     DEF BecomesActive, Keeps, Silent, SameFiles, CallsTyped, OthersStay
<1>3. QED BY <1>1, <1>2

-----------------------------------------------------------------------------
(* The invariant.                                                          *)

LEMMA Names ==
  /\ \A f \in {"active", "previous", "staged", "swap", "recovered", "corrupt"} :
       f \in CatalogFiles
  /\ CatalogFiles = {"active", "previous", "staged", "swap", "recovered", "corrupt"}
  BY DEF CatalogFiles

\* Both files the others may come from.
LEMMA OthersFacts ==
  Others \subseteq may <=>
    /\ disk["previous"] \in Catalogs => disk["previous"] \in may
    /\ disk["staged"] \in Catalogs => disk["staged"] \in may
  BY DEF Others, ReadValid

\* The same of the state after a step.
LEMMA OthersAfter ==
  (Others \subseteq may)' <=>
    /\ disk'["previous"] \in Catalogs => disk'["previous"] \in may'
    /\ disk'["staged"] \in Catalogs => disk'["staged"] \in may'
  BY DEF Others, ReadValid

\* What the invariant says of the only command in a call.
Here(p) ==
  /\ NoneTorn /\ Safe /\ Knows(command[p])
  /\ writes[p] = Handle(command[p].at)

LEMMA HandleFacts ==
  /\ \A label : label \notin {"fill", "write"} => Handle(label) = Directory!Closed
  /\ Handle("fill") = Directory!At("file", "recovered")
  /\ Handle("write") = Directory!At("file", "staged")
  BY DEF Handle

LEMMA IdleKnows == Knows(NoCommand) /\ Handle(NoCommand.at) = Directory!Closed
  BY DEF Knows, NoCommand, Handle, ActiveThere, ActiveGone, PreviousThere, Copying,
         Refreshing

\* A call that ends and leaves the files alone.
LEMMA IdleAfter ==
  ASSUME NEW p \in Commands, NoneTorn, Safe, disk' = disk, may \subseteq may',
         command'[p] = NoCommand, writes'[p] = Directory!Closed
  PROVE  Here(p)'
<1>1. NoneTorn' /\ Safe'
  BY DEF NoneTorn, Safe, IsFile, Others, ReadValid
<1>2. Knows(command[p])'
  BY DEF Knows, NoCommand, ActiveThere, ActiveGone, PreviousThere, Copying, Refreshing
<1>3. QED BY <1>1, <1>2, IdleKnows DEF Here

LEMMA OnlyOne ==
  ASSUME CatalogTypeInv, CatalogInv, ~ overlapped, NEW p \in Commands,
         command[p] # NoCommand
  PROVE  /\ Here(p)
         /\ \A q \in Commands \ {p} :
              command[q] = NoCommand /\ writes[q] = Directory!Closed
<1>1. Here(p)
  BY DEF CatalogInv, Here
<1>2. \A q \in Commands \ {p} : command[q] = NoCommand
  BY DEF CatalogInv, OneCall
<1>3. \A q \in Commands \ {p} : writes[q] = Directory!Closed
  BY <1>2, IdleKnows DEF CatalogInv
<1>4. QED BY <1>1, <1>2, <1>3

LEMMA Together ==
  ASSUME CatalogTypeInv, CatalogInv, NEW p \in Commands, command[p] # NoCommand,
         FilesTyped', CallsTyped', OthersStay(p), overlapped' = overlapped,
         may' \subseteq Catalogs \cup {Bundled},
         ~ overlapped => Here(p)'
  PROVE  CatalogTypeInv' /\ CatalogInv'
<1>1. CatalogTypeInv'
  BY DEF CatalogTypeInv, CatalogTypeOK, FilesTyped, CallsTyped, CallType
<1>2. CASE overlapped
  <2>1. overlapped' BY <1>2
  <2>2. CatalogInv' BY <2>1, Zenon DEF CatalogInv
  <2>3. QED BY <1>1, <2>2
<1>3. CASE ~ overlapped
  <2>1. Here(p)'
    BY <1>3
  <2>2. \A q \in Commands \ {p} :
          command'[q] = NoCommand /\ writes'[q] = Directory!Closed
    BY <1>3, OnlyOne DEF OthersStay
  <2>3. OneCall'
    BY <2>2 DEF OneCall
  <2>4. Knows(NoCommand)'
    BY DEF Knows, NoCommand, ActiveThere, ActiveGone, PreviousThere, Copying, Refreshing
  <2>5. ASSUME NEW q \in Commands
        PROVE  Knows(command[q])' /\ writes'[q] = Handle(command'[q].at)
    <3>1. CASE q = p
      BY <2>1, <3>1 DEF Here
    <3>2. CASE q # p
      <4>1. command'[q] = NoCommand /\ writes'[q] = Directory!Closed
        BY <2>2, <3>2
      <4>2. Knows(command[q])'
        BY <2>4, <4>1 DEF Knows
      <4>3. QED BY <4>1, <4>2, IdleKnows
    <3>3. QED BY <3>1, <3>2
  <2>6. NoneTorn' /\ Safe'
    BY <2>1 DEF Here
  <2>7. CatalogInv' BY <2>3, <2>5, <2>6, Zenon DEF CatalogInv
  <2>8. QED BY <1>1, <2>7
<1>4. QED BY <1>1, <1>2, <1>3

LEMMA AskStep ==
  ASSUME CatalogTypeInv, CatalogInv, NEW p \in Commands,
         \/ LookActive(p) \/ Spare(p) \/ Keep(p) \/ Current(p) \/ Swap(p)
  PROVE  CatalogTypeInv' /\ CatalogInv'
<1> DEFINE label == command[p].at
<1>1. PICK f, yes, no :
        /\ Asks(p, f, yes, no)
        /\ <<label, f, yes, no>> \in
             {<<"look", "active", "read", "missing">>,
              <<"spare", "corrupt", "discard", "quarantine">>,
              <<"keep", "active", "older", "commit">>,
              <<"older", "previous", "forget", "retire">>,
              <<"current", "active", "aside", "back">>,
              <<"swap", "swap", "exchange", "look">>}
  BY DEF LookActive, Spare, Keep, Current, Swap, Reaches
<1>2. Carries(command[p]) /\ command[p] # NoCommand
  BY <1>1 DEF CatalogTypeInv, NoCommand
<1>3. Fits(p, yes) /\ Fits(p, no)
  BY <1>1, <1>2 DEF Fits, Carries, Steps, Refreshing, Copying
<1>4. /\ FilesTyped' /\ CallsTyped' /\ OthersStay(p) /\ SameFiles
      /\ may' = may /\ overlapped' = overlapped
      /\ IF IsFile(f) THEN AtLabel(p, yes) ELSE AtLabel(p, no)
  BY <1>1, <1>3, AsksFacts
<1>5. ASSUME ~ overlapped PROVE Here(p)'
  <2>1. Here(p)
    BY <1>2, <1>5, OnlyOne
  <2>2. NoneTorn' /\ Safe'
    BY <1>4, <2>1 DEF Here, NoneTorn, Safe, IsFile, SameFiles, Others, ReadValid
  <2>3. Knows(command[p])'
    BY <1>1, <1>4, <2>1 DEF Here, Knows, AtLabel, IsFile, SameFiles, Others, ReadValid,
       ActiveThere, ActiveGone, PreviousThere, Copying, Refreshing, Safe
  <2>4. writes'[p] = Handle(command'[p].at)
    BY <1>1, <1>4, <2>1, HandleFacts DEF Here, AtLabel, SameFiles
  <2>5. QED BY <2>2, <2>3, <2>4 DEF Here
<1>6. may' \subseteq Catalogs \cup {Bundled}
  BY <1>4 DEF CatalogTypeInv, CatalogTypeOK
<1>7. QED BY <1>2, <1>4, <1>5, <1>6, Together

LEMMA MoveStep ==
  ASSUME CatalogTypeInv, CatalogInv, NEW p \in Commands,
         Quarantined(p) \/ Retire(p) \/ Aside(p) \/ Back(p) \/ Exchange(p)
  PROVE  CatalogTypeInv' /\ CatalogInv'
<1> DEFINE label == command[p].at
<1>1. PICK a, b, next :
        /\ Moves(p, a, b, next)
        /\ <<label, a, b, next>> \in
             {<<"quarantine", "active", "corrupt", "replace">>,
              <<"retire", "active", "previous", "commit">>,
              <<"aside", "active", "swap", "back">>,
              <<"back", "previous", "active", "swap">>,
              <<"exchange", "swap", "previous", "look">>}
  BY DEF Quarantined, Retire, Aside, Back, Exchange, Reaches
<1>2. may' = may /\ overlapped' = overlapped
  BY DEF Quarantined, Retire, Aside, Back, Exchange, Silent
<1>3. Carries(command[p]) /\ command[p] # NoCommand
  BY <1>1 DEF CatalogTypeInv, NoCommand
<1>4. Fits(p, next) /\ a \in CatalogFiles /\ b \in CatalogFiles /\ a # b
  BY <1>1, <1>3, Names DEF Fits, Carries, Steps, Refreshing, Copying
<1>5. /\ FilesTyped' /\ CallsTyped' /\ OthersStay(p)
      /\ writes[p] = Directory!Closed => writes'[p] = Directory!Closed
      /\ \/ IsFile(a) /\ Moved(a, b) /\ AtLabel(p, next)
         \/ ~ IsFile(a) /\ SameFiles /\ command'[p] = NoCommand
  BY <1>1, <1>4, MovesFacts
<1>6. ASSUME ~ overlapped PROVE Here(p)'
  <2>1. Here(p)
    BY <1>3, <1>6, OnlyOne
  <2>2. writes'[p] = Directory!Closed
    BY <1>1, <1>5, <2>1, HandleFacts DEF Here
  <2>3. CASE SameFiles /\ command'[p] = NoCommand
    BY <1>2, <2>1, <2>2, <2>3, IdleAfter DEF Here, SameFiles
  <2>4. CASE IsFile(a) /\ Moved(a, b) /\ AtLabel(p, next)
    <3>1. disk["previous"] \notin {NoCatalog, Torn} => disk["previous"] \in Catalogs
      BY Names DEF CatalogTypeInv, CatalogTypeOK
    <3>2. NoneTorn' /\ Safe' /\ Knows(command[p])'
      <4>1. CASE <<label, a, b, next>> = <<"quarantine", "active", "corrupt", "replace">>
        BY <1>2, <2>1, <2>4, <4>1, Marks, Names, OthersFacts, OthersAfter
           DEF Here, Safe, NoneTorn, IsFile, Moved, AtLabel, Knows,
               ActiveThere, ActiveGone, PreviousThere, Copying, Refreshing
      <4>2. CASE <<label, a, b, next>> = <<"retire", "active", "previous", "commit">>
        BY <1>2, <2>1, <2>4, <4>2, Marks, Names, OthersFacts, OthersAfter
           DEF Here, Safe, NoneTorn, IsFile, Moved, AtLabel, Knows,
               ActiveThere, ActiveGone, PreviousThere, Copying, Refreshing
      <4>3. CASE <<label, a, b, next>> = <<"aside", "active", "swap", "back">>
        BY <1>2, <2>1, <2>4, <4>3, Marks, Names, OthersFacts, OthersAfter
           DEF Here, Safe, NoneTorn, IsFile, Moved, AtLabel, Knows,
               ActiveThere, ActiveGone, PreviousThere, Copying, Refreshing
      <4>4. CASE <<label, a, b, next>> = <<"back", "previous", "active", "swap">>
        BY <1>2, <2>1, <2>4, <3>1, <4>4, Marks, Names, OthersFacts, OthersAfter
           DEF Here, Safe, NoneTorn, IsFile, Moved, AtLabel, Knows,
               ActiveThere, ActiveGone, PreviousThere, Copying, Refreshing
      <4>5. CASE <<label, a, b, next>> = <<"exchange", "swap", "previous", "look">>
        BY <1>2, <2>1, <2>4, <4>5, Marks, Names, OthersFacts, OthersAfter
           DEF Here, Safe, NoneTorn, IsFile, Moved, AtLabel, Knows,
               ActiveThere, ActiveGone, PreviousThere, Copying, Refreshing
      <4>6. QED BY <1>1, <4>1, <4>2, <4>3, <4>4, <4>5
    <3>3. writes'[p] = Handle(command'[p].at)
      BY <1>1, <2>2, <2>4, HandleFacts DEF AtLabel
    <3>4. QED BY <3>2, <3>3 DEF Here
  <2>5. QED BY <1>5, <2>3, <2>4
<1>7. may' \subseteq Catalogs \cup {Bundled}
  BY <1>2 DEF CatalogTypeInv, CatalogTypeOK
<1>8. QED BY <1>2, <1>3, <1>5, <1>6, <1>7, Together

\* A call that ends without an error leaves nothing open; the rest is as it was.
LEMMA EndStep ==
  ASSUME CatalogTypeInv, CatalogInv, NEW p \in Commands, command[p] # NoCommand,
         EndCall(p), disk' = disk, may \subseteq may',
         may' \subseteq Catalogs \cup {Bundled}, overlapped' = overlapped,
         \/ writes' = [writes EXCEPT ![p] = Directory!Closed]
         \/ writes' = writes /\ command[p].at \notin {"fill", "write"}
  PROVE  CatalogTypeInv' /\ CatalogInv'
<1>1. FilesTyped' /\ \A q \in Commands : writes[q] = Directory!Closed => writes'[q] = Directory!Closed
  BY DEF FilesTyped, CatalogTypeInv, CatalogTypeOK
<1>2. CallsTyped' /\ OthersStay(p) /\ command'[p] = NoCommand
  BY <1>1, CommandEnds DEF CallsTyped, OthersStay
<1>3. ASSUME ~ overlapped PROVE Here(p)'
  <2>1. Here(p)
    BY <1>3, OnlyOne
  <2>2. writes'[p] = Directory!Closed
    BY <2>1, HandleFacts DEF Here, CatalogTypeInv, CatalogTypeOK
  <2>3. QED BY <1>2, <2>1, <2>2, IdleAfter DEF Here
<1>4. QED BY <1>1, <1>2, <1>3, Together

\* A call that goes on and has changed no file.
LEMMA GoStep ==
  ASSUME CatalogTypeInv, CatalogInv, NEW p \in Commands, command[p] # NoCommand,
         NEW label \in Steps, disk' = disk,
         CallsTyped', command'[p].at = label,
         \A q \in Commands \ {p} : command'[q] = command[q],
         label \notin {"fill", "write"}, may \subseteq may',
         may' \subseteq Catalogs \cup {Bundled}, overlapped' = overlapped,
         \/ writes' = [writes EXCEPT ![p] = Directory!Closed]
         \/ writes' = writes /\ command[p].at \notin {"fill", "write"},
         ~ overlapped => (Here(p) => Knows(command[p])')
  PROVE  CatalogTypeInv' /\ CatalogInv'
<1>1. FilesTyped' /\ \A q \in Commands : writes[q] = Directory!Closed => writes'[q] = Directory!Closed
  BY DEF FilesTyped, CatalogTypeInv, CatalogTypeOK
<1>2. OthersStay(p)
  BY <1>1 DEF OthersStay
<1>3. ASSUME ~ overlapped PROVE Here(p)'
  <2>1. Here(p)
    BY <1>3, OnlyOne
  <2>2. writes'[p] = Directory!Closed
    BY <2>1, HandleFacts DEF Here, CatalogTypeInv, CatalogTypeOK
  <2>3. NoneTorn' /\ Safe'
    BY <2>1, OthersFacts, OthersAfter DEF Here, NoneTorn, Safe, IsFile
  <2>4. Knows(command[p])'
    BY <1>3, <2>1
  <2>5. QED BY <2>2, <2>3, <2>4, HandleFacts DEF Here
<1>4. QED BY <1>1, <1>2, <1>3, Together

LEMMA RemoveStep ==
  ASSUME CatalogTypeInv, CatalogInv, NEW p \in Commands, Discard(p) \/ Forget(p)
  PROVE  CatalogTypeInv' /\ CatalogInv'
<1> DEFINE label == command[p].at
<1>1. PICK a, next :
        /\ Removes(p, a, next)
        /\ <<label, a, next>> \in
             {<<"discard", "corrupt", "quarantine">>, <<"forget", "previous", "retire">>}
  BY DEF Discard, Forget, Reaches
<1>2. may' = may /\ overlapped' = overlapped
  BY DEF Discard, Forget, Silent
<1>3. Carries(command[p]) /\ command[p] # NoCommand
  BY <1>1 DEF CatalogTypeInv, NoCommand
<1>4. Fits(p, next) /\ a \in CatalogFiles
  BY <1>1, <1>3, Names DEF Fits, Carries, Steps, Refreshing, Copying
<1>5. /\ FilesTyped' /\ CallsTyped' /\ OthersStay(p)
      /\ writes[p] = Directory!Closed => writes'[p] = Directory!Closed
      /\ \/ /\ IsFile(a) /\ AtLabel(p, next) /\ disk'[a] = NoCatalog
            /\ \A f \in CatalogFiles \ {a} : disk'[f] = disk[f]
         \/ ~ IsFile(a) /\ SameFiles /\ command'[p] = NoCommand
  BY <1>1, <1>4, RemovesFacts
<1>6. ASSUME ~ overlapped PROVE Here(p)'
  <2>1. Here(p)
    BY <1>3, <1>6, OnlyOne
  <2>2. writes'[p] = Directory!Closed
    BY <1>1, <1>5, <2>1, HandleFacts DEF Here
  <2>3. CASE SameFiles /\ command'[p] = NoCommand
    BY <1>2, <2>1, <2>2, <2>3, IdleAfter DEF Here, SameFiles
  <2>4. CASE /\ IsFile(a) /\ AtLabel(p, next) /\ disk'[a] = NoCatalog
             /\ \A f \in CatalogFiles \ {a} : disk'[f] = disk[f]
    <3>1. NoneTorn' /\ Safe' /\ Knows(command[p])'
      <4>1. CASE <<label, a, next>> = <<"discard", "corrupt", "quarantine">>
        BY <1>2, <2>1, <2>4, <4>1, Marks, Names, OthersFacts, OthersAfter
           DEF Here, Safe, NoneTorn, IsFile, AtLabel, Knows,
               ActiveThere, ActiveGone, PreviousThere, Copying, Refreshing
      <4>2. CASE <<label, a, next>> = <<"forget", "previous", "retire">>
        BY <1>2, <2>1, <2>4, <4>2, Marks, Names, OthersFacts, OthersAfter
           DEF Here, Safe, NoneTorn, IsFile, AtLabel, Knows,
               ActiveThere, ActiveGone, PreviousThere, Copying, Refreshing
      <4>3. QED BY <1>1, <4>1, <4>2
    <3>2. writes'[p] = Handle(command'[p].at)
      BY <1>1, <2>2, <2>4, HandleFacts DEF AtLabel
    <3>3. QED BY <3>1, <3>2 DEF Here
  <2>5. QED BY <1>5, <2>3, <2>4
<1>7. may' \subseteq Catalogs \cup {Bundled}
  BY <1>2 DEF CatalogTypeInv, CatalogTypeOK
<1>8. QED BY <1>2, <1>3, <1>5, <1>6, <1>7, Together

\* A file whose content the call has read becomes active.
LEMMA AdoptStep ==
  ASSUME CatalogTypeInv, CatalogInv, NEW p \in Commands, Replace(p) \/ Promote(p)
  PROVE  CatalogTypeInv' /\ CatalogInv'
<1> DEFINE label == command[p].at
<1>1. PICK a :
        /\ BecomesActive(p, a)
        /\ <<label, a>> \in
             {<<"replace", "recovered">>, <<"finish", "staged">>, <<"undone", "previous">>}
  BY DEF Replace, Promote, Reaches
<1>2. /\ Carries(command[p]) /\ command[p] # NoCommand
      /\ command[p].got \in Catalogs
  BY <1>1 DEF CatalogTypeInv, NoCommand, Carries, Copying
<1>3. a \in CatalogFiles /\ a # "active" /\ "active" \in CatalogFiles
  BY <1>1, Names
<1>4. /\ FilesTyped' /\ CallsTyped' /\ OthersStay(p)
      /\ writes[p] = Directory!Closed => writes'[p] = Directory!Closed
      /\ overlapped' = overlapped
      /\ \/ /\ IsFile(a) /\ Moved(a, "active") /\ may' = {command[p].got}
            /\ command'[p] = NoCommand \/ command'[p].at = "stage"
         \/ ~ IsFile(a) /\ SameFiles /\ may' = may /\ command'[p] = NoCommand
  BY <1>1, <1>3, BecomesFacts
<1>5. ASSUME ~ overlapped PROVE Here(p)'
  <2>1. Here(p)
    BY <1>2, <1>5, OnlyOne
  <2>2. writes'[p] = Directory!Closed
    BY <1>1, <1>4, <2>1, HandleFacts DEF Here
  <2>3. CASE SameFiles /\ may' = may /\ command'[p] = NoCommand
    BY <2>1, <2>2, <2>3, IdleAfter DEF Here, SameFiles
  <2>4. CASE /\ IsFile(a) /\ Moved(a, "active") /\ may' = {command[p].got}
             /\ command'[p] = NoCommand \/ command'[p].at = "stage"
    <3>1. disk[a] = command[p].got
      BY <1>1, <2>1 DEF Here, Knows, Copying
    <3>2. NoneTorn' /\ Safe'
      BY <1>1, <1>2, <2>1, <2>4, <3>1, Marks, Names
         DEF Here, NoneTorn, Safe, IsFile, Moved
    <3>3. Knows(command[p])' /\ writes'[p] = Handle(command'[p].at)
      BY <2>2, <2>4, HandleFacts
         DEF Knows, NoCommand, ActiveThere, ActiveGone, PreviousThere, Copying, Refreshing
    <3>4. QED BY <3>2, <3>3 DEF Here
  <2>5. QED BY <1>4, <2>3, <2>4
<1>6. may' \subseteq Catalogs \cup {Bundled}
  BY <1>2, <1>4 DEF CatalogTypeInv, CatalogTypeOK
<1>7. QED BY <1>2, <1>4, <1>5, <1>6, Together

LEMMA ReadStep ==
  ASSUME CatalogTypeInv, CatalogInv, NEW p \in Commands, Read(p)
  PROVE  CatalogTypeInv' /\ CatalogInv'
<1>1. command[p].at = "read" /\ command[p] # NoCommand /\ SameFiles
  BY DEF Read, Reaches, NoCommand, Keeps, SameFiles
<1>2. CASE ReadValid("active")
  <2>1. Returns(p, disk["active"]) /\ may' = {disk["active"]} /\ overlapped' = overlapped
    BY <1>2 DEF Read, Reports
  <2>2. /\ FilesTyped' /\ CallsTyped' /\ OthersStay(p)
        /\ command'[p] = NoCommand \/ command'[p].at = "stage"
    BY <1>1, <2>1, SameTyped, ReturnsFacts DEF CallsTyped, OthersStay, SameFiles
  <2>3. ASSUME ~ overlapped PROVE Here(p)'
    <3>1. Here(p)
      BY <1>1, <2>3, OnlyOne
    <3>2. writes'[p] = Handle(command'[p].at)
      BY <1>1, <2>2, <3>1, HandleFacts DEF Here, SameFiles, NoCommand
    <3>3. Knows(command[p])'
      BY <2>2 DEF Knows, NoCommand, ActiveThere, ActiveGone, PreviousThere, Copying,
                  Refreshing
    <3>4. NoneTorn' /\ Safe'
      BY <1>1, <1>2, <2>1, <3>1, Marks
         DEF Here, NoneTorn, Safe, IsFile, ReadValid, SameFiles
    <3>5. QED BY <3>2, <3>3, <3>4 DEF Here
  <2>4. may' \subseteq Catalogs \cup {Bundled}
    BY <1>2, <2>1 DEF ReadValid
  <2>5. QED BY <1>1, <2>1, <2>2, <2>3, <2>4, Together
<1>3. CASE ~ ReadValid("active")
  <2>1. GoOn(p, "unreadable") /\ may' = may /\ overlapped' = overlapped
    BY <1>3 DEF Read, Silent
  <2>2. "unreadable" \in Steps \ (Refreshing \cup Copying \cup {"finish"})
    BY DEF Steps, Refreshing, Copying
  <2>3. /\ CallsTyped' /\ command'[p].at = "unreadable"
        /\ \A q \in Commands \ {p} : command'[q] = command[q]
    BY <2>1, <2>2, GoOnFacts DEF CallsTyped
  <2>4. ~ Here(p)
    BY <1>1, <1>3, Names
       DEF CatalogTypeInv, CatalogTypeOK, Here, NoneTorn, Knows, IsFile, ReadValid,
           ActiveThere
  <2>5. may' \subseteq Catalogs \cup {Bundled}
    BY <2>1 DEF CatalogTypeInv, CatalogTypeOK
  <2>6. QED BY <1>1, <2>1, <2>2, <2>3, <2>4, <2>5, GoStep DEF SameFiles
<1>4. QED BY <1>2, <1>3

LEMMA UnreadableStep ==
  ASSUME CatalogTypeInv, CatalogInv, NEW p \in Commands, Unreadable(p)
  PROVE  CatalogTypeInv' /\ CatalogInv'
<1>1. /\ command[p].at = "unreadable" /\ command[p] # NoCommand
      /\ disk' = disk /\ writes' = writes /\ may' = may /\ overlapped' = overlapped
  BY DEF Unreadable, Reaches, NoCommand, Keeps, Silent
<1>2. may' \subseteq Catalogs \cup {Bundled}
  BY <1>1 DEF CatalogTypeInv, CatalogTypeOK
<1>3. CASE ReadValid("previous")
  <2>1. GoOnWith(p, disk["previous"], "copy") /\ disk["previous"] \in Catalogs
    BY <1>3 DEF Unreadable, ReadValid
  <2>2. "copy" \in Steps \ Refreshing
    BY DEF Steps, Refreshing
  <2>3. /\ CallsTyped' /\ command'[p].at = "copy" /\ command'[p].got = disk["previous"]
        /\ \A q \in Commands \ {p} : command'[q] = command[q]
    BY <2>1, <2>2, GoOnWithFacts DEF CallsTyped
  <2>4. Here(p) => Knows(command[p])'
    BY <1>1, <2>1, <2>3, Marks, OthersFacts, OthersAfter
       DEF Here, Knows, IsFile, ActiveThere, ActiveGone, PreviousThere, Copying, Refreshing
  <2>5. QED BY <1>1, <1>2, <2>2, <2>3, <2>4, GoStep
<1>4. CASE ~ ReadValid("previous")
  BY <1>1, <1>2, <1>4, EndStep DEF Unreadable
<1>5. QED BY <1>3, <1>4

\* A file that no call relies on is opened, and so emptied.
LEMMA OpenStep ==
  ASSUME CatalogTypeInv, CatalogInv, NEW p \in Commands,
         OpenRecovered(p) \/ OpenStaged(p)
  PROVE  CatalogTypeInv' /\ CatalogInv'
<1>1. PICK f, next :
        /\ Directory!OpenFile(p, f) /\ GoOn(p, next)
        /\ may \subseteq may' /\ may' \subseteq may \cup {command[p].new}
        /\ next = "write" => command[p].new \in may'
        /\ overlapped' = overlapped
        /\ <<command[p].at, f, next>> \in
             {<<"copy", "recovered", "fill">>, <<"stage", "staged", "write">>}
  BY DEF OpenRecovered, OpenStaged, Reaches, Silent
<1>2. /\ Carries(command[p]) /\ command[p] # NoCommand
      /\ command[p].new \in Catalogs \cup {Bundled}
  BY <1>1 DEF CatalogTypeInv, CatalogTypeOK, NoCommand
<1>3. Fits(p, next) /\ f \in CatalogFiles
  BY <1>1, <1>2, Names DEF Fits, Carries, Steps, Refreshing, Copying
<1>4. CallsTyped' /\ AtLabel(p, next) /\ \A q \in Commands \ {p} : command'[q] = command[q]
  BY <1>1, <1>3, GoOnFacts DEF CallsTyped, AtLabel, Fits
<1>5. /\ FilesTyped' /\ disk'[f] = Torn
      /\ \A g \in CatalogFiles \ {f} : disk'[g] = disk[g]
      /\ writes'[p] = Directory!At("file", f)
      /\ \A q \in Commands \ {p} : writes'[q] = writes[q]
  BY <1>1, <1>3, CommandOpens DEF CatalogTypeInv, FilesTyped
<1>6. ASSUME ~ overlapped PROVE Here(p)'
  <2>1. Here(p)
    BY <1>2, <1>6, OnlyOne
  <2>2. writes'[p] = Handle(command'[p].at)
    BY <1>1, <1>4, <1>5, HandleFacts DEF AtLabel
  <2>3. CASE f = "recovered" /\ next = "fill" /\ command[p].at = "copy"
    BY <1>1, <1>4, <1>5, <2>1, <2>2, <2>3, Marks, Names, OthersFacts, OthersAfter
       DEF Here, Safe, NoneTorn, IsFile, AtLabel, Knows,
           ActiveThere, ActiveGone, PreviousThere, Copying, Refreshing
  <2>4. CASE f = "staged" /\ next = "write" /\ command[p].at = "stage"
    BY <1>1, <1>4, <1>5, <2>1, <2>2, <2>4, Marks, Names, OthersFacts, OthersAfter
       DEF Here, Safe, NoneTorn, IsFile, AtLabel, Knows,
           ActiveThere, ActiveGone, PreviousThere, Copying, Refreshing
  <2>5. QED BY <1>1, <2>3, <2>4
<1>7. may' \subseteq Catalogs \cup {Bundled}
  BY <1>1, <1>2 DEF CatalogTypeInv, CatalogTypeOK
<1>8. OthersStay(p)
  BY <1>4, <1>5 DEF OthersStay
<1>9. QED BY <1>1, <1>2, <1>4, <1>5, <1>6, <1>7, <1>8, Together

\* It is written, and closed.
LEMMA WriteStep ==
  ASSUME CatalogTypeInv, CatalogInv, NEW p \in Commands,
         WriteRecovered(p) \/ WriteStaged(p)
  PROVE  CatalogTypeInv' /\ CatalogInv'
<1>1. PICK f, x, next :
        /\ Fill(p, x) /\ GoOn(p, next)
        /\ may' = may /\ overlapped' = overlapped
        /\ <<command[p].at, f, x, next>> \in
             {<<"fill", "recovered", command[p].got, "spare">>,
              <<"write", "staged", command[p].new, "reread">>}
  BY DEF WriteRecovered, WriteStaged, Reaches, Silent
<1>2. /\ Carries(command[p]) /\ command[p] # NoCommand
  BY <1>1 DEF CatalogTypeInv, NoCommand
<1>3. Fits(p, next) /\ f \in CatalogFiles /\ x \in Catalogs
  BY <1>1, <1>2, Names DEF Fits, Carries, Steps, Refreshing, Copying
<1>4. CallsTyped' /\ AtLabel(p, next) /\ \A q \in Commands \ {p} : command'[q] = command[q]
  BY <1>1, <1>3, GoOnFacts DEF CallsTyped, AtLabel, Fits
<1>5. /\ FilesTyped'
      /\ writes'[p] = Directory!Closed
      /\ \A q \in Commands \ {p} : writes'[q] = writes[q]
      /\ writes[p] = Directory!At("file", f) =>
           /\ disk'[f] = x
           /\ \A g \in CatalogFiles \ {f} : disk'[g] = disk[g]
  BY <1>1, <1>3, FillFacts DEF CatalogTypeInv, FilesTyped
<1>6. ASSUME ~ overlapped PROVE Here(p)'
  <2>1. Here(p)
    BY <1>2, <1>6, OnlyOne
  <2>2. /\ disk'[f] = x
        /\ \A g \in CatalogFiles \ {f} : disk'[g] = disk[g]
    BY <1>1, <1>5, <2>1, HandleFacts DEF Here
  <2>3. writes'[p] = Handle(command'[p].at)
    BY <1>1, <1>4, <1>5, HandleFacts DEF AtLabel
  <2>4. CASE f = "recovered" /\ x = command[p].got /\ next = "spare" /\ command[p].at = "fill"
    BY <1>1, <1>4, <2>1, <2>2, <2>3, <2>4, Marks, Names, OthersFacts, OthersAfter
       DEF Here, Safe, NoneTorn, IsFile, AtLabel, Knows,
           ActiveThere, ActiveGone, PreviousThere, Copying, Refreshing
  <2>5. CASE f = "staged" /\ x = command[p].new /\ next = "reread" /\ command[p].at = "write"
    BY <1>1, <1>4, <2>1, <2>2, <2>3, <2>5, Marks, Names, OthersFacts, OthersAfter
       DEF Here, Safe, NoneTorn, IsFile, AtLabel, Knows,
           ActiveThere, ActiveGone, PreviousThere, Copying, Refreshing
  <2>6. QED BY <1>1, <2>4, <2>5
<1>7. may' \subseteq Catalogs \cup {Bundled}
  BY <1>1 DEF CatalogTypeInv, CatalogTypeOK
<1>8. OthersStay(p)
  BY <1>4, <1>5 DEF OthersStay
<1>9. QED BY <1>1, <1>2, <1>4, <1>5, <1>6, <1>7, <1>8, Together

LEMMA TryStep ==
  ASSUME CatalogTypeInv, CatalogInv, NEW p \in Commands, TryStaged(p) \/ TryPrevious(p)
  PROVE  CatalogTypeInv' /\ CatalogInv'
<1>1. PICK f, label, otherwise :
        /\ Candidate(p, f, label, otherwise)
        /\ <<command[p].at, f, label, otherwise>> \in
             {<<"missing", "staged", "finish", "fallback">>,
              <<"fallback", "previous", "undone", "bundled">>}
  BY DEF TryStaged, TryPrevious, Reaches
<1>2. /\ command[p] # NoCommand /\ disk' = disk /\ writes' = writes
      /\ may' = may /\ overlapped' = overlapped
      /\ command[p].at \notin {"fill", "write"}
  BY <1>1 DEF Candidate, NoCommand, Keeps, Silent
<1>3. may' \subseteq Catalogs \cup {Bundled}
  BY <1>2 DEF CatalogTypeInv, CatalogTypeOK
<1>4. CASE ReadValid(f)
  <2>1. GoOnWith(p, disk[f], label) /\ disk[f] \in Catalogs
    BY <1>1, <1>4 DEF Candidate, ReadValid
  <2>2. label \in Steps \ Refreshing /\ label \notin {"fill", "write"}
    BY <1>1 DEF Steps, Refreshing
  <2>3. /\ CallsTyped' /\ command'[p].at = label /\ command'[p].got = disk[f]
        /\ \A q \in Commands \ {p} : command'[q] = command[q]
    BY <2>1, <2>2, GoOnWithFacts DEF CallsTyped
  <2>4. Here(p) => Knows(command[p])'
    BY <1>1, <1>2, <2>1, <2>3, Marks, OthersFacts, OthersAfter
       DEF Here, Safe, Knows, IsFile, ActiveThere, ActiveGone, PreviousThere, Copying,
           Refreshing
  <2>5. QED BY <1>2, <1>3, <2>2, <2>3, <2>4, GoStep
<1>5. CASE ~ ReadValid(f)
  <2>1. GoOn(p, otherwise)
    BY <1>1, <1>5 DEF Candidate
  <2>2. /\ otherwise \in Steps \ (Refreshing \cup Copying \cup {"finish"})
        /\ otherwise \notin {"fill", "write"}
    BY <1>1 DEF Steps, Refreshing, Copying
  <2>3. /\ CallsTyped' /\ command'[p].at = otherwise
        /\ \A q \in Commands \ {p} : command'[q] = command[q]
    BY <2>1, <2>2, GoOnFacts DEF CallsTyped
  <2>4. Here(p) => Knows(command[p])'
    BY <1>1, <1>2, <2>3
       DEF Here, Knows, IsFile, ActiveThere, ActiveGone, PreviousThere, Copying, Refreshing
  <2>5. QED BY <1>2, <1>3, <2>2, <2>3, <2>4, GoStep
<1>6. QED BY <1>4, <1>5

LEMMA BundledStep ==
  ASSUME CatalogTypeInv, CatalogInv, NEW p \in Commands, UseBundled(p)
  PROVE  CatalogTypeInv' /\ CatalogInv'
<1>1. /\ command[p].at = "bundled" /\ command[p] # NoCommand /\ Returns(p, Bundled)
      /\ disk' = disk /\ writes' = writes /\ may' = may /\ overlapped' = overlapped
  BY DEF UseBundled, Reaches, NoCommand, Keeps, Silent
<1>2. may' \subseteq Catalogs \cup {Bundled}
  BY <1>1 DEF CatalogTypeInv, CatalogTypeOK
<1>3. /\ CallsTyped' /\ command'[p].at \in {"end", "stage"}
      /\ \A q \in Commands \ {p} : command'[q] = command[q]
  BY <1>1, ReturnsFacts DEF CallsTyped, NoCommand
<1>4. Knows(command[p])'
  BY <1>3 DEF Knows, ActiveThere, ActiveGone, PreviousThere, Copying, Refreshing
<1>5. command'[p].at \in Steps \ {"fill", "write"}
  BY <1>3 DEF Steps
<1>6. QED BY <1>1, <1>2, <1>3, <1>4, <1>5, GoStep

\* What a refresh asks before and after the commit.
LEMMA DecideStep ==
  ASSUME CatalogTypeInv, CatalogInv, NEW p \in Commands, Reread(p) \/ Failed(p)
  PROVE  CatalogTypeInv' /\ CatalogInv'
<1>1. /\ command[p].at \in {"reread", "failed", "vacant"}
      /\ disk' = disk /\ writes' = writes /\ may' = may /\ overlapped' = overlapped
  BY DEF Reread, Failed, Reaches, Keeps, Silent
<1>2. command[p] # NoCommand /\ Carries(command[p])
  BY <1>1 DEF NoCommand, CatalogTypeInv
<1>3. may' \subseteq Catalogs \cup {Bundled}
  BY <1>1 DEF CatalogTypeInv, CatalogTypeOK
<1>4. CASE EndCall(p)
  BY <1>1, <1>2, <1>3, <1>4, EndStep
<1>5. ASSUME NEW next, GoOn(p, next),
             \/ command[p].at = "reread" /\ next = "keep"
             \/ command[p].at = "failed" /\ next = "vacant" /\ IsFile("previous")
             \/ command[p].at = "vacant" /\ next = "restore"
      PROVE  CatalogTypeInv' /\ CatalogInv'
  <2>1. Fits(p, next) /\ next \notin {"fill", "write"}
    BY <1>2, <1>5 DEF Fits, Carries, Steps, Refreshing, Copying
  <2>2. /\ CallsTyped' /\ AtLabel(p, next)
        /\ \A q \in Commands \ {p} : command'[q] = command[q]
    BY <1>5, <2>1, GoOnFacts DEF CallsTyped, AtLabel, Fits
  <2>3. Here(p) => Knows(command[p])'
    BY <1>1, <1>5, <2>2
       DEF AtLabel, Here, Knows, IsFile, ActiveThere, ActiveGone, PreviousThere, Copying,
           Refreshing
  <2>4. QED BY <1>1, <1>2, <1>3, <2>1, <2>2, <2>3, GoStep DEF AtLabel, Fits
<1>6. QED BY <1>4, <1>5 DEF Reread, Failed, Reaches

LEMMA CommitStep ==
  ASSUME CatalogTypeInv, CatalogInv, NEW p \in Commands, Commit(p)
  PROVE  CatalogTypeInv' /\ CatalogInv'
<1>1. /\ command[p].at = "commit" /\ command[p] # NoCommand /\ overlapped' = overlapped
  BY DEF Commit, Reaches, NoCommand
<1>2. command[p].new \in Catalogs
  BY <1>1 DEF CatalogTypeInv, Carries, Refreshing
<1>3. CASE IsFile("staged")
  <2>1. Directory!RenameFile("staged", "active") /\ EndCall(p) /\ may' = {command[p].new}
    BY <1>3 DEF Commit
  <2>2. /\ FilesTyped' /\ Moved("staged", "active")
        /\ \A q \in Commands : writes[q] = Directory!Closed => writes'[q] = Directory!Closed
    BY <2>1, RenameFacts, Names DEF FilesTyped, Moved, CatalogTypeInv
  <2>3. CallsTyped' /\ OthersStay(p) /\ command'[p] = NoCommand
    BY <2>1, <2>2, CommandEnds DEF CallsTyped, OthersStay
  <2>4. ASSUME ~ overlapped PROVE Here(p)'
    <3>1. Here(p)
      BY <1>1, <2>4, OnlyOne
    <3>2. disk'["active"] = command[p].new
      BY <1>1, <2>2, <3>1 DEF Here, Knows, Moved, Refreshing
    <3>3. NoneTorn' /\ Safe'
      BY <1>2, <2>1, <2>2, <3>1, <3>2, Marks, Names
         DEF Here, NoneTorn, Safe, IsFile, Moved
    <3>4. Knows(command[p])'
      BY <2>3 DEF Knows, NoCommand, ActiveThere, ActiveGone, PreviousThere, Copying,
                  Refreshing
    <3>5. writes'[p] = Handle(command'[p].at)
      BY <1>1, <2>2, <2>3, <3>1, HandleFacts, IdleKnows DEF Here
    <3>6. QED BY <3>3, <3>4, <3>5 DEF Here
  <2>5. QED BY <1>1, <1>2, <2>1, <2>2, <2>3, <2>4, Together
<1>4. CASE ~ IsFile("staged")
  <2>1. GoOn(p, "failed") /\ disk' = disk /\ writes' = writes /\ may' = may
    BY <1>4 DEF Commit, Keeps
  <2>2. "failed" \in Steps \ (Refreshing \cup Copying \cup {"finish"})
    BY DEF Steps, Refreshing, Copying
  <2>3. /\ CallsTyped' /\ command'[p].at = "failed"
        /\ \A q \in Commands \ {p} : command'[q] = command[q]
    BY <2>1, <2>2, GoOnFacts DEF CallsTyped
  <2>4. Here(p) => Knows(command[p])'
    BY <1>1, <2>1, <2>3
       DEF Here, Knows, IsFile, ActiveThere, ActiveGone, PreviousThere, Copying, Refreshing
  <2>5. may' \subseteq Catalogs \cup {Bundled}
    BY <2>1 DEF CatalogTypeInv, CatalogTypeOK
  <2>6. QED BY <1>1, <2>1, <2>2, <2>3, <2>4, <2>5, GoStep
<1>5. QED BY <1>3, <1>4

LEMMA RestoreStep ==
  ASSUME CatalogTypeInv, CatalogInv, NEW p \in Commands, Restore(p)
  PROVE  CatalogTypeInv' /\ CatalogInv'
<1>1. /\ command[p].at = "restore" /\ command[p] # NoCommand
      /\ EndCall(p) /\ may' = may /\ overlapped' = overlapped
  BY DEF Restore, Reaches, NoCommand, Silent
<1>2. may' \subseteq Catalogs \cup {Bundled}
  BY <1>1 DEF CatalogTypeInv, CatalogTypeOK
<1>3. CASE IsFile("previous")
  <2>1. Directory!RenameFile("previous", "active")
    BY <1>3 DEF Restore
  <2>2. /\ FilesTyped' /\ Moved("previous", "active")
        /\ \A q \in Commands : writes[q] = Directory!Closed => writes'[q] = Directory!Closed
    BY <2>1, RenameFacts, Names DEF FilesTyped, Moved, CatalogTypeInv
  <2>3. CallsTyped' /\ OthersStay(p) /\ command'[p] = NoCommand
    BY <1>1, <2>2, CommandEnds DEF CallsTyped, OthersStay
  <2>4. ASSUME ~ overlapped PROVE Here(p)'
    <3>1. Here(p)
      BY <1>1, <2>4, OnlyOne
    <3>2. disk["previous"] \in Catalogs
      BY <1>3, <3>1, Names DEF Here, NoneTorn, IsFile, CatalogTypeInv, CatalogTypeOK
    <3>3. disk["previous"] \in may
      BY <1>1, <3>1, <3>2, OthersFacts DEF Here, Knows, Safe, ActiveGone
    <3>4. NoneTorn' /\ Safe'
      BY <1>1, <2>2, <3>1, <3>2, <3>3, Marks, Names
         DEF Here, NoneTorn, Safe, IsFile, Moved
    <3>5. Knows(command[p])'
      BY <2>3 DEF Knows, NoCommand, ActiveThere, ActiveGone, PreviousThere, Copying,
                  Refreshing
    <3>6. writes'[p] = Handle(command'[p].at)
      BY <1>1, <2>2, <2>3, <3>1, HandleFacts, IdleKnows DEF Here
    <3>7. QED BY <3>4, <3>5, <3>6 DEF Here
  <2>5. QED BY <1>1, <1>2, <2>2, <2>3, <2>4, Together
<1>4. CASE ~ IsFile("previous")
  BY <1>1, <1>2, <1>4, EndStep DEF Restore, Keeps
<1>5. QED BY <1>3, <1>4

LEMMA BeginStep ==
  ASSUME CatalogTypeInv, CatalogInv, NEW p \in Commands, BeginRollback(p)
  PROVE  CatalogTypeInv' /\ CatalogInv'
<1>1. /\ command[p].at = "begin" /\ command[p] # NoCommand
      /\ disk' = disk /\ writes' = writes /\ overlapped' = overlapped
  BY DEF BeginRollback, Reaches, NoCommand, Keeps
<1>2. CASE IsFile("previous")
  <2>1. GoOn(p, "current") /\ may' = may \cup Others
    BY <1>2 DEF BeginRollback
  <2>2. "current" \in Steps \ (Refreshing \cup Copying \cup {"finish"})
    BY DEF Steps, Refreshing, Copying
  <2>3. /\ CallsTyped' /\ command'[p].at = "current"
        /\ \A q \in Commands \ {p} : command'[q] = command[q]
    BY <2>1, <2>2, GoOnFacts DEF CallsTyped
  <2>4. Others' = Others
    BY <1>1 DEF Others, ReadValid
  <2>5. Knows(command[p])'
    BY <1>1, <1>2, <2>1, <2>3, <2>4
       DEF Knows, IsFile, ActiveThere, ActiveGone, PreviousThere, Copying, Refreshing
  <2>6. may' \subseteq Catalogs \cup {Bundled}
    BY <2>1 DEF CatalogTypeInv, CatalogTypeOK, Others, ReadValid
  <2>7. QED BY <1>1, <2>1, <2>2, <2>3, <2>5, <2>6, GoStep
<1>3. CASE ~ IsFile("previous")
  <2>1. EndCall(p) /\ may' = may
    BY <1>3 DEF BeginRollback
  <2>2. may' \subseteq Catalogs \cup {Bundled}
    BY <2>1 DEF CatalogTypeInv, CatalogTypeOK
  <2>3. QED BY <1>1, <2>1, <2>2, EndStep
<1>4. QED BY <1>2, <1>3

LEMMA FaultStep ==
  ASSUME CatalogTypeInv, CatalogInv, NEW p \in Commands, IOFault(p) \/ Kill(p)
  PROVE  CatalogTypeInv' /\ CatalogInv'
<1>1. /\ command[p] # NoCommand /\ disk' = disk /\ overlapped' = overlapped
      /\ writes' = [writes EXCEPT ![p] = Directory!Closed]
  BY DEF IOFault, Kill, Silent, Questions, NoCommand, Directory!Drop
<1>2. may \subseteq may' /\ may' \subseteq may \cup Others
  BY DEF IOFault, Kill, Silent
<1>3. may' \subseteq Catalogs \cup {Bundled}
  BY <1>2 DEF CatalogTypeInv, CatalogTypeOK, Others, ReadValid
<1>4. CASE EndCall(p)
  BY <1>1, <1>2, <1>3, <1>4, EndStep
<1>5. CASE IOFault(p) /\ command[p].at \in DOMAIN Survives
  <2>1. /\ command[p].at \in {"read", "missing", "fallback", "commit"}
        /\ GoOn(p, Survives[command[p].at])
    BY <1>5 DEF IOFault, Survives
  <2>2. PICK next : /\ next = Survives[command[p].at]
                    /\ \/ command[p].at = "read" /\ next = "unreadable"
                       \/ command[p].at = "missing" /\ next = "fallback"
                       \/ command[p].at = "fallback" /\ next = "bundled"
                       \/ command[p].at = "commit" /\ next = "failed"
    BY <2>1 DEF Survives
  <2>3. /\ next \in Steps \ (Refreshing \cup Copying \cup {"finish"})
        /\ next \notin {"fill", "write"} /\ GoOn(p, next)
    BY <2>1, <2>2 DEF Steps, Refreshing, Copying
  <2>4. /\ CallsTyped' /\ command'[p].at = next
        /\ \A q \in Commands \ {p} : command'[q] = command[q]
    BY <2>3, GoOnFacts DEF CallsTyped
  <2>5. next = "unreadable" => Others \subseteq may'
    BY <1>5, <2>2 DEF IOFault, Reaches
  <2>6. Others' = Others
    BY <1>1 DEF Others, ReadValid
  <2>7. Here(p) => Knows(command[p])'
    BY <1>1, <2>2, <2>4, <2>5, <2>6
       DEF Here, Knows, IsFile, ActiveThere, ActiveGone, PreviousThere, Copying, Refreshing
  <2>8. QED BY <1>1, <1>2, <1>3, <2>3, <2>4, <2>7, GoStep
<1>6. QED BY <1>4, <1>5 DEF IOFault, Kill

\* Another call begins; if one is under way, nothing is claimed from then on.
LEMMA CallStep ==
  ASSUME CatalogTypeInv, CatalogInv, NEW p \in Commands,
         Active(p) \/ Refresh(p) \/ Rollback(p)
  PROVE  CatalogTypeInv' /\ CatalogInv'
<1>1. PICK kind, label, x :
        /\ Call(p, kind, label, x)
        /\ <<kind, label>> \in
             {<<"status", "look">>, <<"refresh", "look">>, <<"rollback", "begin">>}
        /\ x \in Catalogs \cup {Bundled}
        /\ kind = "refresh" => x \in Catalogs
  BY DEF Active, Refresh, Rollback
<1> DEFINE c == [do |-> kind, at |-> label, new |-> x, got |-> Bundled]
<1>2. c \in CallType /\ Carries(c) /\ c.at = label
  BY <1>1 DEF CallType, Steps, Carries, Refreshing, Copying
<1>3. /\ command[p] = NoCommand
      /\ command' = [command EXCEPT ![p] = c]
      /\ disk' = disk /\ writes' = writes /\ may' = may
  BY <1>1 DEF Call, Keeps
<1>4. overlapped' = (overlapped \/ \E q \in Commands \ {p} : command[q] # NoCommand)
  BY <1>1 DEF Call
<1> HIDE DEF c
<1>5. /\ command' \in [Commands -> CallType]
      /\ \A q \in Commands : Carries(command'[q])
      /\ command'[p] = c
      /\ \A q \in Commands \ {p} : command'[q] = command[q]
  BY <1>2, <1>3, OneChanges
<1>6. overlapped' \in BOOLEAN
  BY <1>4, Zenon
<1>7. CatalogTypeInv'
  BY <1>3, <1>5, <1>6 DEF CatalogTypeInv, CatalogTypeOK, CallType
<1>8. CASE overlapped'
  <2>1. CatalogInv' BY <1>8, Zenon DEF CatalogInv
  <2>2. QED BY <1>7, <2>1
<1>9. CASE ~ overlapped'
  <2>1. ~ overlapped /\ \A q \in Commands \ {p} : command[q] = NoCommand
    BY <1>4, <1>9, Zenon
  <2>2. /\ NoneTorn /\ Safe
        /\ \A q \in Commands : writes[q] = Handle(command[q].at)
    BY <2>1, Zenon DEF CatalogInv
  <2>3. NoneTorn' /\ Safe'
    BY <1>3, <2>2 DEF NoneTorn, Safe, IsFile, Others, ReadValid
  <2>4. OneCall'
    BY <1>5, <2>1 DEF OneCall
  <2>5. ASSUME NEW q \in Commands
        PROVE  Knows(command[q])' /\ writes'[q] = Handle(command'[q].at)
    <3>1. command[q] = NoCommand
      BY <1>3, <2>1
    <3>2. command'[q].at \in {"end", "look", "begin"}
      BY <1>1, <1>2, <1>5, <3>1 DEF NoCommand
    <3>3. Knows(command[q])'
      BY <3>2 DEF Knows, ActiveThere, ActiveGone, PreviousThere, Copying, Refreshing
    <3>4. writes'[q] = Handle(command'[q].at)
      BY <1>3, <2>2, <3>1, <3>2, HandleFacts, IdleKnows
    <3>5. QED BY <3>3, <3>4
  <2>6. CatalogInv'
    BY <2>3, <2>4, <2>5, Zenon DEF CatalogInv
  <2>7. QED BY <1>7, <2>6
<1>10. QED BY <1>7, <1>8, <1>9

-----------------------------------------------------------------------------
(* The theorems.                                                           *)

LEMMA CatalogInvInit == CatalogInit => CatalogTypeInv /\ CatalogInv
<1> SUFFICES ASSUME CatalogInit PROVE CatalogTypeInv /\ CatalogInv
  OBVIOUS
<1>1. /\ disk \in [CatalogFiles -> {NoCatalog}] /\ may = {Bundled} /\ overlapped = FALSE
      /\ \A p \in Commands : writes[p] = Directory!Closed /\ command[p] = NoCommand
      /\ writes \in [Commands -> {Directory!Closed}]
      /\ command \in [Commands -> {NoCommand}]
  BY DEF CatalogInit
<1>2. NoCommand \in CallType /\ Carries(NoCommand)
  BY DEF NoCommand, CallType, Steps, Carries, Refreshing, Copying
<1>3. CatalogTypeInv
  BY <1>1, <1>2 DEF CatalogTypeInv, CatalogTypeOK, CallType
<1>4. NoneTorn /\ Safe /\ OneCall
  BY <1>1, Marks, Names DEF NoneTorn, Safe, IsFile, OneCall, Others, ReadValid
<1>5. \A p \in Commands : Knows(command[p]) /\ writes[p] = Handle(command[p].at)
  BY <1>1, IdleKnows
<1>6. CatalogInv
  BY <1>4, <1>5, Zenon DEF CatalogInv
<1>7. QED BY <1>3, <1>6

LEMMA CatalogInvNext ==
  CatalogTypeInv /\ CatalogInv /\ [CatalogNext]_catalogVars =>
    CatalogTypeInv' /\ CatalogInv'
<1> SUFFICES ASSUME CatalogTypeInv, CatalogInv, [CatalogNext]_catalogVars
             PROVE  CatalogTypeInv' /\ CatalogInv'
  OBVIOUS
<1>1. ASSUME NEW p \in Commands, CatalogStep(p)
      PROVE  CatalogTypeInv' /\ CatalogInv'
  BY <1>1, AskStep, MoveStep, RemoveStep, AdoptStep, ReadStep, UnreadableStep, OpenStep,
     WriteStep, TryStep, BundledStep, DecideStep, CommitStep, RestoreStep, BeginStep
     DEF CatalogStep
<1>2. CASE UNCHANGED catalogVars
  <2>1. /\ disk' = disk /\ writes' = writes /\ command' = command /\ may' = may
        /\ overlapped' = overlapped
    BY <1>2 DEF catalogVars
  <2>2. CatalogTypeInv'
    BY <2>1 DEF CatalogTypeInv, CatalogTypeOK
  <2>3. CatalogInv'
    BY <2>1 DEF CatalogInv, OneCall, NoneTorn, Safe, Knows, IsFile, Others, ReadValid
  <2>4. QED BY <2>2, <2>3
<1>3. QED BY <1>1, <1>2, CallStep, FaultStep DEF CatalogNext

\* From any of the three ways the catalog that active returns is one that may be
\* in force.
LEMMA CatalogInvHolds == CatalogTypeInv /\ CatalogInv => CatalogHolds
<1> SUFFICES ASSUME CatalogTypeInv, CatalogInv, ~ overlapped PROVE InForce \in may
  BY Zenon DEF CatalogHolds
<1>1. NoneTorn /\ Safe
  BY Zenon DEF CatalogInv
<1>2. \A f \in {"active", "previous"} : IsFile(f) => ReadValid(f)
  BY <1>1, Names DEF NoneTorn, IsFile, ReadValid, CatalogTypeInv, CatalogTypeOK
<1>3. ReadValid("previous") => IsFile("previous")
  BY Marks DEF ReadValid, IsFile
<1>4. CASE IsFile("active")
  <2>1. ReadValid("active")
    BY <1>2, <1>4
  <2>2. InForce = disk["active"]
    BY <1>4, <2>1 DEF InForce, CatalogIn
  <2>3. QED BY <1>1, <1>4, <2>2 DEF Safe
<1>5. CASE ~ IsFile("active")
  <2>1. ~ ReadValid("active")
    BY <1>5, Marks DEF ReadValid, IsFile
  <2>2. CASE ReadValid("staged")
    <3>1. InForce = disk["staged"]
      BY <1>5, <2>1, <2>2 DEF InForce, CatalogIn
    <3>2. QED BY <1>1, <1>5, <2>2, <3>1, OthersFacts DEF Safe, ReadValid
  <2>3. CASE ~ ReadValid("staged") /\ ReadValid("previous")
    <3>1. InForce = disk["previous"]
      BY <1>5, <2>1, <2>3 DEF InForce, CatalogIn
    <3>2. QED BY <1>1, <1>5, <2>3, <3>1, OthersFacts DEF Safe, ReadValid
  <2>4. CASE ~ ReadValid("staged") /\ ~ ReadValid("previous")
    <3>1. InForce = Bundled
      BY <1>5, <2>1, <2>4 DEF InForce, CatalogIn
    <3>2. QED BY <1>1, <1>2, <1>5, <2>4, <3>1 DEF Safe
  <2>5. QED BY <2>2, <2>3, <2>4
<1>6. QED BY <1>4, <1>5

\* What is kept of the catalogs always has its type: no file ever holds another
\* content, and no call is ever at a step that the code does not have.
THEOREM CatalogTypeCorrect == CatalogSpec => []CatalogTypeOK
<1>1. CatalogTypeInv /\ CatalogInv => CatalogTypeOK
  BY DEF CatalogTypeInv
<1>2. CatalogInit => CatalogTypeInv /\ CatalogInv
  BY CatalogInvInit
<1>3. CatalogTypeInv /\ CatalogInv /\ [CatalogNext]_<<catalogVars, budget>> =>
        (CatalogTypeInv /\ CatalogInv)'
  BY CatalogInvNext
<1>4. QED BY <1>1, <1>2, <1>3, PTL DEF CatalogSpec

\* Whatever call is cut off or fails, at any access to a file, the catalog in
\* force stays one that may be: it is never lost, unless calls overlap.
THEOREM CatalogStands == CatalogSpec => []CatalogHolds
<1>1. CatalogInit => CatalogTypeInv /\ CatalogInv
  BY CatalogInvInit
<1>2. CatalogTypeInv /\ CatalogInv /\ [CatalogNext]_<<catalogVars, budget>> =>
        (CatalogTypeInv /\ CatalogInv)'
  BY CatalogInvNext
<1>3. QED BY <1>1, <1>2, CatalogInvHolds, PTL DEF CatalogSpec
=============================================================================
