----------------------- MODULE TeamMailboxes_proofs -------------------------
(***************************************************************************)
(* Proofs about the mailboxes and signals of a team, for any leads,        *)
(* workers, operations, limit of a rotation and points of death.           *)
(*                                                                         *)
(* MailSteps turns each action into what it leaves to the next state; the  *)
(* invariants of TeamMailboxesProperties are then shown one by one to      *)
(* survive any such step.                                                  *)
(***************************************************************************)
EXTENDS TeamMailboxesProperties, FiniteSetTheorems, FunctionTheorems, SequenceTheorems,
        TLAPS

-----------------------------------------------------------------------------
(* Selections.                                                             *)

\* How many positions of a set are not beyond i: the rank of i.
LEMMA RankFacts ==
  ASSUME NEW n \in Nat, NEW I \in SUBSET (1 .. n)
  PROVE  /\ IsFiniteSet(I) /\ Cardinality(I) \in 0 .. n
         /\ \A i \in I : Cardinality(I \cap 1 .. i) \in 1 .. Cardinality(I)
         /\ \A i, j \in I : i < j => Cardinality(I \cap 1 .. i) < Cardinality(I \cap 1 .. j)
  <1>1. IsFiniteSet(I) /\ Cardinality(I) \in 0 .. n
    <2>1. IsFiniteSet(1 .. n) /\ Cardinality(1 .. n) = n
      BY FS_Interval
    <2>2. IsFiniteSet(I) /\ Cardinality(I) <= Cardinality(1 .. n)
      BY <2>1, FS_Subset
    <2>3. Cardinality(I) \in Nat
      BY <2>2, FS_CardinalityType
    <2>4. QED BY <2>1, <2>2, <2>3
  <1>2. \A i : /\ IsFiniteSet(I \cap 1 .. i) /\ Cardinality(I \cap 1 .. i) \in Nat
               /\ Cardinality(I \cap 1 .. i) <= Cardinality(I)
    <2> TAKE i
    <2>1. I \cap 1 .. i \in SUBSET I
      OBVIOUS
    <2>2. IsFiniteSet(I \cap 1 .. i) /\ Cardinality(I \cap 1 .. i) <= Cardinality(I)
      BY <1>1, <2>1, FS_Subset
    <2>3. QED BY <2>2, FS_CardinalityType
  <1>3. ASSUME NEW i \in I
        PROVE  Cardinality(I \cap 1 .. i) \in 1 .. Cardinality(I)
    <2>1. i \in I \cap 1 .. i
      OBVIOUS
    <2>2. Cardinality(I \cap 1 .. i) # 0
      BY <1>2, <2>1, FS_EmptySet
    <2>3. QED BY <1>1, <1>2, <2>2
  <1>4. ASSUME NEW i \in I, NEW j \in I, i < j
        PROVE  Cardinality(I \cap 1 .. i) < Cardinality(I \cap 1 .. j)
    <2>1. I \cap 1 .. i \in SUBSET (I \cap 1 .. j) /\ j \notin I \cap 1 .. i /\ j \in I \cap 1 .. j
      BY <1>4
    <2>2. /\ Cardinality(I \cap 1 .. i) <= Cardinality(I \cap 1 .. j)
          /\ Cardinality(I \cap 1 .. j) = Cardinality(I \cap 1 .. i) => I \cap 1 .. j = I \cap 1 .. i
      BY <1>2, <2>1, FS_Subset
    <2>3. Cardinality(I \cap 1 .. j) # Cardinality(I \cap 1 .. i)
      BY <2>1, <2>2
    <2>4. QED BY <1>2, <2>2, <2>3
  <1>5. QED BY <1>1, <1>3, <1>4

\* Nth lists a set of positions in order.
LEMMA NthFacts ==
  ASSUME NEW n \in Nat, NEW I \in SUBSET (1 .. n)
  PROVE  /\ \A k \in 1 .. Cardinality(I) : Nth(I, k) \in I /\ Cardinality(I \cap 1 .. Nth(I, k)) = k
         /\ \A i \in I : Nth(I, Cardinality(I \cap 1 .. i)) = i
         /\ \A k, l \in 1 .. Cardinality(I) : k < l <=> Nth(I, k) < Nth(I, l)
  <1> DEFINE rank == [i \in I |-> Cardinality(I \cap 1 .. i)]
             N == 1 .. Cardinality(I)
  <1>1. \A i, j \in I : rank[i] = rank[j] => i = j
    <2> TAKE i, j \in I
    <2>1. i \in Int /\ j \in Int
      OBVIOUS
    <2>2. /\ i < j => rank[i] < rank[j]
          /\ j < i => rank[j] < rank[i]
          /\ rank[i] \in Nat /\ rank[j] \in Nat
      BY RankFacts
    <2> HIDE DEF rank
    <2>3. QED BY <2>1, <2>2
  <1>2. rank \in Injection(I, N)
    <2>1. \A i \in I : rank[i] \in N
      BY RankFacts
    <2>2. rank \in [I -> N]
      BY <2>1
    <2> HIDE DEF rank, N
    <2>3. QED BY <1>1, <2>2, Fun_IsInj
  <1>3. IsFiniteSet(N) /\ Cardinality(N) = Cardinality(I) /\ Cardinality(I) \in Nat
    <2>1. Cardinality(I) \in Nat
      BY RankFacts
    <2>2. QED BY <2>1, FS_Interval
  <1>4. rank \in Surjection(I, N)
    BY <1>2, <1>3, FS_Injection
  <1>5. ASSUME NEW k \in N
        PROVE  Nth(I, k) \in I /\ rank[Nth(I, k)] = k
    <2>1. \E i \in I : Cardinality(I \cap 1 .. i) = k
      BY <1>4 DEF Surjection
    <2>2. Nth(I, k) \in I /\ Cardinality(I \cap 1 .. Nth(I, k)) = k
      BY <2>1 DEF Nth
    <2>3. QED BY <2>2
  <1>6. ASSUME NEW i \in I
        PROVE  Nth(I, rank[i]) = i
    <2>1. rank[i] \in N
      BY <1>2 DEF Injection
    <2>2. Nth(I, rank[i]) \in I /\ rank[Nth(I, rank[i])] = rank[i]
      BY <1>5, <2>1
    <2>3. QED BY <1>1, <2>2
  <1>7. ASSUME NEW k \in N, NEW l \in N
        PROVE  k < l <=> Nth(I, k) < Nth(I, l)
    <2>1. /\ Nth(I, k) \in I /\ rank[Nth(I, k)] = k
          /\ Nth(I, l) \in I /\ rank[Nth(I, l)] = l
      BY <1>5
    <2>2. /\ Nth(I, k) < Nth(I, l) => rank[Nth(I, k)] < rank[Nth(I, l)]
          /\ Nth(I, l) < Nth(I, k) => rank[Nth(I, l)] < rank[Nth(I, k)]
      BY <2>1, RankFacts
    <2> HIDE DEF rank
    <2>3. Nth(I, k) \in 1 .. n /\ Nth(I, l) \in 1 .. n
      BY <2>1
    <2> k \in Nat /\ l \in Nat
      BY <1>3
    <2>4. QED BY <2>1, <2>2, <2>3
  <1>8. QED BY <1>5, <1>6, <1>7

\* What is kept of a sequence.
LEMMA KeptFacts ==
  ASSUME NEW S, NEW s \in Seq(S), NEW I \in SUBSET DOMAIN s
  PROVE  /\ Kept(s, I) \in Seq(S)
         /\ Len(Kept(s, I)) = Cardinality(I)
         /\ \A k \in 1 .. Cardinality(I) : Kept(s, I)[k] = s[Nth(I, k)]
         /\ {Kept(s, I)[k] : k \in DOMAIN Kept(s, I)} = {s[i] : i \in I}
  <1>1. Len(s) \in Nat /\ DOMAIN s = 1 .. Len(s) /\ I \in SUBSET (1 .. Len(s))
    OBVIOUS
  <1>2. \A k \in 1 .. Cardinality(I) : Nth(I, k) \in I
    BY <1>1, NthFacts
  <1>3. Cardinality(I) \in Nat
    BY <1>1, RankFacts
  <1>4. \A k \in 1 .. Cardinality(I) : Kept(s, I)[k] = s[Nth(I, k)]
    BY DEF Kept
  <1>5. Kept(s, I) \in Seq(S) /\ Len(Kept(s, I)) = Cardinality(I)
    <2>1. \A k \in 1 .. Cardinality(I) : s[Nth(I, k)] \in S
      BY <1>1, <1>2
    <2>2. Kept(s, I) \in [1 .. Cardinality(I) -> S]
      BY <2>1 DEF Kept
    <2>3. DOMAIN Kept(s, I) = 1 .. Cardinality(I)
      BY DEF Kept
    <2>4. QED BY <1>3, <2>2, <2>3
  <1>6. ASSUME NEW i \in I
        PROVE  \E k \in DOMAIN Kept(s, I) : s[i] = Kept(s, I)[k]
    <2>1. Cardinality(I \cap 1 .. i) \in 1 .. Cardinality(I) /\ Nth(I, Cardinality(I \cap 1 .. i)) = i
      BY <1>1, RankFacts, NthFacts
    <2>2. QED BY <1>4, <2>1 DEF Kept
  <1>7. \A k \in DOMAIN Kept(s, I) : Kept(s, I)[k] \in {s[i] : i \in I}
    BY <1>2, <1>4 DEF Kept
  <1>8. QED BY <1>4, <1>5, <1>6, <1>7

-----------------------------------------------------------------------------
(* The files and the processes.                                            *)

LEMMA FileFacts ==
  /\ \A w \in Workers : /\ Inbox(w) \in Inboxes /\ Outbox(w) \in Outboxes
                        /\ Signal(w) \in Signals /\ Signal(w)[2] = w
                        /\ w \in Processes /\ w \notin Leads
  /\ \A v, w \in Workers : /\ Inbox(v) = Inbox(w) => v = w
                           /\ Outbox(v) = Outbox(w) => v = w
                           /\ Signal(v) = Signal(w) => v = w
  /\ Inboxes \cap Outboxes = {} /\ Mailboxes \cap Signals = {}
  /\ Inboxes \subseteq Mailboxes /\ Outboxes \subseteq Mailboxes
  /\ Mailboxes \subseteq Files /\ Signals \subseteq Files
  /\ \A f \in Inboxes : \E w \in Workers : f = Inbox(w)
  /\ \A f \in Outboxes : \E w \in Workers : f = Outbox(w)
  /\ \A f \in Signals : f[2] \in Workers /\ f = Signal(f[2])
  /\ \A f \in Files : f \in Mailboxes \/ f \in Signals
  /\ \A f \in Mailboxes : f \in Inboxes \/ f \in Outboxes
  <1>1. \A v, w : /\ Inbox(v) # Outbox(w) /\ Inbox(v) # Signal(w) /\ Outbox(v) # Signal(w)
                  /\ Inbox(v) = Inbox(w) => v = w
                  /\ Outbox(v) = Outbox(w) => v = w
                  /\ Signal(v) = Signal(w) => v = w
                  /\ Signal(v)[2] = v
    BY DEF Inbox, Outbox, Signal
  <1>2. \A w \in Workers : w \in Processes /\ w \notin Leads
    BY MailAssumption DEF MailAssumption, Processes
  <1>3. QED
    BY <1>1, <1>2 DEF Inboxes, Outboxes, Signals, Mailboxes, Files

LEMMA HandlesDiffer ==
  /\ \A x, f : At(x, f) # Closed
  /\ \A x, y, f, g : At(x, f) = At(y, g) => x = y /\ f = g
  /\ \A f : At("tmp", f) # At("file", f)
  /\ Closed \in Handles
  /\ \A f \in Files : At("tmp", f) \in Handles /\ At("file", f) \in Handles
  <1>1. \A x, f : At(x, f).at = x /\ At(x, f).file = f /\ DOMAIN At(x, f) = {"at", "file"}
    BY DEF At
  <1>2. DOMAIN Closed = {"at"}
    BY DEF Closed
  <1>3. "tmp" # "file" /\ {"at"} # {"at", "file"}
    OBVIOUS
  <1>4. QED BY <1>1, <1>2, <1>3 DEF Handles, At

LEMMA TextFacts ==
  ASSUME NEW n \in Nat
  PROVE  /\ <<>> \in Seq(0 .. n) /\ NoFile \notin Seq(0 .. n) /\ NoFile # <<>>
         /\ \A i \in 1 .. n : <<i>> \in Seq(0 .. n)
         /\ \A t \in Seq(0 .. n), u \in Seq(0 .. n) : t \o u \in Seq(0 .. n)
         /\ \A t \in Seq(0 .. n) : Append(t, Newline) \in Seq(0 .. n)
  <1>1. Seq(0 .. n) \subseteq Seq(Nat)
    OBVIOUS
  <1>2. NoFile \notin Seq(0 .. n) /\ <<>> \in Seq(0 .. n)
    BY <1>1, MailAssumption DEF MailAssumption
  <1>3. \A i \in 1 .. n : <<i>> \in Seq(0 .. n)
    OBVIOUS
  <1>4. \A t \in Seq(0 .. n) : Append(t, Newline) \in Seq(0 .. n)
    BY AppendProperties, 0 \in 0 .. n DEF Newline
  <1>5. \A t \in Seq(0 .. n), u \in Seq(0 .. n) : t \o u \in Seq(0 .. n)
    BY ConcatProperties
  <1>6. QED BY <1>2, <1>3, <1>4, <1>5

LEMMA SeqWidens ==
  ASSUME NEW S, NEW T, S \subseteq T
  PROVE  Seq(S) \subseteq Seq(T)
  OBVIOUS

LEMMA NewestType ==
  ASSUME NEW n \in Nat, NEW t \in Seq(0 .. n), Lines(t) > MaxLines
  PROVE  Newest(t) \in Seq(0 .. n)
  <1>1. Ends(t) \in SUBSET (1 .. Len(t)) /\ Len(t) \in Nat
    BY DEF Ends
  <1>2. CASE MaxLines = 0
    BY <1>2 DEF Newest
  <1>3. CASE MaxLines # 0
    <2>1. Lines(t) - MaxLines \in 1 .. Cardinality(Ends(t))
      <3>1. Cardinality(Ends(t)) \in Nat
        BY <1>1, RankFacts
      <3>2. Lines(t) \in Nat /\ Lines(t) <= Cardinality(Ends(t)) + 1
        BY <3>1 DEF Lines
      <3>3. MaxLines \in Nat
        BY MailAssumption DEF MailAssumption
      <3>4. QED BY <1>3, <3>1, <3>2, <3>3
    <2>2. Nth(Ends(t), Lines(t) - MaxLines) \in 1 .. Len(t)
      BY <1>1, <2>1, NthFacts
    <2>3. SubSeq(t, Nth(Ends(t), Lines(t) - MaxLines) + 1, Len(t)) \in Seq(0 .. n)
      BY <1>1, <2>2, SubSeqProperties
    <2>4. QED BY <1>3, <2>3, TextFacts DEF Newest
  <1>4. QED BY <1>2, <1>3

-----------------------------------------------------------------------------
(* What the calls of FileSystem leave.                                     *)

DiskTypeOK ==
  /\ files \in [Files -> Texts \cup {NoFile}]
  /\ tmp \in [Files -> Texts \cup {NoFile}]
  /\ fd \in [Processes -> Handles]
  /\ Opens

\* x is the content of f and y that of its temporary file; the others are as before.
Only(f, x, y) ==
  /\ files'[f] = x /\ tmp'[f] = y
  /\ \A g \in Files \ {f} : files'[g] = files[g] /\ tmp'[g] = tmp[g]

\* p has descriptor d now; the others have theirs.
Has(p, d) == fd'[p] = d /\ \A q \in Processes \ {p} : fd'[q] = fd[q]

LEMMA OpenAppendFacts ==
  ASSUME DiskTypeOK, UNCHANGED sends, sends \in Nat,
         NEW p \in Processes, NEW f \in Files, OpenAppend(p, f)
  PROVE  /\ DiskTypeOK' /\ Has(p, At("file", f)) /\ tmp' = tmp
         /\ Only(f, IF files[f] = NoFile THEN <<>> ELSE files[f], tmp[f])
  <1>1. /\ files' = IF files[f] = NoFile THEN [files EXCEPT ![f] = <<>>] ELSE files
        /\ fd' = [fd EXCEPT ![p] = At("file", f)] /\ tmp' = tmp
    BY DEF OpenAppend
  <1>2. Texts' = Texts /\ <<>> \in Texts /\ NoFile # <<>>
    BY TextFacts DEF Texts
  <1>3. /\ files' \in [Files -> Texts \cup {NoFile}] /\ files'[f] # NoFile
        /\ \A g \in Files \ {f} : files'[g] = files[g]
        /\ files'[f] = IF files[f] = NoFile THEN <<>> ELSE files[f]
    BY <1>1, <1>2 DEF DiskTypeOK
  <1>4. fd' \in [Processes -> Handles] /\ Has(p, At("file", f))
    BY <1>1, HandlesDiffer DEF DiskTypeOK, Has
  <1>5. Opens'
    BY <1>1, <1>3, <1>4, HandlesDiffer DEF DiskTypeOK, Opens, Has
  <1>6. QED BY <1>1, <1>2, <1>3, <1>4, <1>5 DEF DiskTypeOK, Only

LEMMA OpenTmpFacts ==
  ASSUME DiskTypeOK, UNCHANGED sends, sends \in Nat,
         NEW p \in Processes, NEW f \in Files, OpenTmp(p, f)
  PROVE  /\ DiskTypeOK' /\ Has(p, At("tmp", f)) /\ files' = files
         /\ Only(f, files[f], <<>>)
  <1>1. /\ tmp' = [tmp EXCEPT ![f] = <<>>]
        /\ fd' = [fd EXCEPT ![p] = At("tmp", f)] /\ files' = files
    BY DEF OpenTmp
  <1>2. Texts' = Texts /\ <<>> \in Texts /\ NoFile # <<>>
    BY TextFacts DEF Texts
  <1>3. /\ tmp' \in [Files -> Texts \cup {NoFile}] /\ tmp'[f] = <<>>
        /\ \A g \in Files \ {f} : tmp'[g] = tmp[g]
    BY <1>1, <1>2 DEF DiskTypeOK
  <1>4. fd' \in [Processes -> Handles] /\ Has(p, At("tmp", f))
    BY <1>1, HandlesDiffer DEF DiskTypeOK, Has
  <1>5. Opens'
    BY <1>1, <1>2, <1>3, <1>4, HandlesDiffer DEF DiskTypeOK, Opens, Has
  <1>6. QED BY <1>1, <1>2, <1>3, <1>4, <1>5 DEF DiskTypeOK, Only

\* A write lands in the file or in its temporary file, if either is still there.
LEMMA WriteFacts ==
  ASSUME DiskTypeOK, UNCHANGED sends, sends \in Nat,
         NEW p \in Processes, NEW f \in Files, NEW x,
         fd[p] \in {At("file", f), At("tmp", f)} => x \in Texts,
         files' = IF fd[p] = At("file", f) THEN [files EXCEPT ![f] = x] ELSE files,
         tmp' = IF fd[p] = At("tmp", f) THEN [tmp EXCEPT ![f] = x] ELSE tmp,
         fd' \in {fd, [fd EXCEPT ![p] = Closed]}
  PROVE  /\ DiskTypeOK'
         /\ Only(f, IF fd[p] = At("file", f) THEN x ELSE files[f],
                    IF fd[p] = At("tmp", f) THEN x ELSE tmp[f])
  <1>1. Texts' = Texts /\ NoFile \notin Texts
    BY TextFacts DEF Texts
  <1>2. /\ files' \in [Files -> Texts \cup {NoFile}]
        /\ \A g \in Files \ {f} : files'[g] = files[g]
        /\ files'[f] = IF fd[p] = At("file", f) THEN x ELSE files[f]
    BY DEF DiskTypeOK
  <1>3. /\ tmp' \in [Files -> Texts \cup {NoFile}]
        /\ \A g \in Files \ {f} : tmp'[g] = tmp[g]
        /\ tmp'[f] = IF fd[p] = At("tmp", f) THEN x ELSE tmp[f]
    BY DEF DiskTypeOK
  <1>4. fd' \in [Processes -> Handles] /\ \A q \in Processes : fd'[q] \in {fd[q], Closed}
    BY HandlesDiffer DEF DiskTypeOK
  <1>5. Opens'
    <2>1. \A g \in Files : /\ files[g] # NoFile => files'[g] # NoFile
                           /\ tmp[g] # NoFile => tmp'[g] # NoFile
      BY <1>1, <1>2, <1>3
    <2>2. QED BY <1>4, <2>1, HandlesDiffer DEF DiskTypeOK, Opens
  <1>6. QED BY <1>1, <1>2, <1>3, <1>4, <1>5 DEF DiskTypeOK, Only

LEMMA PutTextFacts ==
  ASSUME DiskTypeOK, UNCHANGED sends, sends \in Nat,
         NEW p \in Processes, NEW f \in Files, NEW x, Put(p, f, x),
         fd[p] \in {At("file", f), At("tmp", f)} => x \in Texts
  PROVE  /\ DiskTypeOK' /\ Has(p, Closed)
         /\ Only(f, IF fd[p] = At("file", f) THEN x ELSE files[f],
                    IF fd[p] = At("tmp", f) THEN x ELSE tmp[f])
  <1>1. Has(p, Closed)
    BY DEF Put, Has, DiskTypeOK
  <1>2. QED BY <1>1, WriteFacts DEF Put

\* A rename of the temporary file carries its descriptors along.
Carried(f) ==
  \A q \in Processes :
    /\ fd[q] = At("tmp", f) => fd'[q] = At("file", f)
    /\ fd[q] = At("file", f) => fd'[q] = Closed
    /\ fd[q] \notin {At("tmp", f), At("file", f)} => fd'[q] = fd[q]

LEMMA RenameTmpFacts ==
  ASSUME DiskTypeOK, UNCHANGED sends, sends \in Nat,
         NEW f \in Files, RenameTmp(f), tmp[f] # NoFile
  PROVE  DiskTypeOK' /\ Carried(f) /\ Only(f, tmp[f], NoFile)
  <1>1. Texts' = Texts
    BY DEF Texts
  <1>2. /\ files' \in [Files -> Texts \cup {NoFile}]
        /\ tmp' \in [Files -> Texts \cup {NoFile}]
        /\ Only(f, tmp[f], NoFile)
    BY DEF DiskTypeOK, RenameTmp, Only
  <1>3. fd' \in [Processes -> Handles] /\ Carried(f)
    BY HandlesDiffer DEF DiskTypeOK, RenameTmp, Carried
  <1>4. Opens'
    <2>1. ASSUME NEW q \in Processes, NEW g \in Files
          PROVE  /\ fd'[q] = At("file", g) => files'[g] # NoFile
                 /\ fd'[q] = At("tmp", g) => tmp'[g] # NoFile
      <3>1. CASE g = f
        BY <1>2, <1>3, <3>1, HandlesDiffer DEF Only, Carried
      <3>2. CASE g # f
        BY <1>2, <1>3, <3>2, HandlesDiffer DEF Only, Carried, DiskTypeOK, Opens
      <3>3. QED BY <3>1, <3>2
    <2>2. QED BY <2>1 DEF Opens
  <1>5. QED BY <1>1, <1>2, <1>3, <1>4 DEF DiskTypeOK

LEMMA RemoveFileFacts ==
  ASSUME DiskTypeOK, UNCHANGED sends, sends \in Nat, NEW f \in Files, RemoveFile(f)
  PROVE  /\ DiskTypeOK' /\ Only(f, NoFile, tmp[f])
         /\ \A q \in Processes : fd'[q] = IF fd[q] = At("file", f) THEN Closed ELSE fd[q]
  <1>1. Texts' = Texts
    BY DEF Texts
  <1>2. /\ files' \in [Files -> Texts \cup {NoFile}] /\ tmp' = tmp
        /\ Only(f, NoFile, tmp[f])
    BY DEF DiskTypeOK, RemoveFile, Only
  <1>3. /\ fd' \in [Processes -> Handles]
        /\ \A q \in Processes : fd'[q] = IF fd[q] = At("file", f) THEN Closed ELSE fd[q]
    BY HandlesDiffer DEF DiskTypeOK, RemoveFile, Orphaned
  <1>4. Opens'
    <2>1. ASSUME NEW q \in Processes, NEW g \in Files
          PROVE  /\ fd'[q] = At("file", g) => files'[g] # NoFile
                 /\ fd'[q] = At("tmp", g) => tmp'[g] # NoFile
      BY <1>2, <1>3, HandlesDiffer DEF Only, DiskTypeOK, Opens
    <2>2. QED BY <2>1 DEF Opens
  <1>5. QED BY <1>1, <1>2, <1>3, <1>4 DEF DiskTypeOK

LEMMA ClearFacts ==
  ASSUME DiskTypeOK, UNCHANGED <<sends, tmp, fd>>, sends \in Nat, NEW f \in Files,
         files' = [files EXCEPT ![f] = <<>>]
  PROVE  DiskTypeOK' /\ Only(f, <<>>, tmp[f])
  <1>1. Texts' = Texts /\ <<>> \in Texts /\ NoFile # <<>>
    BY TextFacts DEF Texts
  <1>2. files' \in [Files -> Texts \cup {NoFile}] /\ Only(f, <<>>, tmp[f])
    BY <1>1 DEF DiskTypeOK, Only
  <1>3. Opens'
    BY <1>1, <1>2 DEF DiskTypeOK, Opens, Only
  <1>4. QED BY <1>1, <1>2, <1>3 DEF DiskTypeOK

LEMMA DropFacts ==
  ASSUME DiskTypeOK, UNCHANGED sends, NEW p \in Processes, Drop(p)
  PROVE  DiskTypeOK' /\ Has(p, Closed) /\ UNCHANGED <<files, tmp>>
  <1>1. Texts' = Texts /\ UNCHANGED <<files, tmp>> /\ fd' = [fd EXCEPT ![p] = Closed]
    BY DEF Texts, Drop
  <1>2. fd' \in [Processes -> Handles] /\ Has(p, Closed)
    BY <1>1, HandlesDiffer DEF DiskTypeOK, Has
  <1>3. Opens'
    BY <1>1, <1>2, HandlesDiffer DEF DiskTypeOK, Opens, Has
  <1>4. QED BY <1>1, <1>2, <1>3 DEF DiskTypeOK

-----------------------------------------------------------------------------
(* What each action leaves, and the types.                                 *)

ProcessTypeOK ==
  /\ op \in [Processes -> Operations \cup {None}]
  /\ pc \in [Processes -> MailPlaces]
  /\ to \in [Processes -> Seq(Mailboxes)]
  /\ text \in [Processes -> Texts]

HistoryTypeOK ==
  /\ appended \in [Mailboxes -> Seq(1 .. sends)]
  /\ got \in [Workers -> Seq(1 .. sends)]
  /\ done \in [Workers -> SUBSET (1 .. sends)]
  /\ late \in [Mailboxes -> SUBSET (1 .. sends)]
  /\ spoiled \subseteq Mailboxes
  /\ taken \in [Workers -> Seq(1 .. sends)]
  /\ newest \in [Workers -> Texts]
  /\ missed \in [Workers -> SUBSET (1 .. sends)]

AllTypeOK == sends \in Nat /\ DiskTypeOK /\ ProcessTypeOK /\ HistoryTypeOK

LEMMA TypesSplit == AllTypeOK <=> MailTypeOK /\ Opens
  BY DEF AllTypeOK, DiskTypeOK, ProcessTypeOK, HistoryTypeOK, MailTypeOK

\* p is at a place of an operation now; the others are where they were.
Now(p, o, place, t, x) ==
  /\ op'[p] = o /\ pc'[p] = place /\ to'[p] = t /\ text'[p] = x
  /\ \A q \in Processes \ {p} :
       op'[q] = op[q] /\ pc'[q] = pc[q] /\ to'[q] = to[q] /\ text'[q] = text[q]

LEMMA FinishFacts ==
  ASSUME ProcessTypeOK, sends \in Nat, UNCHANGED sends, NEW p \in Processes, Finish(p)
  PROVE  ProcessTypeOK' /\ Now(p, None, "idle", <<>>, <<>>)
  <1>1. Texts' = Texts /\ <<>> \in Texts /\ Operations' = Operations
    BY TextFacts DEF Texts, Operations
  <1>2. QED
    BY <1>1 DEF ProcessTypeOK, Finish, Goto, Now, MailPlaces

LEMMA GotoFacts ==
  ASSUME ProcessTypeOK, UNCHANGED <<sends, op, to, text>>, NEW p \in Processes,
         NEW place \in MailPlaces, Goto(p, place)
  PROVE  ProcessTypeOK' /\ Now(p, op[p], place, to[p], text[p])
  <1>1. Texts' = Texts /\ Operations' = Operations
    BY DEF Texts, Operations
  <1>2. QED
    BY <1>1 DEF ProcessTypeOK, Goto, Now, MailPlaces

LEMMA BeginFacts ==
  ASSUME ProcessTypeOK, sends \in Nat, sends' \in Nat, sends <= sends',
         NEW p \in Processes, NEW place \in MailPlaces, NEW o \in Operations',
         NEW t \in Seq(Mailboxes), NEW x \in Texts',
         Begin(p, o, place),
         to' = [to EXCEPT ![p] = t], text' = [text EXCEPT ![p] = x]
  PROVE  ProcessTypeOK' /\ Now(p, o, place, t, x) /\ pc[p] = "idle"
  <1>1. 0 .. sends \subseteq 0 .. sends'
    OBVIOUS
  <1>2. Texts \subseteq Texts' /\ Operations \subseteq Operations'
    BY <1>1, SeqWidens DEF Texts, Operations
  <1>3. /\ op' = [op EXCEPT ![p] = o] /\ pc' = [pc EXCEPT ![p] = place] /\ pc[p] = "idle"
    BY DEF Begin, Goto
  <1>4. op' \in [Processes -> Operations' \cup {None}] /\ pc' \in [Processes -> MailPlaces]
    BY <1>2, <1>3 DEF ProcessTypeOK
  <1>5. to' \in [Processes -> Seq(Mailboxes)] /\ text' \in [Processes -> Texts']
    BY <1>2 DEF ProcessTypeOK
  <1>6. Now(p, o, place, t, x)
    BY <1>3 DEF ProcessTypeOK, Now
  <1>7. QED BY <1>3, <1>4, <1>5, <1>6 DEF ProcessTypeOK

\* The histories when only the next id has changed, and when nothing has.
LEMMA HistoryKept ==
  ASSUME HistoryTypeOK, sends \in Nat, sends' \in Nat, sends <= sends', UNCHANGED history
  PROVE  /\ HistoryTypeOK'
         /\ UNCHANGED <<appended, got, done, late, spoiled, taken, newest, missed>>
  <1>1. 0 .. sends \subseteq 0 .. sends' /\ 1 .. sends \subseteq 1 .. sends'
    OBVIOUS
  <1>2. Texts \subseteq Texts' /\ Seq(1 .. sends) \subseteq Seq(1 .. sends')
    BY <1>1, SeqWidens DEF Texts
  <1>3. UNCHANGED <<appended, got, done, late, spoiled, taken, newest, missed>>
    BY DEF history
  <1>4. QED BY <1>1, <1>2, <1>3 DEF HistoryTypeOK

LEMMA DiskKept ==
  ASSUME DiskTypeOK, sends \in Nat, sends' \in Nat, sends <= sends', UNCHANGED <<files, tmp, fd>>
  PROVE  DiskTypeOK'
  <1>1. 0 .. sends \subseteq 0 .. sends'
    OBVIOUS
  <1>2. Texts \subseteq Texts'
    BY <1>1, SeqWidens DEF Texts
  <1>3. QED BY <1>2 DEF DiskTypeOK, Opens

Histories == <<appended, got, done, late, spoiled, taken, newest, missed>>

\* What a process that appends knows of its file.
LEMMA AppenderFacts ==
  ASSUME AllTypeOK, Stages, NEW p \in Processes, pc[p] \in {"open", "line", "newline"}
  PROVE  /\ Head(to[p]) \in Mailboxes /\ Head(to[p]) \in Files
         /\ to[p] \in Seq(Mailboxes) /\ to[p] # <<>> /\ to[p][1] = Head(to[p])
         /\ op[p].id \in 1 .. sends /\ op[p] \in Operations
         /\ fd[p] # At("tmp", Head(to[p]))
         /\ pc[p] # "open" => fd[p] \in {Closed, At("file", Head(to[p]))}
  <1>1. /\ op[p] \in Operations /\ to[p] # <<>> /\ op[p].id # 0
        /\ pc[p] # "open" => fd[p] \in {Closed, At("file", Head(to[p]))}
        /\ pc[p] = "open" => fd[p] = Closed
    BY DEF Stages, StageOf
  <1>2. to[p] \in Seq(Mailboxes) /\ op[p].id \in 1 .. sends
    BY <1>1 DEF AllTypeOK, ProcessTypeOK, Operations
  <1>3. fd[p] # At("tmp", Head(to[p]))
    BY <1>1, HandlesDiffer
  <1>4. Head(to[p]) \in Mailboxes /\ Head(to[p]) \in Files /\ to[p][1] = Head(to[p])
    BY <1>1, <1>2, FileFacts
  <1>5. QED BY <1>1, <1>2, <1>3, <1>4

StartAppendLeaves(p) ==
  /\ pc[p] = "idle" /\ sends' = sends + 1
  /\ UNCHANGED <<files, tmp, fd>> /\ UNCHANGED Histories
  /\ \E t \in Seq(Mailboxes) :
       /\ Now(p, [do |-> "append", id |-> sends + 1, file |-> None], "open", t, text[p])
       /\ t # <<>> /\ \A i, j \in DOMAIN t : t[i] = t[j] => i = j
       /\ p \in Workers => t = <<Outbox(p)>>
       /\ p \in Leads => t \in Seq(Inboxes)

LEMMA StartAppendFacts ==
  ASSUME AllTypeOK, NEW p \in Processes, StartAppend(p)
  PROVE  AllTypeOK' /\ StartAppendLeaves(p)
  <1>1. /\ sends' = sends + 1 /\ sends \in Nat /\ sends' \in Nat /\ sends <= sends'
        /\ UNCHANGED <<files, tmp, fd, text>> /\ UNCHANGED history
        /\ Begin(p, [do |-> "append", id |-> sends + 1, file |-> None], "open")
    BY DEF StartAppend, AllTypeOK
  <1>2. PICK t \in Seq(Mailboxes) :
          /\ to' = [to EXCEPT ![p] = t]
          /\ t # <<>> /\ \A i, j \in DOMAIN t : t[i] = t[j] => i = j
          /\ p \in Workers => t = <<Outbox(p)>>
          /\ p \in Leads => t \in Seq(Inboxes)
    <2>1. ASSUME NEW w \in Workers
          PROVE  /\ <<Inbox(w)>> \in Seq(Mailboxes) /\ <<Inbox(w)>> \in Seq(Inboxes)
                 /\ <<Outbox(w)>> \in Seq(Mailboxes)
                 /\ <<Inbox(w)>> # <<>> /\ <<Outbox(w)>> # <<>>
                 /\ DOMAIN <<Inbox(w)>> = {1} /\ DOMAIN <<Outbox(w)>> = {1}
      BY FileFacts
    <2>2. ASSUME NEW order \in [1 .. Cardinality(Workers) -> Workers],
                 \A w \in Workers : \E i \in DOMAIN order : order[i] = w,
                 NEW t, t = [i \in DOMAIN order |-> Inbox(order[i])], p \in Leads,
                 Workers # {}
          PROVE  /\ t \in Seq(Mailboxes) /\ t \in Seq(Inboxes) /\ t # <<>>
                 /\ \A i, j \in DOMAIN t : t[i] = t[j] => i = j
      <3>1. IsFiniteSet(Workers) /\ Cardinality(Workers) \in Nat
        BY MailAssumption, FS_CardinalityType DEF MailAssumption
      <3>2. /\ IsFiniteSet(1 .. Cardinality(Workers))
            /\ Cardinality(1 .. Cardinality(Workers)) = Cardinality(Workers)
        BY <3>1, FS_Interval
      <3>3. order \in Surjection(1 .. Cardinality(Workers), Workers)
        BY <2>2, Fun_IsSurj
      <3>4. order \in Injection(1 .. Cardinality(Workers), Workers)
        BY <3>2, <3>3, FS_Surjection
      <3>5. \A i, j \in DOMAIN order : order[i] = order[j] => i = j
        BY <3>4 DEF Injection, IsInjective
      <3>6. DOMAIN t = DOMAIN order /\ \A i \in DOMAIN t : t[i] = Inbox(order[i]) /\ order[i] \in Workers
        BY <2>2
      <3>7. \A i, j \in DOMAIN t : t[i] = t[j] => i = j
        BY <3>5, <3>6, FileFacts
      <3>8. t \in [1 .. Cardinality(Workers) -> Inboxes] /\ Inboxes \subseteq Mailboxes
        BY <2>2, <3>6, FileFacts
      <3>9. DOMAIN t # {} /\ DOMAIN <<>> = {}
        <4>1. PICK w \in Workers : \E i \in DOMAIN order : order[i] = w
          BY <2>2
        <4>2. QED BY <3>6, <4>1
      <3>10. t # <<>>
        BY <3>9
      <3>11. QED BY <3>1, <3>7, <3>8, <3>10
    <2>3. p \in Leads => p \notin Workers
      BY FileFacts
    <2>4. CASE \E w \in Workers : p \in Leads /\ to' = [to EXCEPT ![p] = <<Inbox(w)>>]
      <3>1. PICK w \in Workers : p \in Leads /\ to' = [to EXCEPT ![p] = <<Inbox(w)>>]
        BY <2>4
      <3>2. QED BY <2>1, <2>3, <3>1
    <2>5. CASE p \in Workers /\ to' = [to EXCEPT ![p] = <<Outbox(p)>>]
      BY <2>1, <2>3, <2>5
    <2>6. ASSUME NEW order \in [1 .. Cardinality(Workers) -> Workers],
                 \A w \in Workers : \E i \in DOMAIN order : order[i] = w,
                 p \in Leads, Workers # {},
                 to' = [to EXCEPT ![p] = [i \in DOMAIN order |-> Inbox(order[i])]]
          PROVE  \E t \in Seq(Mailboxes) :
                   /\ to' = [to EXCEPT ![p] = t]
                   /\ t # <<>> /\ \A i, j \in DOMAIN t : t[i] = t[j] => i = j
                   /\ p \in Workers => t = <<Outbox(p)>>
                   /\ p \in Leads => t \in Seq(Inboxes)
      BY <2>2, <2>3, <2>6
    <2>7. QED
      BY <1>1, <2>4, <2>5, <2>6 DEF StartAppend
  <1>3. text' = [text EXCEPT ![p] = text[p]] /\ text[p] \in Texts'
    <2>1. Texts \subseteq Texts'
      <3>1. 0 .. sends \subseteq 0 .. sends'
        BY <1>1
      <3>2. QED BY <3>1, SeqWidens DEF Texts
    <2>2. QED BY <1>1, <2>1 DEF AllTypeOK, ProcessTypeOK
  <1>4. [do |-> "append", id |-> sends + 1, file |-> None] \in Operations'
    BY <1>1 DEF Operations
  <1>5. /\ ProcessTypeOK' /\ pc[p] = "idle"
        /\ Now(p, [do |-> "append", id |-> sends + 1, file |-> None], "open", t, text[p])
    BY <1>1, <1>2, <1>3, <1>4, BeginFacts, "open" \in MailPlaces DEF AllTypeOK, MailPlaces
  <1>6. QED
    BY <1>1, <1>2, <1>5, HistoryKept, DiskKept DEF AllTypeOK, StartAppendLeaves, Histories
OpenMailboxLeaves(p) ==
  LET f == Head(to[p])
  IN  /\ pc[p] = "open" /\ sends' = sends /\ UNCHANGED Histories
      /\ Now(p, op[p], "line", to[p], text[p])
      /\ tmp' = tmp /\ Only(f, IF files[f] = NoFile THEN <<>> ELSE files[f], tmp[f])
      /\ Has(p, At("file", f))

LEMMA OpenMailboxFacts ==
  ASSUME AllTypeOK, Stages, NEW p \in Processes, OpenMailbox(p)
  PROVE  AllTypeOK' /\ OpenMailboxLeaves(p)
  <1>1. PICK f : f = Head(to[p])
    OBVIOUS
  <1>2. /\ pc[p] = "open" /\ UNCHANGED <<sends, op, to, text>> /\ UNCHANGED history
        /\ Goto(p, "line") /\ OpenAppend(p, f) /\ "line" \in MailPlaces
    BY <1>1 DEF OpenMailbox, MailPlaces
  <1>3. f \in Files /\ sends \in Nat /\ sends <= sends'
    BY <1>1, <1>2, AppenderFacts DEF AllTypeOK
  <1>4. ProcessTypeOK' /\ Now(p, op[p], "line", to[p], text[p])
    BY <1>2, GotoFacts DEF AllTypeOK
  <1>5. /\ DiskTypeOK' /\ Has(p, At("file", f)) /\ tmp' = tmp
        /\ Only(f, IF files[f] = NoFile THEN <<>> ELSE files[f], tmp[f])
    BY <1>2, <1>3, OpenAppendFacts DEF AllTypeOK
  <1>6. HistoryTypeOK' /\ UNCHANGED Histories
    BY <1>2, <1>3, HistoryKept DEF AllTypeOK, Histories
  <1>7. QED
    BY <1>1, <1>2, <1>3, <1>4, <1>5, <1>6 DEF AllTypeOK, OpenMailboxLeaves

PutLineLeaves(p) ==
  LET f == Head(to[p])
      m == op[p].id
  IN  /\ pc[p] = "line" /\ sends' = sends /\ fd' = fd
      /\ UNCHANGED <<got, done, taken, newest, missed>>
      /\ Now(p, op[p], "newline", to[p], text[p])
      /\ tmp' = tmp
      /\ Only(f, IF fd[p] = At("file", f) THEN Append(files[f], m) ELSE files[f], tmp[f])
      /\ appended'[f] = Append(appended[f], m)
      /\ \A g \in Mailboxes \ {f} : appended'[g] = appended[g] /\ late'[g] = late[g]
      /\ late'[f] = IF After(f) # {} \/ fd[p] = Closed THEN late[f] \cup {m} ELSE late[f]
      /\ spoiled \subseteq spoiled' /\ spoiled' \subseteq spoiled \cup {f}
      /\ f \notin spoiled' => \A q \in Processes \ {p} : ~ InLine(q, f)

LEMMA PutLineFacts ==
  ASSUME AllTypeOK, Stages, NEW p \in Processes, PutLine(p)
  PROVE  AllTypeOK' /\ PutLineLeaves(p)
  <1>1. PICK f, m : f = Head(to[p]) /\ m = op[p].id
    OBVIOUS
  <1>2. /\ pc[p] = "line" /\ UNCHANGED <<sends, op, to, text, fd, got, done, taken, newest, missed>>
        /\ Goto(p, "newline") /\ Extend(p, f, <<m>>) /\ "newline" \in MailPlaces
        /\ appended' = [appended EXCEPT ![f] = Append(@, m)]
        /\ late' = IF After(f) # {} \/ fd[p] = Closed
                    THEN [late EXCEPT ![f] = @ \cup {m}] ELSE late
        /\ spoiled' = IF \E q \in Processes \ {p} :
                            pc[q] = "newline" /\ Head(to[q]) = f
                       THEN spoiled \cup {f} ELSE spoiled
    BY <1>1 DEF PutLine, MailPlaces
  <1>3. /\ f \in Mailboxes /\ f \in Files /\ m \in 1 .. sends
        /\ fd[p] # At("tmp", f) /\ sends \in Nat
    BY <1>1, <1>2, AppenderFacts DEF AllTypeOK
  <1>4. ProcessTypeOK' /\ Now(p, op[p], "newline", to[p], text[p])
    BY <1>2, GotoFacts DEF AllTypeOK
  <1>5. fd[p] = At("file", f) =>
          files[f] \in Texts /\ files[f] \o <<m>> \in Texts /\ files[f] \o <<m>> = Append(files[f], m)
    <2>1. fd[p] = At("file", f) => files[f] \in Texts
      BY <1>3 DEF AllTypeOK, DiskTypeOK, Opens
    <2>2. \A t \in Texts : t \o <<m>> \in Texts /\ t \o <<m>> = Append(t, m)
      BY <1>3, TextFacts DEF Texts
    <2>3. QED BY <2>1, <2>2
  <1>6. /\ DiskTypeOK'
        /\ Only(f, IF fd[p] = At("file", f) THEN files[f] \o <<m>> ELSE files[f], tmp[f])
    <2>1. /\ files' = IF fd[p] = At("file", f) THEN [files EXCEPT ![f] = files[f] \o <<m>>] ELSE files
          /\ tmp' = IF fd[p] = At("tmp", f) THEN [tmp EXCEPT ![f] = files[f] \o <<m>>] ELSE tmp
      BY <1>2, <1>3 DEF Extend
    <2>2. fd[p] \in {At("file", f), At("tmp", f)} => files[f] \o <<m>> \in Texts
      BY <1>3, <1>5
    <2>3. DiskTypeOK /\ sends' = sends /\ fd' = fd
      BY <1>2 DEF AllTypeOK
    <2>4. QED
      BY <1>3, <2>1, <2>2, <2>3, WriteFacts
  <1>7. /\ appended' \in [Mailboxes -> Seq(1 .. sends)]
        /\ appended'[f] = Append(appended[f], m)
        /\ \A g \in Mailboxes \ {f} : appended'[g] = appended[g]
    BY <1>2, <1>3 DEF AllTypeOK, HistoryTypeOK
  <1>8. /\ late' \in [Mailboxes -> SUBSET (1 .. sends)]
        /\ \A g \in Mailboxes \ {f} : late'[g] = late[g]
        /\ late'[f] = IF After(f) # {} \/ fd[p] = Closed THEN late[f] \cup {m} ELSE late[f]
    BY <1>2, <1>3 DEF AllTypeOK, HistoryTypeOK
  <1>9. /\ spoiled' \subseteq Mailboxes
        /\ spoiled \subseteq spoiled' /\ spoiled' \subseteq spoiled \cup {f}
        /\ f \notin spoiled' => \A q \in Processes \ {p} : ~ InLine(q, f)
    BY <1>2, <1>3 DEF AllTypeOK, HistoryTypeOK, InLine
  <1>10. HistoryTypeOK'
    BY <1>2, <1>7, <1>8, <1>9 DEF AllTypeOK, HistoryTypeOK, Texts
  <1>11. tmp' = tmp
    BY <1>2, <1>3 DEF Extend
  <1>12. PutLineLeaves(p)
    BY <1>1, <1>2, <1>4, <1>5, <1>6, <1>7, <1>8, <1>9, <1>11 DEF PutLineLeaves
  <1>13. QED
    BY <1>2, <1>4, <1>6, <1>10, <1>12 DEF AllTypeOK

PutNewlineLeaves(p) ==
  LET f == Head(to[p])
  IN  /\ pc[p] = "newline" /\ sends' = sends /\ UNCHANGED Histories
      /\ \/ Len(to[p]) > 1 /\ Now(p, op[p], "open", Tail(to[p]), text[p])
         \/ Now(p, None, "idle", <<>>, <<>>)
      /\ tmp' = tmp /\ Has(p, Closed)
      /\ Only(f, IF fd[p] = At("file", f) THEN Append(files[f], Newline) ELSE files[f], tmp[f])

LEMMA PutNewlineFacts ==
  ASSUME AllTypeOK, Stages, NEW p \in Processes, PutNewline(p)
  PROVE  AllTypeOK' /\ PutNewlineLeaves(p)
  <1>1. PICK f : f = Head(to[p])
    OBVIOUS
  <1>2. /\ pc[p] = "newline" /\ UNCHANGED sends /\ UNCHANGED history
        /\ Put(p, f, Append(Behind(p, f), Newline))
        /\ IF Len(to[p]) > 1
           THEN /\ to' = [to EXCEPT ![p] = Tail(@)]
                /\ Goto(p, "open")
                /\ UNCHANGED <<op, text>>
           ELSE Finish(p)
    BY <1>1 DEF PutNewline
  <1>3. /\ f \in Mailboxes /\ f \in Files /\ to[p] \in Seq(Mailboxes) /\ to[p] # <<>>
        /\ fd[p] # At("tmp", f) /\ sends \in Nat /\ sends <= sends' /\ sends' \in Nat
    BY <1>1, <1>2, AppenderFacts DEF AllTypeOK
  <1>4. /\ ProcessTypeOK'
        /\ \/ Len(to[p]) > 1 /\ Now(p, op[p], "open", Tail(to[p]), text[p])
           \/ Now(p, None, "idle", <<>>, <<>>)
    <2>1. CASE Len(to[p]) > 1
      <3>1. /\ to' = [to EXCEPT ![p] = Tail(to[p])] /\ pc' = [pc EXCEPT ![p] = "open"]
            /\ UNCHANGED <<op, text>> /\ "open" \in MailPlaces
        BY <1>2, <2>1 DEF Goto, MailPlaces
      <3>2. Tail(to[p]) \in Seq(Mailboxes)
        BY <1>3
      <3>3. Texts' = Texts /\ Operations' = Operations
        BY <1>2 DEF Texts, Operations
      <3>4. QED BY <2>1, <3>1, <3>2, <3>3 DEF AllTypeOK, ProcessTypeOK, Now
    <2>2. CASE ~ (Len(to[p]) > 1)
      BY <1>2, <1>3, <2>2, FinishFacts DEF AllTypeOK
    <2>3. QED BY <2>1, <2>2
  <1>5. fd[p] = At("file", f) => files[f] \in Texts /\ Append(files[f], Newline) \in Texts
    BY <1>3, TextFacts DEF AllTypeOK, DiskTypeOK, Opens, Texts
  <1>6. Behind(p, f) = files[f]
    BY <1>3 DEF Behind
  <1>7. /\ DiskTypeOK' /\ Has(p, Closed)
        /\ Only(f, IF fd[p] = At("file", f) THEN Append(files[f], Newline) ELSE files[f], tmp[f])
    <2>1. Put(p, f, Append(files[f], Newline))
      BY <1>2, <1>6
    <2>2. fd[p] \in {At("file", f), At("tmp", f)} => Append(files[f], Newline) \in Texts
      BY <1>3, <1>5
    <2>3. QED
      BY <1>2, <1>3, <2>1, <2>2, PutTextFacts DEF AllTypeOK
  <1>8. tmp' = tmp
    BY <1>2, <1>3 DEF Put
  <1>9. HistoryTypeOK' /\ UNCHANGED Histories
    BY <1>2, <1>3, HistoryKept DEF AllTypeOK, Histories
  <1>10. QED
    BY <1>1, <1>2, <1>3, <1>4, <1>7, <1>8, <1>9 DEF AllTypeOK, PutNewlineLeaves
LEMMA KeptIn ==
  ASSUME NEW S, NEW s \in Seq(S), NEW I \in SUBSET DOMAIN s, NEW T, \A i \in I : s[i] \in T
  PROVE  Kept(s, I) \in Seq(T)
  <1>1. Kept(s, I) \in Seq(S) /\ \A k \in DOMAIN Kept(s, I) : Kept(s, I)[k] \in {s[i] : i \in I}
    <2>1. /\ Kept(s, I) \in Seq(S)
          /\ {Kept(s, I)[k] : k \in DOMAIN Kept(s, I)} = {s[i] : i \in I}
      BY KeptFacts
    <2>2. QED BY <2>1
  <1>2. PICK q \in Seq(S) : q = Kept(s, I)
    BY <1>1
  <1>3. \A k \in DOMAIN q : q[k] \in T
    BY <1>1, <1>2
  <1>4. DOMAIN q = 1 .. Len(q) /\ Len(q) \in Nat /\ q = [k \in DOMAIN q |-> q[k]]
    OBVIOUS
  <1>5. q \in Seq(T)
    BY ONLY <1>3, <1>4
  <1>6. QED BY <1>2, <1>5

\* The positions of the messages a receive has not seen.
Unseen(w) == {i \in 1 .. Len(files[Inbox(w)]) :
                files[Inbox(w)][i] # Newline /\ IsNew(w, files[Inbox(w)][i])}

ReadInboxLeaves(w) ==
  LET f == Inbox(w)
  IN  /\ pc[w] = "idle" /\ UNCHANGED <<sends, files, tmp, fd>>
      /\ UNCHANGED <<appended, done, late, spoiled, taken, newest, missed>>
      /\ files[f] \in Texts
      /\ Now(w, [do |-> "receive", id |-> 0, file |-> f], "clear", to[w], files[f])
      /\ got'[w] = got[w] \o Kept(files[f], Unseen(w))
      /\ \A v \in Workers \ {w} : got'[v] = got[v]

LEMMA ReadInboxFacts ==
  ASSUME AllTypeOK, NEW w \in Workers, ReadInbox(w)
  PROVE  AllTypeOK' /\ ReadInboxLeaves(w)
  <1>1. PICK f : f = Inbox(w)
    OBVIOUS
  <1>2. /\ files[f] # NoFile
        /\ Begin(w, [do |-> "receive", id |-> 0, file |-> f], "clear") /\ "clear" \in MailPlaces
        /\ text' = [text EXCEPT ![w] = files[f]]
        /\ got' = [got EXCEPT ![w] = @ \o Kept(files[f], Unseen(w))]
        /\ UNCHANGED <<files, tmp, fd, to, sends, appended, done, late,
                       spoiled, taken, newest, missed>>
    BY <1>1 DEF ReadInbox, Unseen, MailPlaces
  <1>3. /\ f \in Files /\ w \in Processes
        /\ sends \in Nat /\ sends' \in Nat /\ sends <= sends'
    BY <1>1, <1>2, FileFacts DEF AllTypeOK
  <1>4. files[f] \in Texts /\ Texts' = Texts
    BY <1>2, <1>3 DEF AllTypeOK, DiskTypeOK, Texts
  <1>5. [do |-> "receive", id |-> 0, file |-> f] \in Operations'
    BY <1>3 DEF Operations
  <1>6. to' = [to EXCEPT ![w] = to[w]] /\ to[w] \in Seq(Mailboxes)
    BY <1>2, <1>3 DEF AllTypeOK, ProcessTypeOK
  <1>7. /\ ProcessTypeOK' /\ pc[w] = "idle"
        /\ Now(w, [do |-> "receive", id |-> 0, file |-> f], "clear", to[w], files[f])
    BY <1>2, <1>3, <1>4, <1>5, <1>6, BeginFacts DEF AllTypeOK
  <1>8. DiskTypeOK'
    BY <1>2, <1>3, DiskKept DEF AllTypeOK
  <1>9. Kept(files[f], Unseen(w)) \in Seq(1 .. sends)
    <2>1. PICK s \in Seq(0 .. sends) : s = files[f]
      BY <1>4 DEF Texts
    <2>2. Unseen(w) \in SUBSET DOMAIN s /\ \A i \in Unseen(w) : s[i] \in 1 .. sends
      BY <1>1, <1>3, <2>1 DEF Unseen, Newline
    <2>3. QED BY <2>1, <2>2, KeptIn
  <1>10. /\ got' \in [Workers -> Seq(1 .. sends)]
         /\ got'[w] = got[w] \o Kept(files[f], Unseen(w))
         /\ \A v \in Workers \ {w} : got'[v] = got[v]
    <2>1. got[w] \o Kept(files[f], Unseen(w)) \in Seq(1 .. sends)
      BY <1>9, ConcatProperties DEF AllTypeOK, HistoryTypeOK
    <2>2. QED BY <1>2, <2>1 DEF AllTypeOK, HistoryTypeOK
  <1>11. HistoryTypeOK'
    BY <1>2, <1>4, <1>10 DEF AllTypeOK, HistoryTypeOK
  <1>12. QED
    BY <1>1, <1>2, <1>3, <1>4, <1>7, <1>8, <1>10, <1>11 DEF AllTypeOK, ReadInboxLeaves

\* What a process in the middle of another operation knows.
LEMMA PlaceFacts ==
  ASSUME AllTypeOK, Stages, NEW p \in Processes
  PROVE  /\ pc[p] = "clear" => p \in Workers /\ op[p].file = Inbox(p) /\ fd[p] = Closed
         /\ pc[p] \in {"tmp", "copy", "rename"} => op[p].file \in Outboxes
         /\ pc[p] \in {"stmp", "swrite", "srename"} =>
              /\ p \in Leads /\ op[p].file \in Signals /\ op[p].id \in 1 .. sends
              /\ op[p].file[2] \in Workers
         /\ pc[p] = "sremove" => p \in Workers /\ op[p].file = Signal(p) /\ fd[p] = Closed
         /\ pc[p] \in {"tmp", "rename", "stmp", "srename", "idle", "open"} => fd[p] = Closed
         /\ pc[p] \in {"copy", "swrite"} =>
              fd[p] \in {Closed, At("file", op[p].file), At("tmp", op[p].file)}
         /\ \A w \in Workers : text[w] \in Seq(0 .. sends)
  <1>1. /\ pc[p] # "idle" => op[p] \in Operations
        /\ pc[p] = "clear" => p \in Workers /\ op[p].file = Inbox(p)
        /\ pc[p] \in {"tmp", "copy", "rename"} => op[p].file \in Outboxes
        /\ pc[p] \in {"stmp", "swrite", "srename"} =>
             p \in Leads /\ op[p].file \in Signals /\ op[p].id # 0
        /\ pc[p] = "sremove" => p \in Workers /\ op[p].file = Signal(p)
    BY DEF Stages, StageOf
  <1>2. /\ pc[p] \in {"clear", "sremove", "tmp", "rename", "stmp", "srename", "idle", "open"} => fd[p] = Closed
        /\ pc[p] \in {"copy", "swrite"} =>
             fd[p] \in {Closed, At("file", op[p].file), At("tmp", op[p].file)}
    BY DEF Stages, StageOf
  <1>3. \A o \in Operations : o.id # 0 => o.id \in 1 .. sends
    BY DEF Operations, AllTypeOK
  <1>4. \A w \in Workers : text[w] \in Seq(0 .. sends)
    BY FileFacts DEF AllTypeOK, ProcessTypeOK, Texts
  <1>5. QED BY <1>1, <1>2, <1>3, <1>4, FileFacts

ClearInboxLeaves(w) ==
  LET f == Inbox(w)
  IN  /\ pc[w] = "clear" /\ UNCHANGED <<sends, tmp, fd>>
      /\ UNCHANGED <<appended, got, late, spoiled, taken, newest, missed>>
      /\ Now(w, None, "idle", <<>>, <<>>) /\ Only(f, <<>>, tmp[f])
      /\ done'[w] = done[w] \cup InText(text[w])
      /\ \A v \in Workers \ {w} : done'[v] = done[v]

LEMMA ClearInboxFacts ==
  ASSUME AllTypeOK, Stages, NEW w \in Workers, ClearInbox(w)
  PROVE  AllTypeOK' /\ ClearInboxLeaves(w)
  <1>1. PICK f : f = Inbox(w)
    OBVIOUS
  <1>2. /\ pc[w] = "clear" /\ files' = [files EXCEPT ![f] = <<>>]
        /\ done' = [done EXCEPT ![w] = @ \cup InText(text[w])]
        /\ Finish(w)
        /\ UNCHANGED <<tmp, fd, sends, appended, got, late, spoiled, taken, newest, missed>>
    BY <1>1 DEF ClearInbox
  <1>3. f \in Files /\ w \in Processes /\ sends \in Nat /\ sends' = sends
    BY <1>1, <1>2, FileFacts DEF AllTypeOK
  <1>4. ProcessTypeOK' /\ Now(w, None, "idle", <<>>, <<>>)
    BY <1>2, <1>3, FinishFacts DEF AllTypeOK
  <1>5. DiskTypeOK' /\ Only(f, <<>>, tmp[f])
    BY <1>2, <1>3, ClearFacts DEF AllTypeOK
  <1>6. InText(text[w]) \in SUBSET (1 .. sends)
    BY <1>3, PlaceFacts DEF InText, Newline
  <1>7. /\ done' \in [Workers -> SUBSET (1 .. sends)]
        /\ done'[w] = done[w] \cup InText(text[w])
        /\ \A v \in Workers \ {w} : done'[v] = done[v]
    BY <1>2, <1>6 DEF AllTypeOK, HistoryTypeOK
  <1>8. Texts' = Texts
    BY <1>2 DEF Texts
  <1>9. HistoryTypeOK'
    BY <1>2, <1>7, <1>8 DEF AllTypeOK, HistoryTypeOK
  <1>10. QED
    BY <1>1, <1>2, <1>3, <1>4, <1>5, <1>7, <1>9 DEF AllTypeOK, ClearInboxLeaves

ReadOutboxLeaves(p, f) ==
  /\ f \in Outboxes /\ pc[p] = "idle" /\ UNCHANGED <<sends, files, tmp, fd>>
  /\ UNCHANGED <<appended, got, done, late, taken, newest, missed>>
  /\ files[f] \in Texts /\ Lines(files[f]) > MaxLines
  /\ Now(p, [do |-> "rotate", id |-> 0, file |-> f], "tmp", to[p], Newest(files[f]))
  /\ spoiled \subseteq spoiled' /\ spoiled' \subseteq spoiled \cup {f}
  /\ f \notin spoiled' => After(f) \subseteq {p}

LEMMA ReadOutboxFacts ==
  ASSUME AllTypeOK, NEW p \in Processes, ReadOutbox(p)
  PROVE  AllTypeOK' /\ \E f \in Outboxes : ReadOutboxLeaves(p, f)
  <1>1. PICK f \in Outboxes :
          /\ files[f] # NoFile
          /\ Lines(files[f]) > MaxLines
          /\ Begin(p, [do |-> "rotate", id |-> 0, file |-> f], "tmp")
          /\ text' = [text EXCEPT ![p] = Newest(files[f])]
          /\ spoiled' = IF \E q \in After(f) : q # p THEN spoiled \cup {f} ELSE spoiled
          /\ UNCHANGED <<files, tmp, fd, to, sends, appended, got, done, late, taken,
                         newest, missed>>
    BY DEF ReadOutbox
  <1>2. /\ f \in Mailboxes /\ f \in Files /\ "tmp" \in MailPlaces
        /\ sends \in Nat /\ sends' \in Nat /\ sends <= sends' /\ sends' = sends
    BY <1>1, FileFacts DEF AllTypeOK, MailPlaces
  <1>3. files[f] \in Texts /\ Texts' = Texts
    BY <1>1, <1>2 DEF AllTypeOK, DiskTypeOK, Texts
  <1>4. Newest(files[f]) \in Texts'
    BY <1>1, <1>2, <1>3, NewestType DEF Texts
  <1>5. [do |-> "rotate", id |-> 0, file |-> f] \in Operations'
    BY <1>2 DEF Operations
  <1>6. to' = [to EXCEPT ![p] = to[p]] /\ to[p] \in Seq(Mailboxes)
    BY <1>1, <1>2 DEF AllTypeOK, ProcessTypeOK
  <1>7. /\ ProcessTypeOK' /\ pc[p] = "idle"
        /\ Now(p, [do |-> "rotate", id |-> 0, file |-> f], "tmp", to[p], Newest(files[f]))
    BY <1>1, <1>2, <1>4, <1>5, <1>6, BeginFacts DEF AllTypeOK
  <1>8. DiskTypeOK'
    BY <1>1, <1>2, DiskKept DEF AllTypeOK
  <1>9. /\ spoiled' \subseteq Mailboxes /\ spoiled \subseteq spoiled'
        /\ spoiled' \subseteq spoiled \cup {f}
        /\ f \notin spoiled' => After(f) \subseteq {p}
    BY <1>1, <1>2 DEF AllTypeOK, HistoryTypeOK
  <1>10. HistoryTypeOK'
    BY <1>1, <1>3, <1>9 DEF AllTypeOK, HistoryTypeOK
  <1>11. ReadOutboxLeaves(p, f)
    BY <1>1, <1>3, <1>7, <1>9 DEF ReadOutboxLeaves
  <1>12. QED
    BY <1>2, <1>7, <1>8, <1>10, <1>11 DEF AllTypeOK
OpenCopyLeaves(p) ==
  LET f == op[p].file
  IN  /\ sends' = sends /\ UNCHANGED Histories /\ files' = files
      /\ Only(f, files[f], <<>>) /\ Has(p, At("tmp", f))

LEMMA OpenCopyFacts ==
  ASSUME AllTypeOK, Stages, NEW p \in Processes, OpenCopy(p) \/ OpenSignal(p)
  PROVE  /\ AllTypeOK' /\ OpenCopyLeaves(p)
         /\ \/ /\ pc[p] = "tmp" /\ op[p].file \in Outboxes
               /\ Now(p, op[p], "copy", to[p], text[p])
            \/ /\ pc[p] = "stmp" /\ op[p].file \in Signals
               /\ Now(p, op[p], "swrite", to[p], text[p])
  <1>1. PICK f : f = op[p].file
    OBVIOUS
  <1>2. /\ UNCHANGED <<sends, op, to, text>> /\ UNCHANGED history /\ OpenTmp(p, f)
        /\ \/ pc[p] = "tmp" /\ Goto(p, "copy")
           \/ pc[p] = "stmp" /\ Goto(p, "swrite")
        /\ "copy" \in MailPlaces /\ "swrite" \in MailPlaces
    BY <1>1 DEF OpenCopy, OpenSignal, MailPlaces
  <1>3. /\ f \in Files /\ sends \in Nat /\ sends <= sends' /\ sends' \in Nat
        /\ pc[p] = "tmp" => f \in Outboxes
        /\ pc[p] = "stmp" => f \in Signals
    BY <1>1, <1>2, PlaceFacts, FileFacts DEF AllTypeOK
  <1>4. /\ ProcessTypeOK'
        /\ \/ pc[p] = "tmp" /\ Now(p, op[p], "copy", to[p], text[p])
           \/ pc[p] = "stmp" /\ Now(p, op[p], "swrite", to[p], text[p])
    BY <1>2, GotoFacts DEF AllTypeOK
  <1>5. /\ DiskTypeOK' /\ Has(p, At("tmp", f)) /\ files' = files
        /\ Only(f, files[f], <<>>)
    BY <1>2, <1>3, OpenTmpFacts DEF AllTypeOK
  <1>6. HistoryTypeOK' /\ UNCHANGED Histories
    BY <1>2, <1>3, HistoryKept DEF AllTypeOK, Histories
  <1>7. OpenCopyLeaves(p)
    BY <1>1, <1>2, <1>5, <1>6 DEF OpenCopyLeaves
  <1>8. QED
    BY <1>1, <1>2, <1>3, <1>4, <1>5, <1>6, <1>7 DEF AllTypeOK

\* What a copy leaves of what is already there.
Over(old, t) ==
  IF Len(old) <= Len(t) THEN t ELSE t \o SubSeq(old, Len(t) + 1, Len(old))

WriteCopyLeaves(p) ==
  LET f == op[p].file
      x == Over(Behind(p, f), text[p])
  IN  /\ pc[p] = "copy" /\ f \in Outboxes /\ sends' = sends /\ UNCHANGED Histories
      /\ Now(p, op[p], "rename", to[p], text[p]) /\ Has(p, Closed)
      /\ Only(f, IF fd[p] = At("file", f) THEN x ELSE files[f],
                 IF fd[p] = At("tmp", f) THEN x ELSE tmp[f])

LEMMA WriteCopyFacts ==
  ASSUME AllTypeOK, Stages, NEW p \in Processes, WriteCopy(p)
  PROVE  AllTypeOK' /\ WriteCopyLeaves(p)
  <1>1. PICK f : f = op[p].file
    OBVIOUS
  <1>2. PICK x : x = Over(Behind(p, f), text[p])
    OBVIOUS
  <1>3. /\ pc[p] = "copy" /\ UNCHANGED <<sends, op, to, text>> /\ UNCHANGED history
        /\ Goto(p, "rename") /\ "rename" \in MailPlaces /\ Put(p, f, x)
    BY <1>1, <1>2 DEF WriteCopy, Over, MailPlaces
  <1>4. f \in Files /\ f \in Outboxes /\ sends \in Nat /\ sends <= sends' /\ sends' \in Nat
    BY <1>1, <1>3, PlaceFacts, FileFacts DEF AllTypeOK
  <1>5. fd[p] \in {At("file", f), At("tmp", f)} => x \in Texts
    <2>1. fd[p] \in {At("file", f), At("tmp", f)} => Behind(p, f) \in Texts
      BY <1>4, HandlesDiffer DEF AllTypeOK, DiskTypeOK, Opens, Behind
    <2>2. text[p] \in Texts
      BY DEF AllTypeOK, ProcessTypeOK
    <2>3. ASSUME NEW old \in Texts, NEW t \in Texts
          PROVE  Over(old, t) \in Texts
      <3>1. PICK S : S = 0 .. sends
        OBVIOUS
      <3>2. old \in Seq(S) /\ t \in Seq(S)
        BY <3>1 DEF Texts
      <3>3. Len(old) \in Nat /\ Len(t) \in Nat
        BY <3>2
      <3>4. SubSeq(old, Len(t) + 1, Len(old)) \in Seq(S)
        BY <3>2, <3>3, SubSeqProperties
      <3>5. t \o SubSeq(old, Len(t) + 1, Len(old)) \in Seq(S)
        BY <3>2, <3>4, ConcatProperties
      <3>6. QED BY <3>1, <3>2, <3>5 DEF Over, Texts
    <2>4. QED BY <1>2, <2>1, <2>2, <2>3
  <1>6. ProcessTypeOK' /\ Now(p, op[p], "rename", to[p], text[p])
    BY <1>3, GotoFacts DEF AllTypeOK
  <1>7. /\ DiskTypeOK' /\ Has(p, Closed)
        /\ Only(f, IF fd[p] = At("file", f) THEN x ELSE files[f],
                   IF fd[p] = At("tmp", f) THEN x ELSE tmp[f])
    BY <1>3, <1>4, <1>5, PutTextFacts DEF AllTypeOK
  <1>8. HistoryTypeOK' /\ UNCHANGED Histories
    BY <1>3, <1>4, HistoryKept DEF AllTypeOK, Histories
  <1>9. WriteCopyLeaves(p)
    BY <1>1, <1>2, <1>3, <1>4, <1>6, <1>7, <1>8 DEF WriteCopyLeaves
  <1>10. QED
    BY <1>3, <1>4, <1>6, <1>7, <1>8, <1>9 DEF AllTypeOK

\* A rename moves the temporary file, if there is one.
Renamed(f) ==
  \/ tmp[f] # NoFile /\ Carried(f) /\ Only(f, tmp[f], NoFile)
  \/ tmp[f] = NoFile /\ UNCHANGED <<files, tmp, fd>>

RenameCopyLeaves(p) ==
  LET f == op[p].file
  IN  /\ pc[p] = "rename" /\ f \in Outboxes /\ sends' = sends /\ UNCHANGED Histories
      /\ Now(p, None, "idle", <<>>, <<>>) /\ Renamed(f)

LEMMA RenamedFacts ==
  ASSUME DiskTypeOK, UNCHANGED sends, sends \in Nat, NEW f \in Files,
         IF tmp[f] # NoFile THEN RenameTmp(f) ELSE UNCHANGED <<files, tmp, fd>>
  PROVE  DiskTypeOK' /\ Renamed(f)
  <1>1. CASE tmp[f] # NoFile
    BY <1>1, RenameTmpFacts DEF Renamed
  <1>2. CASE tmp[f] = NoFile
    BY <1>2, DiskKept DEF Renamed
  <1>3. QED BY <1>1, <1>2

LEMMA RenameCopyFacts ==
  ASSUME AllTypeOK, Stages, NEW p \in Processes, RenameCopy(p)
  PROVE  AllTypeOK' /\ RenameCopyLeaves(p)
  <1>1. PICK f : f = op[p].file
    OBVIOUS
  <1>2. /\ pc[p] = "rename" /\ UNCHANGED sends /\ UNCHANGED history /\ Finish(p)
        /\ IF tmp[f] # NoFile THEN RenameTmp(f) ELSE UNCHANGED <<files, tmp, fd>>
    BY <1>1 DEF RenameCopy
  <1>3. f \in Files /\ f \in Outboxes /\ sends \in Nat /\ sends <= sends' /\ sends' \in Nat
    BY <1>1, <1>2, PlaceFacts, FileFacts DEF AllTypeOK
  <1>4. ProcessTypeOK' /\ Now(p, None, "idle", <<>>, <<>>)
    BY <1>2, <1>3, FinishFacts DEF AllTypeOK
  <1>5. DiskTypeOK' /\ Renamed(f)
    BY <1>2, <1>3, RenamedFacts DEF AllTypeOK
  <1>6. HistoryTypeOK' /\ UNCHANGED Histories
    BY <1>2, <1>3, HistoryKept DEF AllTypeOK, Histories
  <1>7. QED
    BY <1>1, <1>2, <1>3, <1>4, <1>5, <1>6 DEF AllTypeOK, RenameCopyLeaves
StartSignalLeaves(p, w) ==
  /\ pc[p] = "idle" /\ p \in Leads /\ w \in Workers /\ sends' = sends + 1
  /\ UNCHANGED <<files, tmp, fd>> /\ UNCHANGED Histories
  /\ Now(p, [do |-> "signal", id |-> sends + 1, file |-> Signal(w)], "stmp", to[p], text[p])

LEMMA StartSignalFacts ==
  ASSUME AllTypeOK, NEW p \in Processes, StartSignal(p)
  PROVE  AllTypeOK' /\ \E w \in Workers : StartSignalLeaves(p, w)
  <1>1. PICK w \in Workers :
          /\ p \in Leads /\ sends' = sends + 1
          /\ Begin(p, [do |-> "signal", id |-> sends + 1, file |-> Signal(w)], "stmp")
          /\ UNCHANGED <<files, tmp, fd, to, text>> /\ UNCHANGED history
    BY DEF StartSignal
  <1>2. /\ sends \in Nat /\ sends' \in Nat /\ sends <= sends' /\ "stmp" \in MailPlaces
        /\ Signal(w) \in Files
    BY <1>1, FileFacts DEF AllTypeOK, MailPlaces
  <1>3. [do |-> "signal", id |-> sends + 1, file |-> Signal(w)] \in Operations'
    BY <1>1, <1>2 DEF Operations
  <1>4. /\ to' = [to EXCEPT ![p] = to[p]] /\ to[p] \in Seq(Mailboxes)
        /\ text' = [text EXCEPT ![p] = text[p]] /\ text[p] \in Texts'
    <2>1. Texts \subseteq Texts'
      <3>1. 0 .. sends \subseteq 0 .. sends'
        BY <1>2
      <3>2. QED BY <3>1, SeqWidens DEF Texts
    <2>2. QED BY <1>1, <2>1 DEF AllTypeOK, ProcessTypeOK
  <1>5. /\ ProcessTypeOK' /\ pc[p] = "idle"
        /\ Now(p, [do |-> "signal", id |-> sends + 1, file |-> Signal(w)], "stmp", to[p], text[p])
    BY <1>1, <1>2, <1>3, <1>4, BeginFacts DEF AllTypeOK
  <1>6. QED
    BY <1>1, <1>2, <1>5, HistoryKept, DiskKept DEF AllTypeOK, StartSignalLeaves, Histories

PublishLeaves(w, appears, t) ==
  /\ \A v \in Workers \ {w} : missed'[v] = missed[v] /\ newest'[v] = newest[v]
  /\ ~ appears => missed'[w] = missed[w] /\ newest'[w] = newest[w]
  /\ appears =>
       /\ newest'[w] = t
       /\ missed'[w] = missed[w]
            \cup (IF files[Signal(w)] = NoFile THEN {} ELSE InText(files[Signal(w)]))
            \cup (IF pc[w] = "sremove" THEN InText(t) ELSE {})

LEMMA PublishFacts ==
  ASSUME AllTypeOK, NEW w \in Workers, NEW appears \in BOOLEAN, NEW t, appears => t \in Texts,
         Publish(w, appears, t)
  PROVE  /\ newest' \in [Workers -> Texts] /\ missed' \in [Workers -> SUBSET (1 .. sends)]
         /\ PublishLeaves(w, appears, t)
  <1>1. \A u \in Texts : InText(u) \in SUBSET (1 .. sends)
    BY DEF Texts, InText, Newline, AllTypeOK
  <1>2. Signal(w) \in Files
    BY FileFacts
  <1>3. PICK r, u : /\ r = IF files[Signal(w)] = NoFile THEN {} ELSE InText(files[Signal(w)])
                    /\ u = IF pc[w] = "sremove" THEN InText(t) ELSE {}
    OBVIOUS
  <1>4. r \in SUBSET (1 .. sends) /\ (appears => u \in SUBSET (1 .. sends))
    BY <1>1, <1>2, <1>3 DEF AllTypeOK, DiskTypeOK
  <1>5. /\ appears => /\ missed' = [missed EXCEPT ![w] = @ \cup r \cup u]
                      /\ newest' = [newest EXCEPT ![w] = t]
        /\ ~ appears => UNCHANGED <<missed, newest>>
    BY <1>3 DEF Publish
  <1>6. missed \in [Workers -> SUBSET (1 .. sends)] /\ newest \in [Workers -> Texts]
    BY DEF AllTypeOK, HistoryTypeOK
  <1>7. /\ newest' \in [Workers -> Texts] /\ missed' \in [Workers -> SUBSET (1 .. sends)]
    BY <1>4, <1>5, <1>6
  <1>8. PublishLeaves(w, appears, t)
    BY <1>3, <1>5, <1>6 DEF PublishLeaves
  <1>9. QED BY <1>7, <1>8

WriteSignalLeaves(p) ==
  LET f == op[p].file
      x == <<op[p].id>>
  IN  /\ pc[p] = "swrite" /\ f \in Signals /\ op[p].id \in 1 .. sends /\ sends' = sends
      /\ UNCHANGED <<appended, got, done, late, spoiled, taken>>
      /\ Now(p, op[p], "srename", to[p], text[p]) /\ Has(p, Closed)
      /\ Only(f, IF fd[p] = At("file", f) THEN x ELSE files[f],
                 IF fd[p] = At("tmp", f) THEN x ELSE tmp[f])
      /\ PublishLeaves(f[2], fd[p] = At("file", f), x)

LEMMA WriteSignalFacts ==
  ASSUME AllTypeOK, Stages, NEW p \in Processes, WriteSignal(p)
  PROVE  AllTypeOK' /\ WriteSignalLeaves(p)
  <1>1. PICK f, x : f = op[p].file /\ x = <<op[p].id>>
    OBVIOUS
  <1>2. /\ pc[p] = "swrite" /\ UNCHANGED <<sends, op, to, text>>
        /\ UNCHANGED <<appended, got, done, late, spoiled, taken>>
        /\ Goto(p, "srename") /\ "srename" \in MailPlaces
        /\ Put(p, f, x) /\ Publish(f[2], fd[p] = At("file", f), x)
    BY <1>1 DEF WriteSignal, MailPlaces
  <1>3. /\ f \in Files /\ f \in Signals /\ sends \in Nat /\ sends <= sends' /\ sends' \in Nat
        /\ f[2] \in Workers /\ op[p].id \in 1 .. sends
    BY <1>1, <1>2, PlaceFacts, FileFacts DEF AllTypeOK
  <1>4. x \in Texts /\ Texts' = Texts
    BY <1>1, <1>2, <1>3, TextFacts DEF Texts
  <1>5. ProcessTypeOK' /\ Now(p, op[p], "srename", to[p], text[p])
    BY <1>2, GotoFacts DEF AllTypeOK
  <1>6. /\ DiskTypeOK' /\ Has(p, Closed)
        /\ Only(f, IF fd[p] = At("file", f) THEN x ELSE files[f],
                   IF fd[p] = At("tmp", f) THEN x ELSE tmp[f])
    BY <1>2, <1>3, <1>4, PutTextFacts DEF AllTypeOK
  <1>7. /\ newest' \in [Workers -> Texts] /\ missed' \in [Workers -> SUBSET (1 .. sends)]
        /\ PublishLeaves(f[2], fd[p] = At("file", f), x)
    BY <1>2, <1>3, <1>4, PublishFacts
  <1>8. HistoryTypeOK'
    BY <1>2, <1>4, <1>7 DEF AllTypeOK, HistoryTypeOK
  <1>9. WriteSignalLeaves(p)
    BY <1>1, <1>2, <1>3, <1>5, <1>6, <1>7 DEF WriteSignalLeaves
  <1>10. QED
    BY <1>3, <1>5, <1>6, <1>8, <1>9 DEF AllTypeOK

RenameSignalLeaves(p) ==
  LET f == op[p].file
  IN  /\ pc[p] = "srename" /\ f \in Signals /\ sends' = sends
      /\ UNCHANGED <<appended, got, done, late, spoiled, taken>>
      /\ Now(p, None, "idle", <<>>, <<>>) /\ Renamed(f)
      /\ PublishLeaves(f[2], tmp[f] # NoFile, tmp[f])

LEMMA RenameSignalFacts ==
  ASSUME AllTypeOK, Stages, NEW p \in Processes, RenameSignal(p)
  PROVE  AllTypeOK' /\ RenameSignalLeaves(p)
  <1>1. PICK f : f = op[p].file
    OBVIOUS
  <1>2. /\ pc[p] = "srename" /\ UNCHANGED sends /\ Finish(p)
        /\ UNCHANGED <<appended, got, done, late, spoiled, taken>>
        /\ Publish(f[2], tmp[f] # NoFile, tmp[f])
        /\ IF tmp[f] # NoFile THEN RenameTmp(f) ELSE UNCHANGED <<files, tmp, fd>>
    BY <1>1 DEF RenameSignal
  <1>3. /\ f \in Files /\ f \in Signals /\ sends \in Nat /\ sends <= sends' /\ sends' \in Nat
        /\ f[2] \in Workers
    BY <1>1, <1>2, PlaceFacts, FileFacts DEF AllTypeOK
  <1>4. (tmp[f] # NoFile => tmp[f] \in Texts) /\ Texts' = Texts
    BY <1>2, <1>3 DEF AllTypeOK, DiskTypeOK, Texts
  <1>5. ProcessTypeOK' /\ Now(p, None, "idle", <<>>, <<>>)
    BY <1>2, <1>3, FinishFacts DEF AllTypeOK
  <1>6. DiskTypeOK' /\ Renamed(f)
    BY <1>2, <1>3, RenamedFacts DEF AllTypeOK
  <1>7. /\ newest' \in [Workers -> Texts] /\ missed' \in [Workers -> SUBSET (1 .. sends)]
        /\ PublishLeaves(f[2], tmp[f] # NoFile, tmp[f])
    BY <1>2, <1>3, <1>4, PublishFacts
  <1>8. HistoryTypeOK'
    BY <1>2, <1>4, <1>7 DEF AllTypeOK, HistoryTypeOK
  <1>9. RenameSignalLeaves(p)
    BY <1>1, <1>2, <1>3, <1>5, <1>6, <1>7 DEF RenameSignalLeaves
  <1>10. QED
    BY <1>3, <1>5, <1>6, <1>8, <1>9 DEF AllTypeOK

ReadSignalLeaves(w) ==
  LET s == Signal(w)
  IN  /\ pc[w] = "idle" /\ UNCHANGED <<sends, files, tmp, fd>> /\ UNCHANGED Histories
      /\ files[s] \notin {NoFile, <<>>}
      /\ Now(w, [do |-> "check", id |-> 0, file |-> s], "sremove", to[w], files[s])

LEMMA ReadSignalFacts ==
  ASSUME AllTypeOK, NEW w \in Workers, ReadSignal(w)
  PROVE  AllTypeOK' /\ ReadSignalLeaves(w)
  <1>1. PICK s : s = Signal(w)
    OBVIOUS
  <1>2. /\ files[s] \notin {NoFile, <<>>}
        /\ Begin(w, [do |-> "check", id |-> 0, file |-> s], "sremove") /\ "sremove" \in MailPlaces
        /\ text' = [text EXCEPT ![w] = files[s]]
        /\ UNCHANGED <<files, tmp, fd, to, sends>> /\ UNCHANGED history
    BY <1>1 DEF ReadSignal, MailPlaces
  <1>3. /\ s \in Files /\ w \in Processes
        /\ sends \in Nat /\ sends' \in Nat /\ sends <= sends'
    BY <1>1, <1>2, FileFacts DEF AllTypeOK
  <1>4. files[s] \in Texts /\ Texts' = Texts
    BY <1>2, <1>3 DEF AllTypeOK, DiskTypeOK, Texts
  <1>5. [do |-> "check", id |-> 0, file |-> s] \in Operations'
    BY <1>3 DEF Operations
  <1>6. to' = [to EXCEPT ![w] = to[w]] /\ to[w] \in Seq(Mailboxes)
    BY <1>2, <1>3 DEF AllTypeOK, ProcessTypeOK
  <1>7. /\ ProcessTypeOK' /\ pc[w] = "idle"
        /\ Now(w, [do |-> "check", id |-> 0, file |-> s], "sremove", to[w], files[s])
    BY <1>2, <1>3, <1>4, <1>5, <1>6, BeginFacts DEF AllTypeOK
  <1>8. DiskTypeOK' /\ HistoryTypeOK' /\ UNCHANGED Histories
    BY <1>2, <1>3, DiskKept, HistoryKept DEF AllTypeOK, Histories
  <1>9. QED
    BY <1>1, <1>2, <1>3, <1>7, <1>8 DEF AllTypeOK, ReadSignalLeaves

RemoveSignalLeaves(w) ==
  LET s == Signal(w)
  IN  /\ pc[w] = "sremove" /\ sends' = sends
      /\ UNCHANGED <<appended, got, done, late, spoiled, newest, missed>>
      /\ Now(w, None, "idle", <<>>, <<>>) /\ Only(s, NoFile, tmp[s])
      /\ \A q \in Processes : fd'[q] = IF fd[q] = At("file", s) THEN Closed ELSE fd[q]
      /\ taken'[w] = taken[w] \o text[w]
      /\ \A v \in Workers \ {w} : taken'[v] = taken[v]

LEMMA RemoveSignalFacts ==
  ASSUME AllTypeOK, Stages, NEW w \in Workers, RemoveSignal(w)
  PROVE  AllTypeOK' /\ RemoveSignalLeaves(w)
  <1>1. PICK s : s = Signal(w)
    OBVIOUS
  <1>2. /\ pc[w] = "sremove" /\ Finish(w) /\ RemoveFile(s)
        /\ taken' = [taken EXCEPT ![w] = @ \o text[w]]
        /\ UNCHANGED <<sends, appended, got, done, late, spoiled, newest, missed>>
    BY <1>1 DEF RemoveSignal
  <1>3. /\ s \in Files /\ w \in Processes
        /\ sends \in Nat /\ sends' \in Nat /\ sends <= sends'
    BY <1>1, <1>2, FileFacts DEF AllTypeOK
  <1>4. ProcessTypeOK' /\ Now(w, None, "idle", <<>>, <<>>)
    BY <1>2, <1>3, FinishFacts DEF AllTypeOK
  <1>5. /\ DiskTypeOK' /\ Only(s, NoFile, tmp[s])
        /\ \A q \in Processes : fd'[q] = IF fd[q] = At("file", s) THEN Closed ELSE fd[q]
    BY <1>2, <1>3, RemoveFileFacts DEF AllTypeOK
  <1>6. text[w] \in Seq(1 .. sends)
    <2>1. PICK i \in 1 .. sends : text[w] = <<i>>
      BY <1>2, <1>3 DEF Stages, StageOf, OneSignal
    <2>2. QED BY <2>1
  <1>7. /\ taken' \in [Workers -> Seq(1 .. sends)]
        /\ taken'[w] = taken[w] \o text[w]
        /\ \A v \in Workers \ {w} : taken'[v] = taken[v]
    <2>1. taken[w] \o text[w] \in Seq(1 .. sends)
      BY <1>6, ConcatProperties DEF AllTypeOK, HistoryTypeOK
    <2>2. QED BY <1>2, <2>1 DEF AllTypeOK, HistoryTypeOK
  <1>8. Texts' = Texts
    BY <1>2 DEF Texts
  <1>9. HistoryTypeOK'
    BY <1>2, <1>7, <1>8 DEF AllTypeOK, HistoryTypeOK
  <1>10. QED
    BY <1>1, <1>2, <1>3, <1>4, <1>5, <1>7, <1>9 DEF AllTypeOK, RemoveSignalLeaves

CrashLeaves(p) ==
  /\ pc[p] # "idle" /\ UNCHANGED <<sends, files, tmp>>
  /\ UNCHANGED <<appended, got, done, late, taken, newest, missed>>
  /\ Now(p, None, "idle", <<>>, <<>>) /\ Has(p, Closed)
  /\ spoiled' = IF pc[p] = "newline" THEN spoiled \cup {Head(to[p])} ELSE spoiled

LEMMA CrashFacts ==
  ASSUME AllTypeOK, Stages, NEW p \in Processes, Crash(p)
  PROVE  AllTypeOK' /\ CrashLeaves(p)
  <1>1. /\ pc[p] # "idle" /\ Drop(p) /\ Finish(p)
        /\ spoiled' = IF pc[p] = "newline" THEN spoiled \cup {Head(to[p])} ELSE spoiled
        /\ UNCHANGED <<sends, appended, got, done, late, taken, newest, missed>>
    BY DEF Crash
  <1>2. sends \in Nat /\ Texts' = Texts
    BY <1>1 DEF AllTypeOK, Texts
  <1>3. ProcessTypeOK' /\ Now(p, None, "idle", <<>>, <<>>)
    BY <1>1, <1>2, FinishFacts DEF AllTypeOK
  <1>4. DiskTypeOK' /\ Has(p, Closed) /\ UNCHANGED <<files, tmp>>
    BY <1>1, <1>2, DropFacts DEF AllTypeOK
  <1>5. spoiled' \subseteq Mailboxes
    BY <1>1, AppenderFacts DEF AllTypeOK, HistoryTypeOK
  <1>6. HistoryTypeOK'
    BY <1>1, <1>2, <1>5 DEF AllTypeOK, HistoryTypeOK
  <1>7. QED
    BY <1>1, <1>2, <1>3, <1>4, <1>6 DEF AllTypeOK, CrashLeaves
-----------------------------------------------------------------------------
(* The places of the processes.                                            *)

Leaves ==
  \/ UNCHANGED mailVars
  \/ \E p \in Processes :
       \/ StartAppendLeaves(p) \/ OpenMailboxLeaves(p) \/ PutLineLeaves(p)
       \/ PutNewlineLeaves(p) \/ (\E f \in Outboxes : ReadOutboxLeaves(p, f))
       \/ /\ OpenCopyLeaves(p)
          /\ \/ /\ pc[p] = "tmp" /\ op[p].file \in Outboxes
                /\ Now(p, op[p], "copy", to[p], text[p])
             \/ /\ pc[p] = "stmp" /\ op[p].file \in Signals
                /\ Now(p, op[p], "swrite", to[p], text[p])
       \/ WriteCopyLeaves(p) \/ RenameCopyLeaves(p)
       \/ (\E w \in Workers : StartSignalLeaves(p, w))
       \/ WriteSignalLeaves(p) \/ RenameSignalLeaves(p) \/ CrashLeaves(p)
  \/ \E w \in Workers :
       \/ ReadInboxLeaves(w) \/ ClearInboxLeaves(w) \/ ReadSignalLeaves(w)
       \/ RemoveSignalLeaves(w)

LEMMA MailSteps ==
  ASSUME AllTypeOK, Stages, [MailNext]_mailVars
  PROVE  AllTypeOK' /\ Leaves
  <1>1. CASE UNCHANGED mailVars
    <2>1. UNCHANGED <<sends, files, tmp, fd, op, pc, to, text>> /\ UNCHANGED Histories
      BY <1>1 DEF mailVars, Histories
    <2>2. Texts' = Texts /\ Operations' = Operations
      BY <2>1 DEF Texts, Operations
    <2>3. AllTypeOK'
      BY <2>1, <2>2
      DEF Histories, AllTypeOK, DiskTypeOK, Opens, ProcessTypeOK, HistoryTypeOK
    <2>4. QED BY <1>1, <2>3 DEF Leaves
  <1>2. ASSUME NEW p \in Processes,
               \/ StartAppend(p) \/ OpenMailbox(p) \/ PutLine(p) \/ PutNewline(p)
               \/ ReadOutbox(p)
        PROVE  AllTypeOK' /\ Leaves
    BY <1>2, StartAppendFacts, OpenMailboxFacts, PutLineFacts, PutNewlineFacts,
       ReadOutboxFacts DEF Leaves
  <1>3. ASSUME NEW p \in Processes,
               \/ OpenCopy(p) \/ WriteCopy(p) \/ RenameCopy(p) \/ StartSignal(p)
        PROVE  AllTypeOK' /\ Leaves
    BY <1>3, OpenCopyFacts, WriteCopyFacts, RenameCopyFacts, StartSignalFacts DEF Leaves
  <1>4. ASSUME NEW p \in Processes,
               \/ OpenSignal(p) \/ WriteSignal(p) \/ RenameSignal(p) \/ Crash(p)
        PROVE  AllTypeOK' /\ Leaves
    BY <1>4, OpenCopyFacts, WriteSignalFacts, RenameSignalFacts, CrashFacts DEF Leaves
  <1>5. ASSUME NEW w \in Workers,
               ReadInbox(w) \/ ClearInbox(w) \/ ReadSignal(w) \/ RemoveSignal(w)
        PROVE  AllTypeOK' /\ Leaves
    BY <1>5, ReadInboxFacts, ClearInboxFacts, ReadSignalFacts, RemoveSignalFacts DEF Leaves
  <1>6. QED
    BY <1>1, <1>2, <1>3, <1>4, <1>5 DEF MailNext

\* What others do moves a descriptor from a temporary file to the file, or closes it.
Drifted(q) ==
  \/ fd'[q] \in {fd[q], Closed}
  \/ \E f \in Files : fd[q] = At("tmp", f) /\ fd'[q] = At("file", f)

LEMMA StageKept ==
  ASSUME NEW q \in Processes, StageOf(q), sends \in Nat, sends' \in Nat, sends <= sends',
         op'[q] = op[q], pc'[q] = pc[q], to'[q] = to[q], text'[q] = text[q], Drifted(q)
  PROVE  StageOf(q)'
  <1>1. Operations \subseteq Operations' /\ OneSignal \subseteq OneSignal'
    <2>1. 0 .. sends \subseteq 0 .. sends' /\ 1 .. sends \subseteq 1 .. sends'
      OBVIOUS
    <2>2. QED BY <2>1 DEF Operations, OneSignal
  <1>2. CASE pc[q] \in {"line", "newline"}
    <2>1. fd'[q] \in {Closed, At("file", Head(to[q]))}
      BY <1>2, HandlesDiffer DEF StageOf, Drifted
    <2>2. QED BY <1>1, <1>2, <2>1 DEF StageOf
  <1>3. CASE pc[q] \in {"copy", "swrite"}
    <2>1. fd'[q] \in {Closed, At("file", op[q].file), At("tmp", op[q].file)}
      BY <1>3, HandlesDiffer DEF StageOf, Drifted
    <2>2. QED BY <1>1, <1>3, <2>1 DEF StageOf
  <1>4. CASE pc[q] \notin {"line", "newline", "copy", "swrite"}
    <2>1. fd'[q] = Closed
      BY <1>4, HandlesDiffer DEF StageOf, Drifted
    <2>2. QED BY <1>1, <1>4, <2>1 DEF StageOf
  <1>5. QED BY <1>2, <1>3, <1>4

LEMMA DriftFacts ==
  ASSUME DiskTypeOK, NEW f \in Files, Carried(f), NEW q \in Processes
  PROVE  Drifted(q)
  BY DEF Carried, Drifted
LEMMA StagesByParts ==
  ASSUME AllTypeOK, Stages, AllTypeOK', NEW p \in Processes, NEW o, NEW place, NEW t, NEW x,
         Now(p, o, place, t, x), sends <= sends',
         \A q \in Processes \ {p} : Drifted(q), StageOf(p)', Signalled'
  PROVE  Stages'
  <1>1. \A q \in Processes : StageOf(q)'
    <2>1. ASSUME NEW q \in Processes, q # p
          PROVE  StageOf(q)'
      <3>1. StageOf(q) /\ sends \in Nat /\ sends' \in Nat /\ Drifted(q)
        BY <2>1 DEF Stages, AllTypeOK
      <3>2. op'[q] = op[q] /\ pc'[q] = pc[q] /\ to'[q] = to[q] /\ text'[q] = text[q]
        BY <2>1 DEF Now
      <3>3. QED BY <3>1, <3>2, StageKept
    <2>2. QED BY <2>1
  <1>2. Opens'
    BY DEF AllTypeOK, DiskTypeOK
  <1>3. QED BY <1>1, <1>2 DEF Stages

LEMMA SignalledKept ==
  ASSUME Signalled, sends \in Nat, sends' \in Nat, sends <= sends',
         \A s \in Signals : files'[s] = files[s] /\ tmp'[s] = tmp[s],
         newest' = newest
  PROVE  Signalled'
  <1>1. OneSignal \subseteq OneSignal'
    <2>1. 1 .. sends \subseteq 1 .. sends'
      OBVIOUS
    <2>2. QED BY <2>1 DEF OneSignal
  <1>2. \A w \in Workers : Signal(w) \in Signals
    BY FileFacts
  <1>3. QED BY <1>1, <1>2 DEF Signalled

\* A step on a mailbox leaves the signals.
LEMMA MailboxSignals ==
  ASSUME AllTypeOK, Stages, NEW f \in Mailboxes, NEW x, NEW y, Only(f, x, y),
         sends' = sends, newest' = newest
  PROVE  Signalled'
  <1>1. \A s \in Signals : s \in Files \ {f}
    BY FileFacts
  <1>2. \A s \in Signals : files'[s] = files[s] /\ tmp'[s] = tmp[s]
    BY <1>1 DEF Only
  <1>3. QED BY <1>2, SignalledKept DEF Stages, AllTypeOK

LEMMA AppendStages ==
  ASSUME AllTypeOK, Stages, AllTypeOK', NEW p \in Processes,
         \/ StartAppendLeaves(p) \/ OpenMailboxLeaves(p) \/ PutLineLeaves(p)
         \/ PutNewlineLeaves(p)
  PROVE  Stages'
  <1>0. StageOf(p) /\ sends \in Nat /\ sends' \in Nat
    BY DEF Stages, AllTypeOK
  <1>1. CASE StartAppendLeaves(p)
    <2>1. PICK t \in Seq(Mailboxes) :
            /\ Now(p, [do |-> "append", id |-> sends + 1, file |-> None], "open", t, text[p])
            /\ t # <<>>
            /\ p \in Workers => t = <<Outbox(p)>>
            /\ p \in Leads => t \in Seq(Inboxes)
      BY <1>1 DEF StartAppendLeaves
    <2>2. sends' = sends + 1 /\ fd' = fd /\ pc[p] = "idle" /\ sends <= sends'
      BY <1>0, <1>1 DEF StartAppendLeaves
    <2>3. fd[p] = Closed
      BY <1>0, <2>2 DEF StageOf
    <2>4. [do |-> "append", id |-> sends + 1, file |-> None] \in Operations'
      BY <1>0, <2>2 DEF Operations
    <2>5. StageOf(p)'
      BY <1>0, <2>1, <2>2, <2>3, <2>4 DEF StageOf, Now
    <2>6. Signalled'
      BY <1>0, <1>1, <2>2, SignalledKept DEF StartAppendLeaves, Histories, Stages
    <2>7. \A q \in Processes \ {p} : Drifted(q)
      BY <2>2 DEF Drifted
    <2>8. QED BY <2>1, <2>2, <2>5, <2>6, <2>7, StagesByParts
  <1>2. ASSUME pc[p] \in {"open", "line", "newline"}
        PROVE  /\ Head(to[p]) \in Mailboxes /\ to[p] # <<>> /\ to[p] \in Seq(Mailboxes)
               /\ op[p] \in Operations /\ op[p].do = "append" /\ op[p].id # 0
               /\ p \in Workers => to[p] = <<Outbox(p)>>
               /\ p \in Leads => to[p] \in Seq(Inboxes)
    BY <1>0, <1>2, AppenderFacts DEF StageOf
  <1>3. CASE OpenMailboxLeaves(p)
    <2>1. /\ Now(p, op[p], "line", to[p], text[p]) /\ Has(p, At("file", Head(to[p])))
          /\ sends' = sends /\ pc[p] = "open" /\ newest' = newest
          /\ \E x, y : Only(Head(to[p]), x, y)
      BY <1>3 DEF OpenMailboxLeaves, Histories
    <2>2. Operations' = Operations /\ sends <= sends'
      BY <1>0, <2>1 DEF Operations
    <2>3. StageOf(p)'
      BY <1>0, <1>2, <2>1, <2>2 DEF StageOf, Now, Has
    <2>4. Signalled'
      BY <1>2, <2>1, MailboxSignals
    <2>5. \A q \in Processes \ {p} : Drifted(q)
      BY <2>1 DEF Drifted, Has
    <2>6. QED BY <2>1, <2>2, <2>3, <2>4, <2>5, StagesByParts
  <1>4. CASE PutLineLeaves(p)
    <2>1. /\ Now(p, op[p], "newline", to[p], text[p]) /\ fd' = fd
          /\ sends' = sends /\ pc[p] = "line" /\ newest' = newest
          /\ \E x, y : Only(Head(to[p]), x, y)
      BY <1>4 DEF PutLineLeaves
    <2>2. Operations' = Operations /\ sends <= sends'
      BY <1>0, <2>1 DEF Operations
    <2>3. fd[p] \in {Closed, At("file", Head(to[p]))}
      BY <1>0, <2>1 DEF StageOf
    <2>4. StageOf(p)'
      BY <1>0, <1>2, <2>1, <2>2, <2>3 DEF StageOf, Now
    <2>5. Signalled'
      BY <1>2, <2>1, MailboxSignals
    <2>6. \A q \in Processes \ {p} : Drifted(q)
      BY <2>1 DEF Drifted
    <2>7. QED BY <2>1, <2>2, <2>4, <2>5, <2>6, StagesByParts
  <1>5. CASE PutNewlineLeaves(p)
    <2>1. /\ \/ Len(to[p]) > 1 /\ Now(p, op[p], "open", Tail(to[p]), text[p])
             \/ Now(p, None, "idle", <<>>, <<>>)
          /\ Has(p, Closed)
          /\ sends' = sends /\ pc[p] = "newline" /\ newest' = newest
          /\ \E x, y : Only(Head(to[p]), x, y)
      BY <1>5 DEF PutNewlineLeaves, Histories
    <2>2. Operations' = Operations /\ sends <= sends'
      BY <1>0, <2>1 DEF Operations
    <2>3. StageOf(p)'
      <3>1. CASE Len(to[p]) > 1 /\ Now(p, op[p], "open", Tail(to[p]), text[p])
        <4>1. Len(Tail(to[p])) # 0 /\ Tail(to[p]) # <<>>
          <5>1. Len(Tail(to[p])) = Len(to[p]) - 1 /\ Len(to[p]) \in Nat
            BY <1>2, <2>1
          <5>2. PICK n \in Nat : n = Len(to[p]) /\ n > 1 /\ Len(Tail(to[p])) = n - 1
            BY <3>1, <5>1
          <5>3. n > 1 => n - 1 # 0
            OBVIOUS
          <5>4. Len(<<>>) = 0
            OBVIOUS
          <5>5. Len(Tail(to[p])) # 0
            BY ONLY <5>2, <5>3
          <5>6. QED BY <5>4, <5>5
        <4>2. p \notin Workers
          <5>1. \A y : Len(<<y>>) = 1 /\ ~ (1 > 1)
            OBVIOUS
          <5>2. p \in Workers => to[p] = <<Outbox(p)>>
            BY <1>2, <2>1
          <5>3. PICK y : y = Outbox(p)
            OBVIOUS
          <5>4. p \in Workers => Len(to[p]) = 1
            BY ONLY <5>1, <5>2, <5>3
          <5>5. QED BY ONLY <3>1, <5>1, <5>4
        <4>3. p \in Leads => Tail(to[p]) \in Seq(Inboxes)
          BY <1>2, <2>1
        <4>4. QED
          BY <1>2, <2>1, <2>2, <3>1, <4>1, <4>2, <4>3 DEF StageOf, Now, Has
      <3>2. CASE Now(p, None, "idle", <<>>, <<>>)
        BY <2>1, <3>2 DEF StageOf, Now, Has
      <3>3. QED BY <2>1, <3>1, <3>2
    <2>4. Signalled'
      BY <1>2, <2>1, MailboxSignals
    <2>5. \A q \in Processes \ {p} : Drifted(q)
      BY <2>1 DEF Drifted, Has
    <2>6. QED BY <2>1, <2>2, <2>3, <2>4, <2>5, StagesByParts
  <1>6. QED BY <1>1, <1>3, <1>4, <1>5

LEMMA ReceiveStages ==
  ASSUME AllTypeOK, Stages, AllTypeOK', NEW w \in Workers,
         ReadInboxLeaves(w) \/ ClearInboxLeaves(w)
  PROVE  Stages'
  <1>0. /\ StageOf(w) /\ sends \in Nat /\ sends' = sends /\ w \in Processes
        /\ sends <= sends' /\ Operations' = Operations
        /\ newest' = newest /\ fd' = fd /\ Inbox(w) \in Mailboxes /\ Inbox(w) \in Files
    <2>1. sends \in Nat /\ sends' = sends /\ newest' = newest /\ fd' = fd
      BY DEF AllTypeOK, ReadInboxLeaves, ClearInboxLeaves
    <2>2. w \in Processes /\ Inbox(w) \in Mailboxes /\ Inbox(w) \in Files
      BY FileFacts
    <2>3. sends <= sends' /\ Operations' = Operations
      BY <2>1 DEF Operations
    <2>4. QED BY <2>1, <2>2, <2>3 DEF Stages
  <1>1. fd[w] = Closed
    BY <1>0 DEF ReadInboxLeaves, ClearInboxLeaves, StageOf
  <1>2. \A q \in Processes \ {w} : Drifted(q)
    BY <1>0 DEF Drifted
  <1>3. CASE ReadInboxLeaves(w)
    <2>1. Now(w, [do |-> "receive", id |-> 0, file |-> Inbox(w)], "clear", to[w], files[Inbox(w)])
      BY <1>3 DEF ReadInboxLeaves
    <2>2. [do |-> "receive", id |-> 0, file |-> Inbox(w)] \in Operations
      BY <1>0 DEF Operations
    <2>3. StageOf(w)'
      BY <1>0, <1>1, <2>1, <2>2 DEF StageOf, Now
    <2>4. Signalled'
      BY <1>0, <1>3, SignalledKept DEF ReadInboxLeaves, Stages
    <2>5. QED BY <1>0, <1>2, <2>1, <2>3, <2>4, StagesByParts
  <1>4. CASE ClearInboxLeaves(w)
    <2>1. Now(w, None, "idle", <<>>, <<>>) /\ Only(Inbox(w), <<>>, tmp[Inbox(w)])
      BY <1>4 DEF ClearInboxLeaves
    <2>2. StageOf(w)'
      BY <1>0, <1>1, <2>1 DEF StageOf, Now
    <2>3. Signalled'
      BY <1>0, <2>1, MailboxSignals
    <2>4. QED BY <1>0, <1>2, <2>1, <2>2, <2>3, StagesByParts
  <1>5. QED BY <1>3, <1>4
LEMMA RotateStages ==
  ASSUME AllTypeOK, Stages, AllTypeOK', NEW p \in Processes,
         \/ \E f \in Outboxes : ReadOutboxLeaves(p, f)
         \/ OpenCopyLeaves(p) /\ pc[p] = "tmp" /\ Now(p, op[p], "copy", to[p], text[p])
         \/ WriteCopyLeaves(p) \/ RenameCopyLeaves(p)
  PROVE  Stages'
  <1>0. StageOf(p) /\ sends \in Nat
    BY DEF Stages, AllTypeOK
  <1>1. sends' = sends /\ newest' = newest
    BY DEF ReadOutboxLeaves, OpenCopyLeaves, WriteCopyLeaves, RenameCopyLeaves, Histories
  <1>2. sends <= sends' /\ Operations' = Operations
    BY <1>0, <1>1 DEF Operations
  <1>3. CASE \E f \in Outboxes : ReadOutboxLeaves(p, f)
    <2>1. PICK f \in Outboxes : ReadOutboxLeaves(p, f)
      BY <1>3
    <2>2. /\ Now(p, [do |-> "rotate", id |-> 0, file |-> f], "tmp", to[p], Newest(files[f]))
          /\ UNCHANGED <<files, tmp, fd>> /\ pc[p] = "idle"
      BY <2>1 DEF ReadOutboxLeaves
    <2>3. [do |-> "rotate", id |-> 0, file |-> f] \in Operations
      BY <1>0, FileFacts DEF Operations
    <2>4. StageOf(p)'
      BY <1>0, <1>2, <2>2, <2>3 DEF StageOf, Now
    <2>5. Signalled'
      BY <1>0, <1>1, <1>2, <2>2, SignalledKept DEF Stages
    <2>6. \A q \in Processes \ {p} : Drifted(q)
      BY <2>2 DEF Drifted
    <2>7. QED BY <1>2, <2>2, <2>4, <2>5, <2>6, StagesByParts
  <1>4. ASSUME pc[p] \in {"tmp", "copy", "rename"}
        PROVE  /\ op[p] \in Operations /\ op[p].do = "rotate" /\ op[p].file \in Outboxes
               /\ op[p].file \in Mailboxes /\ op[p].file \in Files
    BY <1>0, <1>4, FileFacts DEF StageOf
  <1>5. CASE OpenCopyLeaves(p) /\ pc[p] = "tmp" /\ Now(p, op[p], "copy", to[p], text[p])
    <2>1. Has(p, At("tmp", op[p].file)) /\ \E x, y : Only(op[p].file, x, y)
      BY <1>5 DEF OpenCopyLeaves
    <2>2. StageOf(p)'
      BY <1>2, <1>4, <1>5, <2>1 DEF StageOf, Now, Has
    <2>3. Signalled'
      BY <1>1, <1>4, <1>5, <2>1, MailboxSignals
    <2>4. \A q \in Processes \ {p} : Drifted(q)
      BY <2>1 DEF Drifted, Has
    <2>5. QED BY <1>2, <1>5, <2>2, <2>3, <2>4, StagesByParts
  <1>6. CASE WriteCopyLeaves(p)
    <2>1. /\ pc[p] = "copy" /\ Now(p, op[p], "rename", to[p], text[p]) /\ Has(p, Closed)
          /\ \E x, y : Only(op[p].file, x, y)
      BY <1>6 DEF WriteCopyLeaves
    <2>2. StageOf(p)'
      BY <1>2, <1>4, <2>1 DEF StageOf, Now, Has
    <2>3. Signalled'
      BY <1>1, <1>4, <2>1, MailboxSignals
    <2>4. \A q \in Processes \ {p} : Drifted(q)
      BY <2>1 DEF Drifted, Has
    <2>5. QED BY <1>2, <2>1, <2>2, <2>3, <2>4, StagesByParts
  <1>7. CASE RenameCopyLeaves(p)
    <2>1. pc[p] = "rename" /\ Now(p, None, "idle", <<>>, <<>>) /\ Renamed(op[p].file)
      BY <1>7 DEF RenameCopyLeaves
    <2>2. \A q \in Processes : Drifted(q) /\ (fd[q] = Closed => fd'[q] = Closed)
      BY <1>4, <2>1, HandlesDiffer DEF Renamed, Carried, Drifted
    <2>3. fd'[p] = Closed
      BY <1>0, <2>1, <2>2 DEF StageOf
    <2>4. StageOf(p)'
      BY <2>1, <2>3 DEF StageOf, Now
    <2>5. Signalled'
      <3>1. CASE UNCHANGED <<files, tmp, fd>>
        BY <1>0, <1>1, <1>2, <3>1, SignalledKept DEF Stages
      <3>2. CASE \E x, y : Only(op[p].file, x, y)
        BY <1>1, <1>4, <2>1, <3>2, MailboxSignals
      <3>3. QED BY <2>1, <3>1, <3>2 DEF Renamed
    <2>6. QED BY <1>2, <2>1, <2>2, <2>4, <2>5, StagesByParts
  <1>8. QED BY <1>3, <1>5, <1>6, <1>7

\* What is left of the signals by a step on one of them.
LEMMA SignalSignals ==
  ASSUME AllTypeOK, Stages, sends' = sends, NEW w \in Workers, NEW x, NEW y,
         Only(Signal(w), x, y),
         x \in OneSignal \cup {<<>>, NoFile}, y \in OneSignal \cup {<<>>, NoFile},
         newest'[w] \in OneSignal \cup {<<>>},
         \A v \in Workers \ {w} : newest'[v] = newest[v]
  PROVE  Signalled'
  <1>1. OneSignal' = OneSignal
    BY DEF OneSignal
  <1>2. ASSUME NEW v \in Workers, v # w
        PROVE  files'[Signal(v)] = files[Signal(v)] /\ tmp'[Signal(v)] = tmp[Signal(v)]
    <2>1. Signal(v) \in Files /\ Signal(v) # Signal(w)
      BY <1>2, FileFacts
    <2>2. QED BY <2>1 DEF Only
  <1>3. files'[Signal(w)] = x /\ tmp'[Signal(w)] = y
    BY DEF Only
  <1>4. QED BY <1>1, <1>2, <1>3 DEF Stages, Signalled

LEMMA SignalStages ==
  ASSUME AllTypeOK, Stages, AllTypeOK', NEW p \in Processes,
         \/ \E w \in Workers : StartSignalLeaves(p, w)
         \/ OpenCopyLeaves(p) /\ pc[p] = "stmp" /\ Now(p, op[p], "swrite", to[p], text[p])
         \/ WriteSignalLeaves(p) \/ RenameSignalLeaves(p)
  PROVE  Stages'
  <1>0. StageOf(p) /\ sends \in Nat /\ Signalled
    BY DEF Stages, AllTypeOK
  <1>1. CASE \E w \in Workers : StartSignalLeaves(p, w)
    <2>1. PICK w \in Workers : StartSignalLeaves(p, w)
      BY <1>1
    <2>2. /\ Now(p, [do |-> "signal", id |-> sends + 1, file |-> Signal(w)], "stmp", to[p], text[p])
          /\ UNCHANGED <<files, tmp, fd>> /\ pc[p] = "idle" /\ p \in Leads
          /\ sends' = sends + 1 /\ newest' = newest
      BY <2>1 DEF StartSignalLeaves, Histories
    <2>3. /\ sends' \in Nat /\ sends <= sends' /\ Signal(w) \in Signals /\ Signal(w) \in Files
          /\ sends + 1 # 0
      BY <1>0, <2>2, FileFacts
    <2>4. [do |-> "signal", id |-> sends + 1, file |-> Signal(w)] \in Operations'
      BY <1>0, <2>2, <2>3 DEF Operations
    <2>5. StageOf(p)'
      BY <1>0, <2>2, <2>3, <2>4 DEF StageOf, Now
    <2>6. Signalled'
      BY <1>0, <2>2, <2>3, SignalledKept
    <2>7. \A q \in Processes \ {p} : Drifted(q)
      BY <2>2 DEF Drifted
    <2>8. QED BY <2>2, <2>3, <2>5, <2>6, <2>7, StagesByParts
  <1>2. ASSUME pc[p] \in {"stmp", "swrite", "srename"}
        PROVE  /\ op[p] \in Operations /\ op[p].do = "signal" /\ op[p].id # 0 /\ p \in Leads
               /\ op[p].file \in Signals /\ op[p].file[2] \in Workers
               /\ op[p].file = Signal(op[p].file[2]) /\ <<op[p].id>> \in OneSignal
    <2>1. /\ op[p] \in Operations /\ op[p].do = "signal" /\ op[p].id # 0 /\ p \in Leads
          /\ op[p].file \in Signals
      BY <1>0, <1>2 DEF StageOf
    <2>2. op[p].file[2] \in Workers /\ op[p].file = Signal(op[p].file[2])
      BY <2>1, FileFacts
    <2>3. op[p].id \in 1 .. sends
      BY <1>0, <2>1 DEF Operations
    <2>4. QED BY <2>1, <2>2, <2>3 DEF OneSignal
  <1>3. PICK w, s : s = op[p].file /\ w = s[2]
    OBVIOUS
  <1>4. ASSUME w \in Workers, s = Signal(w)
        PROVE  /\ files[s] \in OneSignal \cup {<<>>, NoFile} /\ tmp[s] \in OneSignal \cup {<<>>, NoFile}
               /\ newest[w] \in OneSignal \cup {<<>>}
    BY <1>0, <1>4 DEF Signalled
  <1>5. ASSUME sends' = sends PROVE Operations' = Operations /\ sends <= sends'
    BY <1>0, <1>5 DEF Operations
  <1>6. CASE OpenCopyLeaves(p) /\ pc[p] = "stmp" /\ Now(p, op[p], "swrite", to[p], text[p])
    <2>1. /\ Has(p, At("tmp", s)) /\ Only(s, files[s], <<>>)
          /\ newest' = newest /\ sends' = sends
      BY <1>3, <1>6 DEF OpenCopyLeaves, Histories
    <2>2. StageOf(p)'
      BY <1>2, <1>3, <1>5, <1>6, <2>1 DEF StageOf, Now, Has
    <2>3. Signalled'
      BY <1>2, <1>3, <1>4, <1>6, <2>1, SignalSignals
    <2>4. \A q \in Processes \ {p} : Drifted(q)
      BY <2>1 DEF Drifted, Has
    <2>5. QED BY <1>5, <1>6, <2>1, <2>2, <2>3, <2>4, StagesByParts
  <1>7. CASE WriteSignalLeaves(p)
    <2>1. /\ pc[p] = "swrite" /\ Now(p, op[p], "srename", to[p], text[p]) /\ Has(p, Closed)
          /\ sends' = sends
          /\ Only(s, IF fd[p] = At("file", s) THEN <<op[p].id>> ELSE files[s],
                     IF fd[p] = At("tmp", s) THEN <<op[p].id>> ELSE tmp[s])
          /\ PublishLeaves(w, fd[p] = At("file", s), <<op[p].id>>)
      BY <1>3, <1>7 DEF WriteSignalLeaves
    <2>2. StageOf(p)'
      BY <1>2, <1>5, <2>1 DEF StageOf, Now, Has
    <2>3. PICK x, y : /\ x = IF fd[p] = At("file", s) THEN <<op[p].id>> ELSE files[s]
                      /\ y = IF fd[p] = At("tmp", s) THEN <<op[p].id>> ELSE tmp[s]
      OBVIOUS
    <2>4. /\ w \in Workers /\ s = Signal(w) /\ Only(s, x, y)
          /\ x \in OneSignal \cup {<<>>, NoFile} /\ y \in OneSignal \cup {<<>>, NoFile}
      BY <1>2, <1>3, <1>4, <2>1, <2>3
    <2>5. newest'[w] \in OneSignal \cup {<<>>} /\ \A v \in Workers \ {w} : newest'[v] = newest[v]
      BY <1>2, <1>4, <2>1, <2>4 DEF PublishLeaves
    <2>6. Signalled'
      BY <2>1, <2>4, <2>5, SignalSignals
    <2>7. \A q \in Processes \ {p} : Drifted(q)
      BY <2>1 DEF Drifted, Has
    <2>8. QED BY <1>5, <2>1, <2>2, <2>6, <2>7, StagesByParts
  <1>8. CASE RenameSignalLeaves(p)
    <2>1. /\ pc[p] = "srename" /\ Now(p, None, "idle", <<>>, <<>>) /\ Renamed(s)
          /\ sends' = sends /\ PublishLeaves(w, tmp[s] # NoFile, tmp[s])
      BY <1>3, <1>8 DEF RenameSignalLeaves
    <2>2. w \in Workers /\ s = Signal(w) /\ s \in Files /\ s \in Signals
      BY <1>2, <1>3, <2>1, FileFacts
    <2>3. \A q \in Processes : Drifted(q) /\ (fd[q] = Closed => fd'[q] = Closed)
      BY <2>1, <2>2, HandlesDiffer DEF Renamed, Carried, Drifted
    <2>4. StageOf(p)'
      BY <1>0, <2>1, <2>3 DEF StageOf, Now
    <2>5. Signalled'
      <3>1. CASE tmp[s] = NoFile
        <4>1. UNCHANGED <<files, tmp>> /\ \A v \in Workers : newest'[v] = newest[v]
          BY <2>1, <3>1 DEF Renamed, PublishLeaves
        <4>2. OneSignal' = OneSignal
          BY <2>1 DEF OneSignal
        <4>3. QED BY <1>0, <4>1, <4>2 DEF Signalled
      <3>2. CASE tmp[s] # NoFile
        <4>1. /\ Only(s, tmp[s], NoFile) /\ newest'[w] = tmp[s]
              /\ \A v \in Workers \ {w} : newest'[v] = newest[v]
          BY <2>1, <3>2 DEF Renamed, PublishLeaves
        <4>2. tmp[s] \in OneSignal \cup {<<>>}
          BY <1>4, <2>2, <3>2
        <4>3. QED BY <2>1, <2>2, <4>1, <4>2, SignalSignals
      <3>3. QED BY <3>1, <3>2
    <2>6. QED BY <1>5, <2>1, <2>3, <2>4, <2>5, StagesByParts
  <1>9. QED BY <1>1, <1>6, <1>7, <1>8

LEMMA CheckStages ==
  ASSUME AllTypeOK, Stages, AllTypeOK', NEW w \in Workers,
         ReadSignalLeaves(w) \/ RemoveSignalLeaves(w)
  PROVE  Stages'
  <1>0. /\ sends \in Nat /\ sends' = sends /\ w \in Processes
        /\ newest' = newest /\ Signal(w) \in Files /\ Signalled
    BY FileFacts DEF AllTypeOK, ReadSignalLeaves, RemoveSignalLeaves, Histories, Stages
  <1>1. StageOf(w) /\ sends <= sends' /\ Operations' = Operations /\ OneSignal' = OneSignal
    BY <1>0 DEF Stages, Operations, OneSignal
  <1>2. fd[w] = Closed
    BY <1>1 DEF ReadSignalLeaves, RemoveSignalLeaves, StageOf
  <1>3. CASE ReadSignalLeaves(w)
    <2>1. /\ Now(w, [do |-> "check", id |-> 0, file |-> Signal(w)], "sremove", to[w], files[Signal(w)])
          /\ UNCHANGED <<files, tmp, fd>> /\ files[Signal(w)] \notin {NoFile, <<>>}
      BY <1>3 DEF ReadSignalLeaves
    <2>2. [do |-> "check", id |-> 0, file |-> Signal(w)] \in Operations
      BY <1>0 DEF Operations
    <2>3. files[Signal(w)] \in OneSignal
      BY <1>0, <2>1 DEF Signalled
    <2>4. StageOf(w)'
      BY <1>0, <1>1, <1>2, <2>1, <2>2, <2>3 DEF StageOf, Now
    <2>5. Signalled'
      BY <1>0, <1>1, <2>1, SignalledKept
    <2>6. \A q \in Processes \ {w} : Drifted(q)
      BY <2>1 DEF Drifted
    <2>7. QED BY <1>0, <1>1, <2>1, <2>4, <2>5, <2>6, StagesByParts
  <1>4. CASE RemoveSignalLeaves(w)
    <2>1. /\ Now(w, None, "idle", <<>>, <<>>) /\ Only(Signal(w), NoFile, tmp[Signal(w)])
          /\ \A q \in Processes : fd'[q] = IF fd[q] = At("file", Signal(w)) THEN Closed ELSE fd[q]
      BY <1>4 DEF RemoveSignalLeaves
    <2>2. StageOf(w)'
      BY <1>0, <1>2, <2>1 DEF StageOf, Now
    <2>3. Signalled'
      BY <1>0, <2>1, SignalSignals DEF Signalled
    <2>4. \A q \in Processes \ {w} : Drifted(q)
      BY <2>1 DEF Drifted
    <2>5. QED BY <1>0, <1>1, <2>1, <2>2, <2>3, <2>4, StagesByParts
  <1>5. QED BY <1>3, <1>4

LEMMA CrashStages ==
  ASSUME AllTypeOK, Stages, AllTypeOK', NEW p \in Processes, CrashLeaves(p)
  PROVE  Stages'
  <1>1. /\ Now(p, None, "idle", <<>>, <<>>) /\ Has(p, Closed)
        /\ sends' = sends /\ UNCHANGED <<files, tmp, newest>>
    BY DEF CrashLeaves
  <1>2. sends \in Nat /\ sends <= sends'
    BY <1>1 DEF AllTypeOK
  <1>3. StageOf(p)'
    BY <1>1 DEF StageOf, Now, Has
  <1>4. Signalled'
    BY <1>1, <1>2, SignalledKept DEF Stages
  <1>5. \A q \in Processes \ {p} : Drifted(q)
    BY <1>1 DEF Drifted, Has
  <1>6. QED BY <1>1, <1>2, <1>3, <1>4, <1>5, StagesByParts

LEMMA StagesNext ==
  ASSUME AllTypeOK, Stages, [MailNext]_mailVars
  PROVE  AllTypeOK' /\ Leaves /\ Stages'
  <1>1. AllTypeOK' /\ Leaves
    BY MailSteps
  <1>2. CASE UNCHANGED mailVars
    <2>1. UNCHANGED <<sends, files, tmp, fd, op, pc, to, text, newest>>
      BY <1>2 DEF mailVars
    <2>2. Operations' = Operations /\ OneSignal' = OneSignal
      BY <2>1 DEF Operations, OneSignal
    <2>3. sends \in Nat /\ sends <= sends'
      BY <2>1 DEF AllTypeOK
    <2>4. \A q \in Processes : StageOf(q)'
      <3> SUFFICES ASSUME NEW q \in Processes
                   PROVE  StageOf(q)'
        OBVIOUS
      <3>1. StageOf(q) /\ Drifted(q)
        BY <2>1 DEF Stages, Drifted
      <3>2. QED BY <2>1, <2>3, <3>1, StageKept
    <2>5. Signalled'
      BY <2>1, <2>3, SignalledKept DEF Stages
    <2>6. Opens'
      BY <1>1 DEF AllTypeOK, DiskTypeOK
    <2>7. QED BY <1>1, <2>4, <2>5, <2>6 DEF Stages
  <1>3. QED
    BY <1>1, <1>2, AppendStages, ReceiveStages, RotateStages, SignalStages, CheckStages,
       CrashStages DEF Leaves

LEMMA StagesInit == MailInit => AllTypeOK /\ Stages
  <1> SUFFICES ASSUME MailInit
               PROVE  AllTypeOK /\ Stages
    OBVIOUS
  <1>1. sends \in Nat /\ <<>> \in Texts /\ NoFile # <<>>
    BY TextFacts DEF MailInit, Texts
  <1>2. DiskTypeOK
    BY <1>1, HandlesDiffer DEF MailInit, DiskTypeOK, Opens
  <1>3. ProcessTypeOK
    BY <1>1 DEF MailInit, ProcessTypeOK, MailPlaces
  <1>4. HistoryTypeOK
    BY <1>1 DEF MailInit, HistoryTypeOK
  <1>5. \A p \in Processes : StageOf(p)
    BY DEF MailInit, StageOf
  <1>6. Signalled
    BY FileFacts DEF MailInit, Signalled
  <1>7. QED
    BY <1>1, <1>2, <1>3, <1>4, <1>5, <1>6 DEF AllTypeOK, DiskTypeOK, Stages

-----------------------------------------------------------------------------
(* Ids.                                                                    *)

LEMMA NumberedFacts ==
  ASSUME AllTypeOK, Stages, NEW p \in Processes, Numbered(p)
  PROVE  op[p].id \in 1 .. sends
  <1>1. pc[p] \in {"open", "line", "newline"} \/ pc[p] \in {"stmp", "swrite", "srename"}
    BY DEF Numbered
  <1>2. QED BY <1>1, AppenderFacts, PlaceFacts

LEMMA IdsByParts ==
  ASSUME AllTypeOK, Stages, IdsInv, NEW p \in Processes, NEW o, NEW place, NEW t, NEW x,
         Now(p, o, place, t, x), appended' = appended,
         Numbered(p)' => (Numbered(p) /\ o.id = op[p].id) \/ o.id = sends + 1,
         \A i, j \in DOMAIN t : t[i] = t[j] => i = j,
         \A i \in Unwritten(p)' : o.id \notin InText(appended[t[i]])
  PROVE  IdsInv'
  <1>1. \A q \in Processes \ {p} : /\ op'[q] = op[q] /\ pc'[q] = pc[q] /\ to'[q] = to[q]
                                   /\ (Numbered(q)' <=> Numbered(q))
                                   /\ Unwritten(q)' = Unwritten(q)
    BY DEF Now, Numbered, Unwritten
  <1>2. op'[p] = o /\ to'[p] = t
    BY DEF Now
  <1>3. \A q \in Processes : Numbered(q) => op[q].id # sends + 1
    BY NumberedFacts DEF AllTypeOK
  <1>4. ASSUME NEW q \in Processes, NEW r \in Processes,
               Numbered(q)', Numbered(r)', op'[q].id = op'[r].id
        PROVE  q = r
    <2>1. CASE q # p /\ r # p
      BY <1>1, <1>4, <2>1 DEF IdsInv
    <2>2. CASE q = p /\ r # p
      BY <1>1, <1>2, <1>3, <1>4, <2>2 DEF IdsInv
    <2>3. CASE q # p /\ r = p
      BY <1>1, <1>2, <1>3, <1>4, <2>3 DEF IdsInv
    <2>4. QED BY <2>1, <2>2, <2>3
  <1>5. ASSUME NEW q \in Processes
        PROVE  /\ \A i, j \in DOMAIN to'[q] : to'[q][i] = to'[q][j] => i = j
               /\ \A i \in Unwritten(q)' : op'[q].id \notin InText(appended'[to'[q][i]])
    <2>1. CASE q = p
      BY <1>2, <2>1
    <2>2. CASE q # p
      BY <1>1, <2>2 DEF IdsInv
    <2>3. QED BY <2>1, <2>2
  <1>6. \A f \in Mailboxes : \A i, j \in DOMAIN appended'[f] :
          appended'[f][i] = appended'[f][j] => i = j
    BY DEF IdsInv
  <1>7. \A f : InText(appended[f])' = InText(appended'[f])
    BY DEF InText
  <1>8. QED BY <1>4, <1>5, <1>6 DEF IdsInv, InText

\* An operation that is not about to write lines.
LEMMA IdsElsewhere ==
  ASSUME AllTypeOK, Stages, IdsInv, NEW p \in Processes, NEW o, NEW place, NEW t, NEW x,
         Now(p, o, place, t, x), appended' = appended,
         place \notin {"open", "line", "newline"}, t \in {to[p], <<>>},
         place \in {"stmp", "swrite", "srename"} =>
           (Numbered(p) /\ o.id = op[p].id) \/ o.id = sends + 1
  PROVE  IdsInv'
  <1>1. Unwritten(p)' = {} /\ (Numbered(p)' => place \in {"stmp", "swrite", "srename"})
    BY DEF Now, Unwritten, Numbered
  <1>2. \A i, j \in DOMAIN t : t[i] = t[j] => i = j
    BY DEF IdsInv
  <1>3. QED BY <1>1, <1>2, IdsByParts

LEMMA IdsPutLine ==
  ASSUME AllTypeOK, Stages, IdsInv, AllTypeOK', NEW p \in Processes, PutLineLeaves(p)
  PROVE  IdsInv'
  <1> PICK f : f = Head(to[p])
    OBVIOUS
  <1> PICK m : m = op[p].id
    OBVIOUS
  <1>1. /\ pc[p] = "line" /\ Now(p, op[p], "newline", to[p], text[p])
        /\ appended'[f] = Append(appended[f], m)
        /\ \A g \in Mailboxes \ {f} : appended'[g] = appended[g]
    BY DEF PutLineLeaves
  <1>2. f \in Mailboxes /\ to[p] \in Seq(Mailboxes) /\ to[p][1] = f /\ 1 \in DOMAIN to[p]
    BY <1>1, AppenderFacts
  <1>3. \A q \in Processes : /\ op'[q] = op[q] /\ to'[q] = to[q]
                             /\ (Numbered(q)' <=> Numbered(q))
                             /\ Unwritten(q)' \subseteq Unwritten(q)
    BY <1>1 DEF Now, Numbered, Unwritten
  <1>4. Unwritten(p) = DOMAIN to[p] /\ Unwritten(p)' = DOMAIN to[p] \ {1} /\ Numbered(p)
    BY <1>1 DEF Now, Numbered, Unwritten
  <1>5. appended[f] \in Seq(1 .. sends) /\ appended'[f] \in Seq(1 .. sends')
    BY <1>2 DEF AllTypeOK, HistoryTypeOK
  <1>6. m \notin InText(appended[f]) /\ m # Newline
    <2>1. m \in 1 .. sends
      BY <1>4, NumberedFacts
    <2>2. QED BY <1>2, <1>4, <2>1 DEF IdsInv, Newline
  <1>7. /\ Len(appended[f]) \in Nat /\ DOMAIN appended[f] = 1 .. Len(appended[f])
        /\ DOMAIN appended'[f] = 1 .. Len(appended[f]) + 1
        /\ \A i \in 1 .. Len(appended[f]) : appended'[f][i] = appended[f][i]
        /\ appended'[f][Len(appended[f]) + 1] = m
    <2>1. m \in 1 .. sends
      BY <1>4, NumberedFacts
    <2>2. QED BY ONLY <1>1, <1>5, <2>1, AppendProperties
  <1>8. \A i \in 1 .. Len(appended[f]) : appended[f][i] # m
    BY <1>6 DEF InText
  <1>9. InText(appended'[f]) \subseteq InText(appended[f]) \cup {m}
    <2>1. Len(appended'[f]) = Len(appended[f]) + 1
      BY <1>5, <1>7
    <2>2. QED BY ONLY <1>7, <2>1 DEF InText
  <1>10. \A q, r \in Processes :
           Numbered(q)' /\ Numbered(r)' /\ op'[q].id = op'[r].id => q = r
    BY <1>3 DEF IdsInv
  <1>11. ASSUME NEW q \in Processes, NEW i \in Unwritten(q)'
         PROVE  op'[q].id \notin InText(appended'[to'[q][i]])
    <2>1. /\ op[q].id \notin InText(appended[to[q][i]]) /\ i \in DOMAIN to[q]
          /\ to[q] \in Seq(Mailboxes)
      BY <1>3, <1>11 DEF IdsInv, AllTypeOK, ProcessTypeOK, Unwritten
    <2>2. to[q][i] \in Mailboxes
      BY <2>1
    <2>3. CASE to[q][i] # f
      BY <1>1, <1>3, <2>1, <2>2, <2>3
    <2>4. CASE to[q][i] = f /\ q # p
      <3>1. Numbered(q)
        BY <1>3, <1>11 DEF Unwritten, Numbered
      <3>2. op[q].id # m
        BY <1>4, <2>4, <3>1 DEF IdsInv
      <3>3. QED BY <1>3, <1>9, <2>1, <2>4, <3>2
    <2>5. CASE to[q][i] = f /\ q = p
      <3>1. i = 1
        BY <1>2, <2>1, <2>5 DEF IdsInv
      <3>2. QED BY <1>4, <1>11, <2>5, <3>1
    <2>6. QED BY <2>3, <2>4, <2>5
  <1>12. ASSUME NEW g \in Mailboxes, NEW i \in DOMAIN appended'[g], NEW j \in DOMAIN appended'[g],
                appended'[g][i] = appended'[g][j]
         PROVE  i = j
    <2>1. CASE g # f
      BY <1>1, <1>12, <2>1 DEF IdsInv
    <2>2. CASE g = f
      <3>1. \A a, b \in DOMAIN appended[f] : appended[f][a] = appended[f][b] => a = b
        BY <1>2 DEF IdsInv
      <3>2. PICK n, s, u : n = Len(appended[f]) /\ s = appended[f] /\ u = appended'[f]
        OBVIOUS
      <3>3. /\ n \in Nat /\ DOMAIN s = 1 .. n /\ DOMAIN u = 1 .. n + 1
            /\ \A a \in 1 .. n : u[a] = s[a] /\ s[a] # m
            /\ u[n + 1] = m
        BY <1>7, <1>8, <3>2
      <3>4. i \in 1 .. n + 1 /\ j \in 1 .. n + 1 /\ u[i] = u[j]
        BY <1>12, <2>2, <3>2, <3>3
      <3>5. (i = n + 1 \/ i \in 1 .. n) /\ (j = n + 1 \/ j \in 1 .. n)
        BY <3>3, <3>4
      <3>6. \A a, b \in 1 .. n : s[a] = s[b] => a = b
        BY <3>1, <3>2, <3>3
      <3>7. QED BY ONLY <3>3, <3>4, <3>5, <3>6
    <2>3. QED BY <2>1, <2>2
  <1>13. \A q \in Processes : \A i, j \in DOMAIN to'[q] : to'[q][i] = to'[q][j] => i = j
    BY <1>3 DEF IdsInv
  <1>14. QED BY <1>10, <1>11, <1>12, <1>13 DEF IdsInv, InText

LEMMA IdsPutNewline ==
  ASSUME AllTypeOK, Stages, IdsInv, NEW p \in Processes, PutNewlineLeaves(p)
  PROVE  IdsInv'
  <1>1. pc[p] = "newline" /\ appended' = appended
    BY DEF PutNewlineLeaves, Histories
  <1>2. CASE Now(p, None, "idle", <<>>, <<>>)
    BY <1>1, <1>2, IdsElsewhere
  <1>3. CASE Len(to[p]) > 1 /\ Now(p, op[p], "open", Tail(to[p]), text[p])
    <2>1. to[p] \in Seq(Mailboxes) /\ to[p] # <<>>
      BY <1>1, AppenderFacts
    <2> PICK t : t = Tail(to[p])
      OBVIOUS
    <2>2. /\ DOMAIN t = 1 .. Len(to[p]) - 1 /\ DOMAIN to[p] = 1 .. Len(to[p])
          /\ Len(to[p]) \in Nat
          /\ \A i \in DOMAIN t : t[i] = to[p][i + 1] /\ i + 1 \in DOMAIN to[p] \ {1}
      <3>1. t \in Seq(Mailboxes) /\ Len(t) = Len(to[p]) - 1 /\ Len(to[p]) \in Nat
            /\ \A i \in 1 .. Len(to[p]) - 1 : t[i] = to[p][i + 1]
        BY <2>1, HeadTailProperties
      <3>2. QED BY <2>1, <3>1
    <2>3. \A i, j \in DOMAIN t : t[i] = t[j] => i = j
      BY <2>2 DEF IdsInv
    <2>4. Unwritten(p) = DOMAIN to[p] \ {1} /\ Unwritten(p)' = DOMAIN t /\ Numbered(p)
      BY <1>1, <1>3 DEF Now, Unwritten, Numbered
    <2>5. \A i \in Unwritten(p)' : op[p].id \notin InText(appended[t[i]])
      BY <2>2, <2>4 DEF IdsInv
    <2>6. QED BY <1>1, <1>3, <2>3, <2>4, <2>5, IdsByParts
  <1>4. QED BY <1>2, <1>3 DEF PutNewlineLeaves

LEMMA IdsNext ==
  ASSUME AllTypeOK, Stages, IdsInv, AllTypeOK', Leaves
  PROVE  IdsInv'
  <1>1. CASE UNCHANGED mailVars
    BY <1>1 DEF mailVars, IdsInv, Numbered, Unwritten, InText
  <1>2. ASSUME NEW p \in Processes, StartAppendLeaves(p)
        PROVE  IdsInv'
    <2>1. PICK t \in Seq(Mailboxes) :
            /\ Now(p, [do |-> "append", id |-> sends + 1, file |-> None], "open", t, text[p])
            /\ \A i, j \in DOMAIN t : t[i] = t[j] => i = j
      BY <1>2 DEF StartAppendLeaves
    <2>2. appended' = appended
      BY <1>2 DEF StartAppendLeaves, Histories
    <2>3. \A i \in Unwritten(p)' : sends + 1 \notin InText(appended[t[i]])
      <3> SUFFICES ASSUME NEW i \in Unwritten(p)'
                   PROVE  sends + 1 \notin InText(appended[t[i]])
        OBVIOUS
      <3>1. i \in DOMAIN t
        BY <2>1 DEF Now, Unwritten
      <3>2. t[i] \in Mailboxes
        BY <3>1
      <3>3. appended[t[i]] \in Seq(1 .. sends) /\ sends \in Nat
        BY <3>2 DEF AllTypeOK, HistoryTypeOK
      <3>4. QED BY <3>3 DEF InText
    <2>4. QED BY <2>1, <2>2, <2>3, IdsByParts
  <1>3. ASSUME NEW p \in Processes, OpenMailboxLeaves(p)
        PROVE  IdsInv'
    <2>1. /\ pc[p] = "open" /\ appended' = appended
          /\ Now(p, op[p], "line", to[p], text[p])
      BY <1>3 DEF OpenMailboxLeaves, Histories
    <2>2. Unwritten(p)' = Unwritten(p) /\ Numbered(p)
      BY <2>1 DEF Now, Unwritten, Numbered
    <2>3. /\ \A i, j \in DOMAIN to[p] : to[p][i] = to[p][j] => i = j
          /\ \A i \in Unwritten(p)' : op[p].id \notin InText(appended[to[p][i]])
      BY <2>2 DEF IdsInv
    <2>4. QED BY <2>1, <2>2, <2>3, IdsByParts
  <1>4. ASSUME NEW p \in Processes, NEW f \in Outboxes, ReadOutboxLeaves(p, f)
        PROVE  IdsInv'
    BY <1>4, IdsElsewhere DEF ReadOutboxLeaves
  <1>5. ASSUME NEW p \in Processes, OpenCopyLeaves(p),
               \/ pc[p] = "tmp" /\ Now(p, op[p], "copy", to[p], text[p])
               \/ pc[p] = "stmp" /\ Now(p, op[p], "swrite", to[p], text[p])
        PROVE  IdsInv'
    <2>1. appended' = appended /\ (pc[p] = "stmp" => Numbered(p))
      BY <1>5 DEF OpenCopyLeaves, Histories, Numbered
    <2>2. QED BY <1>5, <2>1, IdsElsewhere
  <1>6. ASSUME NEW p \in Processes,
               \/ WriteCopyLeaves(p) \/ RenameCopyLeaves(p) \/ WriteSignalLeaves(p)
               \/ RenameSignalLeaves(p) \/ CrashLeaves(p)
        PROVE  IdsInv'
    <2>1. /\ appended' = appended
          /\ \/ Now(p, op[p], "rename", to[p], text[p])
             \/ Now(p, None, "idle", <<>>, <<>>)
             \/ Now(p, op[p], "srename", to[p], text[p]) /\ pc[p] = "swrite"
      BY <1>6 DEF WriteCopyLeaves, RenameCopyLeaves, WriteSignalLeaves, RenameSignalLeaves,
                  CrashLeaves, Histories
    <2>2. pc[p] = "swrite" => Numbered(p)
      BY DEF Numbered
    <2>3. QED BY <2>1, <2>2, IdsElsewhere
  <1>7. ASSUME NEW p \in Processes, NEW w \in Workers, StartSignalLeaves(p, w)
        PROVE  IdsInv'
    <2>1. appended' = appended
      BY <1>7 DEF StartSignalLeaves, Histories
    <2>2. QED BY <1>7, <2>1, IdsElsewhere DEF StartSignalLeaves
  <1>8. ASSUME NEW w \in Workers,
               \/ ReadInboxLeaves(w) \/ ClearInboxLeaves(w) \/ ReadSignalLeaves(w)
               \/ RemoveSignalLeaves(w)
        PROVE  IdsInv'
    <2>1. w \in Processes /\ appended' = appended
      BY <1>8, FileFacts DEF ReadInboxLeaves, ClearInboxLeaves, ReadSignalLeaves,
                             RemoveSignalLeaves, Histories
    <2>2. \/ \E o, x : Now(w, o, "clear", to[w], x)
          \/ Now(w, None, "idle", <<>>, <<>>)
          \/ \E o, x : Now(w, o, "sremove", to[w], x)
      BY <1>8 DEF ReadInboxLeaves, ClearInboxLeaves, ReadSignalLeaves, RemoveSignalLeaves
    <2>3. QED BY <2>1, <2>2, IdsElsewhere
  <1>9. QED
    BY <1>1, <1>2, <1>3, <1>4, <1>5, <1>6, <1>7, <1>8, IdsPutLine, IdsPutNewline DEF Leaves

LEMMA IdsInit == MailInit => IdsInv
  BY FileFacts DEF MailInit, IdsInv, Numbered, Unwritten, InText

-----------------------------------------------------------------------------
(* Which steps concern a mailbox.                                          *)

MailQuiet(f) == Held(f)' = Held(f) /\ appended'[f] = appended[f] /\ late'[f] = late[f]

MailboxSteps(f) ==
  \/ MailQuiet(f)
  \/ \E p \in Processes : PutLineLeaves(p) /\ Head(to[p]) = f
  \/ \E p \in Processes : PutNewlineLeaves(p) /\ Head(to[p]) = f
  \/ \E w \in Workers : ClearInboxLeaves(w) /\ Inbox(w) = f
  \/ \E p \in Processes : WriteCopyLeaves(p) /\ op[p].file = f
  \/ \E p \in Processes : RenameCopyLeaves(p) /\ op[p].file = f

LEMMA MailboxStepsOf ==
  ASSUME AllTypeOK, Stages, Leaves, NEW f \in Mailboxes
  PROVE  MailboxSteps(f)
  <1>1. f \in Files /\ f \notin Signals
    BY FileFacts
  <1>2. ASSUME NEW g \in Files, NEW x, NEW y, Only(g, x, y), f # g,
               appended'[f] = appended[f], late'[f] = late[f]
        PROVE  MailQuiet(f)
    BY <1>1, <1>2 DEF Only, MailQuiet, Held
  <1>3. ASSUME files' = files, appended'[f] = appended[f], late'[f] = late[f]
        PROVE  MailQuiet(f)
    BY <1>3 DEF MailQuiet, Held
  <1>4. CASE UNCHANGED mailVars
    BY <1>3, <1>4 DEF mailVars, MailboxSteps
  <1>5. ASSUME NEW p \in Processes, StartAppendLeaves(p)
        PROVE  MailboxSteps(f)
    BY <1>3, <1>5 DEF StartAppendLeaves, Histories, MailboxSteps
  <1>6. ASSUME NEW p \in Processes, OpenMailboxLeaves(p)
        PROVE  MailboxSteps(f)
    <2>1. Only(Head(to[p]), IF files[Head(to[p])] = NoFile THEN <<>> ELSE files[Head(to[p])],
               tmp[Head(to[p])])
          /\ appended'[f] = appended[f] /\ late'[f] = late[f] /\ pc[p] = "open"
      BY <1>6 DEF OpenMailboxLeaves, Histories
    <2>2. Head(to[p]) \in Files
      BY <2>1, AppenderFacts
    <2>3. CASE Head(to[p]) = f
      <3>1. NoFile # <<>>
        BY TextFacts DEF AllTypeOK
      <3>2. Held(f)' = Held(f)
        BY <2>1, <2>3, <3>1 DEF Only, Held
      <3>3. QED BY <2>1, <3>2 DEF MailQuiet, MailboxSteps
    <2>4. CASE Head(to[p]) # f
      BY <1>2, <2>1, <2>2, <2>4 DEF MailboxSteps
    <2>5. QED BY <2>3, <2>4
  <1>7. ASSUME NEW p \in Processes, PutLineLeaves(p)
        PROVE  MailboxSteps(f)
    <2> PICK g : g = Head(to[p])
      OBVIOUS
    <2>1. g \in Files
      BY <1>7, AppenderFacts DEF PutLineLeaves
    <2>2. CASE g # f
      <3>1. /\ appended'[f] = appended[f] /\ late'[f] = late[f]
            /\ \E x, y : Only(g, x, y)
        BY <1>7, <2>2 DEF PutLineLeaves
      <3>2. QED BY <1>2, <2>1, <2>2, <3>1 DEF MailboxSteps
    <2>3. QED BY <1>7, <2>2 DEF MailboxSteps
  <1>8. ASSUME NEW p \in Processes, PutNewlineLeaves(p)
        PROVE  MailboxSteps(f)
    <2> PICK g : g = Head(to[p])
      OBVIOUS
    <2>1. g \in Files
      BY <1>8, AppenderFacts DEF PutNewlineLeaves
    <2>2. CASE g # f
      <3>1. /\ appended'[f] = appended[f] /\ late'[f] = late[f]
            /\ \E x, y : Only(g, x, y)
        BY <1>8, <2>2 DEF PutNewlineLeaves, Histories
      <3>2. QED BY <1>2, <2>1, <2>2, <3>1 DEF MailboxSteps
    <2>3. QED BY <1>8, <2>2 DEF MailboxSteps
  <1>9. ASSUME NEW p \in Processes, NEW g \in Outboxes, ReadOutboxLeaves(p, g)
        PROVE  MailboxSteps(f)
    BY <1>3, <1>9 DEF ReadOutboxLeaves, MailboxSteps
  <1>10. ASSUME NEW p \in Processes, OpenCopyLeaves(p)
         PROVE  MailboxSteps(f)
    BY <1>3, <1>10 DEF OpenCopyLeaves, Histories, MailboxSteps
  <1>11. ASSUME NEW p \in Processes, WriteCopyLeaves(p)
         PROVE  MailboxSteps(f)
    <2>1. /\ op[p].file \in Files /\ appended'[f] = appended[f] /\ late'[f] = late[f]
          /\ \E x, y : Only(op[p].file, x, y)
      BY <1>11, FileFacts DEF WriteCopyLeaves, Histories
    <2>2. QED BY <1>2, <1>11, <2>1 DEF MailboxSteps
  <1>12. ASSUME NEW g \in Files, Renamed(g), g # f, appended'[f] = appended[f], late'[f] = late[f]
         PROVE  MailboxSteps(f)
    BY <1>2, <1>3, <1>12 DEF Renamed, MailboxSteps
  <1>13. ASSUME NEW p \in Processes, RenameCopyLeaves(p)
         PROVE  MailboxSteps(f)
    <2>1. /\ op[p].file \in Files /\ appended'[f] = appended[f] /\ late'[f] = late[f]
          /\ Renamed(op[p].file)
      BY <1>13, FileFacts DEF RenameCopyLeaves, Histories
    <2>2. QED BY <1>12, <1>13, <2>1 DEF MailboxSteps
  <1>14. ASSUME NEW p \in Processes, NEW w \in Workers, StartSignalLeaves(p, w)
         PROVE  MailboxSteps(f)
    BY <1>3, <1>14 DEF StartSignalLeaves, Histories, MailboxSteps
  <1>15. ASSUME NEW p \in Processes, WriteSignalLeaves(p)
         PROVE  MailboxSteps(f)
    <2>1. /\ op[p].file \in Files /\ op[p].file # f
          /\ appended'[f] = appended[f] /\ late'[f] = late[f]
          /\ \E x, y : Only(op[p].file, x, y)
      BY <1>1, <1>15, FileFacts DEF WriteSignalLeaves
    <2>2. QED BY <1>2, <2>1 DEF MailboxSteps
  <1>16. ASSUME NEW p \in Processes, RenameSignalLeaves(p)
         PROVE  MailboxSteps(f)
    <2>1. /\ op[p].file \in Files /\ op[p].file # f
          /\ appended'[f] = appended[f] /\ late'[f] = late[f] /\ Renamed(op[p].file)
      BY <1>1, <1>16, FileFacts DEF RenameSignalLeaves
    <2>2. QED BY <1>12, <2>1
  <1>17. ASSUME NEW p \in Processes, CrashLeaves(p)
         PROVE  MailboxSteps(f)
    BY <1>3, <1>17 DEF CrashLeaves, MailboxSteps
  <1>18. ASSUME NEW w \in Workers, ReadInboxLeaves(w) \/ ReadSignalLeaves(w)
         PROVE  MailboxSteps(f)
    BY <1>3, <1>18 DEF ReadInboxLeaves, ReadSignalLeaves, Histories, MailboxSteps
  <1>19. ASSUME NEW w \in Workers, ClearInboxLeaves(w)
         PROVE  MailboxSteps(f)
    <2>1. /\ Inbox(w) \in Files /\ appended'[f] = appended[f] /\ late'[f] = late[f]
          /\ \E x, y : Only(Inbox(w), x, y)
      BY <1>19, FileFacts DEF ClearInboxLeaves
    <2>2. QED BY <1>2, <1>19, <2>1 DEF MailboxSteps
  <1>20. ASSUME NEW w \in Workers, RemoveSignalLeaves(w)
         PROVE  MailboxSteps(f)
    <2>1. /\ Signal(w) \in Files /\ Signal(w) # f
          /\ appended'[f] = appended[f] /\ late'[f] = late[f]
          /\ \E x, y : Only(Signal(w), x, y)
      BY <1>1, <1>20, FileFacts DEF RemoveSignalLeaves
    <2>2. QED BY <1>2, <2>1 DEF MailboxSteps
  <1>21. QED
    BY <1>4, <1>5, <1>6, <1>7, <1>8, <1>9, <1>10, <1>11, <1>13, <1>14, <1>15, <1>16, <1>17,
       <1>18, <1>19, <1>20 DEF Leaves

OtherInboxesStay(p) == \A q \in Processes \ {p} : pc'[q] = pc[q] /\ text'[q] = text[q]

\* What the step leaves of worker w's reading.
StillReading(w) ==
  /\ got'[w] = got[w] /\ done'[w] = done[w]
  /\ pc'[w] = "clear" => pc[w] = "clear" /\ text'[w] = text[w]

LEMMA ReadingSteps ==
  ASSUME AllTypeOK, Stages, Leaves, NEW w \in Workers
  PROVE  ReadInboxLeaves(w) \/ ClearInboxLeaves(w) \/ StillReading(w)
  <1>1. w \in Processes
    BY FileFacts
  <1>2. ASSUME NEW p \in Processes, pc'[p] # "clear" \/ p # w, OtherInboxesStay(p),
               got'[w] = got[w], done'[w] = done[w]
        PROVE  StillReading(w)
    BY <1>1, <1>2 DEF OtherInboxesStay, StillReading
  <1>3. CASE UNCHANGED mailVars
    BY <1>3 DEF mailVars, StillReading
  <1>4. ASSUME NEW p \in Processes,
               \/ StartAppendLeaves(p) \/ OpenMailboxLeaves(p) \/ PutLineLeaves(p)
               \/ PutNewlineLeaves(p)
        PROVE  StillReading(w)
    <2>1. got' = got /\ done' = done
      BY <1>4 DEF StartAppendLeaves, OpenMailboxLeaves, PutLineLeaves, PutNewlineLeaves, Histories
    <2>2. pc'[p] # "clear" /\ OtherInboxesStay(p)
      BY <1>4 DEF Now, OtherInboxesStay, StartAppendLeaves, OpenMailboxLeaves, PutLineLeaves, PutNewlineLeaves
    <2>3. QED BY <1>2, <2>1, <2>2
  <1>5. ASSUME NEW p \in Processes,
               \/ \E f \in Outboxes : ReadOutboxLeaves(p, f)
               \/ /\ OpenCopyLeaves(p)
                  /\ \/ Now(p, op[p], "copy", to[p], text[p])
                     \/ Now(p, op[p], "swrite", to[p], text[p])
               \/ WriteCopyLeaves(p) \/ RenameCopyLeaves(p) \/ CrashLeaves(p)
        PROVE  StillReading(w)
    <2>1. got' = got /\ done' = done
      BY <1>5 DEF ReadOutboxLeaves, OpenCopyLeaves, WriteCopyLeaves, RenameCopyLeaves,
                  CrashLeaves, Histories
    <2>2. pc'[p] # "clear" /\ OtherInboxesStay(p)
      BY <1>5 DEF Now, OtherInboxesStay, ReadOutboxLeaves, WriteCopyLeaves, RenameCopyLeaves, CrashLeaves
    <2>3. QED BY <1>2, <2>1, <2>2
  <1>6. ASSUME NEW p \in Processes,
               \/ \E v \in Workers : StartSignalLeaves(p, v)
               \/ WriteSignalLeaves(p) \/ RenameSignalLeaves(p)
        PROVE  StillReading(w)
    <2>1. got' = got /\ done' = done
      BY <1>6 DEF StartSignalLeaves, WriteSignalLeaves, RenameSignalLeaves, Histories
    <2>2. pc'[p] # "clear" /\ OtherInboxesStay(p)
      BY <1>6 DEF Now, OtherInboxesStay, StartSignalLeaves, WriteSignalLeaves, RenameSignalLeaves
    <2>3. QED BY <1>2, <2>1, <2>2
  <1>7. ASSUME NEW v \in Workers, ReadSignalLeaves(v) \/ RemoveSignalLeaves(v)
        PROVE  StillReading(w)
    <2>1. got' = got /\ done' = done /\ v \in Processes
      BY <1>7, FileFacts DEF ReadSignalLeaves, RemoveSignalLeaves, Histories
    <2>2. pc'[v] # "clear" /\ OtherInboxesStay(v)
      BY <1>7 DEF Now, OtherInboxesStay, ReadSignalLeaves, RemoveSignalLeaves
    <2>3. QED BY <1>2, <2>1, <2>2
  <1>8. ASSUME NEW v \in Workers, v # w, ReadInboxLeaves(v) \/ ClearInboxLeaves(v)
        PROVE  StillReading(w)
    <2>1. got'[w] = got[w] /\ done'[w] = done[w] /\ v \in Processes
      BY <1>8, FileFacts DEF ReadInboxLeaves, ClearInboxLeaves
    <2>2. OtherInboxesStay(v)
      BY <1>8 DEF Now, OtherInboxesStay, ReadInboxLeaves, ClearInboxLeaves
    <2>3. QED BY <1>2, <1>8, <2>1, <2>2
  <1>9. QED
    BY <1>3, <1>4, <1>5, <1>6, <1>7, <1>8 DEF Leaves

\* Together, for a worker's inbox.
InboxSteps(w) ==
  \/ ReadInboxLeaves(w)
  \/ ClearInboxLeaves(w)
  \/ StillReading(w) /\ MailQuiet(Inbox(w))
  \/ StillReading(w) /\ \E p \in Processes : PutLineLeaves(p) /\ Head(to[p]) = Inbox(w)
  \/ StillReading(w) /\ \E p \in Processes : PutNewlineLeaves(p) /\ Head(to[p]) = Inbox(w)

LEMMA InboxStepsOf ==
  ASSUME AllTypeOK, Stages, Leaves, NEW w \in Workers
  PROVE  InboxSteps(w)
  <1>1. Inbox(w) \in Mailboxes /\ Inbox(w) \notin Outboxes /\ Inbox(w) \in Inboxes
    BY FileFacts
  <1>2. MailboxSteps(Inbox(w))
    BY <1>1, MailboxStepsOf
  <1>3. \A v \in Workers : Inbox(v) = Inbox(w) => v = w
    BY FileFacts
  <1>4. \A p \in Processes : WriteCopyLeaves(p) \/ RenameCopyLeaves(p) => op[p].file \in Outboxes
    BY DEF WriteCopyLeaves, RenameCopyLeaves
  <1>5. QED BY <1>1, <1>2, <1>3, <1>4, ReadingSteps DEF MailboxSteps, InboxSteps

-----------------------------------------------------------------------------
(* What is in a text, and what a worker has read or will.                  *)

LEMMA InTextFacts ==
  ASSUME NEW n \in Nat, NEW t \in Seq(0 .. n)
  PROVE  /\ \A m \in 1 .. n : InText(Append(t, m)) = InText(t) \cup {m}
         /\ InText(Append(t, Newline)) = InText(t)
         /\ InText(<<>>) = {}
         /\ InText(t) \subseteq 1 .. n
         /\ \A i \in 1 .. Len(t) : t[i] # Newline => t[i] \in InText(t)
         /\ \A x \in InText(t) : \E i \in 1 .. Len(t) : t[i] = x /\ x # Newline
  <1>1. ASSUME NEW m \in 0 .. n
        PROVE  InText(Append(t, m)) = (InText(t) \cup {m}) \ {Newline}
    <2> PICK u, l : u = Append(t, m) /\ l = Len(t)
      OBVIOUS
    <2>1. /\ l \in Nat /\ Len(u) = l + 1 /\ \A i \in 1 .. l : u[i] = t[i]
          /\ u[l + 1] = m
      BY AppendProperties
    <2>2. {u[i] : i \in 1 .. l + 1} = {t[i] : i \in 1 .. l} \cup {m}
      <3>1. \A i \in 1 .. l + 1 : i \in 1 .. l \/ i = l + 1
        BY <2>1
      <3>2. l + 1 \in 1 .. l + 1 /\ \A i \in 1 .. l : i \in 1 .. l + 1
        BY <2>1
      <3>3. QED BY ONLY <2>1, <3>1, <3>2
    <2>3. QED BY <2>1, <2>2 DEF InText
  <1>2. Newline = 0 /\ \A m \in 1 .. n : m \in 0 .. n /\ m # 0
    BY DEF Newline
  <1>3. Newline \notin InText(t)
    BY DEF InText
  <1>4. \A m \in 1 .. n : InText(Append(t, m)) = InText(t) \cup {m}
    <2> SUFFICES ASSUME NEW m \in 1 .. n
                 PROVE  InText(Append(t, m)) = InText(t) \cup {m}
      OBVIOUS
    <2>1. InText(Append(t, m)) = (InText(t) \cup {m}) \ {Newline} /\ m # Newline
      BY <1>1, <1>2
    <2>2. QED BY ONLY <1>3, <2>1
  <1>5. InText(Append(t, Newline)) = InText(t)
    <2>1. InText(Append(t, Newline)) = (InText(t) \cup {Newline}) \ {Newline}
      BY <1>1, <1>2
    <2>2. QED BY ONLY <1>3, <2>1
  <1>6. InText(<<>>) = {}
    BY DEF InText
  <1>7. \A i \in 1 .. Len(t) : t[i] \in 0 .. n
    BY ElementOfSeq
  <1>8. \A x \in InText(t) : \E i \in 1 .. Len(t) : t[i] = x /\ x # Newline
    BY ONLY DEF InText
  <1>9. InText(t) \subseteq 1 .. n
    <2>1. \A x \in InText(t) : x \in 0 .. n /\ x # 0
      BY ONLY <1>2, <1>7, <1>8
    <2>2. QED BY ONLY <2>1, n \in Nat
  <1>10. \A i \in 1 .. Len(t) : t[i] # Newline => t[i] \in InText(t)
    BY ONLY DEF InText
  <1>11. QED BY ONLY <1>4, <1>5, <1>6, <1>8, <1>9, <1>10

LEMMA HeldFacts ==
  ASSUME AllTypeOK
  PROVE  \A f \in Files : Held(f) \in Seq(0 .. sends) /\ (files[f] # NoFile => Held(f) = files[f])
  BY TextFacts DEF AllTypeOK, DiskTypeOK, Texts, Held

\* A line reaches the mailbox unless the file has been replaced.
LineHeld(p, f, m) ==
  /\ m \in 1 .. sends /\ m # Newline /\ f \in Mailboxes
  /\ appended'[f] = Append(appended[f], m)
  /\ \/ /\ fd[p] = At("file", f) /\ files[f] # NoFile
        /\ Held(f)' = Append(Held(f), m)
     \/ fd[p] = Closed /\ Held(f)' = Held(f) /\ m \in late'[f]
  /\ late[f] \subseteq late'[f]
  /\ After(f) # {} => m \in late'[f]

LEMMA LineHeldFacts ==
  ASSUME AllTypeOK, Stages, NEW p \in Processes, PutLineLeaves(p),
         NEW f, f = Head(to[p]), NEW m, m = op[p].id
  PROVE  LineHeld(p, f, m)
  <1>1. pc[p] = "line"
    BY DEF PutLineLeaves
  <1>2. /\ m \in 1 .. sends /\ f \in Mailboxes /\ f \in Files
        /\ fd[p] \in {Closed, At("file", f)}
    BY <1>1, AppenderFacts
  <1>3. m # Newline
    BY <1>2 DEF Newline
  <1>4. /\ Only(f, IF fd[p] = At("file", f) THEN Append(files[f], m) ELSE files[f], tmp[f])
        /\ appended'[f] = Append(appended[f], m)
        /\ late'[f] = IF After(f) # {} \/ fd[p] = Closed THEN late[f] \cup {m} ELSE late[f]
    BY DEF PutLineLeaves
  <1>5. CASE fd[p] = At("file", f)
    <2>1. files[f] # NoFile /\ files[f] \in Seq(0 .. sends) /\ sends \in Nat
      BY <1>2, <1>5 DEF Stages, Opens, AllTypeOK, DiskTypeOK, Texts
    <2>2. m \in 0 .. sends
      BY <1>2, <2>1
    <2>3. Append(files[f], m) # NoFile
      <3>1. Append(files[f], m) \in Seq(0 .. sends)
        BY ONLY <2>1, <2>2, AppendProperties
      <3>2. QED BY <2>1, <3>1, TextFacts
    <2>4. Held(f)' = Append(Held(f), m)
      BY <1>4, <1>5, <2>1, <2>3 DEF Only, Held
    <2>5. late[f] \subseteq late'[f] /\ (After(f) # {} => m \in late'[f])
      BY <1>4
    <2>6. QED BY <1>2, <1>3, <1>4, <1>5, <2>1, <2>4, <2>5 DEF LineHeld
  <1>6. CASE fd[p] = Closed
    <2>1. fd[p] # At("file", f)
      BY <1>6, HandlesDiffer
    <2>2. Held(f)' = Held(f)
      BY <1>4, <2>1 DEF Only, Held
    <2>3. m \in late'[f] /\ late[f] \subseteq late'[f]
      BY <1>4, <1>6
    <2>4. QED BY <1>2, <1>3, <1>4, <1>6, <2>1, <2>2, <2>3 DEF LineHeld
  <1>7. QED BY <1>2, <1>5, <1>6

LEMMA NewlineHeld ==
  ASSUME AllTypeOK, Stages, NEW p \in Processes, PutNewlineLeaves(p), NEW f, f = Head(to[p])
  PROVE  /\ f \in Mailboxes /\ appended'[f] = appended[f] /\ late'[f] = late[f]
         /\ \/ /\ fd[p] = At("file", f) /\ files[f] # NoFile
               /\ Held(f)' = Append(Held(f), Newline)
            \/ fd[p] = Closed /\ Held(f)' = Held(f)
  <1>1. pc[p] = "newline"
    BY DEF PutNewlineLeaves
  <1>2. f \in Mailboxes /\ f \in Files /\ fd[p] \in {Closed, At("file", f)}
    BY <1>1, AppenderFacts
  <1>3. /\ Only(f, IF fd[p] = At("file", f) THEN Append(files[f], Newline) ELSE files[f], tmp[f])
        /\ appended'[f] = appended[f] /\ late'[f] = late[f]
    BY DEF PutNewlineLeaves, Histories
  <1>4. CASE fd[p] = At("file", f)
    <2>1. files[f] # NoFile /\ files[f] \in Seq(0 .. sends) /\ sends \in Nat
      BY <1>2, <1>4 DEF Stages, Opens, AllTypeOK, DiskTypeOK, Texts
    <2>2. Append(files[f], Newline) # NoFile
      BY <2>1, TextFacts
    <2>3. Held(f)' = Append(Held(f), Newline)
      BY <1>3, <1>4, <2>1, <2>2 DEF Only, Held
    <2>4. appended'[f] = appended[f] /\ late'[f] = late[f]
      BY <1>3
    <2>5. QED BY <1>2, <1>4, <2>1, <2>3, <2>4
  <1>5. CASE fd[p] = Closed
    <2>1. fd[p] # At("file", f)
      BY <1>5, HandlesDiffer
    <2>2. Held(f)' = Held(f)
      BY <1>3, <2>1 DEF Only, Held
    <2>3. QED BY <1>2, <1>3, <1>5, <2>1, <2>2
  <1>6. QED BY <1>2, <1>4, <1>5

LEMMA ClearHeld ==
  ASSUME AllTypeOK, Stages, NEW w \in Workers, ClearInboxLeaves(w)
  PROVE  Held(Inbox(w))' = <<>>
  <1>1. files'[Inbox(w)] = <<>>
    BY DEF ClearInboxLeaves, Only
  <1>2. QED BY <1>1 DEF Held

IsKept(k, t, I) == {k[i] : i \in DOMAIN k} = {t[i] : i \in I}

LEMMA KeptText ==
  ASSUME NEW n, NEW t \in Seq(0 .. n), NEW I \in SUBSET DOMAIN t
  PROVE  Kept(t, I) \in Seq(0 .. n) /\ IsKept(Kept(t, I), t, I)
  BY KeptFacts DEF IsKept

\* What a read adds.
LEMMA ReadAdds ==
  ASSUME AllTypeOK, NEW w \in Workers, ReadInboxLeaves(w)
  PROVE  LET t == files[Inbox(w)]
         IN  /\ t \in Seq(0 .. sends) /\ Held(Inbox(w)) = t /\ Held(Inbox(w))' = t
             /\ got[w] \in Seq(1 .. sends)
             /\ Unseen(w) \in SUBSET (1 .. Len(t)) /\ Unseen(w) \in SUBSET DOMAIN t
             /\ Kept(t, Unseen(w)) \in Seq(0 .. sends)
             /\ got'[w] = got[w] \o Kept(t, Unseen(w))
             /\ InText(got'[w]) = InText(got[w]) \cup InText(t)
  <1> PICK t, k, g, h : /\ t = files[Inbox(w)] /\ k = Kept(files[Inbox(w)], Unseen(w))
                        /\ g = got[w] /\ h = got'[w]
    OBVIOUS
  <1>1. /\ t \in Seq(0 .. sends) /\ files'[Inbox(w)] = t /\ h = g \o k
        /\ sends \in Nat /\ g \in Seq(1 .. sends)
    BY DEF ReadInboxLeaves, Texts, AllTypeOK, HistoryTypeOK
  <1>2. t # NoFile /\ Held(Inbox(w)) = t /\ Held(Inbox(w))' = t
    BY <1>1, TextFacts DEF Held
  <1>3. Unseen(w) = {i \in 1 .. Len(t) : t[i] # Newline /\ \A j \in 1 .. Len(g) : g[j] # t[i]}
    BY DEF Unseen, IsNew
  <1>4. Unseen(w) \in SUBSET (1 .. Len(t)) /\ Unseen(w) \in SUBSET DOMAIN t
    BY <1>1, <1>3
  <1>5. /\ k \in Seq(0 .. sends)
        /\ {k[i] : i \in DOMAIN k} = {t[i] : i \in Unseen(w)}
    <2>1. Unseen(w) \in SUBSET DOMAIN t
      BY <1>4
    <2>2. /\ Kept(t, Unseen(w)) \in Seq(0 .. sends)
          /\ IsKept(Kept(t, Unseen(w)), t, Unseen(w))
      BY ONLY <1>1, <2>1, KeptText
    <2>3. QED BY <2>2 DEF IsKept
  <1>6. {h[i] : i \in 1 .. Len(h)} = {g[i] : i \in 1 .. Len(g)} \cup {k[i] : i \in 1 .. Len(k)}
    <2>1. g \in Seq(0 .. sends)
      <3>1. 1 .. sends \subseteq 0 .. sends
        BY <1>1
      <3>2. QED BY <1>1, <3>1, SeqWidens
    <2>2. /\ Len(g) \in Nat /\ Len(k) \in Nat /\ Len(h) = Len(g) + Len(k)
          /\ \A i \in 1 .. Len(g) : h[i] = g[i]
          /\ \A i \in 1 .. Len(k) : h[Len(g) + i] = k[i]
      <3>1. /\ Len(g) \in Nat /\ Len(k) \in Nat /\ Len(g \o k) = Len(g) + Len(k)
            /\ \A i \in 1 .. Len(g) + Len(k) :
                 (g \o k)[i] = IF i <= Len(g) THEN g[i] ELSE k[i - Len(g)]
        BY ONLY <1>5, <2>1, ConcatProperties
      <3>2. QED BY ONLY <1>1, <3>1
    <2> PICK a, b, c : a = Len(g) /\ b = Len(k) /\ c = Len(h)
      OBVIOUS
    <2>3. \A i \in 1 .. c : i \in 1 .. a \/ \E j \in 1 .. b : i = a + j
      <3> SUFFICES ASSUME NEW i \in 1 .. c, i \notin 1 .. a
                   PROVE  \E j \in 1 .. b : i = a + j
        OBVIOUS
      <3>0. a \in Nat /\ b \in Nat /\ c = a + b /\ i \in 1 .. c /\ i \notin 1 .. a
        BY <2>2
      <3>1. i - a \in 1 .. b /\ i = a + (i - a)
        BY ONLY <3>0
      <3>2. QED BY <3>1
    <2>4. (\A i \in 1 .. a : i \in 1 .. c) /\ \A j \in 1 .. b : a + j \in 1 .. c
      <3>1. a \in Nat /\ b \in Nat /\ c = a + b
        BY <2>2
      <3>2. QED BY ONLY <3>1
    <2>5. {h[i] : i \in 1 .. c} \subseteq {g[i] : i \in 1 .. a} \cup {k[i] : i \in 1 .. b}
      <3> SUFFICES ASSUME NEW i \in 1 .. c
                   PROVE  h[i] \in {g[j] : j \in 1 .. a} \cup {k[j] : j \in 1 .. b}
        OBVIOUS
      <3>1. CASE i \in 1 .. a
        BY <2>2, <3>1
      <3>2. CASE \E j \in 1 .. b : i = a + j
        BY <2>2, <3>2
      <3>3. QED BY <2>3, <3>1, <3>2
    <2>6. {g[i] : i \in 1 .. a} \cup {k[i] : i \in 1 .. b} \subseteq {h[i] : i \in 1 .. c}
      <3>1. \A i \in 1 .. a : g[i] \in {h[j] : j \in 1 .. c}
        BY <2>2, <2>4
      <3>2. \A i \in 1 .. b : k[i] \in {h[j] : j \in 1 .. c}
        BY <2>2, <2>4
      <3>3. /\ {g[i] : i \in 1 .. a} \subseteq {h[i] : i \in 1 .. c}
            /\ {k[i] : i \in 1 .. b} \subseteq {h[i] : i \in 1 .. c}
        BY ONLY <3>1, <3>2
      <3>4. QED BY <3>3
    <2>7. QED BY <2>5, <2>6
  <1>7. InText(h) = InText(g) \cup InText(t)
    <2>1. DOMAIN k = 1 .. Len(k)
      BY <1>5
    <2>2. \A i \in 1 .. Len(t) : i \in Unseen(w) \/ t[i] = Newline
                                   \/ \E j \in 1 .. Len(g) : g[j] = t[i]
      BY <1>3
    <2>3. {k[i] : i \in 1 .. Len(k)} = {t[i] : i \in Unseen(w)}
      BY <1>5, <2>1
    <2>4. InText(h) = ({g[i] : i \in 1 .. Len(g)} \cup {t[i] : i \in Unseen(w)}) \ {Newline}
      BY <1>6, <2>3 DEF InText
    <2>5. {t[i] : i \in Unseen(w)} \subseteq {t[i] : i \in 1 .. Len(t)}
      BY <1>4
    <2>6. \A i \in 1 .. Len(t) :
            t[i] \in {t[j] : j \in Unseen(w)} \cup {g[j] : j \in 1 .. Len(g)} \cup {Newline}
      BY <2>2
    <2>7. {t[i] : i \in 1 .. Len(t)}
            \subseteq {t[j] : j \in Unseen(w)} \cup {g[j] : j \in 1 .. Len(g)} \cup {Newline}
      BY <2>6
    <2>8. QED BY <2>4, <2>5, <2>7 DEF InText
  <1>8. QED BY <1>1, <1>2, <1>4, <1>5, <1>7

ReadBy(w) ==
  /\ InText(appended[Inbox(w)])
       \subseteq InText(Held(Inbox(w))) \cup InText(got[w]) \cup late[Inbox(w)]
  /\ pc[w] = "clear" => InText(Held(Inbox(w))) \subseteq InText(got[w]) \cup late[Inbox(w)]

LEMMA ReadByAll == InboxInv <=> \A w \in Workers : ReadBy(w)
  BY DEF InboxInv, ReadOrWaiting, ReadBy

LEMMA ReadNext ==
  ASSUME AllTypeOK, Stages, InboxInv, AllTypeOK', Leaves
  PROVE  InboxInv'
  <1> SUFFICES ASSUME NEW w \in Workers
               PROVE  ReadBy(w)'
    BY DEF InboxInv, ReadOrWaiting, ReadBy
  <1> PICK f : f = Inbox(w)
    OBVIOUS
  <1>1. ReadBy(w) /\ f \in Mailboxes /\ f \in Files /\ w \in Processes
    BY ReadByAll, FileFacts
  <1>2. \A t : InText(t)' = InText(t')
    BY DEF InText
  <1>3. /\ InText(appended[f])' = InText(appended'[f]) /\ InText(got[w])' = InText(got'[w])
        /\ InText(Held(f))' = InText(Held(f)')
    BY DEF InText
  <1>4. Held(f) \in Seq(0 .. sends) /\ appended[f] \in Seq(1 .. sends) /\ sends \in Nat
    BY <1>1, HeldFacts DEF AllTypeOK, HistoryTypeOK
  <1>5. appended[f] \in Seq(0 .. sends)
    <2>1. 1 .. sends \subseteq 0 .. sends
      BY <1>4
    <2>2. QED BY <1>4, <2>1, SeqWidens
  <1>6. CASE ReadInboxLeaves(w)
    <2>1. /\ Held(f) = files[f] /\ Held(f)' = files[f]
          /\ InText(got'[w]) = InText(got[w]) \cup InText(files[f])
      BY <1>6, ReadAdds
    <2>2. appended' = appended /\ late' = late
      BY <1>6 DEF ReadInboxLeaves
    <2>3. QED BY <1>1, <1>3, <2>1, <2>2 DEF ReadBy
  <1>7. CASE ClearInboxLeaves(w)
    <2>1. Held(f)' = <<>> /\ InText(<<>>) = {}
      BY <1>4, <1>7, ClearHeld, InTextFacts
    <2>2. /\ pc[w] = "clear" /\ pc'[w] = "idle"
          /\ appended' = appended /\ late' = late /\ got' = got
      BY <1>7 DEF ClearInboxLeaves, Now
    <2>3. QED BY <1>1, <1>3, <2>1, <2>2 DEF ReadBy
  <1>8. CASE StillReading(w) /\ MailQuiet(f)
    BY <1>1, <1>3, <1>8 DEF ReadBy, StillReading, MailQuiet
  <1>9. ASSUME StillReading(w), NEW p \in Processes, PutLineLeaves(p), Head(to[p]) = f
        PROVE  ReadBy(w)'
    <2> PICK m : m = op[p].id
      OBVIOUS
    <2>1. /\ m \in 1 .. sends /\ appended'[f] = Append(appended[f], m)
          /\ \/ Held(f)' = Append(Held(f), m)
             \/ Held(f)' = Held(f) /\ m \in late'[f]
          /\ late[f] \subseteq late'[f] /\ (After(f) # {} => m \in late'[f])
      <3>1. f = Head(to[p]) /\ PutLineLeaves(p)
        BY <1>9
      <3>2. LineHeld(p, f, m)
        BY <3>1, LineHeldFacts
      <3>3. QED BY <3>2 DEF LineHeld
    <2>2. InText(appended'[f]) = InText(appended[f]) \cup {m}
      BY <1>4, <1>5, <2>1, InTextFacts
    <2>3. \/ InText(Held(f)') = InText(Held(f)) \cup {m}
          \/ InText(Held(f)') = InText(Held(f)) /\ m \in late'[f]
      <3>1. InText(Append(Held(f), m)) = InText(Held(f)) \cup {m}
        BY <1>4, <2>1, InTextFacts
      <3>2. QED BY <2>1, <3>1
    <2>4. pc[w] = "clear" => w \in After(f)
      BY <1>1, PlaceFacts DEF After
    <2>5. got'[w] = got[w] /\ (pc'[w] = "clear" => pc[w] = "clear")
      BY <1>9 DEF StillReading
    <2>6. QED BY <1>1, <1>3, <2>1, <2>2, <2>3, <2>4, <2>5 DEF ReadBy
  <1>10. ASSUME StillReading(w), NEW p \in Processes, PutNewlineLeaves(p), Head(to[p]) = f
         PROVE  ReadBy(w)'
    <2>1. /\ appended'[f] = appended[f] /\ late'[f] = late[f]
          /\ Held(f)' = Append(Held(f), Newline) \/ Held(f)' = Held(f)
      <3>1. f = Head(to[p]) /\ PutNewlineLeaves(p)
        BY <1>10
      <3>2. QED BY <3>1, NewlineHeld
    <2>2. InText(Held(f)') = InText(Held(f))
      BY <1>4, <2>1, InTextFacts
    <2>3. QED BY <1>1, <1>3, <1>10, <2>1, <2>2 DEF ReadBy, StillReading
  <1>11. QED
    BY <1>6, <1>7, <1>8, <1>9, <1>10, InboxStepsOf DEF InboxSteps

LEMMA ReadInit == MailInit => InboxInv
  BY FileFacts DEF MailInit, InboxInv, ReadOrWaiting, InText, Held

-----------------------------------------------------------------------------
(* Lines.                                                                  *)

LEMMA ParseFacts ==
  ASSUME NEW n \in Nat, NEW t \in Seq(0 .. n), Parses(t)
  PROVE  /\ Parses(<<>>) /\ ~ Unfinished(<<>>)
         /\ ~ Unfinished(t) => \A m \in 1 .. n : Parses(Append(t, m))
         /\ Parses(Append(t, Newline)) /\ ~ Unfinished(Append(t, Newline))
  <1>1. Parses(<<>>) /\ ~ Unfinished(<<>>)
    BY DEF Parses, Unfinished
  <1>2. ASSUME NEW m \in 0 .. n, ~ Unfinished(t) \/ m = Newline
        PROVE  Parses(Append(t, m))
    <2> PICK u, l : u = Append(t, m) /\ l = Len(t)
      OBVIOUS
    <2>1. /\ l \in Nat /\ Len(u) = l + 1 /\ \A i \in 1 .. l : u[i] = t[i]
          /\ u[l + 1] = m
      BY AppendProperties
    <2>2. l > 0 => t # <<>>
      BY <2>1
    <2>3. ASSUME NEW i \in 1 .. l, t[i] # Newline
          PROVE  u[i + 1] = Newline
      <3>1. CASE i = l
        <4>1. m = Newline
          BY <1>2, <2>1, <2>2, <2>3, <3>1 DEF Unfinished
        <4>2. QED BY <2>1, <3>1, <4>1
      <3>2. CASE i # l
        <4>1. i \in 1 .. l - 1 /\ i + 1 \in 1 .. l
          BY <2>1, <3>2
        <4>2. t[i + 1] = Newline
          BY <2>3, <4>1 DEF Parses
        <4>3. QED BY <2>1, <4>1, <4>2
      <3>3. QED BY <3>1, <3>2
    <2>4. Len(u) - 1 = l
      BY <2>1
    <2>5. QED BY <2>1, <2>3, <2>4 DEF Parses
  <1>3. ~ Unfinished(Append(t, Newline))
    <2>1. Newline \in 0 .. n
      BY DEF Newline
    <2>2. Len(Append(t, Newline)) = Len(t) + 1 /\ Append(t, Newline)[Len(t) + 1] = Newline
      BY <2>1, AppendProperties
    <2>3. QED BY <2>2 DEF Unfinished
  <1>4. Newline \in 0 .. n /\ \A m \in 1 .. n : m \in 0 .. n
    BY DEF Newline
  <1>5. QED BY <1>1, <1>2, <1>3, <1>4

\* The cut of a rotation, and what is behind it.
LEMMA CutFacts ==
  ASSUME NEW n \in Nat, NEW t \in Seq(0 .. n), Lines(t) > MaxLines, MaxLines # 0
  PROVE  LET cut == Nth(Ends(t), Lines(t) - MaxLines)
             kept == SubSeq(t, cut + 1, Len(t))
         IN  /\ Lines(t) - MaxLines \in 1 .. Cardinality(Ends(t))
             /\ cut \in 1 .. Len(t) /\ t[cut] = Newline /\ Len(t) \in Nat
             /\ kept \in Seq(0 .. n) /\ Len(kept) = Len(t) - cut
             /\ \A i \in 1 .. Len(t) - cut : kept[i] = t[cut + i]
  <1>1. Ends(t) \in SUBSET (1 .. Len(t)) /\ Len(t) \in Nat
    BY DEF Ends
  <1>2. Lines(t) - MaxLines \in 1 .. Cardinality(Ends(t))
    <2>1. Cardinality(Ends(t)) \in Nat
      BY <1>1, RankFacts
    <2>2. Lines(t) \in Nat /\ Lines(t) <= Cardinality(Ends(t)) + 1
      BY <2>1 DEF Lines
    <2>3. MaxLines \in Nat
      BY MailAssumption DEF MailAssumption
    <2>4. QED BY <2>1, <2>2, <2>3
  <1> PICK cut : cut = Nth(Ends(t), Lines(t) - MaxLines)
    OBVIOUS
  <1>3. cut \in Ends(t)
    BY <1>1, <1>2, NthFacts
  <1>4. cut \in 1 .. Len(t) /\ t[cut] = Newline
    BY <1>3 DEF Ends
  <1> PICK kept : kept = SubSeq(t, cut + 1, Len(t))
    OBVIOUS
  <1>5. /\ kept \in Seq(0 .. n) /\ Len(kept) = Len(t) - cut
        /\ \A i \in 1 .. Len(t) - cut : kept[i] = t[cut + i]
    <2>1. cut + 1 \in 1 .. Len(t) + 1 /\ Len(t) \in Nat /\ Len(t) \in 0 .. Len(t)
      BY <1>1, <1>4
    <2>2. /\ kept \in Seq(0 .. n)
          /\ Len(kept) = IF cut + 1 <= Len(t) THEN Len(t) - (cut + 1) + 1 ELSE 0
          /\ \A i \in 1 .. Len(t) - (cut + 1) + 1 : kept[i] = t[(cut + 1) + i - 1]
      BY <2>1, SubSeqProperties
    <2>3. Len(kept) = Len(t) - cut /\ Len(t) - (cut + 1) + 1 = Len(t) - cut
      BY ONLY <1>1, <1>4, <2>2
    <2>4. \A i \in 1 .. Len(t) - cut : (cut + 1) + i - 1 = cut + i
      BY <1>1, <1>4
    <2>5. QED BY <2>2, <2>3, <2>4
  <1>6. QED BY <1>1, <1>2, <1>4, <1>5

LEMMA NewestParses ==
  ASSUME NEW n \in Nat, NEW t \in Seq(0 .. n), Lines(t) > MaxLines, Parses(t)
  PROVE  Parses(Newest(t)) /\ ~ Unfinished(Newest(t))
  <1>1. CASE MaxLines = 0
    BY <1>1, ParseFacts DEF Newest
  <1>2. CASE MaxLines # 0
    <2> PICK cut, kept : /\ cut = Nth(Ends(t), Lines(t) - MaxLines)
                         /\ kept = SubSeq(t, cut + 1, Len(t))
      OBVIOUS
    <2>1. /\ cut \in 1 .. Len(t) /\ t[cut] = Newline /\ Len(t) \in Nat
          /\ kept \in Seq(0 .. n) /\ Len(kept) = Len(t) - cut
          /\ \A i \in 1 .. Len(t) - cut : kept[i] = t[cut + i]
      BY <1>2, CutFacts
    <2>2. Parses(kept)
      <3> SUFFICES ASSUME NEW i \in 1 .. Len(kept) - 1, kept[i] # Newline
                   PROVE  kept[i + 1] = Newline
        BY DEF Parses
      <3>1. /\ i \in 1 .. Len(t) - cut /\ i + 1 \in 1 .. Len(t) - cut
            /\ cut + i \in 1 .. Len(t) - 1 /\ cut + (i + 1) = (cut + i) + 1
        <4>1. i \in 1 .. (Len(t) - cut) - 1 /\ cut \in 1 .. Len(t) /\ Len(t) \in Nat
          BY <2>1
        <4>2. QED BY ONLY <4>1
      <3>2. QED BY <2>1, <3>1 DEF Parses
    <2>3. CASE Unfinished(t)
      BY <1>2, <2>1, <2>2, <2>3, ParseFacts DEF Newest
    <2>4. CASE ~ Unfinished(t)
      <3>1. t[Len(t)] = Newline
        BY <2>1, <2>4 DEF Unfinished
      <3>2. ASSUME kept # <<>>
            PROVE  kept[Len(kept)] = Newline
        <4>0. Len(kept) # 0
          BY <2>1, <3>2, EmptySeq
        <4>1. Len(t) - cut \in 1 .. Len(t) - cut /\ cut + (Len(t) - cut) = Len(t)
          <5>1. Len(kept) = Len(t) - cut /\ cut \in 1 .. Len(t) /\ Len(t) \in Nat
            BY <2>1
          <5>2. QED BY ONLY <4>0, <5>1
        <4>2. QED BY <2>1, <3>1, <4>1
      <3>3. Newest(t) = kept
        BY <1>2, <2>4 DEF Newest
      <3>4. QED BY <2>2, <3>2, <3>3 DEF Unfinished
    <2>5. QED BY <2>3, <2>4
  <1>3. QED BY <1>1, <1>2

LinesOf(f) ==
  /\ Parses(Held(f))
  /\ \A p, q \in Processes : InLine(p, f) /\ InLine(q, f) => p = q
  /\ Unfinished(Held(f)) => \E p \in Processes : InLine(p, f) /\ fd[p] = At("file", f)
  /\ \A p, q \in Processes : Replacing(p, f) /\ Replacing(q, f) => p = q
  /\ \A p \in Processes : Replacing(p, f) =>
       /\ Parses(text[p]) /\ ~ Unfinished(text[p])
       /\ pc[p] = "copy" => fd[p] = At("tmp", f) /\ tmp[f] = <<>>
       /\ pc[p] = "rename" => tmp[f] = text[p]

LEMMA LinesAll == LinesInv <=> \A f \in Mailboxes \ spoiled : LinesOf(f)
  BY DEF LinesInv, LinesOf

LEMMA PlacesAfter ==
  ASSUME NEW p \in Processes, NEW o, NEW place, NEW t, NEW x, Now(p, o, place, t, x), NEW f
  PROVE  /\ InLine(p, f)' <=> place = "newline" /\ Head(t) = f
         /\ Replacing(p, f)' <=> place \in {"tmp", "copy", "rename"} /\ o.file = f
         /\ \A q \in Processes \ {p} : /\ InLine(q, f)' <=> InLine(q, f)
                                       /\ Replacing(q, f)' <=> Replacing(q, f)
                                       /\ text'[q] = text[q] /\ pc'[q] = pc[q]
         /\ text'[p] = x /\ pc'[p] = place
  BY DEF Now, InLine, Replacing

\* The descriptors of others at mailbox f, or the copy of it, stay.
StillAt(p, f) ==
  \A q \in Processes \ {p} : /\ fd[q] = At("file", f) <=> fd'[q] = At("file", f)
                             /\ fd[q] = At("tmp", f) <=> fd'[q] = At("tmp", f)

LEMMA LinesElsewhere ==
  ASSUME NEW f, LinesOf(f),
         NEW p \in Processes, NEW o, NEW place, NEW t, NEW x, Now(p, o, place, t, x),
         Held(f)' = Held(f) \/ (Parses(Held(f)') /\ ~ Unfinished(Held(f)')),
         tmp'[f] = tmp[f], StillAt(p, f), ~ InLine(p, f),
         place = "newline" => Head(t) # f,
         place \in {"tmp", "copy", "rename"} => o.file # f
  PROVE  LinesOf(f)'
  <1>1. /\ ~ InLine(p, f)' /\ ~ Replacing(p, f)'
        /\ \A q \in Processes \ {p} : /\ InLine(q, f)' <=> InLine(q, f)
                                      /\ Replacing(q, f)' <=> Replacing(q, f)
                                      /\ text'[q] = text[q] /\ pc'[q] = pc[q]
    BY PlacesAfter
  <1>2. Parses(Held(f)')
    BY DEF LinesOf
  <1>3. \A q, r \in Processes : InLine(q, f)' /\ InLine(r, f)' => q = r
    BY <1>1 DEF LinesOf
  <1>4. ASSUME Unfinished(Held(f)')
        PROVE  \E q \in Processes : InLine(q, f)' /\ fd'[q] = At("file", f)
    <2>1. Unfinished(Held(f))
      BY <1>4
    <2>2. PICK q \in Processes : InLine(q, f) /\ fd[q] = At("file", f)
      BY <2>1 DEF LinesOf
    <2>3. QED BY <1>1, <2>2 DEF StillAt
  <1>5. \A q, r \in Processes : Replacing(q, f)' /\ Replacing(r, f)' => q = r
    BY <1>1 DEF LinesOf
  <1>6. ASSUME NEW q \in Processes, Replacing(q, f)'
        PROVE  /\ Parses(text'[q]) /\ ~ Unfinished(text'[q])
               /\ pc'[q] = "copy" => fd'[q] = At("tmp", f) /\ tmp'[f] = <<>>
               /\ pc'[q] = "rename" => tmp'[f] = text'[q]
    BY <1>1, <1>6 DEF LinesOf, StillAt
  <1>7. QED BY <1>2, <1>3, <1>4, <1>5, <1>6 DEF LinesOf, Parses, Unfinished

LEMMA LinesPutLine ==
  ASSUME AllTypeOK, Stages, NEW p \in Processes, PutLineLeaves(p), NEW f, f = Head(to[p]),
         LinesOf(f), f \notin spoiled'
  PROVE  LinesOf(f)'
  <1> PICK m : m = op[p].id
    OBVIOUS
  <1>1. LineHeld(p, f, m)
    BY LineHeldFacts
  <1>2. /\ pc[p] = "line" /\ Now(p, op[p], "newline", to[p], text[p]) /\ fd' = fd /\ tmp' = tmp
        /\ \A q \in Processes \ {p} : ~ InLine(q, f)
    BY DEF PutLineLeaves
  <1>3. /\ InLine(p, f)' /\ ~ Replacing(p, f)' /\ ~ InLine(p, f)
        /\ \A q \in Processes \ {p} : /\ InLine(q, f)' <=> InLine(q, f)
                                      /\ Replacing(q, f)' <=> Replacing(q, f)
                                      /\ text'[q] = text[q] /\ pc'[q] = pc[q]
    BY <1>2, PlacesAfter DEF InLine
  <1>4. /\ f \in Files /\ Held(f) \in Seq(0 .. sends) /\ sends \in Nat
        /\ ~ Unfinished(Held(f)) /\ Parses(Held(f))
    BY <1>1, <1>2, <1>3, FileFacts, HeldFacts DEF LineHeld, LinesOf, AllTypeOK
  <1>5. \/ Held(f)' = Append(Held(f), m) /\ fd[p] = At("file", f)
        \/ Held(f)' = Held(f)
    BY <1>1 DEF LineHeld
  <1>6. m \in 1 .. sends
    BY <1>1 DEF LineHeld
  <1>7. Parses(Held(f)')
    BY <1>4, <1>5, <1>6, ParseFacts
  <1>8. \A q, r \in Processes : InLine(q, f)' /\ InLine(r, f)' => q = r
    BY <1>2, <1>3
  <1>9. Unfinished(Held(f)') => \E q \in Processes : InLine(q, f)' /\ fd'[q] = At("file", f)
    BY <1>2, <1>3, <1>4, <1>5
  <1>10. \A q, r \in Processes : Replacing(q, f)' /\ Replacing(r, f)' => q = r
    BY <1>3 DEF LinesOf
  <1>11. \A q \in Processes : Replacing(q, f)' =>
          /\ Parses(text'[q]) /\ ~ Unfinished(text'[q])
          /\ pc'[q] = "copy" => fd'[q] = At("tmp", f) /\ tmp'[f] = <<>>
          /\ pc'[q] = "rename" => tmp'[f] = text'[q]
    BY <1>2, <1>3 DEF LinesOf
  <1>12. QED BY <1>7, <1>8, <1>9, <1>10, <1>11 DEF LinesOf, Parses, Unfinished

LEMMA LinesPutNewline ==
  ASSUME AllTypeOK, Stages, NEW p \in Processes, PutNewlineLeaves(p), NEW f, f = Head(to[p]),
         LinesOf(f)
  PROVE  LinesOf(f)'
  <1>1. /\ f \in Mailboxes
        /\ \/ fd[p] = At("file", f) /\ Held(f)' = Append(Held(f), Newline)
           \/ fd[p] = Closed /\ Held(f)' = Held(f)
    BY NewlineHeld
  <1>2. /\ pc[p] = "newline" /\ tmp' = tmp /\ Has(p, Closed)
        /\ \E o, place, t, x : Now(p, o, place, t, x) /\ place \in {"open", "idle"}
    BY DEF PutNewlineLeaves
  <1>3. InLine(p, f) /\ ~ Replacing(p, f)
    BY <1>2 DEF InLine, Replacing
  <1>4. /\ ~ InLine(p, f)' /\ ~ Replacing(p, f)'
        /\ \A q \in Processes \ {p} : /\ InLine(q, f)' <=> InLine(q, f)
                                      /\ Replacing(q, f)' <=> Replacing(q, f)
                                      /\ text'[q] = text[q] /\ pc'[q] = pc[q]
    BY <1>2, PlacesAfter
  <1>5. \A q \in Processes \ {p} : ~ InLine(q, f)
    BY <1>3 DEF LinesOf
  <1>6. f \in Files /\ Held(f) \in Seq(0 .. sends) /\ Parses(Held(f)) /\ sends \in Nat
    BY <1>1, FileFacts, HeldFacts DEF LinesOf, AllTypeOK
  <1>7. ASSUME fd[p] = Closed
        PROVE  Parses(Held(f)') /\ ~ Unfinished(Held(f)')
    <2>1. fd[p] # At("file", f)
      BY <1>7, HandlesDiffer
    <2>2. ~ Unfinished(Held(f))
      BY <1>5, <2>1 DEF LinesOf
    <2>3. QED BY <1>1, <1>6, <2>1, <2>2
  <1>8. ASSUME fd[p] = At("file", f)
        PROVE  Parses(Held(f)') /\ ~ Unfinished(Held(f)')
    <2>1. fd[p] # Closed
      BY <1>8, HandlesDiffer
    <2>2. Parses(Append(Held(f), Newline)) /\ ~ Unfinished(Append(Held(f), Newline))
      BY <1>6, ParseFacts
    <2>3. QED BY <1>1, <2>1, <2>2
  <1>9. Parses(Held(f)') /\ ~ Unfinished(Held(f)')
    BY <1>1, <1>7, <1>8
  <1>10. \A q, r \in Processes : InLine(q, f)' /\ InLine(r, f)' => q = r
    BY <1>4, <1>5
  <1>11. \A q, r \in Processes : Replacing(q, f)' /\ Replacing(r, f)' => q = r
    BY <1>4 DEF LinesOf
  <1>12. \A q \in Processes : Replacing(q, f)' =>
          /\ Parses(text'[q]) /\ ~ Unfinished(text'[q])
          /\ pc'[q] = "copy" => fd'[q] = At("tmp", f) /\ tmp'[f] = <<>>
          /\ pc'[q] = "rename" => tmp'[f] = text'[q]
    BY <1>2, <1>4 DEF LinesOf, Has
  <1>13. QED BY <1>9, <1>10, <1>11, <1>12 DEF LinesOf, Parses, Unfinished

\* A rotation begins, goes on and ends.
LEMMA LinesReadOutbox ==
  ASSUME AllTypeOK, Stages, NEW p \in Processes, NEW f \in Outboxes, ReadOutboxLeaves(p, f),
         LinesOf(f), f \notin spoiled'
  PROVE  LinesOf(f)'
  <1> PICK o : o = [do |-> "rotate", id |-> 0, file |-> f]
    OBVIOUS
  <1>1. /\ pc[p] = "idle" /\ UNCHANGED <<files, tmp, fd>>
        /\ files[f] \in Texts /\ Lines(files[f]) > MaxLines
        /\ Now(p, o, "tmp", to[p], Newest(files[f])) /\ o.file = f
        /\ After(f) \subseteq {p}
    BY DEF ReadOutboxLeaves
  <1>2. \A q \in Processes : ~ Replacing(q, f)
    BY <1>1 DEF After, Replacing
  <1>3. /\ ~ InLine(p, f)' /\ ~ InLine(p, f)
        /\ text'[p] = Newest(files[f]) /\ pc'[p] = "tmp"
        /\ \A q \in Processes \ {p} : /\ InLine(q, f)' <=> InLine(q, f)
                                      /\ Replacing(q, f)' <=> Replacing(q, f)
                                      /\ text'[q] = text[q] /\ pc'[q] = pc[q]
    <2>1. ~ InLine(p, f)
      BY <1>1 DEF InLine
    <2>2. "tmp" # "newline"
      OBVIOUS
    <2>3. QED BY <1>1, <2>1, <2>2, PlacesAfter
  <1>4. Held(f) = files[f] /\ Held(f)' = Held(f)
    BY <1>1, TextFacts DEF Held, Texts, AllTypeOK
  <1>5. Parses(Newest(files[f])) /\ ~ Unfinished(Newest(files[f]))
    <2>1. files[f] \in Seq(0 .. sends) /\ sends \in Nat /\ Parses(files[f])
      BY <1>1, <1>4 DEF LinesOf, Texts, AllTypeOK
    <2>2. QED BY <1>1, <2>1, NewestParses
  <1>6. Parses(Held(f)')
    BY <1>4 DEF LinesOf
  <1>7. \A q, r \in Processes : InLine(q, f)' /\ InLine(r, f)' => q = r
    BY <1>3 DEF LinesOf
  <1>8. Unfinished(Held(f)') => \E q \in Processes : InLine(q, f)' /\ fd'[q] = At("file", f)
    BY <1>1, <1>3, <1>4 DEF LinesOf
  <1>9. \A q \in Processes : Replacing(q, f)' => q = p
    BY <1>2, <1>3
  <1>10. \A q \in Processes : Replacing(q, f)' =>
          /\ Parses(text'[q]) /\ ~ Unfinished(text'[q])
          /\ pc'[q] = "copy" => fd'[q] = At("tmp", f) /\ tmp'[f] = <<>>
          /\ pc'[q] = "rename" => tmp'[f] = text'[q]
    BY <1>3, <1>5, <1>9
  <1>11. QED BY <1>6, <1>7, <1>8, <1>9, <1>10 DEF LinesOf, Parses, Unfinished

\* The only one to replace f opens or writes the copy.
LEMMA LinesCopy ==
  ASSUME AllTypeOK, NEW p \in Processes, NEW f, LinesOf(f), Replacing(p, f),
         NEW place \in {"copy", "rename"}, Now(p, op[p], place, to[p], text[p]),
         files' = files, \A q \in Processes \ {p} : fd'[q] = fd[q],
         place = "copy" => fd'[p] = At("tmp", f) /\ tmp'[f] = <<>>,
         place = "rename" => tmp'[f] = text[p]
  PROVE  LinesOf(f)'
  <1>1. /\ ~ InLine(p, f)' /\ text'[p] = text[p] /\ pc'[p] = place
        /\ \A q \in Processes \ {p} : /\ InLine(q, f)' <=> InLine(q, f)
                                      /\ Replacing(q, f)' <=> Replacing(q, f)
                                      /\ text'[q] = text[q] /\ pc'[q] = pc[q]
    <2>1. text'[p] = text[p] /\ pc'[p] = place
      BY DEF Now
    <2>2. ~ InLine(p, f)'
      BY <2>1 DEF InLine
    <2>3. \A q \in Processes \ {p} : /\ InLine(q, f)' <=> InLine(q, f)
                                     /\ Replacing(q, f)' <=> Replacing(q, f)
                                     /\ text'[q] = text[q] /\ pc'[q] = pc[q]
      BY DEF Now, InLine, Replacing
    <2>4. QED BY <2>1, <2>2, <2>3
  <1>2. Held(f)' = Held(f)
    BY DEF Held
  <1>3. \A q \in Processes : Replacing(q, f)' => q = p
    BY <1>1 DEF LinesOf
  <1>4. Parses(Held(f)')
    BY <1>2 DEF LinesOf
  <1>5. \A q, r \in Processes : InLine(q, f)' /\ InLine(r, f)' => q = r
    BY <1>1 DEF LinesOf
  <1>6. Unfinished(Held(f)') => \E q \in Processes : InLine(q, f)' /\ fd'[q] = At("file", f)
    <2>1. ~ InLine(p, f)
      BY DEF InLine, Replacing
    <2>2. QED BY <1>1, <1>2, <2>1 DEF LinesOf
  <1>7. \A q \in Processes : Replacing(q, f)' =>
          /\ Parses(text'[q]) /\ ~ Unfinished(text'[q])
          /\ pc'[q] = "copy" => fd'[q] = At("tmp", f) /\ tmp'[f] = <<>>
          /\ pc'[q] = "rename" => tmp'[f] = text'[q]
    BY <1>1, <1>3 DEF LinesOf
  <1>8. QED BY <1>3, <1>4, <1>5, <1>6, <1>7 DEF LinesOf, Parses, Unfinished

LEMMA LinesWriteCopy ==
  ASSUME AllTypeOK, Stages, AllTypeOK', NEW p \in Processes, WriteCopyLeaves(p), NEW f, f = op[p].file,
         LinesOf(f)
  PROVE  LinesOf(f)'
  <1>1. /\ pc[p] = "copy" /\ f \in Outboxes /\ f \in Files
        /\ Now(p, op[p], "rename", to[p], text[p]) /\ Has(p, Closed)
        /\ Only(f, IF fd[p] = At("file", f) THEN Over(Behind(p, f), text[p]) ELSE files[f],
                   IF fd[p] = At("tmp", f) THEN Over(Behind(p, f), text[p]) ELSE tmp[f])
    BY FileFacts DEF WriteCopyLeaves
  <1>2. Replacing(p, f)
    BY <1>1 DEF Replacing
  <1>3. fd[p] = At("tmp", f) /\ tmp[f] = <<>>
    BY <1>1, <1>2 DEF LinesOf
  <1>4. fd[p] # At("file", f)
    BY <1>3, HandlesDiffer
  <1>5. Over(Behind(p, f), text[p]) = text[p]
    <2>1. text[p] \in Seq(0 .. sends)
      BY DEF AllTypeOK, ProcessTypeOK, Texts
    <2>2. Len(<<>>) <= Len(text[p])
      BY <2>1
    <2>3. QED BY <1>3, <2>2 DEF Behind, Over
  <1>6. tmp'[f] = text[p] /\ files'[f] = files[f]
    BY <1>1, <1>3, <1>4, <1>5 DEF Only
  <1>7. files' = files
    <2>1. \A g \in Files : files'[g] = files[g]
      BY <1>1, <1>6 DEF Only
    <2>2. files' = [g \in Files |-> files'[g]] /\ files = [g \in Files |-> files[g]]
      BY DEF AllTypeOK, DiskTypeOK
    <2>3. QED BY <2>1, <2>2
  <1>8. QED BY <1>1, <1>2, <1>6, <1>7, LinesCopy DEF Has

LEMMA LinesRenameCopy ==
  ASSUME AllTypeOK, Stages, NEW p \in Processes, RenameCopyLeaves(p), NEW f, f = op[p].file,
         LinesOf(f)
  PROVE  LinesOf(f)' /\ Replacing(p, f) /\ Held(f)' = text[p]
  <1>1. /\ pc[p] = "rename" /\ f \in Outboxes /\ f \in Files
        /\ Now(p, None, "idle", <<>>, <<>>) /\ Renamed(f)
    BY FileFacts DEF RenameCopyLeaves
  <1>2. Replacing(p, f)
    BY <1>1 DEF Replacing
  <1>3. tmp[f] = text[p] /\ text[p] # NoFile /\ Parses(text[p]) /\ ~ Unfinished(text[p])
    <2>1. text[p] \in Seq(0 .. sends) /\ sends \in Nat
      BY DEF AllTypeOK, ProcessTypeOK, Texts
    <2>2. QED BY <1>1, <1>2, <2>1, TextFacts DEF LinesOf
  <1>4. files'[f] = text[p]
    BY <1>3, <1>1 DEF Renamed, Only
  <1>5. Held(f)' = text[p]
    BY <1>3, <1>4 DEF Held
  <1>6. /\ ~ InLine(p, f)' /\ ~ InLine(p, f) /\ ~ Replacing(p, f)'
        /\ \A q \in Processes \ {p} : /\ InLine(q, f)' <=> InLine(q, f)
                                      /\ Replacing(q, f)' <=> Replacing(q, f)
    BY <1>1, PlacesAfter DEF InLine
  <1>7. \A q \in Processes : ~ Replacing(q, f)'
    BY <1>2, <1>6 DEF LinesOf
  <1>8. \A q, r \in Processes : InLine(q, f)' /\ InLine(r, f)' => q = r
    BY <1>6 DEF LinesOf
  <1>9. Parses(Held(f)') /\ ~ Unfinished(Held(f)')
    BY <1>3, <1>5
  <1>10. LinesOf(f)'
    BY <1>7, <1>8, <1>9 DEF LinesOf, Parses, Unfinished
  <1>11. QED BY <1>2, <1>5, <1>10

\* A step on another file, and one that leaves every file.
SameAt(f) == Held(f)' = Held(f) /\ tmp'[f] = tmp[f]

LEMMA OtherFile ==
  ASSUME NEW f \in Files, NEW g, g # f
  PROVE  /\ \A x, y : Only(g, x, y) => SameAt(f)
         /\ Renamed(g) => SameAt(f) /\ \A p \in Processes : StillAt(p, f)
  <1>1. \A x, y : Only(g, x, y) => SameAt(f)
    BY DEF Only, SameAt, Held
  <1>2. UNCHANGED <<files, tmp, fd>> => SameAt(f) /\ \A p \in Processes : StillAt(p, f)
    BY DEF SameAt, Held, StillAt
  <1>3. Carried(g) => \A p \in Processes : StillAt(p, f)
    BY HandlesDiffer DEF Carried, StillAt
  <1>4. QED BY <1>1, <1>2, <1>3 DEF Renamed

\* Or one that concerns mailbox f in another way than these.
MailElsewhere(f) ==
  \E p \in Processes : \E o, place, t, x :
    /\ Now(p, o, place, t, x) /\ SameAt(f) /\ StillAt(p, f) /\ ~ InLine(p, f)
    /\ place = "newline" => Head(t) # f
    /\ place \in {"tmp", "copy", "rename"} => o.file # f
    /\ appended'[f] = appended[f] /\ late'[f] = late[f]

MailMoves(f) ==
  \/ f \in spoiled'
  \/ UNCHANGED mailVars
  \/ MailElsewhere(f)
  \/ \E w \in Workers : ClearInboxLeaves(w) /\ f = Inbox(w)
  \/ \E p \in Processes : \/ PutLineLeaves(p) /\ f = Head(to[p])
                          \/ PutNewlineLeaves(p) /\ f = Head(to[p])
                          \/ ReadOutboxLeaves(p, f)
                          \/ /\ OpenCopyLeaves(p) /\ pc[p] = "tmp" /\ f = op[p].file
                             /\ Now(p, op[p], "copy", to[p], text[p])
                          \/ WriteCopyLeaves(p) /\ f = op[p].file
                          \/ RenameCopyLeaves(p) /\ f = op[p].file

LEMMA MovesElsewhere ==
  ASSUME NEW f, SameAt(f),
         NEW p \in Processes, NEW o, NEW place, NEW t, NEW x, Now(p, o, place, t, x),
         StillAt(p, f), ~ InLine(p, f),
         place = "newline" => Head(t) # f,
         place \in {"tmp", "copy", "rename"} => o.file # f,
         appended'[f] = appended[f], late'[f] = late[f]
  PROVE  MailMoves(f)
  BY DEF MailElsewhere, MailMoves

LEMMA MailMovesOf ==
  ASSUME AllTypeOK, Stages, Leaves, NEW f \in Mailboxes
  PROVE  MailMoves(f)
  <1>2. f \in Files /\ f \notin Signals
    BY FileFacts
  <1>3. ASSUME files' = files, tmp' = tmp
        PROVE  SameAt(f)
    BY <1>3 DEF SameAt, Held
  <1>4. ASSUME NEW p \in Processes, fd' = fd \/ \E d : Has(p, d)
        PROVE  StillAt(p, f)
    BY <1>4 DEF StillAt, Has
  <1>5. ASSUME NEW p \in Processes, pc[p] # "newline" \/ Head(to[p]) # f
        PROVE  ~ InLine(p, f)
    BY <1>5 DEF InLine
  <1>6. CASE UNCHANGED mailVars
    BY <1>6 DEF MailMoves
  <1>7. ASSUME NEW p \in Processes, StartAppendLeaves(p)
        PROVE  MailMoves(f)
    <2>1. /\ SameAt(f) /\ StillAt(p, f) /\ ~ InLine(p, f)
          /\ appended'[f] = appended[f] /\ late'[f] = late[f]
          /\ \E o, t, x : Now(p, o, "open", t, x)
      BY <1>3, <1>4, <1>5, <1>7 DEF StartAppendLeaves, Histories
    <2>2. QED BY <1>2, <2>1, MovesElsewhere
  <1>8. ASSUME NEW p \in Processes, OpenMailboxLeaves(p)
        PROVE  MailMoves(f)
    <2> PICK g : g = Head(to[p])
      OBVIOUS
    <2>1. /\ Now(p, op[p], "line", to[p], text[p]) /\ pc[p] = "open" /\ tmp' = tmp
          /\ Has(p, At("file", g))
          /\ Only(g, IF files[g] = NoFile THEN <<>> ELSE files[g], tmp[g])
      BY <1>8 DEF OpenMailboxLeaves
    <2>2. SameAt(f)
      <3>1. CASE g = f
        <4>1. Held(f)' = Held(f)
          BY <2>1, <3>1, TextFacts DEF Only, Held, AllTypeOK
        <4>2. QED BY <2>1, <4>1 DEF SameAt
      <3>2. CASE g # f
        BY <1>2, <2>1, <3>2, OtherFile
      <3>3. QED BY <3>1, <3>2
    <2>3. StillAt(p, f) /\ ~ InLine(p, f)
      BY <1>4, <1>5, <2>1
    <2>4. appended'[f] = appended[f] /\ late'[f] = late[f]
      BY <1>8 DEF OpenMailboxLeaves, Histories
    <2>5. QED BY <1>2, <2>1, <2>2, <2>3, <2>4, MovesElsewhere
  <1>9. ASSUME NEW p \in Processes, PutLineLeaves(p)
        PROVE  MailMoves(f)
    <2> PICK g : g = Head(to[p])
      OBVIOUS
    <2>1. CASE g = f
      BY <1>9, <2>1 DEF MailMoves
    <2>2. CASE g # f
      <3>1. /\ Now(p, op[p], "newline", to[p], text[p]) /\ pc[p] = "line" /\ fd' = fd
            /\ \E x, y : Only(g, x, y)
        BY <1>9 DEF PutLineLeaves
      <3>2. SameAt(f) /\ StillAt(p, f) /\ ~ InLine(p, f)
        BY <1>2, <1>4, <1>5, <2>2, <3>1, OtherFile
      <3>3. appended'[f] = appended[f] /\ late'[f] = late[f]
        BY <1>9, <2>2 DEF PutLineLeaves, Histories
      <3>4. QED BY <1>2, <2>2, <3>1, <3>2, <3>3, MovesElsewhere
    <2>3. QED BY <2>1, <2>2
  <1>10. ASSUME NEW p \in Processes, PutNewlineLeaves(p)
         PROVE  MailMoves(f)
    <2> PICK g : g = Head(to[p])
      OBVIOUS
    <2>1. CASE g = f
      BY <1>10, <2>1 DEF MailMoves
    <2>2. CASE g # f
      <3>1. /\ Has(p, Closed) /\ \E x, y : Only(g, x, y)
            /\ \E o, place, t, x : Now(p, o, place, t, x) /\ place \in {"open", "idle"}
        BY <1>10 DEF PutNewlineLeaves
      <3>2. SameAt(f) /\ StillAt(p, f) /\ ~ InLine(p, f)
        BY <1>2, <1>4, <1>5, <2>2, <3>1, OtherFile
      <3>3. appended'[f] = appended[f] /\ late'[f] = late[f]
        BY <1>10 DEF PutNewlineLeaves, Histories
      <3>4. QED BY <1>2, <3>1, <3>2, <3>3, MovesElsewhere
    <2>3. QED BY <2>1, <2>2
  <1>11. ASSUME NEW p \in Processes, NEW g \in Outboxes, ReadOutboxLeaves(p, g)
         PROVE  MailMoves(f)
    <2>1. CASE g = f
      BY <1>11, <2>1 DEF MailMoves
    <2>2. CASE g # f
      <3>1. /\ UNCHANGED <<files, tmp, fd>> /\ pc[p] = "idle"
            /\ \E o, t, x : Now(p, o, "tmp", t, x) /\ o.file = g
        BY <1>11 DEF ReadOutboxLeaves
      <3>2. SameAt(f) /\ StillAt(p, f) /\ ~ InLine(p, f)
        BY <1>3, <1>4, <1>5, <3>1
      <3>3. appended'[f] = appended[f] /\ late'[f] = late[f]
        BY <1>11 DEF ReadOutboxLeaves, Histories
      <3>4. QED BY <1>2, <2>2, <3>1, <3>2, <3>3, MovesElsewhere
    <2>3. QED BY <2>1, <2>2
  <1>12. ASSUME NEW p \in Processes, OpenCopyLeaves(p),
                \/ /\ pc[p] = "tmp" /\ op[p].file \in Outboxes
                   /\ Now(p, op[p], "copy", to[p], text[p])
                \/ /\ pc[p] = "stmp" /\ op[p].file \in Signals
                   /\ Now(p, op[p], "swrite", to[p], text[p])
         PROVE  MailMoves(f)
    <2> PICK g : g = op[p].file
      OBVIOUS
    <2>1. Only(g, files[g], <<>>) /\ Has(p, At("tmp", g)) /\ files' = files
      BY <1>12 DEF OpenCopyLeaves
    <2>2. CASE g = f
      <3>1. pc[p] = "tmp" /\ Now(p, op[p], "copy", to[p], text[p])
        BY <1>2, <1>12, <2>2
      <3>2. QED BY <1>12, <2>2, <3>1 DEF MailMoves
    <2>3. CASE g # f
      <3>1. SameAt(f) /\ StillAt(p, f) /\ ~ InLine(p, f)
        BY <1>2, <1>4, <1>5, <1>12, <2>1, <2>3, OtherFile
      <3>2. \E place : Now(p, op[p], place, to[p], text[p]) /\ place \in {"copy", "swrite"}
        BY <1>12
      <3>3. appended'[f] = appended[f] /\ late'[f] = late[f]
        BY <1>12 DEF OpenCopyLeaves, Histories
      <3>4. QED BY <1>2, <2>3, <3>1, <3>2, <3>3, MovesElsewhere
    <2>4. QED BY <2>2, <2>3
  <1>13. ASSUME NEW p \in Processes, WriteCopyLeaves(p)
         PROVE  MailMoves(f)
    <2> PICK g : g = op[p].file
      OBVIOUS
    <2>1. CASE g = f
      BY <1>13, <2>1 DEF MailMoves
    <2>2. CASE g # f
      <3>1. /\ Now(p, op[p], "rename", to[p], text[p]) /\ Has(p, Closed) /\ pc[p] = "copy"
            /\ \E x, y : Only(g, x, y)
        BY <1>13 DEF WriteCopyLeaves
      <3>2. SameAt(f) /\ StillAt(p, f) /\ ~ InLine(p, f)
        BY <1>2, <1>4, <1>5, <2>2, <3>1, OtherFile
      <3>3. appended'[f] = appended[f] /\ late'[f] = late[f]
        BY <1>13 DEF WriteCopyLeaves, Histories
      <3>4. QED BY <1>2, <2>2, <3>1, <3>2, <3>3, MovesElsewhere
    <2>3. QED BY <2>1, <2>2
  <1>14. ASSUME NEW p \in Processes, RenameCopyLeaves(p)
         PROVE  MailMoves(f)
    <2> PICK g : g = op[p].file
      OBVIOUS
    <2>1. CASE g = f
      BY <1>14, <2>1 DEF MailMoves
    <2>2. CASE g # f
      <3>1. Now(p, None, "idle", <<>>, <<>>) /\ Renamed(g) /\ pc[p] = "rename"
        BY <1>14 DEF RenameCopyLeaves
      <3>2. SameAt(f) /\ StillAt(p, f) /\ ~ InLine(p, f)
        BY <1>2, <1>5, <2>2, <3>1, OtherFile
      <3>3. appended'[f] = appended[f] /\ late'[f] = late[f]
        BY <1>14 DEF RenameCopyLeaves, Histories
      <3>4. QED BY <1>2, <3>1, <3>2, <3>3, MovesElsewhere
    <2>3. QED BY <2>1, <2>2
  <1>15. ASSUME NEW p \in Processes, NEW w \in Workers, StartSignalLeaves(p, w)
         PROVE  MailMoves(f)
    <2>1. /\ UNCHANGED <<files, tmp, fd>> /\ pc[p] = "idle" /\ \E o, t, x : Now(p, o, "stmp", t, x)
      BY <1>15 DEF StartSignalLeaves
    <2>2. SameAt(f) /\ StillAt(p, f) /\ ~ InLine(p, f)
      BY <1>3, <1>4, <1>5, <2>1
    <2>3. appended'[f] = appended[f] /\ late'[f] = late[f]
      BY <1>15 DEF StartSignalLeaves, Histories
    <2>4. QED BY <1>2, <2>1, <2>2, <2>3, MovesElsewhere
  <1>16. ASSUME NEW p \in Processes, WriteSignalLeaves(p)
         PROVE  MailMoves(f)
    <2> PICK g : g = op[p].file
      OBVIOUS
    <2>1. /\ Now(p, op[p], "srename", to[p], text[p]) /\ Has(p, Closed) /\ pc[p] = "swrite"
          /\ (\E x, y : Only(g, x, y)) /\ g \in Signals
      BY <1>16 DEF WriteSignalLeaves
    <2>2. SameAt(f) /\ StillAt(p, f) /\ ~ InLine(p, f)
      BY <1>2, <1>4, <1>5, <2>1, OtherFile
    <2>3. appended'[f] = appended[f] /\ late'[f] = late[f]
      BY <1>16 DEF WriteSignalLeaves, Histories
    <2>4. QED BY <1>2, <2>1, <2>2, <2>3, MovesElsewhere
  <1>17. ASSUME NEW p \in Processes, RenameSignalLeaves(p)
         PROVE  MailMoves(f)
    <2> PICK g : g = op[p].file
      OBVIOUS
    <2>1. Now(p, None, "idle", <<>>, <<>>) /\ Renamed(g) /\ pc[p] = "srename" /\ g \in Signals
      BY <1>17 DEF RenameSignalLeaves
    <2>2. SameAt(f) /\ StillAt(p, f) /\ ~ InLine(p, f)
      BY <1>2, <1>5, <2>1, OtherFile
    <2>3. appended'[f] = appended[f] /\ late'[f] = late[f]
      BY <1>17 DEF RenameSignalLeaves, Histories
    <2>4. QED BY <1>2, <2>1, <2>2, <2>3, MovesElsewhere
  <1>18. ASSUME NEW p \in Processes, CrashLeaves(p)
         PROVE  MailMoves(f)
    <2>1. /\ UNCHANGED <<files, tmp>> /\ Has(p, Closed) /\ Now(p, None, "idle", <<>>, <<>>)
          /\ f \notin spoiled' => pc[p] # "newline" \/ Head(to[p]) # f
      BY <1>18 DEF CrashLeaves
    <2>2. SameAt(f) /\ StillAt(p, f) /\ (f \notin spoiled' => ~ InLine(p, f))
      BY <1>3, <1>4, <1>5, <2>1
    <2>3. appended'[f] = appended[f] /\ late'[f] = late[f]
      BY <1>18 DEF CrashLeaves, Histories
    <2>4. QED BY <1>2, <2>1, <2>2, <2>3, MovesElsewhere DEF MailMoves
  <1>19. ASSUME NEW w \in Workers, ReadInboxLeaves(w) \/ ReadSignalLeaves(w)
         PROVE  MailMoves(f)
    <2>1. /\ UNCHANGED <<files, tmp, fd>> /\ pc[w] = "idle" /\ w \in Processes
          /\ \/ \E o, t, x : Now(w, o, "clear", t, x)
             \/ \E o, t, x : Now(w, o, "sremove", t, x)
      BY <1>19, FileFacts DEF ReadInboxLeaves, ReadSignalLeaves
    <2>2. SameAt(f) /\ StillAt(w, f) /\ ~ InLine(w, f)
      BY <1>3, <1>4, <1>5, <2>1
    <2>3. appended'[f] = appended[f] /\ late'[f] = late[f]
      BY <1>19 DEF ReadInboxLeaves, ReadSignalLeaves, Histories
    <2>4. QED BY <1>2, <2>1, <2>2, <2>3, MovesElsewhere
  <1>20. ASSUME NEW w \in Workers, ClearInboxLeaves(w)
         PROVE  MailMoves(f)
    <2>1. /\ UNCHANGED <<tmp, fd>> /\ pc[w] = "clear" /\ w \in Processes
          /\ Now(w, None, "idle", <<>>, <<>>) /\ \E y : Only(Inbox(w), <<>>, y)
      BY <1>20, FileFacts DEF ClearInboxLeaves
    <2>2. CASE f = Inbox(w)
      BY <1>20, <2>2 DEF MailMoves
    <2>3. CASE f # Inbox(w)
      <3>1. SameAt(f) /\ StillAt(w, f) /\ ~ InLine(w, f)
        BY <1>2, <1>4, <1>5, <2>1, <2>3, OtherFile
      <3>2. appended'[f] = appended[f] /\ late'[f] = late[f]
        BY <1>20 DEF ClearInboxLeaves, Histories
      <3>3. QED BY <1>20, <2>1, <3>1, <3>2, MovesElsewhere
    <2>4. QED BY <2>2, <2>3
  <1>21. ASSUME NEW w \in Workers, RemoveSignalLeaves(w)
         PROVE  MailMoves(f)
    <2> PICK s : s = Signal(w)
      OBVIOUS
    <2>1. /\ s \in Signals /\ pc[w] = "sremove" /\ w \in Processes
          /\ Now(w, None, "idle", <<>>, <<>>) /\ \E x, y : Only(s, x, y)
          /\ \A q \in Processes : fd'[q] = IF fd[q] = At("file", s) THEN Closed ELSE fd[q]
      BY <1>21, FileFacts DEF RemoveSignalLeaves
    <2>2. s # f
      BY <1>2, <2>1
    <2>3. StillAt(w, f)
      BY <2>1, <2>2, HandlesDiffer DEF StillAt
    <2>4. SameAt(f) /\ ~ InLine(w, f)
      BY <1>2, <1>5, <2>1, <2>2, OtherFile
    <2>5. appended'[f] = appended[f] /\ late'[f] = late[f]
      BY <1>21 DEF RemoveSignalLeaves, Histories
    <2>6. QED BY <1>2, <2>1, <2>3, <2>4, <2>5, MovesElsewhere
  <1>22. QED
    BY <1>6, <1>7, <1>8, <1>9, <1>10, <1>11, <1>12, <1>13, <1>14, <1>15, <1>16, <1>17,
       <1>18, <1>19, <1>20, <1>21 DEF Leaves

LEMMA SpoiledGrows ==
  ASSUME Leaves
  PROVE  spoiled \subseteq spoiled'
  <1>1. CASE UNCHANGED mailVars
    BY <1>1 DEF mailVars
  <1>2. CASE \E p \in Processes :
               \/ StartAppendLeaves(p) \/ OpenMailboxLeaves(p) \/ PutLineLeaves(p)
               \/ PutNewlineLeaves(p) \/ (\E g \in Outboxes : ReadOutboxLeaves(p, g))
    BY <1>2 DEF StartAppendLeaves, OpenMailboxLeaves, PutLineLeaves, PutNewlineLeaves,
                ReadOutboxLeaves, Histories
  <1>3. CASE \E p \in Processes :
               \/ OpenCopyLeaves(p) \/ WriteCopyLeaves(p) \/ RenameCopyLeaves(p)
               \/ (\E w \in Workers : StartSignalLeaves(p, w))
               \/ WriteSignalLeaves(p) \/ RenameSignalLeaves(p) \/ CrashLeaves(p)
    BY <1>3 DEF OpenCopyLeaves, WriteCopyLeaves, RenameCopyLeaves, StartSignalLeaves,
                WriteSignalLeaves, RenameSignalLeaves, CrashLeaves, Histories
  <1>4. CASE \E w \in Workers :
               \/ ReadInboxLeaves(w) \/ ClearInboxLeaves(w) \/ ReadSignalLeaves(w)
               \/ RemoveSignalLeaves(w)
    BY <1>4 DEF ReadInboxLeaves, ClearInboxLeaves, ReadSignalLeaves, RemoveSignalLeaves,
                Histories
  <1>5. QED BY <1>1, <1>2, <1>3, <1>4 DEF Leaves

LEMMA LinesUnchanged ==
  ASSUME NEW f, LinesOf(f), UNCHANGED mailVars
  PROVE  LinesOf(f)'
  <1>1. UNCHANGED <<files, tmp, fd, op, pc, to, text>>
    BY DEF mailVars
  <1>2. Held(f)' = Held(f) /\ \A p : /\ InLine(p, f)' <=> InLine(p, f)
                                     /\ Replacing(p, f)' <=> Replacing(p, f)
    BY <1>1 DEF Held, InLine, Replacing
  <1>3. QED BY <1>1, <1>2 DEF LinesOf, Parses, Unfinished

LEMMA LinesNext ==
  ASSUME AllTypeOK, Stages, LinesInv, AllTypeOK', Leaves
  PROVE  LinesInv'
  <1> SUFFICES ASSUME NEW f \in Mailboxes, f \notin spoiled'
               PROVE  LinesOf(f)'
    BY DEF LinesInv, LinesOf
  <1>1. LinesOf(f) /\ f \in Files
    BY SpoiledGrows, LinesAll, FileFacts
  <1>2. CASE UNCHANGED mailVars
    BY <1>1, <1>2, LinesUnchanged
  <1>3. CASE MailElsewhere(f)
    BY <1>1, <1>3, LinesElsewhere DEF MailElsewhere, SameAt
  <1>4. ASSUME NEW w \in Workers, ClearInboxLeaves(w), f = Inbox(w)
        PROVE  LinesOf(f)'
    <2>1. /\ tmp' = tmp /\ fd' = fd /\ pc[w] = "clear" /\ w \in Processes
          /\ Now(w, None, "idle", <<>>, <<>>)
      BY <1>4, FileFacts DEF ClearInboxLeaves
    <2>2. StillAt(w, f) /\ ~ InLine(w, f)
      BY <2>1 DEF StillAt, InLine
    <2>3. Parses(Held(f)') /\ ~ Unfinished(Held(f)')
      <3>1. Held(f)' = <<>>
        BY <1>4, ClearHeld
      <3>2. QED BY <3>1 DEF Parses, Unfinished
    <2>4. QED BY <1>1, <2>1, <2>2, <2>3, LinesElsewhere
  <1>5. ASSUME NEW p \in Processes, OpenCopyLeaves(p), pc[p] = "tmp", f = op[p].file,
               Now(p, op[p], "copy", to[p], text[p])
        PROVE  LinesOf(f)'
    <2>1. Only(f, files[f], <<>>) /\ Has(p, At("tmp", f)) /\ files' = files
      BY <1>5 DEF OpenCopyLeaves
    <2>2. Replacing(p, f)
      BY <1>5 DEF Replacing
    <2>3. /\ fd'[p] = At("tmp", f) /\ tmp'[f] = <<>>
          /\ \A q \in Processes \ {p} : fd'[q] = fd[q]
      BY <2>1 DEF Has, Only
    <2>4. QED BY <1>1, <1>5, <2>1, <2>2, <2>3, LinesCopy
  <1>6. ASSUME NEW p \in Processes, ReadOutboxLeaves(p, f)
        PROVE  LinesOf(f)'
    BY <1>1, <1>6, LinesReadOutbox DEF ReadOutboxLeaves
  <1>7. QED
    BY <1>1, <1>2, <1>3, <1>4, <1>5, <1>6, MailMovesOf, LinesPutLine, LinesPutNewline,
       LinesWriteCopy, LinesRenameCopy DEF MailMoves

LEMMA LinesInit == MailInit => LinesInv
  <1> SUFFICES ASSUME MailInit, NEW f \in Mailboxes
               PROVE  LinesOf(f)
    BY DEF LinesInv, LinesOf
  <1>1. Held(f) = <<>>
    BY FileFacts DEF MailInit, Held
  <1>2. \A p \in Processes : ~ InLine(p, f) /\ ~ Replacing(p, f)
    BY DEF MailInit, InLine, Replacing
  <1>3. Parses(<<>>) /\ ~ Unfinished(<<>>)
    BY DEF Parses, Unfinished
  <1>4. QED BY <1>1, <1>2, <1>3 DEF LinesOf

-----------------------------------------------------------------------------
(* The order of messages.                                                  *)

Bef(s, x, y) == \E i, j \in DOMAIN s : s[i] = x /\ s[j] = y /\ i < j

LEMMA BeforeIs == \A f, x, y : /\ Before(f, x, y) <=> Bef(appended[f], x, y)
                               /\ Before(f, x, y)' <=> Bef(appended'[f], x, y)
  BY DEF Before, Bef

LEMMA BefAppend ==
  ASSUME NEW n \in Nat, NEW s \in Seq(0 .. n), NEW m \in 1 .. n, m \notin InText(s)
  PROVE  LET u == Append(s, m)
         IN  /\ \A x, y : Bef(s, x, y) => Bef(u, x, y)
             /\ \A x \in InText(s) : Bef(u, x, m)
             /\ \A x, y : Bef(u, x, y) /\ y # m => Bef(s, x, y)
             /\ \A y : ~ Bef(s, m, y)
  <1> PICK u, l : u = Append(s, m) /\ l = Len(s)
    OBVIOUS
  <1>1. /\ l \in Nat /\ DOMAIN s = 1 .. l /\ DOMAIN u = 1 .. l + 1
        /\ \A i \in 1 .. l : u[i] = s[i]
        /\ u[l + 1] = m
    BY AppendProperties
  <1>2. m # Newline /\ \A i \in 1 .. l : s[i] # m
    <2>1. m # Newline
      BY DEF Newline
    <2>2. QED BY <2>1 DEF InText
  <1>3. ASSUME NEW x, NEW y, Bef(s, x, y)
        PROVE  Bef(u, x, y)
    <2>1. PICK i, j \in 1 .. l : s[i] = x /\ s[j] = y /\ i < j
      BY <1>1, <1>3 DEF Bef
    <2>2. i \in 1 .. l + 1 /\ j \in 1 .. l + 1
      BY <1>1
    <2>3. QED BY <1>1, <2>1, <2>2 DEF Bef
  <1>4. ASSUME NEW x \in InText(s)
        PROVE  Bef(u, x, m)
    <2>1. PICK i \in 1 .. l : s[i] = x
      BY DEF InText
    <2>2. i \in 1 .. l + 1 /\ l + 1 \in 1 .. l + 1 /\ i < l + 1
      BY <1>1
    <2>3. QED BY <1>1, <2>1, <2>2 DEF Bef
  <1>5. ASSUME NEW x, NEW y, Bef(u, x, y), y # m
        PROVE  Bef(s, x, y)
    <2>1. PICK i, j \in 1 .. l + 1 : u[i] = x /\ u[j] = y /\ i < j
      BY <1>1, <1>5 DEF Bef
    <2>2. j # l + 1
      BY <1>1, <1>5, <2>1
    <2>3. i \in 1 .. l /\ j \in 1 .. l
      BY <1>1, <2>1, <2>2
    <2>4. QED BY <1>1, <2>1, <2>3 DEF Bef
  <1>6. \A y : ~ Bef(s, m, y)
    BY <1>1, <1>2 DEF Bef
  <1>7. QED BY <1>3, <1>4, <1>5, <1>6

LEMMA BefTotal ==
  ASSUME NEW n \in Nat, NEW s \in Seq(0 .. n), NEW x \in InText(s), NEW y \in InText(s), x # y
  PROVE  Bef(s, x, y) \/ Bef(s, y, x)
  <1>1. PICK i, j \in 1 .. Len(s) : s[i] = x /\ s[j] = y
    BY DEF InText
  <1>2. Len(s) \in Nat /\ DOMAIN s = 1 .. Len(s)
    OBVIOUS
  <1>3. i < j \/ j < i
    BY <1>1, <1>2
  <1>4. QED BY <1>1, <1>2, <1>3 DEF Bef

\* h holds messages of s in the order of s.
Follows(h, s) ==
  \A i, j \in DOMAIN h :
    i < j /\ h[i] # Newline /\ h[j] # Newline => Bef(s, h[i], h[j])

LEMMA FollowsAppend ==
  ASSUME NEW n \in Nat, NEW h \in Seq(0 .. n), NEW s, NEW u, NEW m \in 0 .. n,
         Follows(h, s), \A x, y : Bef(s, x, y) => Bef(u, x, y),
         m # Newline => \A x \in InText(h) : Bef(u, x, m)
  PROVE  Follows(Append(h, m), u)
  <1> PICK g, l : g = Append(h, m) /\ l = Len(h)
    OBVIOUS
  <1>1. /\ l \in Nat /\ DOMAIN h = 1 .. l /\ DOMAIN g = 1 .. l + 1
        /\ \A i \in 1 .. l : g[i] = h[i]
        /\ g[l + 1] = m
    BY AppendProperties
  <1>2. ASSUME NEW i \in 1 .. l + 1, NEW j \in 1 .. l + 1,
               i < j, g[i] # Newline, g[j] # Newline
        PROVE  Bef(u, g[i], g[j])
    <2>1. i \in 1 .. l /\ (j \in 1 .. l \/ j = l + 1)
      BY <1>1, <1>2
    <2>2. CASE j \in 1 .. l
      BY <1>1, <1>2, <2>1, <2>2 DEF Follows
    <2>3. CASE j = l + 1
      <3>1. h[i] \in InText(h) /\ g[i] = h[i] /\ g[j] = m
        BY <1>1, <1>2, <2>1, <2>3 DEF InText
      <3>2. QED BY <1>2, <3>1
    <2>4. QED BY <2>1, <2>2, <2>3
  <1>3. QED BY <1>1, <1>2 DEF Follows

\* A worker has read what came before anything it has read.
LEMMA FollowsRead ==
  ASSUME NEW n \in Nat, NEW t \in Seq(0 .. n), NEW g \in Seq(1 .. n), NEW s \in Seq(0 .. n),
         NEW I \in SUBSET (1 .. Len(t)),
         I = {i \in 1 .. Len(t) : t[i] # Newline /\ \A j \in 1 .. Len(g) : g[j] # t[i]},
         Follows(t, s), Follows(g, s), InText(t) \subseteq InText(s), InText(g) \subseteq InText(s),
         \A x \in InText(g), y \in InText(t) : Bef(s, y, x) => y \in InText(g)
  PROVE  Follows(g \o Kept(t, I), s)
  <1> PICK k, h, a, b : k = Kept(t, I) /\ h = g \o k /\ a = Len(g) /\ b = Len(k)
    OBVIOUS
  <1>1. DOMAIN t = 1 .. Len(t) /\ I \in SUBSET DOMAIN t /\ Len(t) \in Nat
    OBVIOUS
  <1>2. /\ k \in Seq(0 .. n) /\ b = Cardinality(I)
        /\ \A i \in 1 .. Cardinality(I) : k[i] = t[Nth(I, i)]
    <2>1. /\ Kept(t, I) \in Seq(0 .. n) /\ Len(Kept(t, I)) = Cardinality(I)
          /\ \A i \in 1 .. Cardinality(I) : Kept(t, I)[i] = t[Nth(I, i)]
      BY <1>1, KeptFacts
    <2>2. QED BY <2>1
  <1>3. /\ \A i \in 1 .. Cardinality(I) : Nth(I, i) \in I
        /\ \A i, j \in 1 .. Cardinality(I) : i < j <=> Nth(I, i) < Nth(I, j)
    <2>1. /\ \A i \in 1 .. Cardinality(I) : Nth(I, i) \in I /\ Cardinality(I \cap 1 .. Nth(I, i)) = i
          /\ \A i \in I : Nth(I, Cardinality(I \cap 1 .. i)) = i
          /\ \A i, j \in 1 .. Cardinality(I) : i < j <=> Nth(I, i) < Nth(I, j)
      BY ONLY <1>1, NthFacts, I \in SUBSET (1 .. Len(t))
    <2>2. QED BY <2>1
  <1>4. /\ a \in Nat /\ b \in Nat /\ DOMAIN h = 1 .. a + b /\ DOMAIN g = 1 .. a
        /\ \A i \in 1 .. a : h[i] = g[i]
        /\ \A i \in 1 .. b : h[a + i] = k[i]
    <2>1. g \in Seq(0 .. n)
      <3>1. 1 .. n \subseteq 0 .. n
        OBVIOUS
      <3>2. QED BY <3>1, SeqWidens
    <2>2. /\ a \in Nat /\ b \in Nat /\ DOMAIN g = 1 .. a /\ g \o k \in Seq(0 .. n)
          /\ Len(g \o k) = a + b
          /\ \A i \in 1 .. a + b : (g \o k)[i] = IF i <= a THEN g[i] ELSE k[i - a]
      BY <1>2, <2>1, ConcatProperties
    <2>3. \A i \in 1 .. a : i \in 1 .. a + b /\ i <= a
      BY ONLY <2>2
    <2>4. \A i \in 1 .. b : a + i \in 1 .. a + b /\ ~ (a + i <= a) /\ (a + i) - a = i
      BY ONLY <2>2
    <2>5. QED BY <2>2, <2>3, <2>4
  <1>5. \A i \in 1 .. b : /\ k[i] \in InText(t) /\ k[i] \notin InText(g)
                          /\ Nth(I, i) \in DOMAIN t
    <2> SUFFICES ASSUME NEW i \in 1 .. b
                 PROVE  /\ k[i] \in InText(t) /\ k[i] \notin InText(g)
                        /\ Nth(I, i) \in DOMAIN t
      OBVIOUS
    <2> PICK c : c = Nth(I, i)
      OBVIOUS
    <2>1. c \in I /\ k[i] = t[c]
      BY <1>2, <1>3
    <2>2. c \in 1 .. Len(t) /\ t[c] # Newline /\ \A j \in 1 .. Len(g) : g[j] # t[c]
      BY <2>1
    <2>3. QED BY <1>1, <2>1, <2>2 DEF InText
  <1>6. ASSUME NEW i \in 1 .. a + b, NEW j \in 1 .. a + b,
               i < j, h[i] # Newline, h[j] # Newline
        PROVE  Bef(s, h[i], h[j])
    <2>1. CASE j \in 1 .. a
      <3>1. i \in 1 .. a
        BY <1>4, <1>6, <2>1
      <3>2. QED BY <1>4, <1>6, <2>1, <3>1 DEF Follows
    <2>2. CASE i \in 1 .. a /\ j \notin 1 .. a
      <3>1. PICK c \in 1 .. b : j = a + c
        <4>1. j - a \in 1 .. b /\ j = a + (j - a)
          <5>1. a \in Nat /\ b \in Nat /\ j \in 1 .. a + b /\ j \notin 1 .. a
            BY <1>4, <2>2
          <5>2. QED BY ONLY <5>1
        <4>2. QED BY <4>1
      <3>2. h[j] \in InText(t) /\ h[j] \notin InText(g)
        BY <1>4, <1>5, <3>1
      <3>3. h[i] \in InText(g)
        BY <1>4, <1>6, <2>2 DEF InText
      <3>4. QED BY <3>2, <3>3, BefTotal
    <2>3. CASE i \notin 1 .. a /\ j \notin 1 .. a
      <3>1. PICK c \in 1 .. b, d \in 1 .. b : i = a + c /\ j = a + d
        <4>1. /\ i - a \in 1 .. b /\ i = a + (i - a)
              /\ j - a \in 1 .. b /\ j = a + (j - a)
          <5>1. /\ a \in Nat /\ b \in Nat
                /\ i \in 1 .. a + b /\ i \notin 1 .. a /\ j \in 1 .. a + b /\ j \notin 1 .. a
            BY <1>4, <2>3
          <5>2. QED BY ONLY <5>1
        <4>2. QED BY <4>1
      <3>2. c < d
        BY <1>4, <1>6, <3>1
      <3>3. Nth(I, c) < Nth(I, d) /\ h[i] = t[Nth(I, c)] /\ h[j] = t[Nth(I, d)]
        BY <1>2, <1>3, <1>4, <3>1, <3>2
      <3>4. Nth(I, c) \in DOMAIN t /\ Nth(I, d) \in DOMAIN t
        BY <1>5
      <3>5. QED BY <1>6, <3>3, <3>4 DEF Follows
    <2>4. QED BY <1>4, <1>6, <2>1, <2>2, <2>3
  <1>7. QED BY <1>4, <1>6 DEF Follows

OrderOf(w) ==
  LET f == Inbox(w)
  IN  /\ InText(Held(f)) \cup InText(got[w]) \cup done[w] \subseteq InText(appended[f])
      /\ pc[w] = "clear" => InText(text[w]) \subseteq InText(appended[f])
      /\ Follows(Held(f), appended[f])
      /\ Follows(got[w], appended[f])
      /\ \A x \in InText(got[w]), y \in InText(Held(f)) :
           Bef(appended[f], y, x) => y \in InText(got[w])
      /\ done[w] \cap InText(Held(f)) = {}

LEMMA NoNewlines ==
  ASSUME NEW n \in Nat, NEW g \in Seq(1 .. n)
  PROVE  \A i \in DOMAIN g : g[i] # Newline
  <1>1. \A i \in DOMAIN g : g[i] \in 1 .. n
    OBVIOUS
  <1>2. QED BY <1>1 DEF Newline

LEMMA OrderAll ==
  ASSUME AllTypeOK
  PROVE  OrderInv <=> \A w \in Workers : OrderOf(w)
  <1>1. \A w \in Workers : \A i \in DOMAIN got[w] : got[w][i] # Newline
    BY NoNewlines DEF AllTypeOK, HistoryTypeOK
  <1>2. QED BY <1>1 DEF OrderInv, OrderOf, Follows, Before, Bef

LEMMA OrderAllNext ==
  ASSUME AllTypeOK', \A w \in Workers : OrderOf(w)'
  PROVE  OrderInv'
  <1>1. \A w \in Workers : \A i \in DOMAIN got'[w] : got'[w][i] # Newline
    <2> SUFFICES ASSUME NEW w \in Workers
                 PROVE  \A i \in DOMAIN got'[w] : got'[w][i] # Newline
      OBVIOUS
    <2>1. got'[w] \in Seq(1 .. sends') /\ sends' \in Nat
      BY DEF AllTypeOK, HistoryTypeOK
    <2>2. QED BY <2>1, NoNewlines
  <1>2. QED BY <1>1 DEF OrderInv, OrderOf, Follows, Before, Bef

LEMMA OrderNext ==
  ASSUME AllTypeOK, Stages, IdsInv, OrderInv, AllTypeOK', Leaves
  PROVE  OrderInv'
  <1> SUFFICES ASSUME NEW w \in Workers
               PROVE  OrderOf(w)'
    BY OrderAllNext
  <1> PICK f, A, H, G, D : /\ f = Inbox(w) /\ A = appended[Inbox(w)] /\ H = Held(Inbox(w))
                           /\ G = got[w] /\ D = done[w]
    OBVIOUS
  <1> PICK A1, H1, G1, D1 : /\ A1 = appended'[Inbox(w)] /\ H1 = Held(Inbox(w))'
                            /\ G1 = got'[w] /\ D1 = done'[w]
    OBVIOUS
  <1>1. OrderOf(w)' <=>
          /\ InText(H1) \cup InText(G1) \cup D1 \subseteq InText(A1)
          /\ pc'[w] = "clear" => InText(text'[w]) \subseteq InText(A1)
          /\ Follows(H1, A1) /\ Follows(G1, A1)
          /\ \A x \in InText(G1), y \in InText(H1) : Bef(A1, y, x) => y \in InText(G1)
          /\ D1 \cap InText(H1) = {}
    BY DEF OrderOf, InText, Follows, Bef
  <1>2. /\ InText(H) \cup InText(G) \cup D \subseteq InText(A)
        /\ pc[w] = "clear" => InText(text[w]) \subseteq InText(A)
        /\ Follows(H, A) /\ Follows(G, A)
        /\ \A x \in InText(G), y \in InText(H) : Bef(A, y, x) => y \in InText(G)
        /\ D \cap InText(H) = {}
    <2>1. OrderOf(w)
      BY OrderAll
    <2>2. QED BY <2>1 DEF OrderOf
  <1>3. f \in Mailboxes /\ f \in Files /\ w \in Processes
    BY FileFacts
  <1>4. /\ sends \in Nat /\ H \in Seq(0 .. sends) /\ A \in Seq(0 .. sends) /\ G \in Seq(1 .. sends)
    <2>1. A \in Seq(1 .. sends) /\ G \in Seq(1 .. sends) /\ sends \in Nat
      BY <1>3 DEF AllTypeOK, HistoryTypeOK
    <2>2. 1 .. sends \subseteq 0 .. sends
      BY <2>1
    <2>3. A \in Seq(0 .. sends)
      BY <2>1, <2>2, SeqWidens
    <2>4. H \in Seq(0 .. sends)
      BY <1>3, HeldFacts
    <2>5. QED BY <2>1, <2>3, <2>4
  <1>5. CASE ReadInboxLeaves(w)
    <2> PICK t, I : t = files[Inbox(w)] /\ I = Unseen(w)
      OBVIOUS
    <2>1. /\ H = t /\ H1 = t /\ I \in SUBSET (1 .. Len(t))
          /\ G1 = G \o Kept(t, I) /\ InText(G1) = InText(G) \cup InText(t)
      BY <1>5, ReadAdds
    <2>2. A1 = A /\ D1 = D /\ text'[w] = t
      BY <1>5 DEF ReadInboxLeaves, Now
    <2>3. I = {i \in 1 .. Len(t) : t[i] # Newline /\ \A j \in 1 .. Len(G) : G[j] # t[i]}
      BY DEF Unseen, IsNew
    <2>4. Follows(G1, A)
      <3>1. Follows(G \o Kept(t, I), A)
        BY <1>2, <1>4, <2>1, <2>3, FollowsRead
      <3>2. QED BY <2>1, <3>1
    <2>5. QED BY <1>1, <1>2, <2>1, <2>2, <2>4
  <1>6. CASE ClearInboxLeaves(w)
    <2>1. H1 = <<>> /\ InText(<<>>) = {}
      BY <1>4, <1>6, ClearHeld, InTextFacts
    <2>2. /\ pc[w] = "clear" /\ pc'[w] = "idle" /\ A1 = A /\ G1 = G
          /\ D1 = D \cup InText(text[w])
      BY <1>6 DEF ClearInboxLeaves, Now
    <2>3. Follows(<<>>, A)
      BY DEF Follows
    <2>4. QED BY <1>1, <1>2, <2>1, <2>2, <2>3
  <1>7. CASE StillReading(w) /\ MailQuiet(f)
    <2>1. H1 = H /\ A1 = A /\ G1 = G /\ D1 = D
      BY <1>7 DEF StillReading, MailQuiet
    <2>2. pc'[w] = "clear" => pc[w] = "clear" /\ text'[w] = text[w]
      BY <1>7 DEF StillReading
    <2>3. QED BY <1>1, <1>2, <2>1, <2>2
  <1>8. ASSUME StillReading(w), NEW p \in Processes, PutLineLeaves(p), Head(to[p]) = f
        PROVE  OrderOf(w)'
    <2> PICK m : m = op[p].id
      OBVIOUS
    <2>1. f = Head(to[p]) /\ PutLineLeaves(p)
      BY <1>8
    <2>2. LineHeld(p, f, m)
      BY <2>1, LineHeldFacts
    <2>3. m \in 1 .. sends /\ m # Newline /\ A1 = Append(A, m) /\ (H1 = Append(H, m) \/ H1 = H)
      BY <2>2 DEF LineHeld
    <2>4. m \notin InText(A)
      <3>1. pc[p] = "line"
        BY <1>8 DEF PutLineLeaves
      <3>2. to[p] \in Seq(Mailboxes) /\ to[p][1] = f /\ 1 \in DOMAIN to[p]
        BY <1>8, <3>1, AppenderFacts
      <3>3. 1 \in Unwritten(p)
        BY <3>1, <3>2 DEF Unwritten
      <3>4. QED BY <3>2, <3>3 DEF IdsInv
    <2>5. /\ \A x, y : Bef(A, x, y) => Bef(A1, x, y)
          /\ \A x \in InText(A) : Bef(A1, x, m)
          /\ \A x, y : Bef(A1, x, y) /\ y # m => Bef(A, x, y)
          /\ \A y : ~ Bef(A, m, y)
      BY <1>4, <2>3, <2>4, BefAppend
    <2>6. InText(A1) = InText(A) \cup {m} /\ InText(H1) \subseteq InText(H) \cup {m}
      <3>1. InText(Append(A, m)) = InText(A) \cup {m} /\ InText(Append(H, m)) = InText(H) \cup {m}
        BY <1>4, <2>3, InTextFacts
      <3>2. QED BY <2>3, <3>1
    <2>7. Follows(H1, A1)
      <3>1. CASE H1 = H
        BY <1>2, <2>5, <3>1 DEF Follows
      <3>2. CASE H1 = Append(H, m)
        <4>1. m \in 0 .. sends /\ \A x \in InText(H) : Bef(A1, x, m)
          BY <1>2, <1>4, <2>3, <2>5
        <4>2. Follows(H, A) /\ \A x, y : Bef(A, x, y) => Bef(A1, x, y)
          BY <1>2, <2>5
        <4>3. sends \in Nat /\ H \in Seq(0 .. sends)
          BY <1>4
        <4>4. Follows(Append(H, m), A1)
          BY ONLY <4>1, <4>2, <4>3, FollowsAppend
        <4>5. QED BY <3>2, <4>4
      <3>3. QED BY <2>3, <3>1, <3>2
    <2>8. G1 = G /\ D1 = D /\ (pc'[w] = "clear" => pc[w] = "clear" /\ text'[w] = text[w])
      BY <1>8 DEF StillReading
    <2>9. Follows(G1, A1)
      BY <1>2, <2>5, <2>8 DEF Follows
    <2>10. ASSUME NEW x \in InText(G1), NEW y \in InText(H1), Bef(A1, y, x)
           PROVE  y \in InText(G1)
      <3>1. x \in InText(G) /\ x \in InText(A) /\ x # m
        BY <1>2, <2>4, <2>8
      <3>2. Bef(A, y, x)
        BY <2>5, <2>10, <3>1
      <3>3. y # m
        BY <2>5, <3>2
      <3>4. y \in InText(H)
        BY <2>6, <3>3
      <3>5. QED BY <1>2, <2>8, <3>1, <3>2, <3>4
    <2>11. D1 \cap InText(H1) = {}
      <3>1. m \notin D
        BY <1>2, <2>4
      <3>2. QED BY <1>2, <2>6, <2>8, <3>1
    <2>12. InText(H1) \cup InText(G1) \cup D1 \subseteq InText(A1)
      BY <1>2, <2>6, <2>8
    <2>13. pc'[w] = "clear" => InText(text'[w]) \subseteq InText(A1)
      BY <1>2, <2>6, <2>8
    <2>14. QED BY <1>1, <2>7, <2>9, <2>10, <2>11, <2>12, <2>13
  <1>9. ASSUME StillReading(w), NEW p \in Processes, PutNewlineLeaves(p), Head(to[p]) = f
        PROVE  OrderOf(w)'
    <2>1. A1 = A /\ (H1 = Append(H, Newline) \/ H1 = H)
      <3>1. f = Head(to[p]) /\ PutNewlineLeaves(p)
        BY <1>9
      <3>2. QED BY <3>1, NewlineHeld
    <2>2. InText(H1) = InText(H)
      BY <1>4, <2>1, InTextFacts
    <2>3. Follows(H1, A1)
      <3>1. Newline \in 0 .. sends
        BY <1>4 DEF Newline
      <3>2. CASE H1 = Append(H, Newline)
        BY <1>2, <1>4, <2>1, <3>1, <3>2, FollowsAppend
      <3>3. QED BY <1>2, <2>1, <3>2
    <2>4. G1 = G /\ D1 = D /\ (pc'[w] = "clear" => pc[w] = "clear" /\ text'[w] = text[w])
      BY <1>9 DEF StillReading
    <2>5. QED BY <1>1, <1>2, <2>1, <2>2, <2>3, <2>4
  <1>10. QED
    BY <1>5, <1>6, <1>7, <1>8, <1>9, InboxStepsOf DEF InboxSteps

LEMMA OrderInit == MailInit => OrderInv
  <1> SUFFICES ASSUME MailInit
               PROVE  OrderInv
    OBVIOUS
  <1>1. AllTypeOK
    BY StagesInit
  <1>2. ASSUME NEW w \in Workers
        PROVE  OrderOf(w)
    <2>1. Inbox(w) \in Mailboxes /\ Inbox(w) \in Files /\ w \in Processes
      BY FileFacts
    <2>2. /\ Held(Inbox(w)) = <<>> /\ got[w] = <<>> /\ done[w] = {} /\ pc[w] = "idle"
      BY <2>1 DEF MailInit, Held
    <2>3. InText(<<>>) = {} /\ Follows(<<>>, appended[Inbox(w)])
      BY DEF InText, Follows
    <2>4. QED BY <2>2, <2>3 DEF OrderOf
  <1>3. QED BY <1>1, <1>2, OrderAll

\* What that says of positions.
LEMMA BefPosition ==
  ASSUME NEW s, NEW n \in Nat, DOMAIN s = 1 .. n, Len(s) = n,
         \A i, j \in DOMAIN s : s[i] = s[j] => i = j, NEW x, NEW y, Bef(s, x, y)
  PROVE  Position(s, x) < Position(s, y)
  <1>1. PICK i, j \in 1 .. n : s[i] = x /\ s[j] = y /\ i < j
    BY DEF Bef
  <1>2. Position(s, x) = i /\ Position(s, y) = j
    BY <1>1 DEF Position
  <1>3. QED BY <1>1, <1>2

LEMMA OrderSays ==
  ASSUME AllTypeOK, IdsInv, OrderInv
  PROVE  ReceivedInOrder
  <1> SUFFICES ASSUME NEW w \in Workers
               PROVE  /\ \A i, j \in 1 .. Len(got[w]) :
                           i < j => Position(appended[Inbox(w)], got[w][i])
                                      < Position(appended[Inbox(w)], got[w][j])
                      /\ done[w] \cap InText(Held(Inbox(w))) = {}
    BY DEF ReceivedInOrder
  <1>1. Inbox(w) \in Mailboxes
    BY FileFacts
  <1> PICK s, g : s = appended[Inbox(w)] /\ g = got[w]
    OBVIOUS
  <1>2. s \in Seq(1 .. sends) /\ g \in Seq(1 .. sends)
    BY <1>1 DEF AllTypeOK, HistoryTypeOK
  <1>3. /\ Len(s) \in Nat /\ DOMAIN s = 1 .. Len(s) /\ DOMAIN g = 1 .. Len(g)
        /\ \A i \in DOMAIN g : g[i] # Newline
    BY <1>2, NoNewlines DEF AllTypeOK
  <1>4. \A i, j \in DOMAIN s : s[i] = s[j] => i = j
    BY <1>1 DEF IdsInv
  <1>5. OrderOf(w)
    BY OrderAll
  <1>6. \A i, j \in DOMAIN g : i < j => Bef(s, g[i], g[j])
    BY <1>3, <1>5 DEF OrderOf, Follows
  <1>7. \A i, j \in 1 .. Len(g) : i < j => Position(s, g[i]) < Position(s, g[j])
    BY <1>3, <1>4, <1>6, BefPosition
  <1>8. QED BY <1>5, <1>7 DEF OrderOf

-----------------------------------------------------------------------------
(* Texts of whole lines.                                                   *)

LEMMA HalfFacts ==
  ASSUME NEW l \in Nat
  PROVE  /\ l \div 2 \in Nat /\ (l + 1) \div 2 \in Nat
         /\ l % 2 = 0 => l = 2 * (l \div 2) /\ (l + 1) \div 2 = l \div 2
         /\ l % 2 # 0 => l = 2 * (l \div 2) + 1 /\ (l + 1) \div 2 = l \div 2 + 1
         /\ l % 2 \in {0, 1}
  OBVIOUS

LEMMA ParityFacts ==
  ASSUME NEW a \in Nat
  PROVE  /\ (2 * a) % 2 = 0 /\ (2 * a) \div 2 = a /\ (2 * a + 1) \div 2 = a
         /\ (2 * a + 1) % 2 = 1 /\ (2 * a + 2) \div 2 = a + 1
  OBVIOUS

Evens(l) == {i \in 1 .. l : i % 2 = 0}
Odds(l)  == {i \in 1 .. l : i % 2 # 0}

LEMMA CountBy ==
  ASSUME NEW n \in Nat, NEW S, NEW F \in [1 .. n -> S],
         \A i, j \in 1 .. n : F[i] = F[j] => i = j,
         \A x \in S : \E i \in 1 .. n : F[i] = x
  PROVE  Cardinality(S) = n
  <1>1. F \in Injection(1 .. n, S)
    BY Fun_IsInj
  <1>2. F \in Surjection(1 .. n, S)
    BY Fun_IsSurj
  <1>3. F \in Bijection(1 .. n, S)
    BY <1>1, <1>2 DEF Bijection
  <1>4. ExistsBijection(1 .. n, S)
    BY <1>3 DEF ExistsBijection
  <1>5. IsFiniteSet(1 .. n) /\ Cardinality(1 .. n) = n
    BY FS_Interval
  <1>6. QED BY <1>4, <1>5, FS_Bijection

LEMMA EvensFacts ==
  ASSUME NEW l \in Nat
  PROVE  Cardinality(Evens(l)) = l \div 2 /\ Cardinality(Odds(l)) = (l + 1) \div 2
  <1> PICK a, b : a = l \div 2 /\ b = (l + 1) \div 2
    OBVIOUS
  <1>1. a \in Nat /\ b \in Nat
    OBVIOUS
  <1>3. Cardinality(Evens(l)) = a
    <2> PICK F : F = [k \in 1 .. a |-> 2 * k]
      OBVIOUS
    <2>1. \A k \in 1 .. a : 2 * k \in Evens(l)
      <3> SUFFICES ASSUME NEW k \in 1 .. a
                   PROVE  2 * k \in Evens(l)
        OBVIOUS
      <3>1. 2 * k \in 1 .. l /\ (2 * k) % 2 = 0
        OBVIOUS
      <3>2. QED BY <3>1 DEF Evens
    <2>2. F \in [1 .. a -> Evens(l)]
      BY <2>1
    <2>3. \A i, j \in 1 .. a : F[i] = F[j] => i = j
      OBVIOUS
    <2>4. ASSUME NEW x \in Evens(l)
          PROVE  \E i \in 1 .. a : F[i] = x
      <3>1. x \in 1 .. l /\ x % 2 = 0
        BY DEF Evens
      <3>2. x \div 2 \in 1 .. a /\ 2 * (x \div 2) = x
        BY <3>1
      <3>3. QED BY <3>2
    <2>5. QED BY ONLY <1>1, <2>2, <2>3, <2>4, CountBy
  <1>4. Cardinality(Odds(l)) = b
    <2> PICK F : F = [k \in 1 .. b |-> 2 * k - 1]
      OBVIOUS
    <2>1. \A k \in 1 .. b : 2 * k - 1 \in Odds(l)
      <3> SUFFICES ASSUME NEW k \in 1 .. b
                   PROVE  2 * k - 1 \in Odds(l)
        OBVIOUS
      <3>1. 2 * k - 1 \in 1 .. l /\ (2 * k - 1) % 2 # 0
        OBVIOUS
      <3>2. QED BY <3>1 DEF Odds
    <2>2. F \in [1 .. b -> Odds(l)]
      BY <2>1
    <2>3. \A i, j \in 1 .. b : F[i] = F[j] => i = j
      OBVIOUS
    <2>4. ASSUME NEW x \in Odds(l)
          PROVE  \E i \in 1 .. b : F[i] = x
      <3>1. x \in 1 .. l /\ x % 2 # 0
        BY DEF Odds
      <3>2. (x + 1) \div 2 \in 1 .. b /\ 2 * ((x + 1) \div 2) - 1 = x
        BY <3>1
      <3>3. QED BY <3>2
    <2>5. QED BY ONLY <1>1, <2>2, <2>3, <2>4, CountBy
  <1>5. QED BY <1>3, <1>4

LEMMA NthEven ==
  ASSUME NEW l \in Nat, NEW d \in 1 .. (l \div 2)
  PROVE  Nth(Evens(l), d) = 2 * d
  <1>1. 2 * d \in Evens(l)
    <2>1. 2 * d \in 1 .. l /\ (2 * d) % 2 = 0
      OBVIOUS
    <2>2. QED BY <2>1 DEF Evens
  <1>2. Evens(l) \cap 1 .. 2 * d = Evens(2 * d)
    <2>1. 2 * d \in Nat /\ 2 * d <= l /\ d \in Nat
      OBVIOUS
    <2>2. 1 .. 2 * d \subseteq 1 .. l
      BY <2>1
    <2>3. QED BY <2>2 DEF Evens
  <1>3. Cardinality(Evens(2 * d)) = d
    <2>1. 2 * d \in Nat /\ (2 * d) \div 2 = d
      OBVIOUS
    <2>2. QED BY <2>1, EvensFacts
  <1>4. Evens(l) \in SUBSET (1 .. l)
    BY DEF Evens
  <1>5. \A i \in Evens(l) : Nth(Evens(l), Cardinality(Evens(l) \cap 1 .. i)) = i
    BY <1>4, NthFacts
  <1>6. QED BY <1>1, <1>2, <1>3, <1>5

LEMMA NthOdd ==
  ASSUME NEW l \in Nat, NEW d \in 1 .. ((l + 1) \div 2)
  PROVE  Nth(Odds(l), d) = 2 * d - 1
  <1>1. 2 * d - 1 \in Odds(l)
    <2>1. 2 * d - 1 \in 1 .. l /\ (2 * d - 1) % 2 # 0
      OBVIOUS
    <2>2. QED BY <2>1 DEF Odds
  <1>2. Odds(l) \cap 1 .. 2 * d - 1 = Odds(2 * d - 1)
    <2>1. 2 * d - 1 \in Nat /\ 2 * d - 1 <= l
      OBVIOUS
    <2>2. 1 .. 2 * d - 1 \subseteq 1 .. l
      BY <2>1
    <2>3. QED BY <2>2 DEF Odds
  <1>3. Cardinality(Odds(2 * d - 1)) = d
    <2>1. 2 * d - 1 \in Nat /\ (2 * d - 1 + 1) \div 2 = d
      OBVIOUS
    <2>2. QED BY <2>1, EvensFacts
  <1>4. Odds(l) \in SUBSET (1 .. l)
    BY DEF Odds
  <1>5. \A i \in Odds(l) : Nth(Odds(l), Cardinality(Odds(l) \cap 1 .. i)) = i
    BY <1>4, NthFacts
  <1>6. QED BY <1>1, <1>2, <1>3, <1>5

LEMMA AlternatesEnds ==
  ASSUME NEW n \in Nat, NEW t \in Seq(0 .. n), Alternates(t)
  PROVE  /\ Ends(t) = Evens(Len(t))
         /\ {i \in 1 .. Len(t) : t[i] # Newline} = Odds(Len(t))
         /\ Unfinished(t) <=> Len(t) % 2 # 0
         /\ Lines(t) = (Len(t) + 1) \div 2
  <1> PICK l : l = Len(t)
    OBVIOUS
  <1>1. l \in Nat /\ DOMAIN t = 1 .. l /\ \A i \in 1 .. l : t[i] = Newline <=> i % 2 = 0
    BY DEF Alternates
  <1>2. Ends(t) = Evens(l) /\ {i \in 1 .. l : t[i] # Newline} = Odds(l)
    BY <1>1 DEF Ends, Evens, Odds
  <1>3. Unfinished(t) <=> l % 2 # 0
    <2>1. CASE l = 0
      <3>1. t = <<>>
        BY <2>1, EmptySeq
      <3>2. QED BY <2>1, <3>1 DEF Unfinished
    <2>2. CASE l # 0
      <3>1. t # <<>> /\ l \in 1 .. l
        BY <1>1, <2>2
      <3>2. QED BY <1>1, <3>1 DEF Unfinished
    <2>3. QED BY <2>1, <2>2
  <1>4. Lines(t) = (l + 1) \div 2
    <2>1. Cardinality(Ends(t)) = l \div 2
      BY <1>1, <1>2, EvensFacts
    <2>2. Lines(t) = l \div 2 + (IF l % 2 # 0 THEN 1 ELSE 0)
      BY <1>3, <2>1 DEF Lines
    <2>3. QED BY ONLY <1>1, <2>2, HalfFacts
  <1>5. QED BY <1>2, <1>3, <1>4

LEMMA EndsLikeLine ==
  ASSUME NEW n \in Nat, NEW t \in Seq(0 .. n), NEW s \in Seq(0 .. n), NEW m \in 1 .. n,
         Alternates(t), EndsLike(t, s), Len(t) % 2 = 0
  PROVE  /\ Alternates(Append(t, m)) /\ EndsLike(Append(t, m), Append(s, m))
         /\ Len(Append(t, m)) % 2 = 1
  <1> PICK u, r, l, k, a : /\ u = Append(t, m) /\ r = Append(s, m) /\ l = Len(t) /\ k = Len(s)
                           /\ a = Len(t) \div 2
    OBVIOUS
  <1>1. /\ l \in Nat /\ k \in Nat /\ DOMAIN t = 1 .. l /\ DOMAIN u = 1 .. l + 1
        /\ Len(u) = l + 1 /\ Len(r) = k + 1
        /\ (\A i \in 1 .. l : u[i] = t[i]) /\ u[l + 1] = m
        /\ (\A i \in 1 .. k : r[i] = s[i]) /\ r[k + 1] = m
    BY AppendProperties
  <1>2. a \in Nat /\ l = 2 * a /\ (l + 1) \div 2 = a /\ (l + 2) \div 2 = a + 1 /\ (l + 1) % 2 = 1
    <2>1. l % 2 = 0 /\ a = l \div 2
      OBVIOUS
    <2>2. QED BY ONLY <1>1, <2>1
  <1>3. /\ a <= k /\ (a = k \/ a >= MaxLines)
        /\ \A i \in 1 .. a : t[2 * i - 1] = s[k - a + i]
    BY <1>2 DEF EndsLike
  <1>4. Alternates(u)
    <2>1. m # Newline
      BY DEF Newline
    <2>2. \A i \in 1 .. l : t[i] = Newline <=> i % 2 = 0
      BY <1>1 DEF Alternates
    <2>3. ASSUME NEW i \in 1 .. l + 1
          PROVE  u[i] = Newline <=> i % 2 = 0
      <3>0. i \in 1 .. l + 1
        OBVIOUS
      <3>1. i \in 1 .. l \/ i = l + 1
        BY ONLY <1>1, <3>0
      <3>2. CASE i = l + 1
        BY <1>1, <1>2, <3>2, <2>1
      <3>3. CASE i \in 1 .. l
        BY <1>1, <2>2, <3>3
      <3>4. QED BY <3>1, <3>2, <3>3
    <2>4. QED BY <1>1, <2>3 DEF Alternates
  <1>5. MaxLines \in Nat
    BY MailAssumption DEF MailAssumption
  <1>6. a + 1 <= k + 1 /\ (a + 1 = k + 1 \/ a + 1 >= MaxLines)
    BY ONLY <1>1, <1>2, <1>3, <1>5
  <1>7. ASSUME NEW i \in 1 .. a + 1
        PROVE  u[2 * i - 1] = r[(k + 1) - (a + 1) + i]
    <2>1. CASE i \in 1 .. a
      <3>1. 2 * i - 1 \in 1 .. l /\ k - a + i \in 1 .. k /\ (k + 1) - (a + 1) + i = k - a + i
        <4>1. l \in Nat /\ k \in Nat /\ a \in Nat /\ l = 2 * a /\ a <= k
          BY <1>1, <1>2, <1>3
        <4>2. QED BY ONLY <4>1, <2>1
      <3>2. QED BY <1>1, <1>3, <2>1, <3>1
    <2>2. CASE i = a + 1
      <3>1. 2 * i - 1 = l + 1 /\ (k + 1) - (a + 1) + i = k + 1
        BY <1>1, <1>2, <2>2
      <3>2. QED BY <1>1, <3>1
    <2>3. i \in 1 .. a \/ i = a + 1
      <3>1. i \in 1 .. a + 1 /\ a \in Nat
        BY <1>2
      <3>2. QED BY ONLY <3>1
    <2>4. QED BY <2>1, <2>2, <2>3
  <1>8. EndsLike(u, r)
    <2>1. (Len(u) + 1) \div 2 = a + 1
      <3>1. l + 1 + 1 = l + 2
        BY <1>1
      <3>2. QED BY <1>1, <1>2, <3>1
    <2>2. QED BY <1>1, <1>6, <1>7, <2>1 DEF EndsLike
  <1>9. QED BY <1>1, <1>2, <1>4, <1>8

LEMMA EndsLikeNewline ==
  ASSUME NEW n \in Nat, NEW t \in Seq(0 .. n), NEW s \in Seq(0 .. n),
         Alternates(t), EndsLike(t, s), Len(t) % 2 = 1
  PROVE  Alternates(Append(t, Newline)) /\ EndsLike(Append(t, Newline), s)
  <1> PICK u, l, k, a : /\ u = Append(t, Newline) /\ l = Len(t) /\ k = Len(s)
                        /\ a = Len(t) \div 2
    OBVIOUS
  <1>0. Newline \in 0 .. n
    BY DEF Newline
  <1>1. /\ l \in Nat /\ k \in Nat /\ DOMAIN t = 1 .. l /\ DOMAIN u = 1 .. l + 1 /\ Len(u) = l + 1
        /\ (\A i \in 1 .. l : u[i] = t[i]) /\ u[l + 1] = Newline
    BY <1>0, AppendProperties
  <1>2. /\ a \in Nat /\ l = 2 * a + 1 /\ (l + 1) \div 2 = a + 1 /\ (l + 1 + 1) \div 2 = a + 1
        /\ (l + 1) % 2 = 0
    <2>1. l % 2 = 1 /\ a = l \div 2
      OBVIOUS
    <2>2. QED BY ONLY <1>1, <2>1
  <1>3. /\ a + 1 <= k /\ (a + 1 = k \/ a + 1 >= MaxLines)
        /\ \A i \in 1 .. a + 1 : t[2 * i - 1] = s[k - (a + 1) + i]
    BY <1>2 DEF EndsLike
  <1>4. Alternates(u)
    <2>1. \A i \in 1 .. l : t[i] = Newline <=> i % 2 = 0
      BY <1>1 DEF Alternates
    <2>2. ASSUME NEW i \in 1 .. l + 1
          PROVE  u[i] = Newline <=> i % 2 = 0
      <3>0. i \in 1 .. l + 1
        OBVIOUS
      <3>1. i \in 1 .. l \/ i = l + 1
        BY ONLY <1>1, <3>0
      <3>2. CASE i = l + 1
        BY <1>1, <1>2, <3>2
      <3>3. CASE i \in 1 .. l
        BY <1>1, <2>1, <3>3
      <3>4. QED BY <3>1, <3>2, <3>3
    <2>3. QED BY <1>1, <2>2 DEF Alternates
  <1>5. \A i \in 1 .. a + 1 : 2 * i - 1 \in 1 .. l
    BY <1>2
  <1>6. \A i \in 1 .. a + 1 : u[2 * i - 1] = s[k - (a + 1) + i]
    BY <1>1, <1>3, <1>5
  <1>7. (Len(u) + 1) \div 2 = a + 1
    BY <1>1, <1>2
  <1>8. EndsLike(u, s)
    BY <1>3, <1>6, <1>7 DEF EndsLike
  <1>9. QED BY <1>4, <1>8

LEMMA EndsLikeNewest ==
  ASSUME NEW n \in Nat, NEW t \in Seq(0 .. n), NEW s \in Seq(0 .. n),
         Alternates(t), EndsLike(t, s), Lines(t) > MaxLines
  PROVE  Alternates(Newest(t)) /\ EndsLike(Newest(t), s) /\ Len(Newest(t)) % 2 = 0
  <1> PICK l, k, a, d, M : /\ l = Len(t) /\ k = Len(s) /\ a = (Len(t) + 1) \div 2
                           /\ d = (Len(t) + 1) \div 2 - MaxLines /\ M = MaxLines
    OBVIOUS
  <1>1. l \in Nat /\ k \in Nat /\ M \in Nat /\ DOMAIN t = 1 .. l
    BY MailAssumption DEF MailAssumption
  <1>2. /\ Lines(t) = a /\ Ends(t) = Evens(l) /\ (Unfinished(t) <=> l % 2 # 0)
        /\ \A i \in 1 .. l : t[i] = Newline <=> i % 2 = 0
    <2>1. /\ Ends(t) = Evens(Len(t)) /\ (Unfinished(t) <=> Len(t) % 2 # 0)
          /\ Lines(t) = (Len(t) + 1) \div 2
      BY AlternatesEnds
    <2>2. \A i \in 1 .. l : t[i] = Newline <=> i % 2 = 0
      BY <1>1 DEF Alternates
    <2>3. QED BY <2>1, <2>2
  <1>3. /\ a \in Nat /\ a > M /\ a <= k /\ d = a - M
        /\ \A i \in 1 .. a : t[2 * i - 1] = s[k - a + i]
    BY <1>1, <1>2 DEF EndsLike
  <1>4. CASE M = 0
    <2>1. Newest(t) = <<>>
      BY <1>4 DEF Newest
    <2>2. Len(<<>>) = 0 /\ (0 + 1) \div 2 = 0 /\ 0 % 2 = 0
      OBVIOUS
    <2>3. EndsLike(<<>>, s)
      BY <1>1, <1>4, <2>2 DEF EndsLike
    <2>4. QED BY <2>1, <2>2, <2>3 DEF Alternates
  <1>5. CASE M # 0
    <2>1. d \in 1 .. (l \div 2) /\ 2 * d <= l
      <3>1. a = (l + 1) \div 2
        OBVIOUS
      <3>2. QED BY ONLY <1>1, <1>3, <1>5, <3>1
    <2> PICK kept : kept = SubSeq(t, 2 * d + 1, Len(t))
      OBVIOUS
    <2>2. Nth(Ends(t), Lines(t) - MaxLines) = 2 * d
      <3>1. Lines(t) - MaxLines = d
        BY <1>2, <1>3
      <3>2. Nth(Evens(l), d) = 2 * d
        BY <1>1, <2>1, NthEven
      <3>3. QED BY <1>2, <3>1, <3>2
    <2>3. /\ kept \in Seq(0 .. n) /\ Len(kept) = l - 2 * d
          /\ \A i \in 1 .. l - 2 * d : kept[i] = t[2 * d + i]
      <3>1. MaxLines # 0
        BY <1>5
      <3>2. LET cut == Nth(Ends(t), Lines(t) - MaxLines)
                c == SubSeq(t, cut + 1, Len(t))
            IN  /\ c \in Seq(0 .. n) /\ Len(c) = Len(t) - cut
                /\ \A i \in 1 .. Len(t) - cut : c[i] = t[cut + i]
        BY <3>1, CutFacts
      <3>3. QED BY <2>2, <3>2
    <2>4. Newest(t) = IF l % 2 # 0 THEN Append(kept, Newline) ELSE kept
      BY <1>2, <1>5, <2>2 DEF Newest
    <2> PICK u : u = Newest(t)
      OBVIOUS
    <2>5. /\ u \in Seq(0 .. n) /\ Len(u) = 2 * M /\ l - 2 * d \in Nat
          /\ \A i \in 1 .. l - 2 * d : u[i] = t[2 * d + i]
          /\ l % 2 # 0 => u[2 * M] = Newline /\ 2 * M = l - 2 * d + 1
          /\ l % 2 = 0 => 2 * M = l - 2 * d
      <3>1. a = (l + 1) \div 2
        OBVIOUS
      <3>2. CASE l % 2 # 0
        <4>1. 2 * M = l - 2 * d + 1 /\ l - 2 * d \in Nat
          BY ONLY <1>1, <1>3, <2>1, <3>1, <3>2
        <4>2. u = Append(kept, Newline) /\ Newline \in 0 .. n
          <5>1. Newline \in 0 .. n
            BY DEF Newline
          <5>2. QED BY <2>4, <3>2, <5>1
        <4>3. /\ u \in Seq(0 .. n) /\ Len(u) = Len(kept) + 1
              /\ (\A i \in 1 .. Len(kept) : u[i] = kept[i]) /\ u[Len(kept) + 1] = Newline
          BY ONLY <2>3, <4>2, AppendProperties
        <4>4. QED BY <2>3, <3>2, <4>1, <4>3
      <3>3. CASE l % 2 = 0
        <4>1. 2 * M = l - 2 * d /\ l - 2 * d \in Nat
          BY ONLY <1>1, <1>3, <2>1, <3>1, <3>3
        <4>2. u = kept
          BY <2>4, <3>3
        <4>3. QED BY <2>3, <3>3, <4>1, <4>2
      <3>4. QED BY <3>2, <3>3
    <2>6. Alternates(u)
      <3>1. ASSUME NEW i \in 1 .. 2 * M
            PROVE  u[i] = Newline <=> i % 2 = 0
        <4>1. CASE i \in 1 .. l - 2 * d
          <5>1. 2 * d + i \in 1 .. l /\ ((2 * d + i) % 2 = 0 <=> i % 2 = 0)
            BY ONLY <1>1, <2>1, <4>1
          <5>2. QED BY <1>2, <2>5, <4>1, <5>1
        <4>2. CASE i \notin 1 .. l - 2 * d
          <5>1. i = 2 * M /\ l % 2 # 0
            <6>1. /\ i \in 1 .. 2 * M /\ l - 2 * d \in Nat
                  /\ (l % 2 # 0 => 2 * M = l - 2 * d + 1) /\ (l % 2 = 0 => 2 * M = l - 2 * d)
              BY <2>5
            <6>2. QED BY ONLY <1>1, <4>2, <6>1
          <5>2. (2 * M) % 2 = 0
            BY ONLY <1>1
          <5>3. QED BY <2>5, <5>1, <5>2
        <4>3. QED BY <4>1, <4>2
      <3>2. DOMAIN u = 1 .. 2 * M
        BY <2>5
      <3>3. QED BY <3>1, <3>2 DEF Alternates
    <2>7. (Len(u) + 1) \div 2 = M /\ Len(u) % 2 = 0
      <3>1. (2 * M + 1) \div 2 = M /\ (2 * M) % 2 = 0
        BY ONLY <1>1
      <3>2. QED BY <2>5, <3>1
    <2>8. ASSUME NEW i \in 1 .. M
          PROVE  u[2 * i - 1] = s[k - M + i]
      <3>1. a = (l + 1) \div 2
        OBVIOUS
      <3>2. i \in 1 .. M
        OBVIOUS
      <3>3. 2 * i - 1 \in 1 .. l - 2 * d
        BY ONLY <1>1, <1>3, <2>1, <3>1, <3>2
      <3>4. d + i \in 1 .. a /\ 2 * d + (2 * i - 1) = 2 * (d + i) - 1 /\ k - a + (d + i) = k - M + i
        BY ONLY <1>1, <1>3, <2>1, <3>1, <3>2
      <3>5. u[2 * i - 1] = t[2 * (d + i) - 1]
        BY <2>5, <3>3, <3>4
      <3>6. QED BY <1>3, <3>4, <3>5
    <2>9. EndsLike(u, s)
      <3>1. M <= k /\ M >= MaxLines
        BY <1>1, <1>3
      <3>2. QED BY <2>7, <2>8, <3>1 DEF EndsLike
    <2>10. QED BY <2>6, <2>7, <2>9
  <1>6. QED BY <1>4, <1>5

NewestOf(f) ==
  late[f] = {} =>
    /\ Alternates(Held(f)) /\ EndsLike(Held(f), appended[f])
    /\ \A p \in Processes :
         /\ InLine(p, f) /\ fd[p] = At("file", f) => Len(Held(f)) % 2 = 1
         /\ Replacing(p, f) => /\ Alternates(text[p]) /\ EndsLike(text[p], appended[f])
                               /\ Len(text[p]) % 2 = 0

LEMMA NewestAll == NewestInv <=> \A f \in Outboxes \ spoiled : NewestOf(f)
  BY DEF NewestInv, NewestOf

LEMMA NewestTo ==
  ASSUME NEW f, NEW H, H = Held(f)', NEW A, A = appended'[f],
         late'[f] = {} =>
           /\ Alternates(H) /\ EndsLike(H, A)
           /\ \A p \in Processes :
                /\ InLine(p, f)' /\ fd'[p] = At("file", f) => Len(H) % 2 = 1
                /\ Replacing(p, f)' => /\ Alternates(text'[p]) /\ EndsLike(text'[p], A)
                                       /\ Len(text'[p]) % 2 = 0
  PROVE  NewestOf(f)'
  BY DEF NewestOf, Alternates, EndsLike

\* A step of p that leaves the mailbox and what others do there.
LEMMA NewestSame ==
  ASSUME NEW f, NewestOf(f),
         NEW p \in Processes, NEW o, NEW place, NEW t, NEW x, Now(p, o, place, t, x),
         Held(f)' = Held(f), appended'[f] = appended[f], late'[f] = late[f], StillAt(p, f),
         place = "newline" => Head(t) # f,
         place \in {"tmp", "copy", "rename"} /\ o.file = f =>
           \/ Replacing(p, f) /\ x = text[p]
           \/ late[f] = {} =>
                Alternates(x) /\ EndsLike(x, appended[f]) /\ Len(x) % 2 = 0
  PROVE  NewestOf(f)'
  <1>1. /\ ~ InLine(p, f)' /\ text'[p] = x
        /\ \A q \in Processes \ {p} : /\ InLine(q, f)' <=> InLine(q, f)
                                      /\ Replacing(q, f)' <=> Replacing(q, f)
                                      /\ text'[q] = text[q]
        /\ Replacing(p, f)' => place \in {"tmp", "copy", "rename"} /\ o.file = f
    <2>1. /\ InLine(p, f)' <=> place = "newline" /\ Head(t) = f
          /\ Replacing(p, f)' <=> place \in {"tmp", "copy", "rename"} /\ o.file = f
          /\ \A q \in Processes \ {p} : /\ InLine(q, f)' <=> InLine(q, f)
                                        /\ Replacing(q, f)' <=> Replacing(q, f)
                                        /\ text'[q] = text[q] /\ pc'[q] = pc[q]
          /\ text'[p] = x /\ pc'[p] = place
      BY DEF Now, InLine, Replacing
    <2>2. QED BY <2>1
  <1> PICK H, A : H = Held(f) /\ A = appended[f]
    OBVIOUS
  <1>2. H = Held(f)' /\ A = appended'[f]
    OBVIOUS
  <1>3. ASSUME late[f] = {}
        PROVE  /\ Alternates(H) /\ EndsLike(H, A)
               /\ \A q \in Processes :
                    /\ InLine(q, f)' /\ fd'[q] = At("file", f) => Len(H) % 2 = 1
                    /\ Replacing(q, f)' => /\ Alternates(text'[q]) /\ EndsLike(text'[q], A)
                                           /\ Len(text'[q]) % 2 = 0
    <2>1. /\ Alternates(H) /\ EndsLike(H, A)
          /\ \A q \in Processes :
               /\ InLine(q, f) /\ fd[q] = At("file", f) => Len(H) % 2 = 1
               /\ Replacing(q, f) => /\ Alternates(text[q]) /\ EndsLike(text[q], A)
                                     /\ Len(text[q]) % 2 = 0
      BY <1>3 DEF NewestOf
    <2>2. ASSUME NEW q \in Processes \ {p}
          PROVE  /\ InLine(q, f)' /\ fd'[q] = At("file", f) => Len(H) % 2 = 1
                 /\ Replacing(q, f)' => /\ Alternates(text'[q]) /\ EndsLike(text'[q], A)
                                        /\ Len(text'[q]) % 2 = 0
      BY <1>1, <2>1 DEF StillAt
    <2>3. Replacing(p, f)' => /\ Alternates(x) /\ EndsLike(x, A) /\ Len(x) % 2 = 0
      BY <1>1, <1>3, <2>1
    <2>4. QED BY <1>1, <2>1, <2>2, <2>3
  <1>4. QED BY <1>2, <1>3, NewestTo

LEMMA NewestPutLine ==
  ASSUME AllTypeOK, Stages, NEW p \in Processes, PutLineLeaves(p), NEW f, f = Head(to[p]),
         LinesOf(f), NewestOf(f), f \notin spoiled'
  PROVE  NewestOf(f)'
  <1> PICK m, H, A : m = op[p].id /\ H = Held(f) /\ A = appended[f]
    OBVIOUS
  <1>1. LineHeld(p, f, m)
    BY LineHeldFacts
  <1>2. /\ pc[p] = "line" /\ Now(p, op[p], "newline", to[p], text[p]) /\ fd' = fd
        /\ \A q \in Processes \ {p} : ~ InLine(q, f)
    BY DEF PutLineLeaves
  <1>3. /\ \A q \in Processes \ {p} : ~ InLine(q, f)'
        /\ \A q \in Processes : Replacing(q, f)' => Replacing(q, f)
    <2>1. /\ InLine(p, f)' <=> "newline" = "newline" /\ Head(to[p]) = f
          /\ Replacing(p, f)' <=> "newline" \in {"tmp", "copy", "rename"} /\ op[p].file = f
          /\ \A q \in Processes \ {p} : /\ InLine(q, f)' <=> InLine(q, f)
                                        /\ Replacing(q, f)' <=> Replacing(q, f)
                                        /\ text'[q] = text[q] /\ pc'[q] = pc[q]
          /\ text'[p] = text[p] /\ pc'[p] = "newline"
      BY <1>2 DEF Now, InLine, Replacing
    <2>2. QED BY <1>2, <2>1
  <1>4. CASE late'[f] = {}
    <2>1. /\ late[f] = {} /\ After(f) = {} /\ Held(f)' = Append(H, m) /\ m \in 1 .. sends
          /\ f \in Mailboxes /\ appended'[f] = Append(A, m)
      BY <1>1, <1>4 DEF LineHeld
    <2>2. \A q \in Processes : ~ Replacing(q, f)'
      BY <1>3, <2>1 DEF After, Replacing
    <2>3. ~ Unfinished(H)
      <3>1. ~ InLine(p, f)
        BY <1>2 DEF InLine
      <3>2. QED BY <1>2, <3>1 DEF LinesOf
    <2>4. H \in Seq(0 .. sends) /\ A \in Seq(0 .. sends) /\ sends \in Nat
      <3>1. f \in Files
        BY <2>1, FileFacts
      <3>2. H \in Seq(0 .. sends) /\ sends \in Nat
        BY <3>1, HeldFacts DEF AllTypeOK
      <3>3. A \in Seq(1 .. sends)
        BY <2>1 DEF AllTypeOK, HistoryTypeOK
      <3>4. 1 .. sends \subseteq 0 .. sends
        BY <3>2
      <3>5. QED BY ONLY <3>2, <3>3, <3>4, SeqWidens
    <2>5. Alternates(H) /\ EndsLike(H, A)
      BY <2>1 DEF NewestOf
    <2>6. Len(H) % 2 = 0
      <3>1. Unfinished(H) <=> Len(H) % 2 # 0
        BY <2>4, <2>5, AlternatesEnds
      <3>2. QED BY <2>3, <3>1
    <2>7. /\ Alternates(Append(H, m)) /\ EndsLike(Append(H, m), Append(A, m))
          /\ Len(Append(H, m)) % 2 = 1
      BY <2>1, <2>4, <2>5, <2>6, EndsLikeLine
    <2> PICK H1, A1 : H1 = Append(H, m) /\ A1 = Append(A, m)
      OBVIOUS
    <2>8. QED BY <2>1, <2>2, <2>7, NewestTo
  <1>5. CASE late'[f] # {}
    BY <1>5 DEF NewestOf
  <1>6. QED BY <1>4, <1>5

LEMMA NewestPutNewline ==
  ASSUME AllTypeOK, Stages, NEW p \in Processes, PutNewlineLeaves(p), NEW f, f = Head(to[p]),
         LinesOf(f), NewestOf(f)
  PROVE  NewestOf(f)'
  <1> PICK H, A : H = Held(f) /\ A = appended[f]
    OBVIOUS
  <1>1. /\ f \in Mailboxes /\ appended'[f] = appended[f] /\ late'[f] = late[f]
        /\ \/ fd[p] = At("file", f) /\ Held(f)' = Append(H, Newline)
           \/ fd[p] = Closed /\ Held(f)' = H
    BY NewlineHeld
  <1>2. /\ pc[p] = "newline" /\ Has(p, Closed)
        /\ \E o, place, t, x : Now(p, o, place, t, x) /\ place \in {"open", "idle"}
    BY DEF PutNewlineLeaves
  <1>3. InLine(p, f) /\ StillAt(p, f)
    BY <1>2 DEF InLine, StillAt, Has
  <1>4. CASE Held(f)' = H
    BY <1>1, <1>2, <1>3, <1>4, NewestSame
  <1>5. CASE fd[p] = At("file", f) /\ Held(f)' = Append(H, Newline)
    <2>1. /\ ~ InLine(p, f)' /\ ~ Replacing(p, f)'
          /\ \A q \in Processes \ {p} : /\ InLine(q, f)' <=> InLine(q, f)
                                        /\ Replacing(q, f)' <=> Replacing(q, f)
                                        /\ text'[q] = text[q]
      BY <1>2, PlacesAfter
    <2>2. \A q \in Processes : ~ InLine(q, f)'
      BY <1>3, <2>1 DEF LinesOf
    <2>3. CASE late[f] = {}
      <3>1. /\ Alternates(H) /\ EndsLike(H, A) /\ Len(H) % 2 = 1
            /\ \A q \in Processes :
                 Replacing(q, f) => /\ Alternates(text[q]) /\ EndsLike(text[q], A)
                                    /\ Len(text[q]) % 2 = 0
        BY <1>3, <1>5, <2>3 DEF NewestOf
      <3>2. H \in Seq(0 .. sends) /\ A \in Seq(0 .. sends) /\ sends \in Nat
        <4>1. f \in Files
          BY <1>1, FileFacts
        <4>2. H \in Seq(0 .. sends) /\ sends \in Nat
          BY <4>1, HeldFacts DEF AllTypeOK
        <4>3. A \in Seq(1 .. sends)
          BY <1>1 DEF AllTypeOK, HistoryTypeOK
        <4>4. 1 .. sends \subseteq 0 .. sends
          BY <4>2
        <4>5. QED BY ONLY <4>2, <4>3, <4>4, SeqWidens
      <3> PICK H1 : H1 = Append(H, Newline)
        OBVIOUS
      <3>3. Alternates(H1) /\ EndsLike(H1, A)
        BY <3>1, <3>2, EndsLikeNewline
      <3>4. \A q \in Processes :
              Replacing(q, f)' => /\ Alternates(text'[q]) /\ EndsLike(text'[q], A)
                                  /\ Len(text'[q]) % 2 = 0
        BY <2>1, <3>1
      <3>5. H1 = Held(f)' /\ A = appended'[f]
        BY <1>1, <1>5
      <3>6. QED BY ONLY <2>2, <3>3, <3>4, <3>5, NewestTo
    <2>4. CASE late[f] # {}
      BY <1>1, <2>4 DEF NewestOf
    <2>5. QED BY <2>3, <2>4
  <1>6. QED BY <1>1, <1>4, <1>5

LEMMA NewestReadOutbox ==
  ASSUME AllTypeOK, NEW p \in Processes, NEW f, ReadOutboxLeaves(p, f), NewestOf(f)
  PROVE  NewestOf(f)'
  <1> PICK o, H, A : /\ o = [do |-> "rotate", id |-> 0, file |-> f]
                     /\ H = Held(f) /\ A = appended[f]
    OBVIOUS
  <1>1. /\ UNCHANGED <<files, tmp, fd>> /\ appended' = appended /\ late' = late
        /\ files[f] \in Texts /\ Lines(files[f]) > MaxLines /\ f \in Outboxes
        /\ Now(p, o, "tmp", to[p], Newest(files[f]))
    BY DEF ReadOutboxLeaves
  <1>2. H = files[f] /\ Held(f)' = Held(f) /\ StillAt(p, f) /\ f \in Mailboxes
    BY <1>1, TextFacts, FileFacts DEF Held, Texts, AllTypeOK, StillAt
  <1>3. ASSUME late[f] = {}
        PROVE  /\ Alternates(Newest(files[f])) /\ EndsLike(Newest(files[f]), A)
               /\ Len(Newest(files[f])) % 2 = 0
    <2>1. H \in Seq(0 .. sends) /\ sends \in Nat
      BY <1>1, <1>2 DEF Texts, AllTypeOK
    <2>2. A \in Seq(0 .. sends)
      <3>1. A \in Seq(1 .. sends)
        BY <1>2 DEF AllTypeOK, HistoryTypeOK
      <3>2. 1 .. sends \subseteq 0 .. sends
        BY <2>1
      <3>3. QED BY ONLY <3>1, <3>2, SeqWidens
    <2>3. Alternates(H) /\ EndsLike(H, A) /\ Lines(H) > MaxLines
      BY <1>1, <1>2, <1>3 DEF NewestOf
    <2>4. QED BY <1>2, <2>1, <2>2, <2>3, EndsLikeNewest
  <1>4. /\ appended'[f] = appended[f] /\ late'[f] = late[f] /\ "tmp" # "newline"
    BY <1>1
  <1> PICK place, x : place = "tmp" /\ x = Newest(files[f])
    OBVIOUS
  <1>5. Now(p, o, place, to[p], x)
    BY <1>1
  <1>6. QED BY <1>2, <1>3, <1>4, <1>5, NewestSame

\* The copy is opened, or written.
LEMMA NewestCopy ==
  ASSUME NEW p \in Processes, NEW f, NewestOf(f), Replacing(p, f),
         NEW place \in {"copy", "rename"}, Now(p, op[p], place, to[p], text[p]),
         files'[f] = files[f], \A q \in Processes \ {p} : fd'[q] = fd[q],
         appended'[f] = appended[f], late'[f] = late[f]
  PROVE  NewestOf(f)'
  <1>1. Held(f)' = Held(f)
    BY DEF Held
  <1>2. StillAt(p, f) /\ place # "newline"
    BY DEF StillAt
  <1>3. QED BY <1>1, <1>2, NewestSame

LEMMA NewestRenameCopy ==
  ASSUME AllTypeOK, Stages, NEW p \in Processes, RenameCopyLeaves(p), NEW f, f = op[p].file,
         LinesOf(f), NewestOf(f)
  PROVE  NewestOf(f)'
  <1>1. /\ f \in Outboxes /\ f \in Files /\ Now(p, None, "idle", <<>>, <<>>) /\ Renamed(f)
        /\ appended' = appended /\ late' = late
    BY FileFacts DEF RenameCopyLeaves, Histories
  <1>2. Replacing(p, f) /\ Held(f)' = text[p]
    BY LinesRenameCopy
  <1>3. /\ ~ InLine(p, f)' /\ ~ Replacing(p, f)'
        /\ \A q \in Processes \ {p} : /\ InLine(q, f)' <=> InLine(q, f)
                                      /\ Replacing(q, f)' <=> Replacing(q, f)
    <2>1. /\ InLine(p, f)' <=> "idle" = "newline" /\ Head(<<>>) = f
          /\ Replacing(p, f)' <=> "idle" \in {"tmp", "copy", "rename"} /\ None.file = f
          /\ \A q \in Processes \ {p} : /\ InLine(q, f)' <=> InLine(q, f)
                                        /\ Replacing(q, f)' <=> Replacing(q, f)
                                        /\ text'[q] = text[q] /\ pc'[q] = pc[q]
          /\ text'[p] = <<>> /\ pc'[p] = "idle"
      BY <1>1 DEF Now, InLine, Replacing
    <2>2. QED BY <2>1
  <1>4. \A q \in Processes : ~ Replacing(q, f)'
    BY <1>2, <1>3 DEF LinesOf
  <1>5. tmp[f] # NoFile
    <2>1. pc[p] = "rename" /\ tmp[f] = text[p]
      BY <1>2 DEF LinesOf, RenameCopyLeaves
    <2>2. text[p] \in Seq(0 .. sends) /\ sends \in Nat
      BY DEF AllTypeOK, ProcessTypeOK, Texts
    <2>3. QED BY <2>1, <2>2, TextFacts
  <1>6. ASSUME NEW q \in Processes, InLine(q, f)'
        PROVE  fd'[q] # At("file", f)
    <2>1. InLine(q, f)
      BY <1>3, <1>6
    <2>2. pc[q] = "newline" /\ Head(to[q]) = f
      BY <2>1 DEF InLine
    <2>3. fd[q] \in {Closed, At("file", f)}
      BY <2>2, AppenderFacts
    <2>4. Carried(f)
      BY <1>1, <1>5 DEF Renamed
    <2>5. QED BY <2>3, <2>4, HandlesDiffer DEF Carried
  <1> PICK H, A : H = text[p] /\ A = appended[f]
    OBVIOUS
  <1>7. late[f] = {} => Alternates(H) /\ EndsLike(H, A)
    BY <1>2 DEF NewestOf
  <1>8. H = Held(f)' /\ A = appended'[f] /\ late'[f] = late[f]
    BY <1>1, <1>2
  <1>9. QED BY ONLY <1>4, <1>6, <1>7, <1>8, NewestTo

LEMMA NewestUnchanged ==
  ASSUME NEW f, NewestOf(f), UNCHANGED mailVars
  PROVE  NewestOf(f)'
  <1>1. UNCHANGED <<files, tmp, fd, op, pc, to, text, appended, late>>
    BY DEF mailVars
  <1>2. Held(f)' = Held(f) /\ \A p : /\ InLine(p, f)' <=> InLine(p, f)
                                     /\ Replacing(p, f)' <=> Replacing(p, f)
    BY <1>1 DEF Held, InLine, Replacing
  <1>3. QED BY <1>1, <1>2 DEF NewestOf, Alternates, EndsLike

LEMMA NewestNext ==
  ASSUME AllTypeOK, Stages, LinesInv, NewestInv, AllTypeOK', Leaves
  PROVE  NewestInv'
  <1> SUFFICES ASSUME NEW f \in Outboxes, f \notin spoiled'
               PROVE  NewestOf(f)'
    BY DEF NewestInv, NewestOf
  <1>1. NewestOf(f) /\ LinesOf(f) /\ f \in Mailboxes /\ f \in Files
    BY SpoiledGrows, LinesAll, NewestAll, FileFacts
  <1>2. CASE UNCHANGED mailVars
    BY <1>1, <1>2, NewestUnchanged
  <1>3. ASSUME MailElsewhere(f)
        PROVE  NewestOf(f)'
    BY <1>1, <1>3, NewestSame DEF MailElsewhere, SameAt
  <1>4. ~ \E w \in Workers : f = Inbox(w)
    BY FileFacts
  <1>5. ASSUME NEW p \in Processes, OpenCopyLeaves(p), pc[p] = "tmp", f = op[p].file,
               Now(p, op[p], "copy", to[p], text[p])
        PROVE  NewestOf(f)'
    <2>1. /\ Has(p, At("tmp", f)) /\ files' = files
          /\ appended'[f] = appended[f] /\ late'[f] = late[f]
      BY <1>5 DEF OpenCopyLeaves, Histories
    <2>2. Replacing(p, f)
      BY <1>5 DEF Replacing
    <2>3. QED BY <1>1, <1>5, <2>1, <2>2, NewestCopy DEF Has
  <1>6. ASSUME NEW p \in Processes, WriteCopyLeaves(p), f = op[p].file
        PROVE  NewestOf(f)'
    <2>1. /\ pc[p] = "copy" /\ Now(p, op[p], "rename", to[p], text[p]) /\ Has(p, Closed)
          /\ files'[f] = IF fd[p] = At("file", f) THEN Over(Behind(p, f), text[p]) ELSE files[f]
          /\ appended'[f] = appended[f] /\ late'[f] = late[f]
      BY <1>6 DEF WriteCopyLeaves, Only, Histories
    <2>2. Replacing(p, f)
      BY <1>6, <2>1 DEF Replacing
    <2>3. fd[p] = At("tmp", f)
      BY <1>1, <2>1, <2>2 DEF LinesOf
    <2>4. files'[f] = files[f]
      BY <2>1, <2>3, HandlesDiffer
    <2>5. QED BY <1>1, <2>1, <2>2, <2>4, NewestCopy DEF Has
  <1>7. ASSUME NEW p \in Processes, ReadOutboxLeaves(p, f)
        PROVE  NewestOf(f)'
    BY <1>1, <1>7, NewestReadOutbox
  <1>8. QED
    BY <1>1, <1>2, <1>3, <1>4, <1>5, <1>6, <1>7, MailMovesOf, NewestPutLine, NewestPutNewline,
       NewestRenameCopy DEF MailMoves

LEMMA NewestInit == MailInit => NewestInv
  <1> SUFFICES ASSUME MailInit, NEW f \in Outboxes
               PROVE  NewestOf(f)
    BY DEF NewestInv, NewestOf
  <1>1. Held(f) = <<>> /\ appended[f] = <<>>
    BY FileFacts DEF MailInit, Held
  <1>2. \A p \in Processes : ~ InLine(p, f) /\ ~ Replacing(p, f)
    BY DEF MailInit, InLine, Replacing
  <1>3. Alternates(<<>>) /\ EndsLike(<<>>, <<>>)
    <2>1. Len(<<>>) = 0 /\ (0 + 1) \div 2 = 0
      OBVIOUS
    <2>2. QED BY <2>1 DEF Alternates, EndsLike
  <1>4. QED BY <1>1, <1>2, <1>3 DEF NewestOf

LEMMA NewestSays ==
  ASSUME AllTypeOK, NewestInv
  PROVE  KeepsNewest
  <1> SUFFICES ASSUME NEW f \in Outboxes \ spoiled, late[f] = {}
               PROVE  LET kept == Messages(Held(f))
                          all == appended[f]
                      IN  /\ Len(kept) >= Len(all) \/ Len(kept) >= MaxLines
                          /\ kept = SubSeq(all, Len(all) - Len(kept) + 1, Len(all))
    BY DEF KeepsNewest
  <1> PICK H, s, l, n, k : /\ H = Held(f) /\ s = appended[f] /\ l = Len(H)
                           /\ n = (Len(H) + 1) \div 2 /\ k = Messages(H)
    OBVIOUS
  <1>1. sends \in Nat /\ H \in Seq(0 .. sends) /\ s \in Seq(1 .. sends)
    BY HeldFacts, FileFacts DEF AllTypeOK, HistoryTypeOK
  <1>2. /\ l \in Nat /\ Len(s) \in Nat /\ n \in Nat /\ DOMAIN H = 1 .. l /\ DOMAIN s = 1 .. Len(s)
        /\ MaxLines \in Nat
    BY <1>1, MailAssumption DEF MailAssumption
  <1>3. Alternates(H) /\ EndsLike(H, s)
    BY DEF NewestInv
  <1>4. {i \in 1 .. l : H[i] # Newline} = Odds(l)
    BY <1>1, <1>3, AlternatesEnds
  <1>5. /\ n <= Len(s) /\ (n = Len(s) \/ n >= MaxLines)
        /\ \A i \in 1 .. n : H[2 * i - 1] = s[Len(s) - n + i]
    BY <1>3 DEF EndsLike
  <1>6. k = Kept(H, Odds(l)) /\ Odds(l) \in SUBSET DOMAIN H
    BY <1>2, <1>4 DEF Messages, Odds
  <1>7. Cardinality(Odds(l)) = n
    BY <1>2, EvensFacts
  <1>8. /\ k = [i \in 1 .. n |-> H[Nth(Odds(l), i)]] /\ Len(k) = n
    <2>1. k = [i \in 1 .. n |-> H[Nth(Odds(l), i)]]
      BY <1>6, <1>7 DEF Kept
    <2>2. Len(k) = n
      BY <1>1, <1>6, <1>7, KeptFacts
    <2>3. QED BY <2>1, <2>2
  <1>9. ASSUME NEW i \in 1 .. n
        PROVE  H[Nth(Odds(l), i)] = s[Len(s) - n + i]
    <2>1. i \in 1 .. ((l + 1) \div 2)
      OBVIOUS
    <2>2. Nth(Odds(l), i) = 2 * i - 1
      BY ONLY <1>2, <2>1, NthOdd
    <2>3. QED BY <1>5, <2>2
  <1>10. k = [i \in 1 .. n |-> s[Len(s) - n + i]]
    BY <1>8, <1>9
  <1>11. SubSeq(s, Len(s) - n + 1, Len(s)) = [i \in 1 .. n |-> s[Len(s) - n + i]]
    <2> PICK a, z, u : a = Len(s) - n + 1 /\ z = Len(s) /\ u = SubSeq(s, a, z)
      OBVIOUS
    <2>1. a = z - n + 1 /\ z \in Nat /\ n \in Nat /\ n <= z
      BY <1>2, <1>5
    <2>2. a \in 1 .. z + 1 /\ z \in 0 .. z /\ z - a + 1 = n /\ (~ a <= z => n = 0)
      BY ONLY <2>1
    <2>3. \A i \in 1 .. n : a + i - 1 = z - n + i
      BY ONLY <2>1
    <2>4. a \in 1 .. Len(s) + 1 /\ z \in 0 .. Len(s) /\ s \in Seq(1 .. sends)
      BY <1>1, <2>2
    <2>5. /\ u \in Seq(1 .. sends) /\ Len(u) = IF a <= z THEN z - a + 1 ELSE 0
          /\ \A i \in 1 .. z - a + 1 : u[i] = s[a + i - 1]
      <3>1. u = SubSeq(s, a, z)
        OBVIOUS
      <3>2. a \in Int /\ z \in Int /\ \A i \in a .. z : s[i] \in 1 .. sends
        <4>1. ASSUME NEW i \in a .. z
              PROVE  s[i] \in 1 .. sends
          <5>1. i \in 1 .. Len(s)
            BY ONLY <2>1, <2>2, <2>4, <4>1
          <5>2. QED BY ONLY <2>4, <5>1, ElementOfSeq
        <4>2. QED BY <2>1, <4>1
      <3>3. QED BY ONLY <3>1, <3>2, SubSeqProperties
    <2>6. /\ u \in Seq(1 .. sends) /\ Len(u) = n
          /\ \A i \in 1 .. n : u[i] = s[z - n + i]
      BY ONLY <2>2, <2>3, <2>5
    <2>7. u = [i \in 1 .. n |-> u[i]]
      BY ONLY <2>6
    <2>8. QED BY <2>6, <2>7
  <1>12. Len(k) >= Len(s) \/ Len(k) >= MaxLines
    BY <1>2, <1>5, <1>8
  <1>13. k = SubSeq(s, Len(s) - Len(k) + 1, Len(s))
    BY <1>8, <1>10, <1>11
  <1>14. QED BY <1>12, <1>13

-----------------------------------------------------------------------------
(* Signals.                                                                *)

InCopy(s) == IF tmp[s] = NoFile THEN {} ELSE InText(tmp[s])
Reading(w) == IF pc[w] = "sremove" THEN InText(text[w]) ELSE {}
Signalling(p, s) == pc[p] \in {"stmp", "swrite"} /\ op[p].file = s

\* H and X are in the file and its copy, R is being returned, t was; N was
\* published last, M missed.
SignalApart(H, X, R, t, N, M) ==
  /\ H \cap X = {} /\ InText(t) \cap (H \cup X \cup R) = {} /\ R \cap X = {}
  /\ \A i, j \in DOMAIN t : t[i] = t[j] => i = j
  /\ N \subseteq H \cup InText(t) \cup M

SignalOf(w, s) ==
  LET held == InText(Held(s))
  IN  /\ SignalApart(held, InCopy(s), Reading(w), taken[w], InText(newest[w]), missed[w])
      /\ \A p \in Processes : Signalling(p, s) =>
           op[p].id \notin held \cup InCopy(s) \cup Reading(w) \cup InText(taken[w])
      /\ pc[w] = "sremove" => held \subseteq Reading(w) \cup missed[w]

LEMMA SignalAll == SignalInv <=> \A w \in Workers : SignalOf(w, Signal(w))
  BY DEF SignalInv, SignalOf, SignalApart, InCopy, Reading, Signalling

LEMMA SignalAllNext ==
  ASSUME \A w \in Workers : SignalOf(w, Signal(w))'
  PROVE  SignalInv'
  BY DEF SignalInv, SignalOf, SignalApart, InCopy, Reading, Signalling

\* What they are after a step.
Becomes(w, s, H, X, R, t, N, M) ==
  /\ H = InText(Held(s)')
  /\ X = (IF tmp'[s] = NoFile THEN {} ELSE InText(tmp'[s]))
  /\ R = (IF pc'[w] = "sremove" THEN InText(text'[w]) ELSE {})
  /\ t = taken'[w] /\ N = InText(newest'[w]) /\ M = missed'[w]

LEMMA SignalTo ==
  ASSUME NEW w, NEW s, NEW H, NEW X, NEW R, NEW t, NEW N, NEW M,
         Becomes(w, s, H, X, R, t, N, M), SignalApart(H, X, R, t, N, M),
         \A p \in Processes : Signalling(p, s)' => op'[p].id \notin H \cup X \cup R \cup InText(t),
         pc'[w] = "sremove" => H \subseteq R \cup M
  PROVE  SignalOf(w, s)'
  <1>1. H = InText(Held(s))'
    BY DEF Becomes, InText, Held
  <1>2. X = InCopy(s)'
    BY DEF Becomes, InCopy, InText
  <1>3. R = Reading(w)'
    BY DEF Becomes, Reading, InText
  <1>4. N = InText(newest[w])' /\ InText(t) = InText(taken[w])' /\ t = taken'[w] /\ M = missed'[w]
    BY DEF Becomes, InText
  <1>5. SignalApart(InText(Held(s)), InCopy(s), Reading(w), taken[w], InText(newest[w]), missed[w])'
    BY <1>1, <1>2, <1>3, <1>4 DEF SignalApart
  <1>6. QED BY <1>1, <1>2, <1>3, <1>4, <1>5 DEF SignalOf

LEMMA SignalFacts ==
  /\ InText(<<>>) = {}
  /\ \A i \in Nat : i # 0 => InText(<<i>>) = {i}
  <1>1. InText(<<>>) = {}
    BY DEF InText
  <1>2. ASSUME NEW i \in Nat, i # 0
        PROVE  InText(<<i>>) = {i}
    <2>1. Len(<<i>>) = 1 /\ <<i>>[1] = i /\ 1 .. 1 = {1}
      OBVIOUS
    <2>2. QED BY <1>2, <2>1 DEF InText, Newline
  <1>3. QED BY <1>1, <1>2

\* A step that concerns another file than the signal of w.
SignalElsewhere(w) ==
  \E p \in Processes : \E o, place, t, x :
    /\ Now(p, o, place, t, x)
    /\ p = w => place # "sremove"
    /\ place \in {"stmp", "swrite"} => o.file # Signal(w) \/ (o = op[p] /\ pc[p] \in {"stmp", "swrite"})
    /\ files'[Signal(w)] = files[Signal(w)] /\ tmp'[Signal(w)] = tmp[Signal(w)]
    /\ taken'[w] = taken[w] /\ newest'[w] = newest[w] /\ missed'[w] = missed[w]

LEMMA SignalElsewhereKeeps ==
  ASSUME NEW w \in Workers, NEW s, s = Signal(w), SignalOf(w, s), SignalElsewhere(w)
  PROVE  SignalOf(w, s)'
  <1> PICK H, X, R, R1, t, N, M :
        /\ H = InText(Held(s)) /\ X = InCopy(s) /\ R = Reading(w) /\ t = taken[w]
        /\ N = InText(newest[w]) /\ M = missed[w]
        /\ R1 = IF pc'[w] = "sremove" THEN InText(text'[w]) ELSE {}
    OBVIOUS
  <1> PICK p \in Processes : \E o, place, u, x :
        /\ Now(p, o, place, u, x)
        /\ p = w => place # "sremove"
        /\ place \in {"stmp", "swrite"} => o.file # s \/ (o = op[p] /\ pc[p] \in {"stmp", "swrite"})
        /\ files'[s] = files[s] /\ tmp'[s] = tmp[s]
        /\ t = taken'[w] /\ newest'[w] = newest[w] /\ M = missed'[w]
    BY DEF SignalElsewhere
  <1> PICK o, place, u, x :
        /\ Now(p, o, place, u, x)
        /\ p = w => place # "sremove"
        /\ place \in {"stmp", "swrite"} => o.file # s \/ (o = op[p] /\ pc[p] \in {"stmp", "swrite"})
        /\ files'[s] = files[s] /\ tmp'[s] = tmp[s]
        /\ t = taken'[w] /\ newest'[w] = newest[w] /\ M = missed'[w]
    OBVIOUS
  <1>0. w \in Processes
    BY FileFacts
  <1>1. /\ pc'[w] = "sremove" => pc[w] = "sremove" /\ R1 = R
        /\ R1 \subseteq R
    BY <1>0 DEF Now, Reading
  <1>2. \A q \in Processes : Signalling(q, s)' => Signalling(q, s) /\ op'[q] = op[q]
    BY DEF Now, Signalling
  <1>3. Held(s)' = Held(s)
    BY DEF Held
  <1>4. H = InText(Held(s)') /\ N = InText(newest'[w])
    BY <1>3
  <1>5. X = IF tmp'[s] = NoFile THEN {} ELSE InText(tmp'[s])
    BY DEF InCopy
  <1>6. /\ SignalApart(H, X, R, t, N, M)
        /\ \A q \in Processes : Signalling(q, s) => op[q].id \notin H \cup X \cup R \cup InText(t)
        /\ pc[w] = "sremove" => H \subseteq R \cup M
    BY DEF SignalOf
  <1>7. SignalApart(H, X, R1, t, N, M)
    BY <1>1, <1>6 DEF SignalApart
  <1>8. \A q \in Processes : Signalling(q, s)' => op'[q].id \notin H \cup X \cup R1 \cup InText(t)
    BY <1>1, <1>2, <1>6
  <1>9. pc'[w] = "sremove" => H \subseteq R1 \cup M
    BY <1>1, <1>6
  <1>10. R1 = (IF pc'[w] = "sremove" THEN InText(text'[w]) ELSE {}) /\ t = taken'[w] /\ M = missed'[w]
    OBVIOUS
  <1>11. Becomes(w, s, H, X, R1, t, N, M)
    BY ONLY <1>4, <1>5, <1>10 DEF Becomes
  <1>12. QED BY ONLY <1>7, <1>8, <1>9, <1>11, SignalTo

SignalMoves(w, s) ==
  \/ UNCHANGED mailVars
  \/ SignalElsewhere(w)
  \/ \E p \in Processes : \/ StartSignalLeaves(p, w)
                          \/ /\ OpenCopyLeaves(p) /\ pc[p] = "stmp" /\ op[p].file = s
                             /\ Now(p, op[p], "swrite", to[p], text[p])
                          \/ WriteSignalLeaves(p) /\ op[p].file = s
                          \/ RenameSignalLeaves(p) /\ op[p].file = s
  \/ ReadSignalLeaves(w) \/ RemoveSignalLeaves(w)

\* The file of a signal is left.
StaysAt(s) == files'[s] = files[s] /\ tmp'[s] = tmp[s]

LEMMA StaysFacts ==
  ASSUME NEW s \in Files, NEW g, g # s
  PROVE  /\ \A x, y : Only(g, x, y) => StaysAt(s)
         /\ Renamed(g) => StaysAt(s)
  BY DEF Only, StaysAt, Renamed

\* What a worker knows of its signals.
Told(w) == taken'[w] = taken[w] /\ newest'[w] = newest[w] /\ missed'[w] = missed[w]

LEMMA SignalElsewhereBy ==
  ASSUME NEW w, StaysAt(Signal(w)), Told(w),
         NEW p \in Processes, NEW o, NEW place, NEW t, NEW x, Now(p, o, place, t, x),
         p = w => place # "sremove",
         place \in {"stmp", "swrite"} => o.file # Signal(w) \/ (o = op[p] /\ pc[p] \in {"stmp", "swrite"})
  PROVE  SignalElsewhere(w)
  BY DEF SignalElsewhere, StaysAt, Told

LEMMA SignalMovesOf ==
  ASSUME AllTypeOK, Stages, Leaves, NEW w \in Workers, NEW s, s = Signal(w)
  PROVE  SignalMoves(w, s)
  <1>1. s \in Files /\ s \in Signals /\ s \notin Mailboxes /\ s[2] = w
    BY FileFacts
  <1>2. ASSUME files' = files, tmp' = tmp
        PROVE  StaysAt(s)
    BY <1>2 DEF StaysAt
  <1>3. ASSUME UNCHANGED <<taken, newest, missed>>
        PROVE  Told(w)
    BY <1>3 DEF Told
  <1>4. ASSUME UNCHANGED Histories
        PROVE  Told(w)
    BY <1>3, <1>4 DEF Histories
  <1>5. CASE UNCHANGED mailVars
    BY <1>5 DEF SignalMoves
  <1>6. ASSUME NEW p \in Processes, NEW o, NEW place, NEW t, NEW x, Now(p, o, place, t, x),
               StaysAt(s), Told(w), place \notin {"sremove", "stmp", "swrite"}
        PROVE  SignalMoves(w, s)
    BY <1>6, SignalElsewhereBy DEF SignalMoves
  <1>7. ASSUME NEW p \in Processes,
               StartAppendLeaves(p) \/ CrashLeaves(p) \/ \E f \in Outboxes : ReadOutboxLeaves(p, f)
        PROVE  SignalMoves(w, s)
    <2>1. StaysAt(s) /\ Told(w)
      BY <1>2, <1>3, <1>4, <1>7 DEF StartAppendLeaves, CrashLeaves, ReadOutboxLeaves
    <2>2. \E o, place, t, x : Now(p, o, place, t, x) /\ place \notin {"sremove", "stmp", "swrite"}
      <3>1. CASE StartAppendLeaves(p)
        <4>1. \E o, t, x : Now(p, o, "open", t, x)
          BY <3>1 DEF StartAppendLeaves
        <4>2. "open" \notin {"sremove", "stmp", "swrite"}
          OBVIOUS
        <4>3. QED BY <4>1, <4>2
      <3>2. CASE CrashLeaves(p)
        <4>1. Now(p, None, "idle", <<>>, <<>>)
          BY <3>2 DEF CrashLeaves
        <4>2. "idle" \notin {"sremove", "stmp", "swrite"}
          OBVIOUS
        <4>3. QED BY <4>1, <4>2
      <3>3. CASE \E f \in Outboxes : ReadOutboxLeaves(p, f)
        <4>1. \E o, t, x : Now(p, o, "tmp", t, x)
          BY <3>3 DEF ReadOutboxLeaves
        <4>2. "tmp" \notin {"sremove", "stmp", "swrite"}
          OBVIOUS
        <4>3. QED BY <4>1, <4>2
      <3>4. QED BY <1>7, <3>1, <3>2, <3>3
    <2>3. QED BY <1>6, <2>1, <2>2
  <1>8. ASSUME NEW p \in Processes,
               OpenMailboxLeaves(p) \/ PutLineLeaves(p) \/ PutNewlineLeaves(p)
        PROVE  SignalMoves(w, s)
    <2> PICK g : g = Head(to[p])
      OBVIOUS
    <2>1. pc[p] \in {"open", "line", "newline"}
      BY <1>8 DEF OpenMailboxLeaves, PutLineLeaves, PutNewlineLeaves
    <2>2. g # s
      BY <1>1, <2>1, AppenderFacts
    <2>3. \E x, y : Only(g, x, y)
      BY <1>8 DEF OpenMailboxLeaves, PutLineLeaves, PutNewlineLeaves
    <2>4. StaysAt(s)
      BY <1>1, <2>2, <2>3, StaysFacts
    <2>5. Told(w)
      BY <1>3, <1>4, <1>8 DEF OpenMailboxLeaves, PutLineLeaves, PutNewlineLeaves
    <2>6. \E o, place, t, x : Now(p, o, place, t, x) /\ place \notin {"sremove", "stmp", "swrite"}
      <3>1. \E o, place, t, x : Now(p, o, place, t, x) /\ place \in {"line", "newline", "open", "idle"}
        BY <1>8 DEF OpenMailboxLeaves, PutLineLeaves, PutNewlineLeaves
      <3>2. \A place \in {"line", "newline", "open", "idle"} : place \notin {"sremove", "stmp", "swrite"}
        OBVIOUS
      <3>3. QED BY <3>1, <3>2
    <2>7. QED BY <1>6, <2>4, <2>5, <2>6
  <1>9. ASSUME NEW p \in Processes, OpenCopyLeaves(p),
               \/ /\ pc[p] = "tmp" /\ op[p].file \in Outboxes
                  /\ Now(p, op[p], "copy", to[p], text[p])
               \/ /\ pc[p] = "stmp" /\ op[p].file \in Signals
                  /\ Now(p, op[p], "swrite", to[p], text[p])
        PROVE  SignalMoves(w, s)
    <2> PICK g : g = op[p].file
      OBVIOUS
    <2>1. Only(g, files[g], <<>>) /\ Told(w)
      BY <1>4, <1>9 DEF OpenCopyLeaves
    <2>2. CASE g = s
      <3>1. pc[p] = "stmp" /\ Now(p, op[p], "swrite", to[p], text[p])
        BY <1>1, <1>9, <2>2, FileFacts
      <3>2. QED BY <1>9, <2>2, <3>1 DEF SignalMoves
    <2>3. CASE g # s
      <3>1. StaysAt(s)
        BY <1>1, <2>1, <2>3, StaysFacts
      <3>2. \E place : Now(p, op[p], place, to[p], text[p]) /\ place \in {"copy", "swrite"}
        BY <1>9
      <3>3. SignalElsewhere(w)
        BY <2>1, <2>3, <3>1, <3>2, SignalElsewhereBy
      <3>4. QED BY <3>3 DEF SignalMoves
    <2>4. QED BY <2>2, <2>3
  <1>10. ASSUME NEW p \in Processes, WriteCopyLeaves(p) \/ RenameCopyLeaves(p)
         PROVE  SignalMoves(w, s)
    <2> PICK g : g = op[p].file
      OBVIOUS
    <2>1. g \in Outboxes /\ Told(w) /\ ((\E x, y : Only(g, x, y)) \/ Renamed(g))
      BY <1>4, <1>10 DEF WriteCopyLeaves, RenameCopyLeaves
    <2>2. StaysAt(s)
      BY <1>1, <2>1, FileFacts, StaysFacts
    <2>3. CASE WriteCopyLeaves(p)
      <3>1. Now(p, op[p], "rename", to[p], text[p]) /\ "rename" \notin {"sremove", "stmp", "swrite"}
        BY <2>3 DEF WriteCopyLeaves
      <3>2. QED BY <1>6, <2>1, <2>2, <3>1
    <2>4. CASE RenameCopyLeaves(p)
      <3>1. Now(p, None, "idle", <<>>, <<>>) /\ "idle" \notin {"sremove", "stmp", "swrite"}
        BY <2>4 DEF RenameCopyLeaves
      <3>2. QED BY <1>6, <2>1, <2>2, <3>1
    <2>5. QED BY <1>10, <2>3, <2>4
  <1>11. ASSUME NEW p \in Processes, NEW v \in Workers, StartSignalLeaves(p, v)
         PROVE  SignalMoves(w, s)
    <2>1. CASE v = w
      BY <1>11, <2>1 DEF SignalMoves
    <2>2. CASE v # w
      <3>1. /\ StaysAt(s) /\ Told(w) /\ p # w
            /\ \E o, t, x : Now(p, o, "stmp", t, x) /\ o.file = Signal(v)
        BY <1>2, <1>4, <1>11, FileFacts DEF StartSignalLeaves
      <3>2. Signal(v) # s
        BY <2>2, FileFacts
      <3>3. SignalElsewhere(w)
        BY <3>1, <3>2, SignalElsewhereBy
      <3>4. QED BY <3>3 DEF SignalMoves
    <2>3. QED BY <2>1, <2>2
  <1>12. ASSUME NEW p \in Processes, WriteSignalLeaves(p) \/ RenameSignalLeaves(p)
         PROVE  SignalMoves(w, s)
    <2> PICK g : g = op[p].file
      OBVIOUS
    <2>1. CASE g = s
      BY <1>12, <2>1 DEF SignalMoves
    <2>2. CASE g # s
      <3>1. g \in Signals /\ g[2] \in Workers /\ g = Signal(g[2]) /\ taken' = taken
        BY <1>12, FileFacts DEF WriteSignalLeaves, RenameSignalLeaves
      <3>2. w \in Workers \ {g[2]}
        BY <2>2, <3>1
      <3>3. \E appears, u : PublishLeaves(g[2], appears, u)
        BY <1>12 DEF WriteSignalLeaves, RenameSignalLeaves
      <3>4. Told(w)
        BY <3>1, <3>2, <3>3 DEF PublishLeaves, Told
      <3>5. StaysAt(s)
        <4>1. (\E x, y : Only(g, x, y)) \/ Renamed(g)
          BY <1>12 DEF WriteSignalLeaves, RenameSignalLeaves
        <4>2. QED BY <1>1, <2>2, <4>1, StaysFacts
      <3>6. CASE WriteSignalLeaves(p)
        <4>1. Now(p, op[p], "srename", to[p], text[p]) /\ "srename" \notin {"sremove", "stmp", "swrite"}
          BY <3>6 DEF WriteSignalLeaves
        <4>2. QED BY <1>6, <3>4, <3>5, <4>1
      <3>7. CASE RenameSignalLeaves(p)
        <4>1. Now(p, None, "idle", <<>>, <<>>) /\ "idle" \notin {"sremove", "stmp", "swrite"}
          BY <3>7 DEF RenameSignalLeaves
        <4>2. QED BY <1>6, <3>4, <3>5, <4>1
      <3>8. QED BY <1>12, <3>6, <3>7
    <2>3. QED BY <2>1, <2>2
  <1>13. ASSUME NEW v \in Workers, ReadInboxLeaves(v) \/ ClearInboxLeaves(v)
         PROVE  SignalMoves(w, s)
    <2>1. v \in Processes /\ Inbox(v) # s /\ Told(w)
      BY <1>1, <1>3, <1>13, FileFacts DEF ReadInboxLeaves, ClearInboxLeaves
    <2>2. CASE ReadInboxLeaves(v)
      <3>1. StaysAt(s) /\ \E o, t, x : Now(v, o, "clear", t, x)
        BY <1>2, <2>2 DEF ReadInboxLeaves
      <3>2. "clear" \notin {"sremove", "stmp", "swrite"}
        OBVIOUS
      <3>3. QED BY <1>6, <2>1, <3>1, <3>2
    <2>3. CASE ClearInboxLeaves(v)
      <3>1. (\E x, y : Only(Inbox(v), x, y)) /\ Now(v, None, "idle", <<>>, <<>>)
        BY <2>3 DEF ClearInboxLeaves
      <3>2. StaysAt(s) /\ "idle" \notin {"sremove", "stmp", "swrite"}
        BY <1>1, <2>1, <3>1, StaysFacts
      <3>3. QED BY <1>6, <2>1, <3>1, <3>2
    <2>4. QED BY <1>13, <2>2, <2>3
  <1>14. ASSUME NEW v \in Workers, ReadSignalLeaves(v) \/ RemoveSignalLeaves(v)
         PROVE  SignalMoves(w, s)
    <2>1. CASE v = w
      BY <1>14, <2>1 DEF SignalMoves
    <2>2. CASE v # w
      <3>1. v \in Processes /\ Signal(v) # s
        BY <2>2, FileFacts
      <3>2. CASE ReadSignalLeaves(v)
        <4>1. StaysAt(s) /\ Told(w) /\ \E o, t, x : Now(v, o, "sremove", t, x)
          BY <1>2, <1>4, <3>2 DEF ReadSignalLeaves
        <4>2. SignalElsewhere(w)
          BY <2>2, <3>1, <4>1, SignalElsewhereBy
        <4>3. QED BY <4>2 DEF SignalMoves
      <3>3. CASE RemoveSignalLeaves(v)
        <4>1. /\ \E x, y : Only(Signal(v), x, y)
              /\ Now(v, None, "idle", <<>>, <<>>)
              /\ Told(w)
          BY <2>2, <3>3 DEF RemoveSignalLeaves, Told
        <4>2. StaysAt(s) /\ "idle" \notin {"sremove", "stmp", "swrite"}
          BY <1>1, <3>1, <4>1, StaysFacts
        <4>3. QED BY <1>6, <3>1, <4>1, <4>2
      <3>4. QED BY <1>14, <3>2, <3>3
    <2>3. QED BY <2>1, <2>2
  <1>15. QED
    BY <1>5, <1>7, <1>8, <1>9, <1>10, <1>11, <1>12, <1>13, <1>14 DEF Leaves

\* What they are before a step.
Are(w, s, H, X, R, t, N, M) ==
  /\ H = InText(Held(s)) /\ X = InCopy(s) /\ R = Reading(w)
  /\ t = taken[w] /\ N = InText(newest[w]) /\ M = missed[w]

LEMMA SignalAre ==
  ASSUME AllTypeOK, NEW w \in Workers, NEW s, s = Signal(w), SignalOf(w, s),
         NEW H, NEW X, NEW R, NEW t, NEW N, NEW M, Are(w, s, H, X, R, t, N, M)
  PROVE  /\ SignalApart(H, X, R, t, N, M) /\ H \cup X \cup R \cup InText(t) \subseteq 1 .. sends
         /\ \A p \in Processes : Signalling(p, s) => op[p].id \notin H \cup X \cup R \cup InText(t)
         /\ pc[w] = "sremove" => H \subseteq R \cup M
         /\ t \in Seq(1 .. sends) /\ sends \in Nat
         /\ files[s] \in Seq(0 .. sends) \cup {NoFile} /\ tmp[s] \in Seq(0 .. sends) \cup {NoFile}
         /\ \A u \in Seq(0 .. sends) : u # NoFile
         /\ H = IF files[s] = NoFile THEN {} ELSE InText(files[s])
  <1>1. /\ SignalApart(H, X, R, t, N, M)
        /\ \A p \in Processes : Signalling(p, s) => op[p].id \notin H \cup X \cup R \cup InText(t)
        /\ pc[w] = "sremove" => H \subseteq R \cup M
    BY DEF SignalOf, Are
  <1>2. s \in Files /\ sends \in Nat /\ w \in Processes
    BY FileFacts DEF AllTypeOK
  <1>3. /\ files[s] \in Seq(0 .. sends) \cup {NoFile} /\ tmp[s] \in Seq(0 .. sends) \cup {NoFile}
        /\ text[w] \in Seq(0 .. sends) /\ t \in Seq(1 .. sends)
    BY <1>2 DEF AllTypeOK, DiskTypeOK, ProcessTypeOK, HistoryTypeOK, Texts, Are
  <1>4. t \in Seq(0 .. sends)
    <2>1. 1 .. sends \subseteq 0 .. sends
      BY <1>2
    <2>2. QED BY ONLY <1>3, <2>1, SeqWidens
  <1>5. /\ \A u \in Seq(0 .. sends) : InText(u) \subseteq 1 .. sends /\ u # NoFile
        /\ InText(<<>>) = {}
    BY <1>2, InTextFacts, TextFacts
  <1>6. H = IF files[s] = NoFile THEN {} ELSE InText(files[s])
    BY <1>5 DEF Are, Held
  <1>7. H \cup X \cup R \cup InText(t) \subseteq 1 .. sends
    BY <1>3, <1>4, <1>5, <1>6 DEF Are, InCopy, Reading
  <1>8. QED BY <1>1, <1>2, <1>3, <1>5, <1>6, <1>7

\* What a step of p does to what w reads and to who signals it.
LEMMA SignalStep ==
  ASSUME NEW p \in Processes, NEW o, NEW place, NEW t, NEW x, Now(p, o, place, t, x), NEW s
  PROVE  /\ \A q \in Processes \ {p} : /\ Signalling(q, s)' <=> Signalling(q, s)
                                       /\ op'[q] = op[q] /\ pc'[q] = pc[q] /\ text'[q] = text[q]
         /\ Signalling(p, s)' => place \in {"stmp", "swrite"} /\ op'[p] = o
         /\ pc'[p] = place /\ text'[p] = x
  BY DEF Now, Signalling

LEMMA SignalStart ==
  ASSUME AllTypeOK, NEW w \in Workers, NEW s, s = Signal(w), SignalOf(w, s),
         NEW p \in Processes, StartSignalLeaves(p, w)
  PROVE  SignalOf(w, s)'
  <1> PICK H, X, R, t, N, M : Are(w, s, H, X, R, t, N, M)
    BY DEF Are
  <1>1. /\ SignalApart(H, X, R, t, N, M) /\ H \cup X \cup R \cup InText(t) \subseteq 1 .. sends
        /\ \A q \in Processes : Signalling(q, s) => op[q].id \notin H \cup X \cup R \cup InText(t)
        /\ pc[w] = "sremove" => H \subseteq R \cup M
        /\ sends \in Nat
    BY SignalAre
  <1>2. /\ UNCHANGED <<files, tmp, taken, newest, missed>> /\ p # w /\ w \in Processes
        /\ \E o, y, x : Now(p, o, "stmp", y, x) /\ o.id = sends + 1
    BY FileFacts DEF StartSignalLeaves, Histories
  <1>3. /\ \A q \in Processes \ {p} : /\ Signalling(q, s)' <=> Signalling(q, s)
                                      /\ op'[q] = op[q] /\ pc'[q] = pc[q] /\ text'[q] = text[q]
        /\ op'[p].id = sends + 1
    BY <1>2 DEF Now, Signalling
  <1>4. Becomes(w, s, H, X, R, t, N, M)
    <2>1. Held(s)' = Held(s)
      BY <1>2 DEF Held
    <2>2. pc'[w] = pc[w] /\ text'[w] = text[w]
      BY <1>2, <1>3
    <2>3. QED BY <1>2, <2>1, <2>2 DEF Are, Becomes, InCopy, Reading
  <1>5. \A q \in Processes : Signalling(q, s)' => op'[q].id \notin H \cup X \cup R \cup InText(t)
    <2>1. sends + 1 \notin 1 .. sends
      BY <1>1
    <2>2. QED BY <1>1, <1>3, <2>1
  <1>6. pc'[w] = "sremove" => H \subseteq R \cup M
    BY <1>1, <1>2, <1>3
  <1>7. QED BY <1>1, <1>4, <1>5, <1>6, SignalTo

LEMMA SignalOpen ==
  ASSUME AllTypeOK, Stages, NEW w \in Workers, NEW s, s = Signal(w), SignalOf(w, s),
         NEW p \in Processes, OpenCopyLeaves(p), pc[p] = "stmp", op[p].file = s,
         Now(p, op[p], "swrite", to[p], text[p])
  PROVE  SignalOf(w, s)'
  <1> PICK H, X, R, t, N, M : Are(w, s, H, X, R, t, N, M)
    BY DEF Are
  <1>1. /\ SignalApart(H, X, R, t, N, M)
        /\ \A q \in Processes : Signalling(q, s) => op[q].id \notin H \cup X \cup R \cup InText(t)
        /\ pc[w] = "sremove" => H \subseteq R \cup M
        /\ sends \in Nat
    BY SignalAre
  <1>2. /\ UNCHANGED <<files, taken, newest, missed>> /\ tmp'[s] = <<>> /\ w \in Processes
    BY FileFacts DEF OpenCopyLeaves, Histories, Only
  <1>3. p # w
    BY PlaceFacts, FileFacts
  <1>4. /\ \A q \in Processes : Signalling(q, s)' => Signalling(q, s) /\ op'[q] = op[q]
        /\ pc'[w] = pc[w] /\ text'[w] = text[w]
    BY <1>2, <1>3 DEF Now, Signalling
  <1>5. Becomes(w, s, H, {}, R, t, N, M)
    <2>1. Held(s)' = Held(s)
      BY <1>2 DEF Held
    <2>2. {} = IF tmp'[s] = NoFile THEN {} ELSE InText(tmp'[s])
      BY <1>2, SignalFacts
    <2>3. QED BY <1>2, <1>4, <2>1, <2>2 DEF Are, Becomes, Reading
  <1>6. SignalApart(H, {}, R, t, N, M)
    BY <1>1 DEF SignalApart
  <1>7. \A q \in Processes : Signalling(q, s)' => op'[q].id \notin H \cup {} \cup R \cup InText(t)
    BY <1>1, <1>4
  <1>8. pc'[w] = "sremove" => H \subseteq R \cup M
    BY <1>1, <1>4
  <1>9. QED BY <1>5, <1>6, <1>7, <1>8, SignalTo

LEMMA SignalWrite ==
  ASSUME AllTypeOK, Stages, IdsInv, NEW w \in Workers, NEW s, s = Signal(w), SignalOf(w, s),
         NEW p \in Processes, WriteSignalLeaves(p), op[p].file = s
  PROVE  SignalOf(w, s)'
  <1> PICK H, X, R, t, N, M : Are(w, s, H, X, R, t, N, M)
    BY DEF Are
  <1> PICK i : i = op[p].id
    OBVIOUS
  <1>1. /\ SignalApart(H, X, R, t, N, M)
        /\ \A q \in Processes : Signalling(q, s) => op[q].id \notin H \cup X \cup R \cup InText(t)
        /\ pc[w] = "sremove" => H \subseteq R \cup M
        /\ sends \in Nat /\ H = (IF files[s] = NoFile THEN {} ELSE InText(files[s]))
    BY SignalAre
  <1>2. /\ pc[p] = "swrite" /\ i \in 1 .. sends /\ taken' = taken
        /\ Now(p, op[p], "srename", to[p], text[p])
        /\ files'[s] = IF fd[p] = At("file", s) THEN <<i>> ELSE files[s]
        /\ tmp'[s] = IF fd[p] = At("tmp", s) THEN <<i>> ELSE tmp[s]
        /\ PublishLeaves(w, fd[p] = At("file", s), <<i>>)
    BY FileFacts DEF WriteSignalLeaves, Only
  <1>3. p # w /\ w \in Processes
    BY <1>2, PlaceFacts, FileFacts
  <1>4. /\ \A q \in Processes : Signalling(q, s)' => Signalling(q, s) /\ op'[q] = op[q] /\ q # p
        /\ pc'[w] = pc[w] /\ text'[w] = text[w]
    BY <1>2, <1>3 DEF Now, Signalling
  <1>5. i \notin H \cup X \cup R \cup InText(t)
    BY <1>1, <1>2 DEF Signalling
  <1>6. \A q \in Processes : Signalling(q, s)' => op[q].id # i
    BY <1>2, <1>4 DEF IdsInv, Numbered, Signalling
  <1>7. i \in Nat /\ i # 0 /\ InText(<<i>>) = {i} /\ <<i>> # NoFile
    <2>1. i \in Nat /\ i # 0
      BY <1>1, <1>2
    <2>2. InText(<<i>>) = {i}
      BY <2>1, SignalFacts
    <2>3. <<i>> # NoFile
      BY <1>1, <1>2, TextFacts
    <2>4. QED BY <2>1, <2>2, <2>3
  <1>8. R = (IF pc'[w] = "sremove" THEN InText(text'[w]) ELSE {}) /\ t = taken'[w]
    BY <1>2, <1>4 DEF Are, Reading
  <1>9. CASE fd[p] = At("file", s)
    <2> PICK H1, M1 : H1 = {i} /\ M1 = M \cup H \cup (IF pc[w] = "sremove" THEN {i} ELSE {})
      OBVIOUS
    <2>1. files'[s] = <<i>> /\ tmp'[s] = tmp[s]
      BY <1>2, <1>9, HandlesDiffer
    <2>2. newest'[w] = <<i>> /\ M1 = missed'[w]
      BY <1>1, <1>2, <1>7, <1>9 DEF PublishLeaves, Are
    <2>3. Held(s)' = <<i>>
      BY <1>7, <2>1 DEF Held
    <2>4. H1 = InText(Held(s)') /\ H1 = InText(newest'[w])
      BY <1>7, <2>2, <2>3
    <2>5. Becomes(w, s, H1, X, R, t, H1, M1)
      BY <1>8, <2>1, <2>2, <2>4 DEF Becomes, Are, InCopy
    <2>6. SignalApart(H1, X, R, t, H1, M1)
      BY <1>1, <1>5 DEF SignalApart
    <2>7. \A q \in Processes : Signalling(q, s)' => op'[q].id \notin H1 \cup X \cup R \cup InText(t)
      BY <1>1, <1>4, <1>6
    <2>8. pc'[w] = "sremove" => H1 \subseteq R \cup M1
      BY <1>4
    <2>9. QED BY <2>5, <2>6, <2>7, <2>8, SignalTo
  <1>10. CASE fd[p] # At("file", s)
    <2> PICK X1 : X1 = IF fd[p] = At("tmp", s) THEN {i} ELSE X
      OBVIOUS
    <2>1. files'[s] = files[s] /\ newest'[w] = newest[w] /\ missed'[w] = missed[w]
      BY <1>2, <1>10 DEF PublishLeaves
    <2>2. Held(s)' = Held(s)
      BY <2>1 DEF Held
    <2>3. X1 = IF tmp'[s] = NoFile THEN {} ELSE InText(tmp'[s])
      BY <1>2, <1>7 DEF Are, InCopy
    <2>4. Becomes(w, s, H, X1, R, t, N, M)
      BY <1>8, <2>1, <2>2, <2>3 DEF Becomes, Are
    <2>5. SignalApart(H, X1, R, t, N, M)
      BY <1>1, <1>5 DEF SignalApart
    <2>6. \A q \in Processes : Signalling(q, s)' => op'[q].id \notin H \cup X1 \cup R \cup InText(t)
      BY <1>1, <1>4, <1>6
    <2>7. pc'[w] = "sremove" => H \subseteq R \cup M
      BY <1>1, <1>4
    <2>8. QED BY <2>4, <2>5, <2>6, <2>7, SignalTo
  <1>11. QED BY <1>9, <1>10

LEMMA SignalRename ==
  ASSUME AllTypeOK, Stages, NEW w \in Workers, NEW s, s = Signal(w), SignalOf(w, s),
         NEW p \in Processes, RenameSignalLeaves(p), op[p].file = s
  PROVE  SignalOf(w, s)'
  <1> PICK H, X, R, t, N, M : Are(w, s, H, X, R, t, N, M)
    BY DEF Are
  <1>1. /\ SignalApart(H, X, R, t, N, M)
        /\ \A q \in Processes : Signalling(q, s) => op[q].id \notin H \cup X \cup R \cup InText(t)
        /\ pc[w] = "sremove" => H \subseteq R \cup M
        /\ H = (IF files[s] = NoFile THEN {} ELSE InText(files[s]))
    BY SignalAre
  <1>2. /\ pc[p] = "srename" /\ taken' = taken
        /\ Now(p, None, "idle", <<>>, <<>>) /\ Renamed(s)
        /\ PublishLeaves(w, tmp[s] # NoFile, tmp[s])
    BY FileFacts DEF RenameSignalLeaves
  <1>3. p # w /\ w \in Processes
    BY <1>2, PlaceFacts, FileFacts
  <1>4. /\ \A q \in Processes : Signalling(q, s)' => Signalling(q, s) /\ op'[q] = op[q]
        /\ pc'[w] = pc[w] /\ text'[w] = text[w]
    BY <1>2, <1>3 DEF Now, Signalling
  <1>5. R = (IF pc'[w] = "sremove" THEN InText(text'[w]) ELSE {}) /\ t = taken'[w]
    BY <1>2, <1>4 DEF Are, Reading
  <1>6. CASE tmp[s] # NoFile
    <2> PICK M1 : M1 = M \cup H \cup (IF pc[w] = "sremove" THEN X ELSE {})
      OBVIOUS
    <2>1. files'[s] = tmp[s] /\ tmp'[s] = NoFile /\ X = InText(tmp[s])
      BY <1>2, <1>6 DEF Renamed, Only, Are, InCopy
    <2>2. newest'[w] = tmp[s] /\ M1 = missed'[w]
      BY <1>1, <1>2, <1>6, <2>1 DEF PublishLeaves, Are
    <2>3. Held(s)' = tmp[s]
      BY <1>6, <2>1 DEF Held
    <2>4. X = InText(Held(s)') /\ X = InText(newest'[w])
      BY <2>1, <2>2, <2>3
    <2>5. Becomes(w, s, X, {}, R, t, X, M1)
      BY <1>5, <2>1, <2>2, <2>4 DEF Becomes
    <2>6. SignalApart(X, {}, R, t, X, M1)
      BY <1>1 DEF SignalApart
    <2>7. \A q \in Processes : Signalling(q, s)' => op'[q].id \notin X \cup {} \cup R \cup InText(t)
      BY <1>1, <1>4
    <2>8. pc'[w] = "sremove" => X \subseteq R \cup M1
      BY <1>4
    <2>9. QED BY <2>5, <2>6, <2>7, <2>8, SignalTo
  <1>7. CASE tmp[s] = NoFile
    <2>1. UNCHANGED <<files, tmp>> /\ newest'[w] = newest[w] /\ missed'[w] = missed[w]
      BY <1>2, <1>7 DEF PublishLeaves, Renamed
    <2>2. Held(s)' = Held(s)
      BY <2>1 DEF Held
    <2>3. Becomes(w, s, H, X, R, t, N, M)
      BY <1>5, <2>1, <2>2 DEF Becomes, Are, InCopy
    <2>4. \A q \in Processes : Signalling(q, s)' => op'[q].id \notin H \cup X \cup R \cup InText(t)
      BY <1>1, <1>4
    <2>5. pc'[w] = "sremove" => H \subseteq R \cup M
      BY <1>1, <1>4
    <2>6. QED BY <1>1, <2>3, <2>4, <2>5, SignalTo
  <1>8. QED BY <1>6, <1>7

LEMMA SignalRead ==
  ASSUME AllTypeOK, NEW w \in Workers, NEW s, s = Signal(w), SignalOf(w, s), ReadSignalLeaves(w)
  PROVE  SignalOf(w, s)'
  <1> PICK H, X, R, t, N, M : Are(w, s, H, X, R, t, N, M)
    BY DEF Are
  <1>1. /\ SignalApart(H, X, R, t, N, M)
        /\ \A q \in Processes : Signalling(q, s) => op[q].id \notin H \cup X \cup R \cup InText(t)
        /\ H = (IF files[s] = NoFile THEN {} ELSE InText(files[s]))
    BY SignalAre
  <1>2. /\ UNCHANGED <<files, tmp, taken, newest, missed>> /\ w \in Processes /\ files[s] # NoFile
        /\ \E o : Now(w, o, "sremove", to[w], files[s])
    BY FileFacts DEF ReadSignalLeaves, Histories
  <1>3. /\ \A q \in Processes : Signalling(q, s)' => Signalling(q, s) /\ op'[q] = op[q]
        /\ pc'[w] = "sremove" /\ text'[w] = files[s]
    BY <1>2 DEF Now, Signalling
  <1>4. Becomes(w, s, H, X, H, t, N, M)
    <2>1. Held(s)' = Held(s)
      BY <1>2 DEF Held
    <2>2. H = IF pc'[w] = "sremove" THEN InText(text'[w]) ELSE {}
      BY <1>1, <1>2, <1>3
    <2>3. QED BY <1>2, <2>1, <2>2 DEF Are, Becomes, InCopy
  <1>5. SignalApart(H, X, H, t, N, M)
    BY <1>1 DEF SignalApart
  <1>6. \A q \in Processes : Signalling(q, s)' => op'[q].id \notin H \cup X \cup H \cup InText(t)
    BY <1>1, <1>3
  <1>7. pc'[w] = "sremove" => H \subseteq H \cup M
    OBVIOUS
  <1>8. QED BY <1>4, <1>5, <1>6, <1>7, SignalTo

LEMMA SignalRemove ==
  ASSUME AllTypeOK, Stages, NEW w \in Workers, NEW s, s = Signal(w), SignalOf(w, s),
         RemoveSignalLeaves(w)
  PROVE  SignalOf(w, s)'
  <1> PICK H, X, R, t, N, M : Are(w, s, H, X, R, t, N, M)
    BY DEF Are
  <1>1. /\ SignalApart(H, X, R, t, N, M)
        /\ \A q \in Processes : Signalling(q, s) => op[q].id \notin H \cup X \cup R \cup InText(t)
        /\ pc[w] = "sremove" => H \subseteq R \cup M
        /\ t \in Seq(1 .. sends) /\ sends \in Nat
    BY SignalAre
  <1>2. /\ pc[w] = "sremove" /\ w \in Processes
        /\ newest' = newest /\ missed' = missed /\ files'[s] = NoFile /\ tmp'[s] = tmp[s]
        /\ Now(w, None, "idle", <<>>, <<>>) /\ taken'[w] = t \o text[w]
    BY FileFacts DEF RemoveSignalLeaves, Only, Are
  <1>3. PICK i \in 1 .. sends : text[w] = <<i>>
    BY <1>2 DEF Stages, StageOf, OneSignal
  <1>4. i \in Nat /\ i # 0 /\ InText(<<i>>) = {i} /\ R = {i}
    BY <1>1, <1>2, <1>3, SignalFacts DEF Are, Reading
  <1> PICK t1 : t1 = Append(t, i)
    OBVIOUS
  <1>5. /\ t1 = taken'[w] /\ InText(t1) = InText(t) \cup {i}
        /\ \A j, k \in DOMAIN t1 : t1[j] = t1[k] => j = k
    <2>1. t1 = t \o <<i>>
      BY <1>1
    <2>2. t \in Seq(0 .. sends)
      <3>1. 1 .. sends \subseteq 0 .. sends
        BY <1>1
      <3>2. QED BY ONLY <1>1, <3>1, SeqWidens
    <2>3. InText(t1) = InText(t) \cup {i}
      BY <1>1, <2>2, InTextFacts
    <2>4. i \notin InText(t)
      BY <1>1, <1>4 DEF SignalApart
    <2>5. \A j \in DOMAIN t : t[j] # i
      <3>1. DOMAIN t = 1 .. Len(t) /\ \A j \in DOMAIN t : t[j] \in 1 .. sends
        BY <1>1
      <3>2. QED BY <2>4, <3>1 DEF InText, Newline
    <2>6. /\ Len(t) \in Nat /\ DOMAIN t = 1 .. Len(t) /\ DOMAIN t1 = 1 .. Len(t) + 1
          /\ \A j \in 1 .. Len(t) : t1[j] = t[j]
          /\ t1[Len(t) + 1] = i
      BY <1>1, AppendProperties
    <2>7. \A j, k \in DOMAIN t : t[j] = t[k] => j = k
      BY <1>1 DEF SignalApart
    <2>8. \A j \in DOMAIN t1 : j \in DOMAIN t \/ j = Len(t) + 1
      BY ONLY <2>6
    <2>9. \A j, k \in DOMAIN t1 : t1[j] = t1[k] => j = k
      BY ONLY <2>5, <2>6, <2>7, <2>8
    <2>10. t1 = taken'[w]
      BY <1>2, <1>3, <2>1
    <2>11. QED BY <2>3, <2>9, <2>10
  <1>6. \A q \in Processes : Signalling(q, s)' => Signalling(q, s) /\ op'[q] = op[q]
    BY <1>2 DEF Now, Signalling
  <1>7. pc'[w] # "sremove"
    BY <1>2 DEF Now
  <1>8. Becomes(w, s, {}, X, {}, t1, N, M)
    <2>1. InText(Held(s)') = {}
      BY <1>2, SignalFacts DEF Held
    <2>2. QED BY <1>2, <1>5, <1>7, <2>1 DEF Are, Becomes, InCopy
  <1>9. SignalApart({}, X, {}, t1, N, M)
    BY <1>1, <1>2, <1>4, <1>5 DEF SignalApart
  <1>10. \A q \in Processes : Signalling(q, s)' => op'[q].id \notin {} \cup X \cup {} \cup InText(t1)
    BY <1>1, <1>4, <1>5, <1>6
  <1>11. QED BY <1>7, <1>8, <1>9, <1>10, SignalTo

LEMMA SignalUnchanged ==
  ASSUME NEW w, NEW s, SignalOf(w, s), UNCHANGED mailVars
  PROVE  SignalOf(w, s)'
  <1> PICK H, X, R, t, N, M : Are(w, s, H, X, R, t, N, M)
    BY DEF Are
  <1>1. UNCHANGED <<files, tmp, op, pc, text, taken, newest, missed>>
    BY DEF mailVars
  <1>2. Held(s)' = Held(s)
    BY <1>1 DEF Held
  <1>3. Becomes(w, s, H, X, R, t, N, M)
    BY <1>1, <1>2 DEF Are, Becomes, InCopy, Reading
  <1>4. /\ SignalApart(H, X, R, t, N, M)
        /\ \A q \in Processes : Signalling(q, s) => op[q].id \notin H \cup X \cup R \cup InText(t)
        /\ pc[w] = "sremove" => H \subseteq R \cup M
    BY DEF SignalOf, Are
  <1>5. \A q \in Processes : Signalling(q, s)' => op'[q].id \notin H \cup X \cup R \cup InText(t)
    BY <1>1, <1>4 DEF Signalling
  <1>6. QED BY <1>1, <1>3, <1>4, <1>5, SignalTo

LEMMA SignalNext ==
  ASSUME AllTypeOK, Stages, IdsInv, SignalInv, Leaves
  PROVE  SignalInv'
  <1>1. ASSUME NEW w \in Workers, NEW s, s = Signal(w)
        PROVE  SignalOf(w, s)'
    <2>1. SignalOf(w, s)
      BY <1>1, SignalAll
    <2>2. SignalMoves(w, s)
      BY <1>1, SignalMovesOf
    <2>3. QED
      BY <1>1, <2>1, <2>2, SignalUnchanged, SignalElsewhereKeeps, SignalStart, SignalOpen,
         SignalWrite, SignalRename, SignalRead, SignalRemove DEF SignalMoves
  <1>2. ASSUME NEW w \in Workers
        PROVE  SignalOf(w, Signal(w))'
    <2> PICK s : s = Signal(w)
      OBVIOUS
    <2>1. SignalOf(w, s)'
      BY <1>1
    <2>2. QED BY <2>1
  <1>3. QED BY <1>2, SignalAllNext

LEMMA SignalInit == MailInit => SignalInv
  <1> SUFFICES ASSUME MailInit, NEW w \in Workers
               PROVE  SignalOf(w, Signal(w))
    BY SignalAll
  <1>1. /\ files[Signal(w)] = NoFile /\ tmp[Signal(w)] = NoFile /\ taken[w] = <<>>
        /\ newest[w] = <<>> /\ w \in Processes
        /\ \A p \in Processes : pc[p] = "idle"
    BY FileFacts DEF MailInit
  <1>2. Held(Signal(w)) = <<>> /\ InCopy(Signal(w)) = {} /\ Reading(w) = {} /\ InText(<<>>) = {}
    BY <1>1, SignalFacts DEF Held, InCopy, Reading
  <1>3. QED BY <1>1, <1>2 DEF SignalOf, SignalApart, Signalling

LEMMA SignalSays ==
  ASSUME AllTypeOK, SignalInv
  PROVE  SignalTakenOnce
  <1> SUFFICES ASSUME NEW w \in Workers
               PROVE  /\ \A i, j \in 1 .. Len(taken[w]) : i # j => taken[w][i] # taken[w][j]
                      /\ InText(newest[w]) \subseteq
                           InText(Held(Signal(w))) \cup InText(taken[w]) \cup missed[w]
    BY DEF SignalTakenOnce
  <1>1. /\ \A i, j \in DOMAIN taken[w] : taken[w][i] = taken[w][j] => i = j
        /\ InText(newest[w]) \subseteq
             InText(Held(Signal(w))) \cup InText(taken[w]) \cup missed[w]
    BY DEF SignalInv
  <1>2. taken[w] \in Seq(1 .. sends)
    BY DEF AllTypeOK, HistoryTypeOK
  <1>3. DOMAIN taken[w] = 1 .. Len(taken[w])
    BY <1>2
  <1>4. QED BY <1>1, <1>3

-----------------------------------------------------------------------------
(* The theorems.                                                           *)

LEMMA TypesSplitNext == AllTypeOK' => MailTypeOK'
  BY DEF AllTypeOK, DiskTypeOK, ProcessTypeOK, HistoryTypeOK, MailTypeOK

LEMMA MailInvTypes ==
  ASSUME MailInv
  PROVE  AllTypeOK
  BY TypesSplit DEF MailInv, Stages

LEMMA MailInvInit == MailInit => MailInv
  <1> SUFFICES ASSUME MailInit
               PROVE  MailInv
    OBVIOUS
  <1>1. AllTypeOK /\ Stages
    BY StagesInit
  <1>2. MailTypeOK
    BY <1>1, TypesSplit
  <1>3. QED
    BY <1>1, <1>2, LinesInit, ReadInit, IdsInit, OrderInit, NewestInit, SignalInit DEF MailInv

LEMMA MailInvNext ==
  ASSUME MailInv, [MailNext]_mailVars
  PROVE  MailInv'
  <1>1. AllTypeOK
    BY MailInvTypes
  <1>2. /\ Stages /\ LinesInv /\ InboxInv /\ IdsInv /\ OrderInv /\ NewestInv /\ SignalInv
    BY DEF MailInv
  <1>3. AllTypeOK' /\ Leaves /\ Stages'
    BY <1>1, <1>2, StagesNext
  <1>4. LinesInv' /\ InboxInv' /\ IdsInv' /\ OrderInv' /\ NewestInv' /\ SignalInv'
    BY <1>1, <1>2, <1>3, LinesNext, ReadNext, IdsNext, OrderNext, NewestNext, SignalNext
  <1>5. MailTypeOK'
    BY <1>3, TypesSplitNext
  <1>6. QED BY <1>3, <1>4, <1>5 DEF MailInv

\* What the invariant says of mailboxes and signals.
LEMMA MailInvSays ==
  ASSUME MailInv
  PROVE  /\ MailTypeOK /\ ParsesUnlessSpoiled /\ ReadOrWaiting
         /\ ReceivedInOrder /\ KeepsNewest /\ SignalTakenOnce
  <1>1. AllTypeOK
    BY MailInvTypes
  <1>2. MailTypeOK /\ LinesInv /\ InboxInv /\ IdsInv /\ OrderInv /\ NewestInv /\ SignalInv
    BY DEF MailInv
  <1>3. ParsesUnlessSpoiled /\ ReadOrWaiting
    BY <1>2 DEF LinesInv, InboxInv, ParsesUnlessSpoiled
  <1>4. ReceivedInOrder /\ KeepsNewest /\ SignalTakenOnce
    BY <1>1, <1>2, OrderSays, NewestSays, SignalSays
  <1>5. QED BY <1>2, <1>3, <1>4

\* Whatever the processes do, and wherever they die: the places, descriptors,
\* texts and histories are what the other theorems take them to be.
THEOREM MailInvariant == MailSpec => []MailInv
  <1>1. ASSUME MailInv, [MailNext]_<<mailVars, budget>>
        PROVE  MailInv'
    <2>1. [MailNext]_mailVars
      BY <1>1
    <2>2. QED BY <1>1, <2>1, MailInvNext
  <1>2. QED BY <1>1, MailInvInit, PTL DEF MailSpec

\* For any leads, workers and messages, every variable has its type.
THEOREM MailTypeCorrect == MailSpec => []MailTypeOK
  <1>1. QED BY MailInvariant, MailInvSays, PTL

\* A mailbox parses as long as no two processes were writing a line of it at
\* once and none died in one: truncations and rotations break no line.
THEOREM LinesParse == MailSpec => []ParsesUnlessSpoiled
  <1>1. QED BY MailInvariant, MailInvSays, PTL

\* A message to a worker is in its inbox or was read, unless it was written
\* between a read and the truncation after it.
THEOREM MessagesKept == MailSpec => []ReadOrWaiting
  <1>1. QED BY MailInvariant, MailInvSays, PTL

\* Messages are read in the order they were written, and one that was received
\* and cleared does not come back.
THEOREM InOrder == MailSpec => []ReceivedInOrder
  <1>1. QED BY MailInvariant, MailInvSays, PTL

\* Rotations, however many and whenever they are cut off, leave an outbox with
\* its newest messages, in order.
THEOREM RotationsKeep == MailSpec => []KeepsNewest
  <1>1. QED BY MailInvariant, MailInvSays, PTL

\* No check returns a signal twice, and the last one published is pending,
\* returned, or replaced.
THEOREM SignalsTaken == MailSpec => []SignalTakenOnce
  <1>1. QED BY MailInvariant, MailInvSays, PTL
=============================================================================
