---------------------- MODULE TeamMailboxesProperties -----------------------
(***************************************************************************)
(* What the lead and the workers may rely on.                              *)
(***************************************************************************)
EXTENDS TeamMailboxes

MailPlaces == {"idle", "open", "line", "newline", "clear", "tmp", "copy", "rename",
           "stmp", "swrite", "srename", "sremove"}
Operations == [do : {"append", "receive", "rotate", "signal", "check"},
               id : 0 .. sends, file : Files \cup {None}]
Texts == Seq(0 .. sends)

\* Every variable has its type.
MailTypeOK ==
  /\ files \in [Files -> Texts \cup {NoFile}]
  /\ tmp \in [Files -> Texts \cup {NoFile}]
  /\ fd \in [Processes -> Handles]
  /\ pc \in [Processes -> MailPlaces]
  /\ op \in [Processes -> Operations \cup {None}]
  /\ to \in [Processes -> Seq(Mailboxes)]
  /\ text \in [Processes -> Texts]
  /\ sends \in Nat
  /\ appended \in [Mailboxes -> Seq(1 .. sends)]
  /\ got \in [Workers -> Seq(1 .. sends)]
  /\ done \in [Workers -> SUBSET (1 .. sends)]
  /\ late \in [Mailboxes -> SUBSET (1 .. sends)]
  /\ spoiled \subseteq Mailboxes
  /\ taken \in [Workers -> Seq(1 .. sends)]
  /\ newest \in [Workers -> Texts]
  /\ missed \in [Workers -> SUBSET (1 .. sends)]

Held(f) == IF files[f] = NoFile THEN <<>> ELSE files[f]

\* "Safe for concurrent writers": every line of a mailbox is one message.
EveryLineParses == \A f \in Mailboxes : Parses(Held(f))

\* A mailbox parses as long as no two processes were writing a line of it at
\* once and none died between a line and its newline, whatever truncations
\* and rotations fell between the writes.
ParsesUnlessSpoiled == \A f \in Mailboxes \ spoiled : Parses(Held(f))

Position(s, x) == CHOOSE i \in 1 .. Len(s) : s[i] = x

\* A message to a worker is in its inbox or has been read, or was written
\* between a read and the truncation after it.
ReadOrWaiting ==
  \A w \in Workers :
    \A m \in InText(appended[Inbox(w)]) :
      m \in InText(Held(Inbox(w))) \cup InText(got[w]) \cup late[Inbox(w)]

\* A worker reads messages in the order they were written, and one it has
\* received and cleared is never in its inbox again.
ReceivedInOrder ==
  \A w \in Workers :
    /\ \A i, j \in 1 .. Len(got[w]) :
         i < j => Position(appended[Inbox(w)], got[w][i])
                    < Position(appended[Inbox(w)], got[w][j])
    /\ done[w] \cap InText(Held(Inbox(w))) = {}

\* An outbox always holds the newest messages the worker wrote, at least as
\* many as a rotation keeps, in order: a rotation drops only older ones, and a
\* rotation cut off by a crash none.  Not so once a line was written during a
\* rotation, two rotations met, or a line was cut off.
KeepsNewest ==
  \A f \in Outboxes \ spoiled :
    late[f] = {} =>
      LET kept == Messages(Held(f))
          all == appended[f]
      IN  /\ Len(kept) >= Len(all) \/ Len(kept) >= MaxLines
          /\ kept = SubSeq(all, Len(all) - Len(kept) + 1, Len(all))

\* A check never returns a signal an earlier check returned, and the signal
\* published last is pending or has been returned, unless another replaced it
\* before a check or it was published in the middle of one.
SignalTakenOnce ==
  \A w \in Workers :
    /\ \A i, j \in 1 .. Len(taken[w]) : i # j => taken[w][i] # taken[w][j]
    /\ InText(newest[w]) \subseteq
         InText(Held(Signal(w))) \cup InText(taken[w]) \cup missed[w]
-----------------------------------------------------------------------------
(* Why: what each place of a process says of the rest, and the inductive   *)
(* invariants of the properties above.                                     *)

OneSignal == {<<i>> : i \in 1 .. sends}

StageOf(p) ==
  /\ pc[p] # "idle" => op[p] \in Operations
  /\ pc[p] \in {"open", "line", "newline"} =>
       /\ to[p] # <<>> /\ op[p].do = "append" /\ op[p].id # 0
       /\ p \in Workers => to[p] = <<Outbox(p)>>
       /\ p \in Leads => to[p] \in Seq(Inboxes)
  /\ pc[p] = "clear" => p \in Workers /\ op[p].do = "receive" /\ op[p].file = Inbox(p)
  /\ pc[p] \in {"tmp", "copy", "rename"} => op[p].do = "rotate" /\ op[p].file \in Outboxes
  /\ pc[p] \in {"stmp", "swrite", "srename"} =>
       p \in Leads /\ op[p].do = "signal" /\ op[p].id # 0 /\ op[p].file \in Signals
  /\ pc[p] = "sremove" =>
       p \in Workers /\ op[p].do = "check" /\ op[p].file = Signal(p) /\ text[p] \in OneSignal
  /\ CASE pc[p] \in {"line", "newline"} -> fd[p] \in {Closed, At("file", Head(to[p]))}
       [] pc[p] \in {"copy", "swrite"} ->
            fd[p] \in {Closed, At("file", op[p].file), At("tmp", op[p].file)}
       [] OTHER -> fd[p] = Closed

\* A name with an open descriptor has a file.
Opens ==
  \A p \in Processes, f \in Files :
    /\ fd[p] = At("file", f) => files[f] # NoFile
    /\ fd[p] = At("tmp", f) => tmp[f] # NoFile

\* The files of a signal hold one or are just created.
Signalled ==
  \A w \in Workers :
    /\ {files[Signal(w)], tmp[Signal(w)]} \subseteq OneSignal \cup {<<>>, NoFile}
    /\ newest[w] \in OneSignal \cup {<<>>}

Stages == Opens /\ Signalled /\ \A p \in Processes : StageOf(p)

\* p has written a line of mailbox f, and not yet its newline.
InLine(p, f) == pc[p] = "newline" /\ Head(to[p]) = f

\* p is replacing mailbox f.
Replacing(p, f) == pc[p] \in {"tmp", "copy", "rename"} /\ op[p].file = f

\* A mailbox nobody has spoiled has one writer in a line, who alone may leave
\* it unfinished, and one process replacing it, by a finished text.
LinesInv ==
  \A f \in Mailboxes \ spoiled :
    /\ Parses(Held(f))
    /\ \A p, q \in Processes : InLine(p, f) /\ InLine(q, f) => p = q
    /\ Unfinished(Held(f)) => \E p \in Processes : InLine(p, f) /\ fd[p] = At("file", f)
    /\ \A p, q \in Processes : Replacing(p, f) /\ Replacing(q, f) => p = q
    /\ \A p \in Processes : Replacing(p, f) =>
         /\ Parses(text[p]) /\ ~ Unfinished(text[p])
         /\ pc[p] = "copy" => fd[p] = At("tmp", f) /\ tmp[f] = <<>>
         /\ pc[p] = "rename" => tmp[f] = text[p]

\* What a worker is about to clear it has read, or it came late.
InboxInv ==
  /\ ReadOrWaiting
  /\ \A w \in Workers : pc[w] = "clear" =>
       InText(Held(Inbox(w))) \subseteq InText(got[w]) \cup late[Inbox(w)]

\* The files p has not yet written its message to.
Unwritten(p) ==
  IF pc[p] \in {"open", "line"} THEN DOMAIN to[p]
  ELSE IF pc[p] = "newline" THEN DOMAIN to[p] \ {1} ELSE {}

\* Ids are given once, and a message is written to each file once.
Numbered(p) == pc[p] \in {"open", "line", "newline", "stmp", "swrite", "srename"}

IdsInv ==
  /\ \A p, q \in Processes :
       Numbered(p) /\ Numbered(q) /\ op[p].id = op[q].id => p = q
  /\ \A p \in Processes :
       /\ \A i, j \in DOMAIN to[p] : to[p][i] = to[p][j] => i = j
       /\ \A i \in Unwritten(p) : op[p].id \notin InText(appended[to[p][i]])
  /\ \A f \in Mailboxes : \A i, j \in DOMAIN appended[f] :
       appended[f][i] = appended[f][j] => i = j

\* The messages of an inbox and those read, by where they were written.
Before(f, x, y) ==
  \E i, j \in DOMAIN appended[f] : appended[f][i] = x /\ appended[f][j] = y /\ i < j

OrderInv ==
  \A w \in Workers :
    LET f == Inbox(w)
    IN  /\ InText(Held(f)) \cup InText(got[w]) \cup done[w] \subseteq InText(appended[f])
        /\ pc[w] = "clear" => InText(text[w]) \subseteq InText(appended[f])
        /\ \A i, j \in DOMAIN Held(f) :
             i < j /\ Held(f)[i] # Newline /\ Held(f)[j] # Newline
               => Before(f, Held(f)[i], Held(f)[j])
        /\ \A i, j \in DOMAIN got[w] : i < j => Before(f, got[w][i], got[w][j])
        /\ \A x \in InText(got[w]), y \in InText(Held(f)) :
             Before(f, y, x) => y \in InText(got[w])
        /\ done[w] \cap InText(Held(f)) = {}

\* A text of whole lines, but perhaps for the last newline.
Alternates(t) == \A i \in DOMAIN t : t[i] = Newline <=> i % 2 = 0

\* Its messages are the last of s, and not too few.
EndsLike(t, s) ==
  LET n == (Len(t) + 1) \div 2
  IN  /\ n <= Len(s) /\ (n = Len(s) \/ n >= MaxLines)
      /\ \A k \in 1 .. n : t[2 * k - 1] = s[Len(s) - n + k]

NewestInv ==
  \A f \in Outboxes \ spoiled : late[f] = {} =>
    /\ Alternates(Held(f)) /\ EndsLike(Held(f), appended[f])
    /\ \A p \in Processes :
         /\ InLine(p, f) /\ fd[p] = At("file", f) => Len(Held(f)) % 2 = 1
         /\ Replacing(p, f) => /\ Alternates(text[p]) /\ EndsLike(text[p], appended[f])
                               /\ Len(text[p]) % 2 = 0

\* The id of a signal is in one place, once it is written.
SignalInv ==
  \A w \in Workers :
    LET s == Signal(w)
        read == IF pc[w] = "sremove" THEN InText(text[w]) ELSE {}
        held == InText(Held(s))
        next == IF tmp[s] = NoFile THEN {} ELSE InText(tmp[s])
    IN  /\ held \cap next = {} /\ InText(taken[w]) \cap (held \cup next \cup read) = {}
        /\ read \cap next = {}
        /\ \A p \in Processes : pc[p] \in {"stmp", "swrite"} /\ op[p].file = s =>
             op[p].id \notin held \cup next \cup read \cup InText(taken[w])
        /\ \A i, j \in DOMAIN taken[w] : taken[w][i] = taken[w][j] => i = j
        /\ InText(newest[w]) \subseteq held \cup InText(taken[w]) \cup missed[w]
        /\ pc[w] = "sremove" => held \subseteq read \cup missed[w]

MailInv ==
  /\ MailTypeOK /\ Stages /\ LinesInv /\ InboxInv /\ IdsInv /\ OrderInv /\ NewestInv
  /\ SignalInv
=============================================================================
