---------------------------- MODULE TeamMailboxes ---------------------------
(***************************************************************************)
(* The files through which the lead and the workers of a team talk         *)
(* (omc-team/src/communication): an inbox and an outbox per worker, which  *)
(* are JSON lines, and a shutdown signal, which is a file of its own.      *)
(*                                                                         *)
(* Leads append to inboxes, write signals and read outboxes; a worker      *)
(* reads its inbox and clears it, appends to its outbox and checks its     *)
(* signal; anyone may rotate an outbox.  Each is a process, each access to *)
(* a file an action.  `writeln!` on a file writes the line and its newline *)
(* with two writes, so a text is a sequence of messages and newlines.      *)
(***************************************************************************)
EXTENDS TeamBounds, Selection, Integers

CONSTANTS
  Leads,         \* processes on the lead's side
  Workers,       \* the workers, each one process
  MaxLines,      \* how many lines a rotation keeps
  NoFile,        \* see FileSystem
  None           \* no operation, no signal

ASSUME MailAssumption ==
  /\ Leads \cap Workers = {} /\ IsFiniteSet(Workers)
  /\ MaxLines \in Nat
  /\ NoFile \notin Nat /\ NoFile \notin Seq(Nat)
  /\ {"send", "broadcast", "report", "rotate", "signal", "crash"} \subseteq Kinds

Processes == Leads \cup Workers

Inbox(w)  == <<"inbox", w>>
Outbox(w) == <<"outbox", w>>
Signal(w) == <<"signal", w>>
Inboxes   == {Inbox(w) : w \in Workers}
Outboxes  == {Outbox(w) : w \in Workers}
Signals   == {Signal(w) : w \in Workers}
Mailboxes == Inboxes \cup Outboxes
Files     == Mailboxes \cup Signals

VARIABLES
  files, tmp, fd,  \* see FileSystem
  op,         \* the operation each process is in, or None
  pc,         \* where in that operation it is
  to,         \* the files its message has not been written to
  text,       \* what it has read
  sends,      \* how many messages and signals have been made: the next id
  appended,   \* history: the messages in the order their lines were written
  got,        \* history: the messages each worker has read, in that order
  done,       \* history: those whose receive it has finished
  late,       \* history: messages written between a read and what follows it
  spoiled,    \* history: the mailboxes whose writers met or were cut off
  taken,      \* history: the signals each worker's checks have returned
  newest,     \* history: the content last published as each worker's signal
  missed      \* history: the signals replaced, or published during a check

INSTANCE FileSystem WITH Empty <- <<>>

process == <<op, pc, to, text>>
history == <<appended, got, done, late, spoiled, taken, newest,
             missed>>
mailVars == <<files, tmp, fd, op, pc, to, text, sends, appended, got, done, late,
              spoiled, taken, newest, missed>>

-----------------------------------------------------------------------------
(* Texts.                                                                  *)

Newline == 0
Ends(t) == {i \in 1 .. Len(t) : t[i] = Newline}
Unfinished(t) == t # <<>> /\ t[Len(t)] # Newline

\* read_jsonl: every line must parse; blank ones are skipped.
Parses(t) == \A i \in 1 .. Len(t) - 1 : t[i] # Newline => t[i + 1] = Newline
Messages(t) == Kept(t, {i \in 1 .. Len(t) : t[i] # Newline})
InText(t) == {t[i] : i \in 1 .. Len(t)} \ {Newline}

\* What rotate_outbox keeps of a text with more than MaxLines lines.
Lines(t) == Cardinality(Ends(t)) + (IF Unfinished(t) THEN 1 ELSE 0)

\* Faulty: one line too many is dropped.
NewestButOne(t) ==
  LET dropped == Cardinality(Ends(t)) - MaxLines + 1
      cut == Nth(Ends(t), dropped)
  IN  IF MaxLines = 0 THEN <<>> ELSE SubSeq(t, cut + 1, Len(t))

\* Faulty: the last line does not get its newline.
NewestAsIs(t) ==
  LET dropped == Lines(t) - MaxLines
      cut == Nth(Ends(t), dropped)
  IN  IF MaxLines = 0 THEN <<>> ELSE SubSeq(t, cut + 1, Len(t))

Newest(t) ==
  LET dropped == Lines(t) - MaxLines
      cut == Nth(Ends(t), dropped)
      kept == SubSeq(t, cut + 1, Len(t))
  IN  IF MaxLines = 0 THEN <<>>
      ELSE IF Unfinished(t) THEN Append(kept, Newline) ELSE kept

-----------------------------------------------------------------------------
MailInit ==
  /\ files = [f \in Files |-> NoFile]
  /\ tmp = [f \in Files |-> NoFile]
  /\ fd = [p \in Processes |-> Closed]
  /\ op = [p \in Processes |-> None]
  /\ pc = [p \in Processes |-> "idle"]
  /\ to = [p \in Processes |-> <<>>]
  /\ text = [p \in Processes |-> <<>>]
  /\ sends = 0
  /\ appended = [f \in Mailboxes |-> <<>>]
  /\ got = [w \in Workers |-> <<>>]
  /\ done = [w \in Workers |-> {}]
  /\ late = [f \in Mailboxes |-> {}]
  /\ spoiled = {}
  /\ taken = [w \in Workers |-> <<>>]
  /\ newest = [w \in Workers |-> <<>>]
  /\ missed = [w \in Workers |-> {}]

Goto(p, place) == pc' = [pc EXCEPT ![p] = place]

Begin(p, o, place) ==
  /\ pc[p] = "idle"
  /\ op' = [op EXCEPT ![p] = o]
  /\ Goto(p, place)

Finish(p) ==
  /\ op' = [op EXCEPT ![p] = None]
  /\ Goto(p, "idle")
  /\ to' = [to EXCEPT ![p] = <<>>]
  /\ text' = [text EXCEPT ![p] = <<>>]

\* Processes between reading mailbox f and clearing or replacing it.
After(f) == {p \in Processes : pc[p] \in {"clear", "tmp", "copy", "rename"}
                                 /\ op[p].file = f}

-----------------------------------------------------------------------------
(* Appending a message: write_inbox, broadcast and write_outbox.           *)

\* A broadcast to no workers writes nothing.
StartAppend(p) ==
  /\ \/ \E w \in Workers : /\ p \in Leads /\ Spend("send")
                           /\ to' = [to EXCEPT ![p] = <<Inbox(w)>>]
     \/ /\ p \in Leads /\ Workers # {} /\ Spend("broadcast")
        /\ \E order \in [1 .. Cardinality(Workers) -> Workers] :
             /\ \A w \in Workers : \E i \in DOMAIN order : order[i] = w
             /\ to' = [to EXCEPT ![p] = [i \in DOMAIN order |-> Inbox(order[i])]]
     \/ /\ p \in Workers /\ Spend("report")
        /\ to' = [to EXCEPT ![p] = <<Outbox(p)>>]
  /\ sends' = sends + 1
  /\ Begin(p, [do |-> "append", id |-> sends + 1, file |-> None], "open")
  /\ UNCHANGED <<files, tmp, fd, text, history>>

\* Faulty: the file is truncated.
OpenMailboxTruncating(p) ==
  /\ pc[p] = "open"
  /\ OpenFile(p, Head(to[p]))
  /\ Goto(p, "line")
  /\ UNCHANGED <<op, to, text, sends, budget, history>>

OpenMailbox(p) ==
  /\ pc[p] = "open"
  /\ OpenAppend(p, Head(to[p]))
  /\ Goto(p, "line")
  /\ UNCHANGED <<op, to, text, sends, budget, history>>

\* The line; the newline is a write of its own.
PutLine(p) ==
  /\ pc[p] = "line"
  /\ LET f == Head(to[p])
         m == op[p].id
     IN  /\ Extend(p, f, <<m>>)
         /\ appended' = [appended EXCEPT ![f] = Append(@, m)]
         /\ late' = IF After(f) # {} \/ fd[p] = Closed
                    THEN [late EXCEPT ![f] = @ \cup {m}] ELSE late
         /\ spoiled' = IF \E q \in Processes \ {p} :
                            pc[q] = "newline" /\ Head(to[q]) = f
                       THEN spoiled \cup {f} ELSE spoiled
  /\ Goto(p, "newline")
  /\ UNCHANGED <<fd, op, to, text, sends, budget, got, done, taken,
                 newest, missed>>

PutNewline(p) ==
  /\ pc[p] = "newline"
  /\ LET f == Head(to[p])
     IN  Put(p, f, Append(Behind(p, f), Newline))
  /\ IF Len(to[p]) > 1
     THEN /\ to' = [to EXCEPT ![p] = Tail(@)]
          /\ Goto(p, "open")
          /\ UNCHANGED <<op, text>>
     ELSE Finish(p)
  /\ UNCHANGED <<sends, budget, history>>

-----------------------------------------------------------------------------
(* A worker's receive: read_inbox, then clear_inbox.                       *)

IsNew(w, x) == \A i \in 1 .. Len(got[w]) : got[w][i] # x

\* A line that does not parse fails the whole read, and nothing is cleared.
ReadInbox(w) ==
  LET f == Inbox(w)
      fresh == {i \in 1 .. Len(files[f]) :
                  files[f][i] # Newline /\ IsNew(w, files[f][i])}
  IN  /\ files[f] # NoFile /\ files[f] # <<>>
      /\ Parses(files[f])
      /\ Begin(w, [do |-> "receive", id |-> 0, file |-> f], "clear")
      /\ text' = [text EXCEPT ![w] = files[f]]
      /\ got' = [got EXCEPT ![w] = @ \o Kept(files[f], fresh)]
      /\ UNCHANGED <<files, tmp, fd, to, sends, budget, appended, done, late,
                     spoiled, taken, newest, missed>>

\* Faulty: the inbox is left as it is.
ClearNothing(w) ==
  /\ pc[w] = "clear"
  /\ done' = [done EXCEPT ![w] = @ \cup InText(text[w])]
  /\ Finish(w)
  /\ UNCHANGED <<files, tmp, fd, sends, budget, appended, got, late, spoiled,
                 taken, newest, missed>>

ClearInbox(w) ==
  /\ pc[w] = "clear"
  /\ files' = [files EXCEPT ![Inbox(w)] = <<>>]
  /\ done' = [done EXCEPT ![w] = @ \cup InText(text[w])]
  /\ Finish(w)
  /\ UNCHANGED <<tmp, fd, sends, budget, appended, got, late, spoiled, taken,
                 newest, missed>>

-----------------------------------------------------------------------------
(* rotate_outbox: read, copy the newest lines, rename over the original.   *)

ReadOutbox(p) ==
  \E f \in Outboxes :
    /\ files[f] # NoFile
    /\ Lines(files[f]) > MaxLines
    /\ Spend("rotate")
    /\ Begin(p, [do |-> "rotate", id |-> 0, file |-> f], "tmp")
    /\ text' = [text EXCEPT ![p] = Newest(files[f])]
    /\ spoiled' = IF \E q \in After(f) : q # p THEN spoiled \cup {f} ELSE spoiled
    /\ UNCHANGED <<files, tmp, fd, to, sends, appended, got, done, late, taken,
                   newest, missed>>

OpenCopy(p) ==
  /\ pc[p] = "tmp"
  /\ OpenTmp(p, op[p].file)
  /\ Goto(p, "copy")
  /\ UNCHANGED <<op, to, text, sends, budget, history>>

\* Over a copy another process has written, the longer one keeps its end.
WriteCopy(p) ==
  /\ pc[p] = "copy"
  /\ LET f == op[p].file
         old == Behind(p, f)
     IN  Put(p, f, IF Len(old) <= Len(text[p]) THEN text[p]
                   ELSE text[p] \o SubSeq(old, Len(text[p]) + 1, Len(old)))
  /\ Goto(p, "rename")
  /\ UNCHANGED <<op, to, text, sends, budget, history>>

RenameCopy(p) ==
  /\ pc[p] = "rename"
  /\ IF tmp[op[p].file] # NoFile THEN RenameTmp(op[p].file)
     ELSE UNCHANGED <<files, tmp, fd>>
  /\ Finish(p)
  /\ UNCHANGED <<sends, budget, history>>

-----------------------------------------------------------------------------
(* The shutdown signal: atomic_write_json and read_and_consume_signal.     *)

StartSignal(p) ==
  \E w \in Workers :
    /\ p \in Leads /\ Spend("signal")
    /\ sends' = sends + 1
    /\ Begin(p, [do |-> "signal", id |-> sends + 1, file |-> Signal(w)], "stmp")
    /\ UNCHANGED <<files, tmp, fd, to, text, history>>

OpenSignal(p) ==
  /\ pc[p] = "stmp"
  /\ OpenTmp(p, op[p].file)
  /\ Goto(p, "swrite")
  /\ UNCHANGED <<op, to, text, sends, budget, history>>

\* History: a content appears under the name of w's signal, in place of another
\* perhaps, or while a check is between reading the file and removing it.
Publish(w, appears, t) ==
  LET f == Signal(w)
      replaced == IF files[f] = NoFile THEN {} ELSE InText(files[f])
      unseen == IF pc[w] = "sremove" THEN InText(t) ELSE {}
  IN  IF appears
      THEN /\ missed' = [missed EXCEPT ![w] = @ \cup replaced \cup unseen]
           /\ newest' = [newest EXCEPT ![w] = t]
      ELSE UNCHANGED <<missed, newest>>

\* Signals are of one length: what was there is overwritten.
WriteSignal(p) ==
  /\ pc[p] = "swrite"
  /\ Put(p, op[p].file, <<op[p].id>>)
  /\ Publish(op[p].file[2], fd[p] = At("file", op[p].file), <<op[p].id>>)
  /\ Goto(p, "srename")
  /\ UNCHANGED <<op, to, text, sends, budget, appended, got, done, late, spoiled,
                 taken>>

RenameSignal(p) ==
  /\ pc[p] = "srename"
  /\ LET f == op[p].file
     IN  /\ Publish(f[2], tmp[f] # NoFile, tmp[f])
         /\ IF tmp[f] # NoFile THEN RenameTmp(f)
            ELSE UNCHANGED <<files, tmp, fd>>
  /\ Finish(p)
  /\ UNCHANGED <<sends, budget, appended, got, done, late, spoiled, taken>>

\* A signal that does not parse is an error, and stays.
ReadSignal(w) ==
  /\ files[Signal(w)] \notin {NoFile, <<>>}
  /\ Begin(w, [do |-> "check", id |-> 0, file |-> Signal(w)], "sremove")
  /\ text' = [text EXCEPT ![w] = files[Signal(w)]]
  /\ UNCHANGED <<files, tmp, fd, to, sends, budget, history>>

\* Faulty: the signal is left in place.
KeepSignal(w) ==
  /\ pc[w] = "sremove"
  /\ taken' = [taken EXCEPT ![w] = @ \o text[w]]
  /\ Finish(w)
  /\ UNCHANGED <<files, tmp, fd, sends, budget, appended, got, done, late,
                 spoiled, newest, missed>>

RemoveSignal(w) ==
  /\ pc[w] = "sremove"
  /\ RemoveFile(Signal(w))
  /\ taken' = [taken EXCEPT ![w] = @ \o text[w]]
  /\ Finish(w)
  /\ UNCHANGED <<sends, budget, appended, got, done, late, spoiled, newest,
                 missed>>

-----------------------------------------------------------------------------
\* A process dies; a line without its newline stays as it is.
Crash(p) ==
  /\ pc[p] # "idle"
  /\ Spend("crash")
  /\ Drop(p)
  /\ Finish(p)
  /\ spoiled' = IF pc[p] = "newline" THEN spoiled \cup {Head(to[p])} ELSE spoiled
  /\ UNCHANGED <<sends, appended, got, done, late, taken, newest, missed>>

MailNext ==
  \/ \E p \in Processes :
       \/ StartAppend(p) \/ OpenMailbox(p) \/ PutLine(p) \/ PutNewline(p)
       \/ ReadOutbox(p) \/ OpenCopy(p) \/ WriteCopy(p) \/ RenameCopy(p)
       \/ StartSignal(p) \/ OpenSignal(p) \/ WriteSignal(p) \/ RenameSignal(p)
       \/ Crash(p)
  \/ \E w \in Workers :
       ReadInbox(w) \/ ClearInbox(w) \/ ReadSignal(w) \/ RemoveSignal(w)

MailSpec ==
  MailInit /\ budget \in Budgets /\ [][MailNext]_<<mailVars, budget>>
=============================================================================
