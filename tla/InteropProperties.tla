-------------------------- MODULE InteropProperties -------------------------
(***************************************************************************)
(* What omc and omx may rely on when they share files without a lock.      *)
(***************************************************************************)
EXTENDS Interop

\* Every variable has its type.
InteropTypeOK ==
  /\ DOMAIN shared = InteropFiles
  /\ \A f \in InteropFiles : shared[f] \in ContentsOf(f) \cup {Absent, Blank, Mixed}
  /\ handle \in [Hosts -> Disk!Handles]
  /\ job \in [Hosts -> HostJobs \cup {NoJob}]
  /\ DOMAIN image = Hosts
  /\ rest \in [Hosts -> SUBSET InteropFiles]
  /\ made \subseteq SharedFiles
  /\ mails \in Nat
  /\ events \subseteq OmxWorkers \X (1 .. mails)
  /\ delivered \in [OmxWorkers -> Seq(1 .. mails)]
  /\ marked \subseteq SharedFiles
  /\ spoilt \subseteq InteropFiles
  /\ cleaned \subseteq SharedFiles

BeingWritten(f) == \E h \in Hosts : Stage(h, "write") /\ job[h].file = f

\* A mailbox holds every message written to it, in order, and each event in
\* the log is about one of them; unless two hosts sent to it at once or one
\* died while it wrote it, whatever happened to the other mailboxes of a
\* broadcast.
MailboxKeepsAll ==
  \A w \in OmxWorkers \ spoilt :
    /\ \/ shared[w] = delivered[w]
       \/ shared[w] = Absent /\ delivered[w] = <<>>
       \/ BeingWritten(w)
    /\ \A n \in 1 .. mails :
         <<w, n>> \in events => \E i \in 1 .. Len(delivered[w]) : delivered[w][i] = n

\* Whatever two hosts do at once, a message once marked as read is never
\* unread again.  And as long as no two calls change a file at once, a task
\* once closed keeps the time it was closed, a file that a cleanup removed
\* stays away, and each file is whole but while it is written.
SharedRecordsHold ==
  /\ \A m \in marked \cap SharedMessages : IsWhole(m) => shared[m].read
  /\ \A f \in SharedFiles \ spoilt :
       /\ f \in marked \cap SharedTasks /\ IsWhole(f) => shared[f].closed
       /\ f \in cleaned => shared[f] = Absent
       /\ IsWhole(f) \/ shared[f] = Absent \/ BeingWritten(f)
=============================================================================
