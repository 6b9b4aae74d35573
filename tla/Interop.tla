------------------------------- MODULE Interop ------------------------------
(***************************************************************************)
(* The files through which omc and omx, another team of agents, work       *)
(* together (omc-interop): shared tasks and messages, a file each, and the *)
(* mailboxes of omx workers, with a log of events.                         *)
(*                                                                         *)
(* Hosts on both sides call the functions; each access to a file is an     *)
(* action.  Files are written in place, which truncates them first.  What  *)
(* omx itself does to its mailboxes is not part of this repository.        *)
(***************************************************************************)
EXTENDS TeamBounds, Integers, Sequences, FiniteSets

CONSTANTS
  Hosts,                       \* the processes of either side
  SharedTasks, SharedMessages, \* the ids that may be generated
  OmxWorkers,                  \* omx workers, each with a mailbox
  Absent, Blank,               \* no file, a file just truncated
  Mixed,                       \* JSON with the rest of a longer one behind it
  NoJob                        \* a host with nothing to do

SharedFiles == SharedTasks \cup SharedMessages
InteropFiles == SharedFiles \cup OmxWorkers

TaskStates == {"Pending", "InProgress", "Completed", "Failed"}
TaskRecords == [status : TaskStates, closed : BOOLEAN]
MessageRecords == [read : BOOLEAN]
Mail == Seq(Nat)

ContentsOf(f) ==
  IF f \in SharedTasks THEN TaskRecords
  ELSE IF f \in SharedMessages THEN MessageRecords ELSE Mail

\* What a host may be doing: to which file, and where in that it is.
HostJobs ==
  [do : {"add", "update", "mark", "cleanup", "omx"},
   file : InteropFiles \cup {Absent},
   at : {"next", "open", "write", "event", "delete"}]

ASSUME InteropAssumption ==
  /\ SharedTasks \cap SharedMessages = {} /\ SharedFiles \cap OmxWorkers = {}
  /\ IsFiniteSet(OmxWorkers)
  /\ \A f \in InteropFiles : {Absent, Blank, Mixed} \cap ContentsOf(f) = {}
  /\ Blank # Absent /\ Mixed \notin {Absent, Blank}
  /\ NoJob \notin HostJobs
  /\ {"share", "update", "readmail", "cleanup", "omx", "hostcrash"} \subseteq Kinds

VARIABLES
  shared,     \* the content of each file
  handle,     \* the file each host has open for writing
  job,        \* what each host does, to which file, and where in that it is
  image,      \* the content it is about to write
  rest,       \* the files it has not come to
  made,       \* the ids that have been generated
  mails,      \* how many omx messages there have been: the id of the last
  events,     \* events.ndjson
  delivered,  \* history: the messages written to each mailbox, in order
  marked,     \* history: messages written as read, tasks written as closed
  spoilt,     \* history: the files that two hosts changed at once, or a crash cut
  cleaned     \* history: the files that cleanups have removed

interopVars == <<shared, handle, job, image, rest, made, mails, events, delivered,
                 marked, spoilt, cleaned>>

Disk == INSTANCE FileSystem WITH
  Files <- InteropFiles, NoFile <- Absent, Empty <- Blank,
  files <- shared, tmp <- <<>>, fd <- handle

InteropInit ==
  /\ shared = [f \in InteropFiles |-> Absent]
  /\ handle = [h \in Hosts |-> Disk!Closed]
  /\ job = [h \in Hosts |-> NoJob]
  /\ image = [h \in Hosts |-> Absent]
  /\ rest = [h \in Hosts |-> {}]
  /\ made = {}
  /\ mails = 0
  /\ events = {}
  /\ delivered = [w \in OmxWorkers |-> <<>>]
  /\ marked = {}
  /\ spoilt = {}
  /\ cleaned = {}

IsWhole(f) == shared[f] \in ContentsOf(f)
Stage(h, place) == job[h] # NoJob /\ job[h].at = place
SetJob(h, kind, f, place) ==
  job' = [job EXCEPT ![h] = [do |-> kind, file |-> f, at |-> place]]

\* The files a host has read and may still write or remove.
Holds(h) == IF job[h] # NoJob /\ job[h].at \in {"open", "write", "delete", "event"}
            THEN {job[h].file} ELSE {}

\* History: host h comes to hold f.
Meet(h, f) ==
  spoilt' = IF \E g \in Hosts \ {h} : f \in Holds(g) THEN spoilt \cup {f} ELSE spoilt

EndJob(h) ==
  /\ job' = [job EXCEPT ![h] = NoJob]
  /\ image' = [image EXCEPT ![h] = Absent]
  /\ rest' = [rest EXCEPT ![h] = {}]

Prepare(h, kind, f, content) ==
  /\ SetJob(h, kind, f, "open")
  /\ image' = [image EXCEPT ![h] = content]
  /\ Meet(h, f)

-----------------------------------------------------------------------------
(* Shared tasks and messages.                                              *)

\* add_shared_task and add_shared_message, under an id never used before.
Add(h) ==
  /\ job[h] = NoJob
  /\ Spend("share")
  /\ \E f \in SharedFiles \ made :
       /\ made' = made \cup {f}
       /\ Prepare(h, "add", f,
            IF f \in SharedTasks THEN [status |-> "Pending", closed |-> FALSE]
            ELSE [read |-> FALSE])
  /\ UNCHANGED <<shared, handle, rest, mails, events, delivered, marked, cleaned>>

Final(s) == s \in {"Completed", "Failed"}

\* update_shared_task: the file exists and parses, or nothing changes.
Update(h) ==
  /\ job[h] = NoJob
  /\ Spend("update")
  /\ \E t \in SharedTasks, s \in TaskStates :
       /\ IsWhole(t)
       /\ Prepare(h, "update", t,
            [status |-> s, closed |-> shared[t].closed \/ Final(s)])
  /\ UNCHANGED <<shared, handle, rest, made, mails, events, delivered, marked, cleaned>>

\* interop_read_messages with mark_as_read: it lists some of the messages that
\* parse, of either side, read or not, and then marks one after the other.
ReadMessages(h) ==
  /\ job[h] = NoJob
  /\ Spend("readmail")
  /\ \E listed \in (SUBSET {m \in SharedMessages : IsWhole(m)}) \ {{}} :
       rest' = [rest EXCEPT ![h] = listed]
  /\ SetJob(h, "mark", Absent, "next")
  /\ UNCHANGED <<shared, handle, image, made, mails, events, delivered, marked, spoilt,
                 cleaned>>

\* Faulty: it does not look again whether the message is still there.
MarkListed(h) ==
  /\ Stage(h, "next") /\ job[h].do = "mark"
  /\ \E m \in rest[h] :
       /\ rest' = [rest EXCEPT ![h] = @ \ {m}]
       /\ Prepare(h, "mark", m, [read |-> TRUE])
  /\ UNCHANGED <<shared, handle, made, mails, events, delivered, marked, cleaned>>

\* mark_message_as_read; its errors are ignored.
Mark(h) ==
  /\ Stage(h, "next") /\ job[h].do = "mark"
  /\ \E m \in rest[h] :
       /\ rest' = [rest EXCEPT ![h] = @ \ {m}]
       /\ IF IsWhole(m) THEN Prepare(h, "mark", m, [read |-> TRUE])
          ELSE UNCHANGED <<job, image, spoilt>>
  /\ UNCHANGED <<shared, handle, made, mails, events, delivered, marked, cleaned>>

\* cleanup_interop of tasks, messages or both, those old enough.
Cleanup(h) ==
  /\ job[h] = NoJob
  /\ Spend("cleanup")
  /\ \E old \in (SUBSET {f \in SharedFiles : shared[f] # Absent}) \ {{}} :
       rest' = [rest EXCEPT ![h] = old]
  /\ SetJob(h, "cleanup", Absent, "next")
  /\ UNCHANGED <<shared, handle, image, made, mails, events, delivered, marked, spoilt,
                 cleaned>>

\* A file that does not parse is passed over.
Look(h) ==
  /\ Stage(h, "next") /\ job[h].do = "cleanup"
  /\ \E f \in rest[h] :
       /\ rest' = [rest EXCEPT ![h] = @ \ {f}]
       /\ IF IsWhole(f) THEN SetJob(h, "cleanup", f, "delete") /\ Meet(h, f)
          ELSE UNCHANGED <<job, spoilt>>
  /\ UNCHANGED <<shared, handle, image, made, mails, events, delivered, marked, cleaned>>

\* One that is gone in the meantime ends the whole cleanup with an error.
Delete(h) ==
  /\ Stage(h, "delete")
  /\ LET f == job[h].file
     IN  \/ /\ shared[f] # Absent
            /\ Disk!RemoveFile(f)
            /\ cleaned' = cleaned \cup {f}
            /\ SetJob(h, "cleanup", Absent, "next")
            /\ UNCHANGED <<image, rest>>
         \/ /\ shared[f] = Absent
            /\ EndJob(h)
            /\ UNCHANGED <<shared, handle, cleaned>>
  /\ UNCHANGED <<made, mails, events, delivered, marked, spoilt>>

-----------------------------------------------------------------------------
(* Mailboxes of omx workers.                                               *)

\* send_omx_direct_message to one worker, or broadcast_omx_message to all but
\* the sender.
SendOmx(h) ==
  /\ job[h] = NoJob
  /\ Spend("omx")
  /\ \E to \in {{w} : w \in OmxWorkers} \cup {OmxWorkers} :
       rest' = [rest EXCEPT ![h] = to]
  /\ SetJob(h, "omx", Absent, "next")
  /\ UNCHANGED <<shared, handle, image, made, mails, events, delivered, marked, spoilt,
                 cleaned>>

\* Faulty: the mailbox starts with this message.
ReadNoMailbox(h) ==
  /\ Stage(h, "next") /\ job[h].do = "omx"
  /\ \E w \in rest[h] :
       /\ rest' = [rest EXCEPT ![h] = @ \ {w}]
       /\ Prepare(h, "omx", w, <<mails + 1>>)
  /\ mails' = mails + 1
  /\ UNCHANGED <<shared, handle, made, events, delivered, marked, cleaned>>

\* A mailbox that is missing or does not parse counts as empty.
ReadMailbox(h) ==
  /\ Stage(h, "next") /\ job[h].do = "omx"
  /\ \E w \in rest[h] :
       /\ rest' = [rest EXCEPT ![h] = @ \ {w}]
       /\ Prepare(h, "omx", w,
            Append(IF IsWhole(w) THEN shared[w] ELSE <<>>, mails + 1))
  /\ mails' = mails + 1
  /\ UNCHANGED <<shared, handle, made, events, delivered, marked, cleaned>>

LogEvent(h) ==
  /\ Stage(h, "event")
  /\ LET box == image[h]
     IN  events' = events \cup {<<job[h].file, box[Len(box)]>>}
  /\ SetJob(h, "omx", Absent, "next")
  /\ UNCHANGED <<shared, handle, image, rest, made, mails, delivered, marked, spoilt, cleaned>>

-----------------------------------------------------------------------------
(* fs::write, and the end of a job.                                        *)

OpenShared(h) ==
  /\ Stage(h, "open")
  /\ Disk!OpenFile(h, job[h].file)
  /\ SetJob(h, job[h].do, job[h].file, "write")
  /\ UNCHANGED <<image, rest, made, mails, events, delivered, marked, spoilt, cleaned>>

\* Over another content the longer one keeps its end.
WriteShared(h) ==
  /\ Stage(h, "write")
  /\ LET f == job[h].file
         old == Disk!Behind(h, f)
     IN  /\ \E x \in IF old \in {Blank, image[h]} THEN {image[h]}
                     ELSE {image[h], Mixed} : Disk!Put(h, f, x)
         /\ delivered' = IF f \notin OmxWorkers THEN delivered
              ELSE [delivered EXCEPT ![f] = Append(@, image[h][Len(image[h])])]
         /\ marked' = IF \/ f \in SharedMessages /\ image[h].read
                         \/ f \in SharedTasks /\ image[h].closed
                      THEN marked \cup {f} ELSE marked
         /\ SetJob(h, job[h].do, f, IF job[h].do = "omx" THEN "event" ELSE "next")
  /\ UNCHANGED <<image, rest, made, mails, events, spoilt, cleaned>>

Done(h) ==
  /\ Stage(h, "next") /\ rest[h] = {}
  /\ EndJob(h)
  /\ UNCHANGED <<shared, handle, made, mails, events, delivered, marked, spoilt, cleaned>>

\* The host dies; a file it has truncated stays so.
HostCrash(h) ==
  /\ job[h] # NoJob
  /\ Spend("hostcrash")
  /\ EndJob(h)
  /\ Disk!Drop(h)
  /\ spoilt' = IF Stage(h, "write") THEN spoilt \cup {job[h].file} ELSE spoilt
  /\ UNCHANGED <<made, mails, events, delivered, marked, cleaned>>

InteropNext ==
  \E h \in Hosts :
    \/ Add(h) \/ Update(h) \/ ReadMessages(h) \/ Cleanup(h) \/ SendOmx(h)
    \/ HostCrash(h)
    \/ /\ UNCHANGED budget
       /\ Mark(h) \/ Look(h) \/ Delete(h) \/ ReadMailbox(h) \/ LogEvent(h)
            \/ OpenShared(h) \/ WriteShared(h) \/ Done(h)

InteropSpec ==
  InteropInit /\ budget \in Budgets /\ [][InteropNext]_<<interopVars, budget>>
=============================================================================
