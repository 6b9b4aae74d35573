----------------------------- MODULE FileSystem -----------------------------
(***************************************************************************)
(* The files through which processes of omc meet, as std::fs and the       *)
(* operating system give them.                                             *)
(*                                                                         *)
(* A file f has a content and may have a temporary file beside it, whose   *)
(* name every writer of f derives from f alone.  An open descriptor is     *)
(* bound to the file it was opened on, not to the name: a rename carries   *)
(* the descriptors of the temporary file along, and those of a file that   *)
(* was replaced or removed write to nowhere.                               *)
(***************************************************************************)
EXTENDS Sequences

CONSTANTS
  Files,     \* the files
  NoFile,    \* what a name without a file holds
  Empty      \* the content of a file just created or truncated

VARIABLES
  files,     \* the content of each file
  tmp,       \* the content of its temporary file
  fd         \* the descriptor each process has open

Closed == [at |-> "closed"]
At(place, f) == [at |-> place, file |-> f]
Handles == {Closed} \cup [at : {"tmp", "file"}, file : Files]

\* Descriptors after the inode behind (place, f) has lost its name.
Orphaned(place, f) ==
  [p \in DOMAIN fd |-> IF fd[p] = At(place, f) THEN Closed ELSE fd[p]]

\* fs::write opens with create and truncate ...
OpenTmp(p, f) ==
  /\ tmp' = [tmp EXCEPT ![f] = Empty]
  /\ fd' = [fd EXCEPT ![p] = At("tmp", f)]
  /\ UNCHANGED files

OpenFile(p, f) ==
  /\ files' = [files EXCEPT ![f] = Empty]
  /\ fd' = [fd EXCEPT ![p] = At("file", f)]
  /\ UNCHANGED tmp

\* ... then writes, and closes the descriptor.
Behind(p, f) == IF fd[p] = At("tmp", f) THEN tmp[f] ELSE files[f]

Put(p, f, x) ==
  /\ files' = IF fd[p] = At("file", f) THEN [files EXCEPT ![f] = x] ELSE files
  /\ tmp' = IF fd[p] = At("tmp", f) THEN [tmp EXCEPT ![f] = x] ELSE tmp
  /\ fd' = [fd EXCEPT ![p] = Closed]

\* OpenOptions with create and append; each write lands at the end the file has
\* then.
OpenAppend(p, f) ==
  /\ files' = IF files[f] = NoFile THEN [files EXCEPT ![f] = Empty] ELSE files
  /\ fd' = [fd EXCEPT ![p] = At("file", f)]
  /\ UNCHANGED tmp

Extend(p, f, x) ==
  /\ files' = IF fd[p] = At("file", f) THEN [files EXCEPT ![f] = @ \o x] ELSE files
  /\ tmp' = IF fd[p] = At("tmp", f) THEN [tmp EXCEPT ![f] = @ \o x] ELSE tmp

\* fs::rename of the temporary file over the file.
RenameTmp(f) ==
  /\ files' = [files EXCEPT ![f] = tmp[f]]
  /\ tmp' = [tmp EXCEPT ![f] = NoFile]
  /\ fd' = [p \in DOMAIN fd |->
              IF fd[p] = At("tmp", f) THEN At("file", f)
              ELSE IF fd[p] = At("file", f) THEN Closed
              ELSE fd[p]]

\* fs::rename of file a to b, which it replaces.
RenameFile(a, b) ==
  /\ files' = [files EXCEPT ![b] = files[a], ![a] = NoFile]
  /\ fd' = [p \in DOMAIN fd |->
              IF fd[p] = At("file", a) THEN At("file", b)
              ELSE IF fd[p] = At("file", b) THEN Closed
              ELSE fd[p]]
  /\ UNCHANGED tmp

\* fs::remove_file.
RemoveFile(f) ==
  /\ files' = [files EXCEPT ![f] = NoFile]
  /\ fd' = Orphaned("file", f)
  /\ UNCHANGED tmp

RemoveTmp(f) ==
  /\ tmp' = [tmp EXCEPT ![f] = NoFile]
  /\ fd' = Orphaned("tmp", f)
  /\ UNCHANGED files

\* The process dies: its descriptor is closed, the files stay.
Drop(p) == fd' = [fd EXCEPT ![p] = Closed] /\ UNCHANGED <<files, tmp>>
=============================================================================
