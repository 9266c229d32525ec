---------------------------- MODULE LocalRenames ----------------------------
(***************************************************************************)
(* The local half of the upload workflow (run in src/upload.rs): rename    *)
(* every discovered file to its NFC name, upload, and undo the renames     *)
(* when a rename or the upload fails (src/local.rs).  A rename is the      *)
(* sequence of system calls of rename_without_overwrite_with_identity      *)
(* (src/atomic_rename.rs); between any two of them other processes may     *)
(* create, replace, link and remove entries or put another directory in    *)
(* the place of the input root.  The remote half is module Upload; here it *)
(* opens the files under their new names and succeeds or fails.            *)
(*                                                                         *)
(* The files of the plan are the inodes 1 to Len(plan); inode 0 stands for *)
(* a missing entry.  The input root and the directory of a file are one.   *)
(***************************************************************************)
EXTENDS Naturals, SequencesExt, AppError

CONSTANTS
    Names,        \* file names
    Normalized,   \* the NFC form of a name
    Plans,        \* what discovery may find, sequences of names
    Insensitive,  \* the file systems: may one resolve names up to NFC?
    MaxFaults,    \* how many system calls fail
    MaxSignals,   \* how many times SIGINT or SIGTERM arrives
    MaxForeign    \* per plan, how often other processes change the file system

(* normalization_plan::build rejects two names with one NFC form. *)
ASSUME PlansAssumption ==
    /\ Normalized \in [Names -> Names]
    /\ \A name \in Names : Normalized[Normalized[name]] = Normalized[name]
    /\ Plans \subseteq Seq(Names)
    /\ \A names \in Plans : \A i, j \in DOMAIN names :
          Normalized[names[i]] = Normalized[names[j]] => i = j
    /\ Insensitive \subseteq BOOLEAN
    /\ MaxFaults \in Nat /\ MaxSignals \in Nat /\ MaxForeign \in [Plans -> Nat]

VARIABLES
    plan,         \* the discovered names
    insensitive,  \* does this file system resolve names up to NFC?
    entries,      \* per directory and name, the inode
    root,         \* the directory that the input path leads to
    phase, index, \* where run is, and the entry it works on
    rename,       \* the rename in progress
    renamed,      \* the entries that apply_normalization has renamed
    todo,         \* the entries that are to be undone, the last one first
    failedUndo,   \* has rollback collected an error?
    result, interrupted,
    faults, signals, meddled, nextInode,
    placed        \* history: the <<name, inode>> pairs that other processes
                  \* have made, with inode 0 for a name they have removed

directory == <<entries, root, nextInode, placed>>
counters == <<faults, signals, meddled>>
progress == <<phase, index, renamed, todo, failedUndo, result>>
vars == <<plan, insensitive, directory, progress, rename, interrupted, counters>>

Directories == {"captured", "other"}
Phases == {"prepare", "rename", "upload", "rollback", "end"}
RenamePcs ==
    {"idle", "open", "identity", "metadata", "target", "scan", "rename", "verify", "done"}

Source(i) == plan[i]
Target(i) == Normalized[plan[i]]
NeedsRename(i) == Source(i) # Target(i)

-----------------------------------------------------------------------------
(* The file system. *)

SameEntry(a, b) == a = b \/ (insensitive /\ Normalized[a] = Normalized[b])
EntriesFor(dir, name) ==
    {other \in Names : entries[dir][other] # 0 /\ SameEntry(other, name)}
Lookup(dir, name) ==
    IF EntriesFor(dir, name) = {} THEN 0
    ELSE entries[dir][CHOOSE other \in EntriesFor(dir, name) : TRUE]

(* Mutant: rename(2), which replaces its target. *)
RenameReplacing(dir, source, target) ==
    IF Lookup(dir, source) = 0 THEN "NotFound" ELSE "Ok"

(* renameat2 with RENAME_NOREPLACE. *)
RenameStatus(dir, source, target) ==
    CASE Lookup(dir, source) = 0 -> "NotFound"
      [] Lookup(dir, target) # 0 -> "AlreadyExists"
      [] OTHER -> "Ok"

Moved(dir, source, target) ==
    LET old == EntriesFor(dir, source) \cup EntriesFor(dir, target)
        without == [name \in Names |-> IF name \in old THEN 0 ELSE entries[dir][name]]
    IN  [entries EXCEPT ![dir] = [without EXCEPT ![target] = Lookup(dir, source)]]

-----------------------------------------------------------------------------
(* rename_without_overwrite_with_identity, one step per system call that   *)
(* another process can get in front of.                                    *)

NoRename == [pc |-> "idle", inode |-> 0, source |-> "none", target |-> "none",
             dir |-> "captured", seen |-> 0, unread |-> {}, found |-> {},
             completed |-> FALSE, error |-> NoError]

RenameCall(i, source, target) ==
    [NoRename EXCEPT !.pc = "open", !.inode = i, !.source = source, !.target = target]

Go(pc) == rename' = [rename EXCEPT !.pc = pc]
Done(error) == rename' = [rename EXCEPT !.pc = "done", !.error = error]

(* Mutant: takes the directory as it comes. *)
OpenDirectoryUnchecked ==
    /\ rename.pc = "open"
    /\ rename' = [rename EXCEPT !.pc = "identity", !.dir = root]
    /\ UNCHANGED <<directory, counters>>

(* open_directory, relative_parent and the identities of the directories:  *)
(* everything later goes through this descriptor.                          *)
OpenDirectory ==
    /\ rename.pc = "open"
    /\ IF root # "captured" THEN Done(Err("Message"))
       ELSE rename' = [rename EXCEPT !.pc = "identity", !.dir = root]
    /\ UNCHANGED <<directory, counters>>

(* file_identity_at *)
CheckIdentity ==
    /\ rename.pc = "identity"
    /\ LET found == Lookup(rename.dir, rename.source)
       IN  CASE found = 0 -> Done(Err("Io"))
             [] found \notin {0, rename.inode} -> Done(Err("Message"))
             [] OTHER -> Go("metadata")
    /\ UNCHANGED <<directory, counters>>

(* same_path_entry asks for the source, ... *)
ReadMetadata ==
    /\ rename.pc = "metadata"
    /\ rename' = [rename EXCEPT !.pc = "target", !.seen = Lookup(rename.dir, rename.source)]
    /\ UNCHANGED <<directory, counters>>

(* ... then for the target, ... *)
EquivalentNames == {name \in Names : Normalized[name] = Normalized[rename.target]}

ReadTarget ==
    /\ rename.pc = "target"
    /\ IF rename.seen # 0 /\ Lookup(rename.dir, rename.target) = rename.seen
       THEN rename' = [rename EXCEPT !.pc = "scan", !.unread = EquivalentNames]
       ELSE Go("rename")
    /\ UNCHANGED <<directory, counters>>

(* ... and, when the two are one file, reads the directory for names with  *)
(* the target's NFC form.  An entry that comes or goes during the scan is  *)
(* found or not: the names are read one by one, in any order.              *)
ReadDirectory ==
    /\ rename.pc = "scan"
    /\ \E name \in rename.unread :
          rename' = [rename EXCEPT
                        !.unread = @ \ {name},
                        !.found = IF entries[rename.dir][name] # 0 THEN @ \cup {name} ELSE @]
    /\ UNCHANGED <<directory, counters>>

(* Mutant: two hard links count as one entry. *)
SamePathEntryByInode ==
    /\ rename.pc = "scan" /\ rename.unread = {}
    /\ Done(NoError)
    /\ UNCHANGED <<directory, counters>>

(* Exactly one such name: the entry needs no rename. *)
SamePathEntry ==
    /\ rename.pc = "scan" /\ rename.unread = {}
    /\ IF \E name \in Names : rename.found = {name} THEN Done(NoError) ELSE Go("rename")
    /\ UNCHANGED <<directory, counters>>

RenameNoreplace ==
    /\ rename.pc = "rename"
    /\ IF RenameStatus(rename.dir, rename.source, rename.target) = "Ok"
       THEN /\ entries' = Moved(rename.dir, rename.source, rename.target)
            /\ rename' = [rename EXCEPT !.pc = "verify", !.completed = TRUE]
       ELSE Done(Err("Io")) /\ UNCHANGED entries
    /\ UNCHANGED <<root, nextInode, placed, counters>>

(* Mutant: what was checked before the rename is what was renamed. *)
VerifySkipped ==
    /\ rename.pc = "verify"
    /\ Done(NoError)
    /\ UNCHANGED <<directory, counters>>

(* file_identity_after_rename *)
VerifyIdentity ==
    /\ rename.pc = "verify"
    /\ Done(IF Lookup(rename.dir, rename.target) = rename.inode THEN NoError
            ELSE Err("Recovery"))
    /\ UNCHANGED <<directory, counters>>

(* A system call fails and changes nothing. *)
SystemCallFails ==
    /\ rename.pc \notin {"idle", "done"}
    /\ faults < MaxFaults /\ faults' = faults + 1
    /\ Done(Err(IF rename.pc = "verify" THEN "Recovery" ELSE "Io"))
    /\ UNCHANGED <<directory, signals, meddled>>

SystemCall ==
    /\ \/ OpenDirectory \/ CheckIdentity
       \/ ReadMetadata \/ ReadTarget \/ ReadDirectory \/ SamePathEntry
       \/ RenameNoreplace \/ VerifyIdentity \/ SystemCallFails
    /\ UNCHANGED <<plan, insensitive, progress, interrupted>>

-----------------------------------------------------------------------------
(* run *)

(* Planning, project selection, login and the bucket locks: nothing local  *)
(* has changed when one of them fails.                                     *)
Prepare ==
    /\ phase = "prepare"
    /\ \/ phase' = "rename" /\ index' = 1 /\ UNCHANGED result
       \/ phase' = "end" /\ result' = Err("Command") /\ UNCHANGED index
    /\ UNCHANGED <<plan, insensitive, directory, rename, renamed, todo, failedUndo,
                   interrupted, counters>>

(* apply_normalization_with_path_identities *)
BeginRename ==
    /\ phase = "rename" /\ rename.pc = "idle" /\ index \in DOMAIN plan
    /\ IF NeedsRename(index)
       THEN rename' = RenameCall(index, Source(index), Target(index)) /\ UNCHANGED index
       ELSE index' = index + 1 /\ UNCHANGED rename
    /\ UNCHANGED <<plan, insensitive, directory, phase, renamed, todo, failedUndo, result,
                   interrupted, counters>>

(* Mutant: records a rename only when all went well. *)
EndRenameUnrecorded ==
    /\ phase = "rename" /\ rename.pc = "done"
    /\ LET records == IF rename.completed THEN Append(renamed, index) ELSE renamed
           error == IF IsOk(rename.error) /\ interrupted THEN Err("Interrupted")
                    ELSE rename.error
       IN  /\ renamed' = records
           /\ IF IsOk(error)
              THEN index' = index + 1 /\ UNCHANGED <<phase, todo, result>>
              ELSE phase' = "rollback" /\ todo' = renamed /\ result' = error /\ UNCHANGED index
    /\ rename' = NoRename
    /\ UNCHANGED <<plan, insensitive, directory, failedUndo, interrupted, counters>>

(* Mutant: skips the entry after the renamed one. *)
EndRenameSkipping ==
    /\ phase = "rename" /\ rename.pc = "done"
    /\ LET records == IF rename.completed THEN Append(renamed, index) ELSE renamed
           error == IF IsOk(rename.error) /\ interrupted THEN Err("Interrupted")
                    ELSE rename.error
       IN  /\ renamed' = records
           /\ IF IsOk(error)
              THEN index' = index + 2 /\ UNCHANGED <<phase, todo, result>>
              ELSE phase' = "rollback" /\ todo' = records /\ result' = error /\ UNCHANGED index
    /\ rename' = NoRename
    /\ UNCHANGED <<plan, insensitive, directory, failedUndo, interrupted, counters>>

(* A rename that took place is recorded even when its check failed. *)
EndRename ==
    /\ phase = "rename" /\ rename.pc = "done"
    /\ LET records == IF rename.completed THEN Append(renamed, index) ELSE renamed
           error == IF IsOk(rename.error) /\ interrupted THEN Err("Interrupted")
                    ELSE rename.error
       IN  /\ renamed' = records
           /\ IF IsOk(error)
              THEN index' = index + 1 /\ UNCHANGED <<phase, todo, result>>
              ELSE phase' = "rollback" /\ todo' = records /\ result' = error /\ UNCHANGED index
    /\ rename' = NoRename
    /\ UNCHANGED <<plan, insensitive, directory, failedUndo, interrupted, counters>>

RenamesDone ==
    /\ phase = "rename" /\ rename.pc = "idle" /\ index \notin DOMAIN plan
    /\ phase' = "upload" /\ index' = 1
    /\ UNCHANGED <<plan, insensitive, directory, rename, renamed, todo, failedUndo,
                   result, interrupted, counters>>

(* upload_planned_files_unlocked: the file must be found in the captured   *)
(* directory under its new name (open of src/upload_source.rs), ...        *)
UploadFile ==
    /\ phase = "upload" /\ index \in DOMAIN plan
    /\ root = "captured" /\ Lookup(root, Target(index)) = index
    /\ index' = index + 1
    /\ UNCHANGED <<plan, insensitive, directory, phase, rename, renamed, todo, failedUndo,
                   result, interrupted, counters>>

UploadDone ==
    /\ phase = "upload" /\ index \notin DOMAIN plan
    /\ phase' = "end"
    /\ UNCHANGED <<plan, insensitive, directory, rename, index, renamed, todo, failedUndo,
                   result, interrupted, counters>>

(* ... and the upload may fail for this reason or for any other.           *)
(* rollback_normalization gets the entries of a HashMap, in any order.     *)
UploadFails ==
    /\ phase = "upload"
    /\ phase' = "rollback"
    /\ todo' \in SetToSeqs(DOMAIN plan)
    /\ \E reported \in BOOLEAN : result' = Rollback(Err("Http"), reported)
    /\ UNCHANGED <<plan, insensitive, directory, rename, index, renamed, failedUndo,
                   interrupted, counters>>

BeginUndo ==
    /\ phase = "rollback" /\ rename.pc = "idle" /\ todo # <<>>
    /\ IF NeedsRename(Last(todo))
       THEN /\ rename' = RenameCall(Last(todo), Target(Last(todo)), Source(Last(todo)))
            /\ UNCHANGED todo
       ELSE todo' = Front(todo) /\ UNCHANGED rename
    /\ UNCHANGED <<plan, insensitive, directory, phase, index, renamed, failedUndo, result,
                   interrupted, counters>>

(* Mutant: an entry that cannot be undone is tried again. *)
EndUndoRetrying ==
    /\ phase = "rollback" /\ rename.pc = "done"
    /\ failedUndo' = (failedUndo \/ ~IsOk(rename.error))
    /\ todo' = IF IsOk(rename.error) THEN Front(todo) ELSE todo
    /\ rename' = NoRename
    /\ UNCHANGED <<plan, insensitive, directory, phase, index, renamed, result,
                   interrupted, counters>>

(* rollback goes on after an error and does not ask for the flag. *)
EndUndo ==
    /\ phase = "rollback" /\ rename.pc = "done"
    /\ failedUndo' = (failedUndo \/ ~IsOk(rename.error))
    /\ todo' = Front(todo)
    /\ rename' = NoRename
    /\ UNCHANGED <<plan, insensitive, directory, phase, index, renamed, result,
                   interrupted, counters>>

UndoDone ==
    /\ phase = "rollback" /\ rename.pc = "idle" /\ todo = <<>>
    /\ phase' = "end"
    /\ result' = Rollback(result, failedUndo)
    /\ UNCHANGED <<plan, insensitive, directory, rename, index, renamed, todo, failedUndo,
                   interrupted, counters>>

RunStep ==
    \/ Prepare \/ BeginRename \/ EndRename \/ RenamesDone
    \/ UploadFile \/ UploadDone \/ UploadFails \/ BeginUndo \/ EndUndo \/ UndoDone \/ SystemCall

-----------------------------------------------------------------------------
(* Other processes and the signal handler. *)

With(name, inode) ==
    [entries EXCEPT !["captured"] =
        [other \in Names |->
            IF other = name THEN inode
            ELSE IF other \in EntriesFor("captured", name) THEN 0
            ELSE entries["captured"][other]]]

(* A new file is created, or takes the place of what is there. *)
PutFile ==
    /\ \E name \in Names :
          entries' = With(name, nextInode) /\ placed' = placed \cup {<<name, nextInode>>}
    /\ nextInode' = nextInode + 1
    /\ UNCHANGED root

LinkFile ==
    /\ \E name \in Names, i \in DOMAIN plan :
          /\ Lookup("captured", name) = 0
          /\ \E other \in Names : entries["captured"][other] = i
          /\ entries' = With(name, i) /\ placed' = placed \cup {<<name, i>>}
    /\ UNCHANGED <<root, nextInode>>

RemoveFile ==
    /\ \E name \in Names :
          /\ entries["captured"][name] # 0
          /\ entries' = With(name, 0) /\ placed' = placed \cup {<<name, 0>>}
    /\ UNCHANGED <<root, nextInode>>

ReplaceRoot == root' = "other" /\ UNCHANGED <<entries, nextInode, placed>>

Meddle ==
    /\ phase # "end" /\ meddled < MaxForeign[plan] /\ meddled' = meddled + 1
    /\ PutFile \/ LinkFile \/ RemoveFile \/ ReplaceRoot
    /\ UNCHANGED <<plan, insensitive, progress, rename, interrupted, faults, signals>>

Signal ==
    /\ phase # "end" /\ signals < MaxSignals /\ ~interrupted
    /\ interrupted' = TRUE /\ signals' = signals + 1
    /\ UNCHANGED <<plan, insensitive, directory, progress, rename, faults, meddled>>

Terminated == phase = "end" /\ UNCHANGED vars

Next == RunStep \/ Meddle \/ Signal \/ Terminated

(* The other directory holds hard links to the discovered files, as a      *)
(* snapshot of the input would.                                            *)
Discovered ==
    [name \in Names |->
        IF \E i \in DOMAIN plan : plan[i] = name
        THEN CHOOSE i \in DOMAIN plan : plan[i] = name ELSE 0]

Init ==
    /\ plan \in Plans /\ insensitive \in Insensitive
    /\ entries = [dir \in Directories |-> Discovered]
    /\ root = "captured"
    /\ phase = "prepare" /\ index = 0 /\ rename = NoRename
    /\ renamed = <<>> /\ todo = <<>> /\ failedUndo = FALSE
    /\ result = NoError /\ interrupted = FALSE
    /\ faults = 0 /\ signals = 0 /\ meddled = 0
    /\ nextInode = Len(plan) + 1 /\ placed = {}

Spec == Init /\ [][Next]_vars

(* The run goes on: every system call returns. *)
FairSpec == Spec /\ WF_vars(RunStep)

-----------------------------------------------------------------------------
Linked == {entries[dir][name] : dir \in Directories, name \in Names} \ {0}

(* The error tells the operator that local files may be left behind. *)
LocalLeftovers == failedUndo \/ result.kind = "Recovery"

(* Files that other processes have not linked, replaced or removed. *)
LeftAlone(i) ==
    /\ ~\E name \in Names : <<name, i>> \in placed
    /\ \E name \in Names : entries["captured"][name] = i

(* The shape of every variable. *)
TypeOK ==
    /\ plan \in Plans /\ insensitive \in BOOLEAN
    /\ entries \in [Directories -> [Names -> 0..nextInode]] /\ root \in Directories
    /\ phase \in Phases /\ index \in 0..(Len(plan) + 1)
    /\ rename.pc \in RenamePcs /\ rename.error \in AppErrors
    /\ renamed \in Seq(DOMAIN plan) /\ todo \in Seq(DOMAIN plan)
    /\ failedUndo \in BOOLEAN /\ result \in AppErrors /\ interrupted \in BOOLEAN
    /\ faults \in 0..MaxFaults /\ signals \in 0..MaxSignals /\ meddled \in 0..MaxForeign[plan]

(* No rename, forwards or backwards, destroys a file, whatever another     *)
(* process creates between the checks and the rename (rename_noreplace).   *)
NothingOverwritten ==
    [][meddled' = meddled => Linked \subseteq Linked']_vars

(* run leaves the discovered files all renamed or all as they were, unless *)
(* its error tells the operator to look: after success every file has its  *)
(* NFC name, after an error that names no local leftovers every file has   *)
(* the name it was discovered under.  Files that another process has       *)
(* linked or taken away are not held to this, the others still are.        *)
LocalAllOrNothing ==
    phase = "end" /\ ~LocalLeftovers =>
        \A i \in DOMAIN plan : LeftAlone(i) =>
            Lookup("captured", IF IsOk(result) THEN Target(i) ELSE Source(i)) = i

(* A file of another process that was slipped under a checked name and so  *)
(* got renamed is reported: a run that names no local leftovers has moved  *)
(* no file but the discovered ones (file_identity_after_rename).           *)
StrangersMovedReported ==
    phase = "end" /\ ~LocalLeftovers =>
        \A name \in Names : entries["captured"][name] > Len(plan) =>
            <<name, entries["captured"][name]>> \in placed

(* The run never renames inside a directory that has taken the place of    *)
(* the input root, although it looks the same (directory_identity).        *)
ReplacedRootUntouched == entries["other"] = Discovered

(* A run that reports success has left no discovered file under a name     *)
(* that is not normalized, even when another process has made a hard link  *)
(* of it under the normalized name meanwhile (same_path_entry).  The one   *)
(* exception is a link that the other process takes away again: the two    *)
(* calls that ask whether source and target are one file and the scan that *)
(* counts their names happen at different times, so a link that is there   *)
(* for the first and gone for the second passes for an alias.              *)
NoNameLeft ==
    phase = "end" /\ IsOk(result) /\ ~insensitive =>
        \A i \in DOMAIN plan :
            NeedsRename(i) /\ entries["captured"][Source(i)] = i =>
                \/ <<Source(i), i>> \in placed
                \/ {<<Target(i), i>>, <<Target(i), 0>>} \subseteq placed

(* The run returns: no entry is tried forever, forwards or backwards. *)
Termination == <>(phase = "end")
=============================================================================
