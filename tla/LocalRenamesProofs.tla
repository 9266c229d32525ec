------------------------- MODULE LocalRenamesProofs -------------------------
(***************************************************************************)
(* The local half of the upload workflow for every plan, every directory   *)
(* listing, both kinds of file system, and any number of failing system    *)
(* calls, signals and changes by other processes.                          *)
(***************************************************************************)
EXTENDS LocalRenames, FiniteSetTheorems, TLAPS

-----------------------------------------------------------------------------
(* The inductive invariant. *)

At(name) == entries["captured"][name]
Unplaced(i) == ~\E name \in Names : <<name, i>> \in placed

RenameRecords ==
    [pc : RenamePcs, inode : Nat, source : Names \cup {"none"}, target : Names \cup {"none"},
     dir : {"captured"}, seen : Nat, unread : SUBSET Names, found : SUBSET Names,
     completed : BOOLEAN, error : AppErrors]

(* The inodes of other processes are none of the plan's. *)
Shape ==
    /\ TypeOK /\ rename \in RenameRecords
    /\ nextInode \in Nat /\ nextInode > Len(plan)

(* A file system that resolves names up to NFC holds one of them. *)
Unique ==
    insensitive => \A dir \in Directories : \A a, b \in Names :
        /\ entries[dir][a] # 0 /\ entries[dir][b] # 0
        /\ Normalized[a] = Normalized[b]
        => a = b

(* The call in progress is the one its loop made, and it has moved an      *)
(* entry only if renameat2 found the target free.                          *)
Call(i, source, target) ==
    /\ i \in DOMAIN plan /\ NeedsRename(i)
    /\ rename.inode = i /\ rename.source = source /\ rename.target = target

Calls ==
    /\ \/ rename.pc = "idle"
       \/ phase = "rename" /\ Call(index, Source(index), Target(index))
       \/ /\ phase = "rollback" /\ todo # <<>>
          /\ Call(Last(todo), Target(Last(todo)), Source(Last(todo)))
    /\ rename.completed => rename.pc \in {"verify", "done"} /\ ~insensitive
    /\ rename.pc = "verify" => rename.completed

(* The errors are set on the way to the end, not before. *)
Progress ==
    /\ phase \in {"prepare", "rename", "upload"} => result = NoError /\ ~failedUndo
    /\ phase = "rename" => index \in 1..(Len(plan) + 1)
    /\ phase = "rollback" => ~IsOk(result)

(* The current rename has gone well so far. *)
Succeeded ==
    \/ rename.pc = "verify"
    \/ rename.pc = "done" /\ IsOk(rename.error)

(* A moved file of another process is about to be reported. *)
Strangers ==
    \A name \in Names : At(name) > Len(plan) =>
        \/ <<name, At(name)>> \in placed
        \/ LocalLeftovers
        \/ rename.pc = "verify" /\ name = rename.target
        \/ rename.pc = "done" /\ rename.error.kind = "Recovery"

(* The entries that the loop of apply_normalization has passed. *)
Processed(i) ==
    \/ phase = "rename" /\ (i < index \/ (i = index /\ Succeeded))
    \/ phase = "upload"
    \/ phase = "end" /\ IsOk(result)

Cleared ==
    ~insensitive => \A i \in DOMAIN plan :
        Processed(i) /\ NeedsRename(i) /\ At(Source(i)) = i =>
            \/ <<Source(i), i>> \in placed
            \/ <<Target(i), i>> \in placed /\ <<Target(i), 0>> \in placed

(* A file that is not renamed yet has its new name from another process.   *)
Pending(i) ==
    \/ phase = "prepare"
    \/ phase = "rename" /\ (i > index \/ (i = index /\ ~rename.completed))

Ahead ==
    \A i \in DOMAIN plan :
        Pending(i) /\ NeedsRename(i) /\ At(Target(i)) = i => <<Target(i), i>> \in placed

(* A file that other processes have not linked has one name. *)
Single ==
    \A i \in DOMAIN plan : \A a, b \in Names :
        Unplaced(i) /\ At(a) = i /\ At(b) = i => a = b

(* What same_path_entry has learned, where names are told apart.  If the   *)
(* source is the file of the plan and was so when it was read, then the    *)
(* target was a hard link of it; a name that was there all the time is     *)
(* found.                                                                  *)
Scanning ==
    ~insensitive =>
        /\ /\ rename.pc = "target" /\ rename.seen # rename.inode
           /\ At(rename.source) = rename.inode
           => <<rename.source, rename.inode>> \in placed
        /\ rename.pc = "scan" =>
              /\ At(rename.source) = rename.inode =>
                    \/ <<rename.source, rename.inode>> \in placed
                    \/ /\ ~Unplaced(rename.inode)
                       /\ phase = "rename" => <<rename.target, rename.inode>> \in placed
              /\ At(rename.target) # 0 \/ <<rename.target, 0>> \in placed
              /\ \/ rename.target \in rename.unread \cup rename.found
                 \/ <<rename.target, 0>> \in placed
              /\ At(rename.source) = rename.inode =>
                    \/ rename.source \in rename.unread \cup rename.found
                    \/ <<rename.source, rename.inode>> \in placed

(* The entries that are not renamed yet or not renamed any more. *)
Restored(i) ==
    \/ phase = "prepare"
    \/ phase = "rename" /\ i \notin Range(renamed) /\ ~(rename.completed /\ i = index)
    \/ /\ phase = "rollback" /\ ~failedUndo
       /\ i \notin Range(todo) \/ (i = Last(todo) /\ Succeeded)
    \/ phase = "end" /\ ~failedUndo /\ ~IsOk(result)

Kept ==
    \A i \in DOMAIN plan, name \in Names : Unplaced(i) /\ At(name) = i =>
        /\ name \in {Source(i), Target(i)}
        /\ insensitive \/ Restored(i) => name = Source(i)

IInv ==
    /\ Shape /\ Unique /\ Calls /\ Progress
    /\ ReplacedRootUntouched /\ Strangers /\ Cleared /\ Kept
    /\ Ahead /\ Single /\ Scanning

-----------------------------------------------------------------------------
(* Sequences of entries. *)

(* What Append adds. *)
LEMMA AppendRange ==
    ASSUME NEW S, NEW s \in Seq(S), NEW x \in S
    PROVE  /\ Append(s, x) \in Seq(S)
           /\ Range(Append(s, x)) = Range(s) \cup {x}
<1>1. /\ Append(s, x) \in Seq(S) /\ Len(s) \in Nat /\ Len(Append(s, x)) = Len(s) + 1
      /\ \A k \in 1..Len(s) : Append(s, x)[k] = s[k]
      /\ Append(s, x)[Len(s) + 1] = x
  OBVIOUS
<1>2. DOMAIN s = 1..Len(s) /\ DOMAIN Append(s, x) = 1..(Len(s) + 1)
  OBVIOUS
<1> QED BY <1>1, <1>2 DEF Range

(* rollback takes the entries from the end. *)
LEMMA FrontLast ==
    ASSUME NEW S, NEW s \in Seq(S), s # <<>>
    PROVE  /\ Front(s) \in Seq(S) /\ Last(s) \in S
           /\ Last(s) \in Range(s) /\ Range(s) \subseteq Range(Front(s)) \cup {Last(s)}
<1>1. /\ Len(s) \in Nat \ {0} /\ DOMAIN s = 1..Len(s)
      /\ \A k \in 1..Len(s) : s[k] \in S
  OBVIOUS
<1>2. /\ Front(s) \in Seq(S) /\ DOMAIN Front(s) = 1..(Len(s) - 1)
      /\ \A k \in 1..(Len(s) - 1) : Front(s)[k] = s[k]
  BY <1>1 DEF Front
<1>3. Len(s) \in DOMAIN s
  BY <1>1
<1>4. \A k \in DOMAIN s : k = Len(s) \/ k \in 1..(Len(s) - 1)
  BY <1>1
<1> QED BY <1>1, <1>2, <1>3, <1>4 DEF Last, Range

(* The empty sequence has no entries. *)
LEMMA EmptyRange == Range(<<>>) = {}
BY DEF Range

(* The entries of the HashMap that rollback_normalization gets are all of  *)
(* the plan, whatever their order.                                         *)
LEMMA AllListed ==
    ASSUME NEW n \in Nat, NEW s \in SetToSeqs(1..n)
    PROVE  s \in Seq(1..n) /\ Range(s) = 1..n
<1>1. IsFiniteSet(1..n) /\ Cardinality(1..n) = n
  BY FS_Interval
<1>2. s \in [1..n -> 1..n] /\ \A i, j \in 1..n : i # j => s[i] # s[j]
  BY <1>1 DEF SetToSeqs
<1>3. s \in Injection(1..n, 1..n)
  BY <1>2 DEF Injection, IsInjective
<1>4. s \in Surjection(1..n, 1..n)
  BY <1>1, <1>3, FS_Injection
<1>5. \A t \in 1..n : \E k \in 1..n : s[k] = t
  BY <1>4 DEF Surjection
<1> QED BY <1>2, <1>5 DEF Range

-----------------------------------------------------------------------------
(* The file system. *)

(* A lookup finds an inode, or 0. *)
LEMMA LookupType ==
    ASSUME Shape, NEW dir \in Directories, NEW name
    PROVE  Lookup(dir, name) \in Nat
<1>1. \A other \in EntriesFor(dir, name) : entries[dir][other] \in Nat
  BY DEF EntriesFor, Shape, TypeOK
<1>2. CASE EntriesFor(dir, name) # {}
  <2>1. (CHOOSE other \in EntriesFor(dir, name) : TRUE) \in EntriesFor(dir, name)
    BY <1>2
  <2> QED BY <1>1, <1>2, <2>1 DEF Lookup
<1> QED BY <1>2 DEF Lookup

(* A lookup finds an entry when there is one, and no other. *)
LEMMA Found ==
    ASSUME Shape, Unique, NEW dir \in Directories, NEW name \in Names
    PROVE  /\ Lookup(dir, name) = 0 => EntriesFor(dir, name) = {}
           /\ \A other \in EntriesFor(dir, name) :
                 EntriesFor(dir, name) = {other} /\ Lookup(dir, name) = entries[dir][other]
<1>1. \A a, b \in EntriesFor(dir, name) : a = b
  <2>1. CASE insensitive
    <3>1. \A a \in EntriesFor(dir, name) : a \in Names /\ entries[dir][a] # 0
      BY DEF EntriesFor
    <3>2. \A a \in EntriesFor(dir, name) : Normalized[a] = Normalized[name]
      BY DEF EntriesFor, SameEntry
    <3> QED BY <2>1, <3>1, <3>2 DEF Unique
  <2>2. CASE ~insensitive
    BY <2>2 DEF EntriesFor, SameEntry
  <2> QED BY <2>1, <2>2
<1>2. \A other \in EntriesFor(dir, name) : entries[dir][other] \in Nat \ {0}
  BY DEF EntriesFor, Shape, TypeOK
<1>3. CASE EntriesFor(dir, name) = {}
  BY <1>3 DEF Lookup
<1>4. ASSUME NEW other \in EntriesFor(dir, name)
      PROVE  EntriesFor(dir, name) = {other} /\ Lookup(dir, name) = entries[dir][other]
  <2>1. EntriesFor(dir, name) = {other}
    BY <1>1, <1>4
  <2>2. (CHOOSE o \in EntriesFor(dir, name) : TRUE) = other
    BY <2>1
  <2> QED BY <2>1, <2>2 DEF Lookup
<1> QED BY <1>2, <1>3, <1>4

(* What renameat2 with RENAME_NOREPLACE does when it succeeds: one entry   *)
(* leaves its name for a name that was free.                               *)
LEMMA MoveEffect ==
    ASSUME Shape, Unique, NEW source \in Names, NEW target \in Names,
           RenameStatus("captured", source, target) = "Ok",
           entries' = Moved("captured", source, target)
    PROVE  \E old \in Names :
              /\ SameEntry(old, source) /\ ~SameEntry(old, target)
              /\ \A name \in Names : SameEntry(name, target) => At(name) = 0
              /\ At(old) # 0 /\ old # target /\ At(target) = 0
              /\ \A name \in Names :
                    entries'["captured"][name] = IF name = target THEN At(old)
                                                 ELSE IF name = old THEN 0 ELSE At(name)
              /\ entries' \in [Directories -> [Names -> 0..nextInode]]
              /\ entries'["other"] = entries["other"]
<1>0. "captured" \in Directories /\ "other" \in Directories
  BY DEF Directories
<1>1. Lookup("captured", source) # 0 /\ Lookup("captured", target) = 0
  BY DEF RenameStatus
<1>2. EntriesFor("captured", target) = {}
  BY <1>0, <1>1, Found
<1>3. EntriesFor("captured", source) # {}
  BY <1>1 DEF Lookup
<1>4. PICK old \in EntriesFor("captured", source) :
        /\ EntriesFor("captured", source) = {old}
        /\ Lookup("captured", source) = At(old)
  BY <1>0, <1>3, Found DEF At
<1>5. old \in Names /\ At(old) # 0 /\ SameEntry(old, source)
  BY <1>4 DEF EntriesFor, At
<1>6. \A name \in Names : SameEntry(name, target) => At(name) = 0
  BY <1>2 DEF EntriesFor, At
<1>7. SameEntry(target, target)
  BY DEF SameEntry
<1>8. At(target) = 0 /\ old # target /\ ~SameEntry(old, target)
  BY <1>5, <1>6, <1>7
<1>9. entries' = [entries EXCEPT !["captured"] =
                    [[name \in Names |-> IF name \in {old} THEN 0 ELSE At(name)]
                        EXCEPT ![target] = At(old)]]
  BY <1>2, <1>4 DEF Moved, At
<1>10. 0 \in 0..nextInode /\ \A name \in Names : At(name) \in 0..nextInode
  BY <1>0 DEF At, Shape, TypeOK
<1>11. entries'["captured"] = [[name \in Names |-> IF name \in {old} THEN 0 ELSE At(name)]
                                  EXCEPT ![target] = At(old)]
       /\ entries'["other"] = entries["other"]
  BY <1>0, <1>9 DEF Shape, TypeOK
<1>12. entries'["captured"] \in [Names -> 0..nextInode]
  BY <1>5, <1>10, <1>11
<1>13. entries' \in [Directories -> [Names -> 0..nextInode]]
  BY <1>0, <1>9, <1>11, <1>12 DEF Shape, TypeOK
<1>14. \A name \in Names :
         entries'["captured"][name] = IF name = target THEN At(old)
                                      ELSE IF name = old THEN 0 ELSE At(name)
  BY <1>8, <1>11
<1> QED BY <1>5, <1>6, <1>8, <1>11, <1>12, <1>13, <1>14

(* What another process does to a name. *)
LEMMA WithEffect ==
    ASSUME Shape, NEW name \in Names, NEW inode \in Nat, NEW last \in Nat,
           inode <= last, nextInode <= last, entries' = With(name, inode)
    PROVE  /\ entries' \in [Directories -> [Names -> 0..last]]
           /\ entries'["other"] = entries["other"]
           /\ entries'["captured"][name] = inode
           /\ \A other \in Names \ {name} :
                 /\ entries'["captured"][other] \in {0, At(other)}
                 /\ SameEntry(other, name) => entries'["captured"][other] = 0
                 /\ ~SameEntry(other, name) => entries'["captured"][other] = At(other)
<1>0. "captured" \in Directories /\ "other" \in Directories
  BY DEF Directories
<1> DEFINE new == [other \in Names |->
                     IF other = name THEN inode
                     ELSE IF other \in EntriesFor("captured", name) THEN 0
                     ELSE entries["captured"][other]]
<1>1. entries' = [entries EXCEPT !["captured"] = new]
  BY DEF With
<1>2. \A dir \in Directories, other \in Names : entries[dir][other] \in 0..last
  BY DEF Shape, TypeOK
<1>3. new \in [Names -> 0..last]
  BY <1>0, <1>2
<1>4. new[name] = inode
  OBVIOUS
<1>5. \A other \in Names \ {name} : new[other] \in {0, At(other)}
  BY DEF At
<1>6. ASSUME NEW other \in Names \ {name}, SameEntry(other, name) PROVE new[other] = 0
  BY <1>6 DEF EntriesFor
<1>9. ASSUME NEW other \in Names \ {name}, ~SameEntry(other, name) PROVE new[other] = At(other)
  BY <1>9 DEF EntriesFor, At
<1> HIDE DEF new
<1>7. entries'["captured"] = new /\ entries'["other"] = entries["other"]
  BY <1>0, <1>1 DEF Shape, TypeOK
<1>8. entries' \in [Directories -> [Names -> 0..last]]
  <2>1. DOMAIN entries = Directories /\ entries["other"] \in [Names -> 0..last]
    BY <1>0, <1>2 DEF Shape, TypeOK
  <2> QED BY <1>1, <1>3, <2>1 DEF Directories
<1> QED BY <1>4, <1>5, <1>6, <1>7, <1>8, <1>9

-----------------------------------------------------------------------------
(* Names: two files of a plan never have a name in common. *)
LEMMA PlanNames ==
    ASSUME Shape
    PROVE  /\ plan \in Seq(Names) /\ Len(plan) \in Nat /\ DOMAIN plan = 1..Len(plan)
           /\ \A i \in DOMAIN plan :
                 /\ Source(i) \in Names /\ Target(i) \in Names
                 /\ Normalized[Source(i)] = Target(i) /\ Normalized[Target(i)] = Target(i)
           /\ \A i, j \in DOMAIN plan : Target(i) = Target(j) => i = j
           /\ \A i, j \in DOMAIN plan, name \in Names :
                 name \in {Source(i), Target(i)} /\ name \in {Source(j), Target(j)} => i = j
<1>1. plan \in Plans /\ plan \in Seq(Names)
  BY PlansAssumption DEF Shape, TypeOK
<1>2. Len(plan) \in Nat /\ DOMAIN plan = 1..Len(plan) /\ \A i \in DOMAIN plan : plan[i] \in Names
  BY <1>1
<1>3. \A i \in DOMAIN plan :
        /\ Source(i) \in Names /\ Target(i) \in Names
        /\ Normalized[Source(i)] = Target(i) /\ Normalized[Target(i)] = Target(i)
  BY <1>2, PlansAssumption DEF Source, Target
<1>4. \A i, j \in DOMAIN plan : Target(i) = Target(j) => i = j
  BY <1>1, PlansAssumption DEF Target
<1> QED BY <1>1, <1>2, <1>3, <1>4

-----------------------------------------------------------------------------
(* The record of the call in progress. *)

(* The errors of this part of the program, and what wrapping keeps. *)
LEMMA ErrType ==
    /\ \A kind \in ErrorKinds : Err(kind) \in AppErrors
    /\ \A err \in AppErrors, failed \in BOOLEAN :
          Rollback(err, failed) \in AppErrors /\ Rollback(err, failed).kind = err.kind
    /\ NoError \in AppErrors /\ IsOk(NoError) /\ NoError.kind = "Ok"
    /\ \A kind \in ErrorKinds \ {"Ok"} : ~IsOk(Err(kind))
    /\ {"Io", "Message", "Recovery", "Command", "Interrupted", "Http"} \subseteq ErrorKinds \ {"Ok"}
    /\ \A kind \in ErrorKinds : Err(kind).kind = kind
BY DEF Err, NoError, IsOk, Rollback, AppErrors, ErrorKinds

SameCall ==
    /\ rename' \in RenameRecords
    /\ rename'.inode = rename.inode /\ rename'.source = rename.source
    /\ rename'.target = rename.target

(* A step to the next system call. *)
LEMMA GoEffect ==
    ASSUME Shape, NEW next \in RenamePcs, Go(next)
    PROVE  SameCall /\ rename'.pc = next /\ rename'.completed = rename.completed
BY DEF Shape, RenameRecords, Go, SameCall

(* The end of a call. *)
LEMMA DoneEffect ==
    ASSUME Shape, NEW error \in AppErrors, Done(error)
    PROVE  /\ SameCall /\ rename'.pc = "done" /\ rename'.error = error
           /\ rename'.completed = rename.completed
BY DEF Shape, RenameRecords, RenamePcs, Done, SameCall

(* No call in progress. *)
LEMMA IdleEffect ==
    /\ NoRename \in RenameRecords /\ NoRename.pc = "idle" /\ ~NoRename.completed
BY ErrType DEF NoRename, RenameRecords, RenamePcs

(* The beginning of a call. *)
LEMMA CallEffect ==
    ASSUME NEW i \in Nat, NEW source \in Names, NEW target \in Names,
           rename' = RenameCall(i, source, target)
    PROVE  /\ rename' \in RenameRecords /\ rename'.pc = "open" /\ ~rename'.completed
           /\ rename'.inode = i /\ rename'.source = source /\ rename'.target = target
BY ErrType DEF NoRename, RenameCall, RenameRecords, RenamePcs

(* The steps of a call that leave the directory alone and do not end it    *)
(* with success, ...                                                       *)
Checking ==
    /\ SameCall /\ UNCHANGED entries
    /\ rename.pc \notin {"idle", "verify", "done"}
    /\ rename'.pc \notin {"idle", "verify"} /\ rename'.completed = rename.completed
    /\ rename'.pc = "done" => ~IsOk(rename'.error)

(* ... find the source and the target to be one entry, ... *)
Aliased ==
    /\ SameCall /\ UNCHANGED entries
    /\ rename.pc = "scan" /\ rename'.pc = "done" /\ rename'.completed = rename.completed
    /\ rename.unread = {} /\ \E name \in Names : rename.found = {name}

(* ... rename, ... *)
Moving ==
    /\ SameCall /\ rename.pc = "rename" /\ rename'.pc = "verify" /\ rename'.completed
    /\ RenameStatus("captured", rename.source, rename.target) = "Ok"
    /\ entries' = Moved("captured", rename.source, rename.target)

(* ... and look at what was renamed. *)
Verifying ==
    /\ SameCall /\ UNCHANGED entries
    /\ rename.pc = "verify" /\ rename'.pc = "done" /\ rename'.completed = rename.completed
    /\ rename'.error.kind = "Recovery" \/ Lookup("captured", rename.target) = rename.inode

(* One name is read. *)
LEMMA ReadEffect ==
    ASSUME Shape, ReadDirectory
    PROVE  /\ SameCall /\ rename'.pc = "scan" /\ rename'.completed = rename.completed
           /\ rename.unread \cup rename.found \subseteq Names
           /\ \E name \in rename.unread :
                 /\ rename'.unread = rename.unread \ {name}
                 /\ rename'.found = IF At(name) # 0 THEN rename.found \cup {name}
                                    ELSE rename.found
<1>1. PICK name \in rename.unread :
        rename' = [rename EXCEPT
                      !.unread = @ \ {name},
                      !.found = IF entries[rename.dir][name] # 0 THEN @ \cup {name} ELSE @]
  BY DEF ReadDirectory
<1>2. /\ rename \in RenameRecords /\ rename.dir = "captured" /\ rename.pc = "scan"
      /\ rename.unread \in SUBSET Names /\ rename.found \in SUBSET Names
  BY DEF Shape, RenameRecords, ReadDirectory
<1>3. /\ rename.unread \ {name} \in SUBSET Names
      /\ rename.found \cup {name} \in SUBSET Names
  BY <1>1, <1>2
<1>4. SameCall
  BY <1>1, <1>2, <1>3 DEF RenameRecords, SameCall
<1>5. /\ rename'.unread = rename.unread \ {name}
      /\ rename'.found = IF At(name) # 0 THEN rename.found \cup {name} ELSE rename.found
      /\ rename'.pc = "scan" /\ rename'.completed = rename.completed
  BY <1>1, <1>2 DEF RenameRecords, At
<1> QED BY <1>1, <1>2, <1>4, <1>5

(* There are no other steps of a call. *)
LEMMA SystemCallCases ==
    ASSUME Shape, SystemCall
    PROVE  /\ Checking \/ Aliased \/ Moving \/ Verifying
           /\ UNCHANGED <<nextInode, placed, root, signals, meddled>>
           /\ faults' \in 0..MaxFaults
<1>0. rename.dir = "captured"
  BY DEF Shape, RenameRecords
<1>1. {"identity", "metadata", "target", "scan", "rename", "verify", "done"} \subseteq RenamePcs
  BY DEF RenamePcs
<1>2. faults \in 0..MaxFaults /\ MaxFaults \in Nat
  BY PlansAssumption DEF Shape, TypeOK
<1>3. CASE OpenDirectory
  <2>1. CASE root # "captured" /\ Done(Err("Message"))
    BY <1>2, <1>3, <2>1, DoneEffect, ErrType DEF OpenDirectory, Checking, directory, counters
  <2>2. CASE /\ root = "captured"
             /\ rename' = [rename EXCEPT !.pc = "identity", !.dir = root]
    <3>1. SameCall /\ rename'.pc = "identity" /\ rename'.completed = rename.completed
      BY <1>1, <2>2 DEF Shape, RenameRecords, SameCall
    <3> QED BY <1>2, <1>3, <3>1 DEF OpenDirectory, Checking, directory, counters
  <2> QED BY <1>3, <2>1, <2>2 DEF OpenDirectory
<1>4. CASE CheckIdentity
  <2>1. Done(Err("Io")) \/ Done(Err("Message")) \/ Go("metadata")
    BY <1>4 DEF CheckIdentity
  <2>2. rename.pc = "identity" /\ UNCHANGED <<directory, counters>>
    BY <1>4 DEF CheckIdentity
  <2> QED BY <1>1, <1>2, <2>1, <2>2, GoEffect, DoneEffect, ErrType
             DEF Checking, directory, counters
<1>5. CASE ReadMetadata
  <2>1. Lookup("captured", rename.source) \in Nat
    BY LookupType DEF Directories
  <2>2. SameCall /\ rename'.pc = "target" /\ rename'.completed = rename.completed
    BY <1>0, <1>1, <1>5, <2>1 DEF ReadMetadata, Shape, RenameRecords, SameCall
  <2> QED BY <1>2, <1>5, <2>2 DEF ReadMetadata, Checking, directory, counters
<1>10. CASE ReadTarget
  <2>1. CASE rename' = [rename EXCEPT !.pc = "scan", !.unread = EquivalentNames]
    <3>1. EquivalentNames \in SUBSET Names
      BY DEF EquivalentNames
    <3>2. SameCall /\ rename'.pc = "scan" /\ rename'.completed = rename.completed
      BY <1>1, <2>1, <3>1 DEF Shape, RenameRecords, SameCall
    <3> QED BY <1>2, <1>10, <3>2 DEF ReadTarget, Checking, directory, counters
  <2>2. CASE Go("rename")
    BY <1>1, <1>2, <1>10, <2>2, GoEffect DEF ReadTarget, Checking, directory, counters
  <2> QED BY <1>10, <2>1, <2>2 DEF ReadTarget
<1>11. CASE ReadDirectory
  <2>1. SameCall /\ rename'.pc = "scan" /\ rename'.completed = rename.completed
    BY <1>11, ReadEffect
  <2> QED BY <1>2, <1>11, <2>1 DEF ReadDirectory, Checking, directory, counters
<1>6. CASE SamePathEntry
  <2>1. CASE (\E name \in Names : rename.found = {name}) /\ Done(NoError)
    BY <1>2, <1>6, <2>1, DoneEffect, ErrType
       DEF SamePathEntry, Aliased, directory, counters
  <2>2. CASE Go("rename")
    BY <1>1, <1>2, <1>6, <2>2, GoEffect DEF SamePathEntry, Checking, directory, counters
  <2> QED BY <1>6, <2>1, <2>2 DEF SamePathEntry
<1>7. CASE RenameNoreplace
  <2>1. CASE /\ RenameStatus(rename.dir, rename.source, rename.target) = "Ok"
             /\ entries' = Moved(rename.dir, rename.source, rename.target)
             /\ rename' = [rename EXCEPT !.pc = "verify", !.completed = TRUE]
    <3>1. SameCall /\ rename'.pc = "verify" /\ rename'.completed
      BY <1>1, <2>1 DEF Shape, RenameRecords, SameCall
    <3> QED BY <1>0, <1>2, <1>7, <2>1, <3>1 DEF RenameNoreplace, Moving, counters
  <2>2. CASE Done(Err("Io")) /\ UNCHANGED entries
    BY <1>2, <1>7, <2>2, DoneEffect, ErrType DEF RenameNoreplace, Checking, counters
  <2> QED BY <1>7, <2>1, <2>2 DEF RenameNoreplace
<1>8. CASE VerifyIdentity
  <2>1. CASE Lookup("captured", rename.target) = rename.inode /\ Done(NoError)
    BY <1>2, <1>8, <2>1, DoneEffect, ErrType DEF VerifyIdentity, Verifying, directory, counters
  <2>2. CASE Done(Err("Recovery"))
    BY <1>2, <1>8, <2>2, DoneEffect, ErrType DEF VerifyIdentity, Verifying, directory, counters
  <2> QED BY <1>0, <1>8, <2>1, <2>2 DEF VerifyIdentity
<1>9. CASE SystemCallFails
  <2>1. faults' \in 0..MaxFaults /\ UNCHANGED <<directory, signals, meddled>>
    BY <1>2, <1>9 DEF SystemCallFails
  <2>2. CASE rename.pc = "verify" /\ Done(Err("Recovery"))
    BY <2>1, <2>2, DoneEffect, ErrType DEF Verifying, directory
  <2>3. CASE rename.pc \notin {"idle", "verify", "done"} /\ Done(Err("Io"))
    BY <2>1, <2>3, DoneEffect, ErrType DEF Checking, directory
  <2> QED BY <1>9, <2>2, <2>3 DEF SystemCallFails
<1> QED BY <1>3, <1>4, <1>5, <1>6, <1>7, <1>8, <1>9, <1>10, <1>11 DEF SystemCall

-----------------------------------------------------------------------------
(* The call in progress has two names of one file of the plan. *)
LEMMA CallNames ==
    ASSUME IInv, rename.pc # "idle"
    PROVE  /\ rename.inode \in DOMAIN plan /\ NeedsRename(rename.inode)
           /\ rename.source \in Names /\ rename.target \in Names
           /\ rename.source # rename.target
           /\ Normalized[rename.source] = Target(rename.inode)
           /\ Normalized[rename.target] = Target(rename.inode)
           /\ rename.source \in {Source(rename.inode), Target(rename.inode)}
           /\ rename.target \in {Source(rename.inode), Target(rename.inode)}
           /\ phase = "rename" => /\ rename.inode = index
                                  /\ rename.source = Source(index)
           /\ phase = "rollback" => /\ rename.inode = Last(todo)
                                    /\ rename.target = Source(Last(todo))
           /\ phase \in {"rename", "rollback"}
<1>1. Shape /\ Calls
  BY DEF IInv
<1>2. PICK i \in DOMAIN plan :
        \/ phase = "rename" /\ i = index /\ Call(i, Source(i), Target(i))
        \/ phase = "rollback" /\ i = Last(todo) /\ Call(i, Target(i), Source(i))
  BY <1>1 DEF Calls, Call
<1> QED BY <1>1, <1>2, PlanNames DEF Call, NeedsRename

(* The state without the call in progress stays as it is. *)
Frame == UNCHANGED <<plan, insensitive, progress, nextInode, placed>>

(* The steps of a call: the shape of the state, ... *)
LEMMA SystemCallShape ==
    ASSUME IInv, SystemCall
    PROVE  Shape' /\ Calls' /\ Progress' /\ Frame
<1>1. Shape /\ Unique /\ Calls /\ Progress
  BY DEF IInv
<1>2. /\ Checking \/ Aliased \/ Moving \/ Verifying
      /\ UNCHANGED <<nextInode, placed, root, signals, meddled>>
      /\ faults' \in 0..MaxFaults
  BY <1>1, SystemCallCases
<1>3. UNCHANGED <<plan, insensitive, progress, interrupted>>
  BY DEF SystemCall
<1>4. SameCall /\ rename.pc # "idle" /\ rename'.pc # "idle"
  BY <1>2 DEF Checking, Aliased, Moving, Verifying
<1>5. entries' \in [Directories -> [Names -> 0..nextInode]]
  <2>1. CASE UNCHANGED entries
    BY <1>1, <2>1 DEF Shape, TypeOK
  <2>2. CASE Moving
    BY <1>1, <1>4, <2>2, MoveEffect, CallNames DEF Moving
  <2> QED BY <1>2, <2>1, <2>2 DEF Checking, Aliased, Verifying
<1>6. Shape'
  BY <1>1, <1>2, <1>3, <1>4, <1>5 DEF Shape, TypeOK, SameCall, progress, RenameRecords
<1>7. Progress'
  BY <1>1, <1>3 DEF Progress, progress, IsOk
<1>8. \/ phase' = "rename" /\ Call(index, Source(index), Target(index))'
      \/ /\ phase' = "rollback" /\ todo' # <<>>
         /\ Call(Last(todo), Target(Last(todo)), Source(Last(todo)))'
  BY <1>1, <1>3, <1>4 DEF Calls, Call, SameCall, NeedsRename, Source, Target, progress
<1>9. rename'.completed => rename'.pc \in {"verify", "done"} /\ ~insensitive'
  <2>1. CASE Moving
    <3>1. ~insensitive
      <4> SUFFICES ASSUME insensitive PROVE FALSE
        OBVIOUS
      <4>1. PICK old \in Names : SameEntry(old, rename.source) /\ ~SameEntry(old, rename.target)
        BY <1>1, <1>4, <2>1, MoveEffect, CallNames DEF Moving
      <4> QED BY <1>4, <4>1, CallNames DEF SameEntry
    <3> QED BY <1>3, <2>1, <3>1 DEF Moving
  <2>2. CASE Checking \/ Aliased \/ Verifying
    BY <1>1, <1>3, <2>2 DEF Calls, Checking, Aliased, Verifying
  <2> QED BY <1>2, <2>1, <2>2
<1>10. rename'.pc = "verify" => rename'.completed
  BY <1>2 DEF Checking, Aliased, Moving, Verifying
<1> QED BY <1>2, <1>3, <1>6, <1>7, <1>8, <1>9, <1>10 DEF Calls, Frame

(* A move keeps one entry per name up to NFC. *)
LEMMA SystemCallUnique ==
    ASSUME IInv, SystemCall
    PROVE  Unique' /\ ReplacedRootUntouched'
<1>1. Shape /\ Unique /\ ReplacedRootUntouched
  BY DEF IInv
<1>2. UNCHANGED <<plan, insensitive>>
  BY DEF SystemCall
<1>3. CASE UNCHANGED entries
  BY <1>1, <1>2, <1>3 DEF Unique, ReplacedRootUntouched, Discovered
<1>4. CASE Moving
  <2>1. rename.source \in Names /\ rename.target \in Names
    BY <1>4, CallNames DEF Moving
  <2>2. PICK old \in Names :
          /\ ~SameEntry(old, rename.target) /\ SameEntry(old, rename.source)
          /\ entries'["other"] = entries["other"]
    BY <1>1, <1>4, <2>1, MoveEffect DEF Moving
  <2>3. ~insensitive
    BY <1>4, <2>2, CallNames DEF SameEntry, Moving
  <2> QED BY <1>1, <1>2, <2>2, <2>3 DEF Unique, ReplacedRootUntouched, Discovered
<1> QED BY <1>1, <1>3, <1>4, SystemCallCases DEF Checking, Aliased, Verifying

(* What a successful rename does to the names, on the file systems where   *)
(* there is one.                                                           *)
LEMMA Renamed ==
    ASSUME IInv, Moving
    PROVE  /\ rename.source \in Names /\ rename.target \in Names /\ ~insensitive
           /\ rename.source # rename.target
           /\ At(rename.source) # 0 /\ At(rename.target) = 0
           /\ \A name \in Names :
                 entries'["captured"][name] =
                     IF name = rename.target THEN At(rename.source)
                     ELSE IF name = rename.source THEN 0 ELSE At(name)
<1>1. rename.pc # "idle" /\ Shape /\ Unique
  BY DEF IInv, Moving
<1>2. rename.source \in Names /\ rename.target \in Names
  BY <1>1, CallNames
<1>3. PICK old \in Names :
        /\ SameEntry(old, rename.source) /\ ~SameEntry(old, rename.target)
        /\ old # rename.target /\ At(old) # 0 /\ At(rename.target) = 0
        /\ \A name \in Names :
              entries'["captured"][name] = IF name = rename.target THEN At(old)
                                           ELSE IF name = old THEN 0 ELSE At(name)
  BY <1>1, <1>2, MoveEffect DEF Moving
<1>4. ~insensitive
  BY <1>1, <1>3, CallNames DEF SameEntry
<1>5. old = rename.source
  BY <1>3, <1>4 DEF SameEntry
<1> QED BY <1>2, <1>3, <1>4, <1>5

(* When one name was found where there have been two, another process has  *)
(* made the one and removed it, or it has put the other one back.          *)
LEMMA AliasedSource ==
    ASSUME IInv, Aliased, ~insensitive, At(rename.source) = rename.inode
    PROVE  \/ <<rename.source, rename.inode>> \in placed
           \/ /\ ~Unplaced(rename.inode)
              /\ phase = "rename" => /\ <<rename.target, rename.inode>> \in placed
                                     /\ <<rename.target, 0>> \in placed
<1>1. rename.pc = "scan" /\ rename.unread = {} /\ Scanning
  BY DEF IInv, Aliased
<1>2. rename.source # rename.target
  BY <1>1, CallNames
<1>3. PICK name \in Names : rename.found = {name}
  BY DEF Aliased
<1>4. ~(rename.source \in rename.found /\ rename.target \in rename.found)
  BY <1>2, <1>3
<1> QED BY <1>1, <1>4 DEF Scanning

(* ... what has become of strangers' files, ... *)
LEMMA SystemCallStrangers ==
    ASSUME IInv, SystemCall
    PROVE  Strangers'
<1>1. Shape /\ Unique /\ Strangers
  BY DEF IInv
<1>2. UNCHANGED <<plan, placed, failedUndo, result>> /\ Len(plan) \in Nat
  BY <1>1, SystemCallShape, PlanNames DEF Frame, progress
<1>3. LocalLeftovers' = LocalLeftovers
  BY <1>2 DEF LocalLeftovers
<1> SUFFICES ASSUME NEW name \in Names, At(name)' > Len(plan),
                    ~(<<name, At(name)'>> \in placed), ~LocalLeftovers
             PROVE  \/ rename'.pc = "verify" /\ name = rename'.target
                    \/ rename'.pc = "done" /\ rename'.error.kind = "Recovery"
  BY <1>2, <1>3 DEF Strangers
<1>4. CASE Checking \/ Aliased
  BY <1>1, <1>4 DEF Checking, Aliased, Strangers, At
<1>5. CASE Moving
  <2>1. CASE name = rename.target
    BY <1>5, <2>1 DEF Moving, SameCall
  <2>2. CASE name # rename.target
    <3>1. At(name)' = 0 \/ At(name)' = At(name)
      BY <1>5, <2>2, Renamed DEF At
    <3>2. At(name)' = At(name)
      BY <1>2, <3>1
    <3> QED BY <1>1, <1>5, <3>2 DEF Strangers, Moving
  <2> QED BY <2>1, <2>2
<1>6. CASE Verifying
  <2>1. At(name) = At(name)' /\ rename.pc = "verify"
    BY <1>6 DEF Verifying, At
  <2>2. name = rename.target
    BY <1>1, <2>1 DEF Strangers
  <2>3. At(name) # 0
    BY <1>2, <2>1
  <2>4. name \in EntriesFor("captured", rename.target)
    BY <2>2, <2>3 DEF EntriesFor, SameEntry, At
  <2>5. Lookup("captured", rename.target) = At(name)
    BY <1>1, <2>2, <2>4, Found DEF Directories, At
  <2>6. rename.inode \in 1..Len(plan)
    BY <1>1, <2>1, CallNames, PlanNames
  <2>7. At(name) # rename.inode
    BY <1>2, <2>1, <2>6
  <2> QED BY <1>6, <2>5, <2>7 DEF Verifying
<1> QED BY <1>1, <1>4, <1>5, <1>6, SystemCallCases

(* ... the names that are cleared, ... *)
LEMMA SystemCallCleared ==
    ASSUME IInv, SystemCall
    PROVE  Cleared'
<1>1. Shape /\ Cleared /\ Calls
  BY DEF IInv
<1>2. UNCHANGED <<plan, insensitive, placed, phase, index, result>>
  BY SystemCallShape DEF Frame, progress
<1>3. rename.pc # "idle"
  BY <1>1, SystemCallCases DEF Checking, Aliased, Moving, Verifying
<1> SUFFICES ASSUME ~insensitive, NEW i \in DOMAIN plan,
                    Processed(i)', NeedsRename(i), At(Source(i))' = i
             PROVE  \/ <<Source(i), i>> \in placed
                    \/ <<Target(i), i>> \in placed /\ <<Target(i), 0>> \in placed
  BY <1>2 DEF Cleared, NeedsRename, Source, Target
<1>4. /\ Source(i) \in Names /\ i # 0 /\ Normalized[Source(i)] = Target(i)
      /\ Normalized[Target(i)] = Target(i)
  BY <1>1, PlanNames
<1>5. At(Source(i)) = i
  <2>1. CASE UNCHANGED entries
    BY <1>2, <2>1 DEF At, Source
  <2>2. CASE Moving
    <3>1. phase = "rename"
      BY <1>2, <1>3, CallNames DEF Processed
    <3>2. rename.target = Target(rename.inode) /\ rename.inode \in DOMAIN plan
      BY <1>1, <1>3, <3>1 DEF Calls, Call
    <3>3. Source(i) # rename.target
      BY <1>1, <1>4, <3>2, PlanNames DEF NeedsRename
    <3>4. At(Source(i))' = entries'["captured"][Source(i)]
      BY <1>2 DEF At, Source
    <3> QED BY <1>4, <2>2, <3>3, <3>4, Renamed
  <2> QED BY <1>1, <2>1, <2>2, SystemCallCases DEF Checking, Aliased, Verifying
<1>6. CASE Aliased /\ phase = "rename" /\ i = index
  <2>1. rename.inode = i /\ rename.source = Source(i) /\ rename.target = Target(i)
    BY <1>1, <1>3, <1>6 DEF Calls, Call
  <2> QED BY <1>5, <1>6, <2>1, AliasedSource
<1>7. ASSUME ~(Aliased /\ phase = "rename" /\ i = index) PROVE Processed(i)
  <2>1. CASE Succeeded' => Succeeded
    BY <1>2, <2>1 DEF Processed
  <2>2. CASE Aliased
    BY <1>2, <1>7, <2>2 DEF Processed
  <2>3. CASE Moving
    <3>1. ~(phase = "rename" /\ i = index)
      <4> SUFFICES ASSUME phase = "rename", i = index PROVE FALSE
        OBVIOUS
      <4>1. rename.source = Source(i)
        BY <1>3, CallNames
      <4>2. entries'["captured"][Source(i)] = 0
        BY <2>3, <4>1, Renamed
      <4> QED BY <1>2, <1>4, <4>2 DEF At, Source
    <3> QED BY <1>2, <3>1 DEF Processed
  <2>4. CASE Checking \/ Verifying
    BY <2>1, <2>4 DEF Checking, Verifying, Succeeded
  <2> QED BY <1>1, <2>2, <2>3, <2>4, SystemCallCases
<1> QED BY <1>1, <1>5, <1>6, <1>7 DEF Cleared

(* ... and the names that are kept. *)
LEMMA SystemCallKept ==
    ASSUME IInv, SystemCall
    PROVE  Kept'
<1>1. Shape /\ Kept /\ Calls
  BY DEF IInv
<1>2. UNCHANGED <<plan, insensitive, placed, phase, index, renamed, todo, failedUndo, result>>
  BY SystemCallShape DEF Frame, progress
<1>3. rename.pc # "idle"
  BY <1>1, SystemCallCases DEF Checking, Aliased, Moving, Verifying
<1> SUFFICES ASSUME NEW i \in DOMAIN plan, NEW name \in Names, Unplaced(i),
                    entries'["captured"][name] = i
             PROVE  /\ name \in {Source(i), Target(i)}
                    /\ insensitive \/ Restored(i)' => name = Source(i)
  BY <1>2 DEF Kept, Unplaced, At, Source, Target
<1>4. i # 0
  BY <1>1, PlanNames
<1>5. CASE UNCHANGED entries
  <2>1. /\ name \in {Source(i), Target(i)}
        /\ insensitive \/ Restored(i) => name = Source(i)
    BY <1>1, <1>5 DEF Kept, At
  <2>2. CASE Checking \/ Verifying
    <3>1. (Succeeded' => Succeeded) /\ rename'.completed = rename.completed
      BY <2>2 DEF Checking, Verifying, Succeeded
    <3>2. Restored(i)' => Restored(i)
      BY <1>2, <3>1 DEF Restored
    <3> QED BY <2>1, <3>2
  <2>3. CASE Aliased /\ ~insensitive
    <3>1. CASE phase = "rollback" /\ i = Last(todo)
      <4>1. rename.source = Target(i) /\ rename.inode = i /\ Target(i) \in Names
        BY <1>1, <1>3, <3>1, PlanNames DEF Calls, Call
      <4>2. name # Target(i)
        BY <1>5, <2>3, <4>1, AliasedSource DEF At, Unplaced
      <4> QED BY <2>1, <4>2
    <3>2. CASE ~(phase = "rollback" /\ i = Last(todo))
      <4>1. Restored(i)' => Restored(i)
        BY <1>2, <2>3, <3>2 DEF Restored, Aliased
      <4> QED BY <2>1, <4>1
    <3> QED BY <3>1, <3>2
  <2>4. CASE Moving
    <3>1. entries'["captured"][rename.target] = At(rename.target)
      BY <1>5 DEF At
    <3>2. entries'["captured"][rename.target] = At(rename.source)
      BY <2>4, Renamed
    <3> QED BY <2>4, <3>1, <3>2, Renamed
  <2> QED BY <1>1, <2>1, <2>2, <2>3, <2>4, SystemCallCases
<1>6. CASE Moving
  <2>1. ~insensitive /\ rename.source \in Names /\ rename.target \in Names
    BY <1>6, Renamed
  <2>2. CASE name = rename.target
    <3>1. At(rename.source) = i
      BY <1>6, <2>2, Renamed
    <3>2. rename.source \in {Source(i), Target(i)}
      BY <1>1, <2>1, <3>1 DEF Kept
    <3>3. rename.inode = i
      BY <1>1, <1>3, <2>1, <3>2, CallNames, PlanNames
    <3>4. name \in {Source(i), Target(i)}
      BY <1>3, <2>2, <3>3, CallNames
    <3>5. CASE phase = "rename"
      <4>1. i = index /\ rename'.completed
        BY <1>3, <1>6, <3>3, <3>5, CallNames DEF Moving
      <4> QED BY <1>2, <2>1, <3>4, <3>5, <4>1 DEF Restored
    <3>6. CASE phase = "rollback"
      <4>1. name = Source(i)
        BY <1>3, <2>2, <3>3, <3>6, CallNames
      <4> QED BY <4>1
    <3> QED BY <1>3, <3>5, <3>6, CallNames
  <2>3. CASE name # rename.target
    <3>1. At(name) = i /\ name # rename.source
      BY <1>4, <1>6, <2>3, Renamed
    <3>2. /\ name \in {Source(i), Target(i)}
          /\ Restored(i) => name = Source(i)
      BY <1>1, <3>1 DEF Kept
    <3>3. CASE phase = "rollback" /\ i = Last(todo)
      <4>1. rename.source = Target(i)
        BY <1>1, <1>3, <3>3 DEF Calls, Call
      <4> QED BY <3>1, <3>2, <4>1
    <3>4. CASE ~(phase = "rollback" /\ i = Last(todo))
      <4>1. ~rename.completed
        BY <1>1, <1>6 DEF Calls, Moving
      <4>2. Restored(i)' => Restored(i)
        BY <1>2, <1>6, <3>4, <4>1 DEF Restored, Moving
      <4> QED BY <2>1, <3>2, <4>2
    <3> QED BY <3>3, <3>4
  <2> QED BY <2>2, <2>3
<1> QED BY <1>1, <1>5, <1>6, SystemCallCases DEF Checking, Aliased, Verifying

(* The files that are still to be renamed, and the files with one name. *)
LEMMA SystemCallNames ==
    ASSUME IInv, SystemCall
    PROVE  Ahead' /\ Single'
<1>1. Shape /\ Calls /\ Ahead /\ Single
  BY DEF IInv
<1>2. UNCHANGED <<plan, insensitive, placed, phase, index>>
  BY SystemCallShape DEF Frame, progress
<1>3. rename.pc # "idle"
  BY <1>1, SystemCallCases DEF Checking, Aliased, Moving, Verifying
<1>4. CASE UNCHANGED entries /\ (rename.completed => rename'.completed)
  <2>1. \A i \in DOMAIN plan : Pending(i)' => Pending(i)
    BY <1>2, <1>4 DEF Pending
  <2>2. Ahead'
    BY <1>1, <1>2, <1>4, <2>1 DEF Ahead, NeedsRename, Source, Target, At
  <2>3. Single'
    BY <1>1, <1>2, <1>4 DEF Single, Unplaced, At
  <2> QED BY <2>2, <2>3
<1>5. CASE Moving
  <2>1. /\ rename.source \in Names /\ rename.target \in Names
        /\ rename.source # rename.target /\ At(rename.source) # 0 /\ At(rename.target) = 0
        /\ \A name \in Names :
              entries'["captured"][name] =
                  IF name = rename.target THEN At(rename.source)
                  ELSE IF name = rename.source THEN 0 ELSE At(name)
    BY <1>5, Renamed
  <2>2. Ahead'
    <3> SUFFICES ASSUME NEW i \in DOMAIN plan, Pending(i)', NeedsRename(i),
                        entries'["captured"][Target(i)] = i
                 PROVE  <<Target(i), i>> \in placed
      BY <1>2 DEF Ahead, NeedsRename, Source, Target, At
    <3>1. phase = "rename" /\ i # index /\ Pending(i) /\ index \in DOMAIN plan
      BY <1>1, <1>2, <1>3, <1>5, PlanNames, CallNames DEF Pending, Moving
    <3>2. rename.target = Target(index) /\ rename.source = Source(index)
      BY <1>1, <1>3, <3>1 DEF Calls, Call
    <3>3. Target(i) \notin {rename.source, rename.target} /\ Target(i) \in Names
      BY <1>1, <3>1, <3>2, PlanNames
    <3>4. At(Target(i)) = i
      BY <2>1, <3>3
    <3> QED BY <1>1, <3>1, <3>4 DEF Ahead
  <2>3. Single'
    <3> SUFFICES ASSUME NEW i \in DOMAIN plan, NEW a \in Names, NEW b \in Names, Unplaced(i),
                        entries'["captured"][a] = i, entries'["captured"][b] = i
                 PROVE  a = b
      BY <1>2 DEF Single, Unplaced, At
    <3> DEFINE was(name) == IF name = rename.target THEN rename.source ELSE name
    <3>1. i # 0
      BY <1>1, PlanNames
    <3>2. \A name \in {a, b} : name # rename.source /\ At(was(name)) = i /\ was(name) \in Names
      BY <2>1, <3>1
    <3>3. was(a) = was(b)
      BY <1>1, <3>2 DEF Single
    <3> QED BY <3>2, <3>3
  <2> QED BY <2>2, <2>3
<1> QED BY <1>1, <1>4, <1>5, SystemCallCases DEF Checking, Aliased, Verifying

(* What same_path_entry learns with each call. *)
LEMMA SystemCallScanning ==
    ASSUME IInv, SystemCall
    PROVE  Scanning'
<1>1. Shape /\ Unique /\ Calls /\ Ahead /\ Single /\ Scanning
  BY DEF IInv
<1>2. UNCHANGED <<plan, insensitive, placed, phase, index>> /\ SameCall
  BY SystemCallShape, SystemCallCases
     DEF Frame, progress, IInv, Checking, Aliased, Moving, Verifying
<1>3. CASE rename'.pc \notin {"target", "scan"}
  BY <1>3 DEF Scanning
<1> SUFFICES ASSUME ~insensitive, rename'.pc \in {"target", "scan"} PROVE Scanning'
  BY <1>2, <1>3 DEF Scanning
<1>4. ReadMetadata \/ ReadTarget \/ ReadDirectory
  <2>1. \A error \in AppErrors : ~Done(error)
    BY <1>1, DoneEffect
  <2>2. \A pc \in {"metadata", "rename"} : ~Go(pc)
    BY <1>1, GoEffect DEF RenamePcs
  <2>3. ~OpenDirectory
    <3>1. rename' # [rename EXCEPT !.pc = "identity", !.dir = root]
      BY <1>1 DEF Shape, RenameRecords
    <3> QED BY <2>1, <3>1, ErrType DEF OpenDirectory
  <2>4. ~CheckIdentity
    BY <2>1, <2>2, ErrType DEF CheckIdentity
  <2>5. ~SamePathEntry /\ ~VerifyIdentity /\ ~SystemCallFails
    BY <2>1, <2>2, ErrType DEF SamePathEntry, VerifyIdentity, SystemCallFails
  <2>6. ~RenameNoreplace
    <3>1. rename' # [rename EXCEPT !.pc = "verify", !.completed = TRUE]
      BY <1>1 DEF Shape, RenameRecords
    <3> QED BY <2>1, <3>1, ErrType DEF RenameNoreplace
  <2> QED BY <2>3, <2>4, <2>5, <2>6 DEF SystemCall
<1>5. UNCHANGED entries /\ rename.pc \in {"metadata", "target", "scan"}
  BY <1>4 DEF ReadMetadata, ReadTarget, ReadDirectory, directory
<1>6. /\ rename.source \in Names /\ rename.target \in Names /\ rename.inode \in DOMAIN plan
      /\ rename.source # rename.target /\ rename.dir = "captured" /\ NeedsRename(rename.inode)
      /\ Normalized[rename.source] = Normalized[rename.target]
  BY <1>1, <1>5, CallNames DEF Shape, RenameRecords
<1>7. \A name \in Names : Lookup("captured", name) # 0 => Lookup("captured", name) = At(name)
  BY DEF Lookup, EntriesFor, SameEntry, At
<1>8. \A name \in Names : At(name) # 0 => Lookup("captured", name) = At(name)
  <2> SUFFICES ASSUME NEW name \in Names, At(name) # 0
               PROVE  Lookup("captured", name) = At(name)
    OBVIOUS
  <2>1. name \in EntriesFor("captured", name)
    BY DEF EntriesFor, SameEntry, At
  <2> QED BY <1>1, <2>1, Found DEF Directories, At
<1>9. rename.inode # 0
  BY <1>1, <1>6, PlanNames
<1>10. CASE ReadMetadata
  <2>1. rename'.pc = "target" /\ rename'.seen = Lookup("captured", rename.source)
    BY <1>1, <1>6, <1>10 DEF ReadMetadata, Shape, RenameRecords
  <2>2. At(rename.source) = rename.inode => rename'.seen = rename.inode
    BY <1>6, <1>8, <1>9, <2>1
  <2> QED BY <1>2, <1>5, <2>1, <2>2 DEF Scanning, SameCall, At
<1>11. CASE ReadTarget
  <2>1. /\ rename.pc = "target" /\ rename.seen # 0
        /\ Lookup("captured", rename.target) = rename.seen
        /\ rename' = [rename EXCEPT !.pc = "scan", !.unread = EquivalentNames]
    <3>1. ~Go("rename")
      BY <1>1, GoEffect DEF RenamePcs
    <3> QED BY <1>6, <1>11, <3>1 DEF ReadTarget
  <2>2. rename'.pc = "scan" /\ rename'.unread = EquivalentNames
    BY <1>1, <2>1 DEF Shape, RenameRecords
  <2>3. rename.source \in EquivalentNames /\ rename.target \in EquivalentNames
    BY <1>6 DEF EquivalentNames
  <2>4. At(rename.target) = rename.seen
    BY <1>6, <1>7, <2>1
  <2>5. ASSUME At(rename.source) = rename.inode
        PROVE  \/ <<rename.source, rename.inode>> \in placed
               \/ /\ ~Unplaced(rename.inode)
                  /\ phase = "rename" => <<rename.target, rename.inode>> \in placed
    <3>1. CASE rename.seen # rename.inode
      BY <1>1, <2>1, <2>5, <3>1 DEF Scanning
    <3>2. CASE rename.seen = rename.inode
      <4>1. ~Unplaced(rename.inode)
        BY <1>1, <1>6, <2>4, <2>5, <3>2 DEF Single
      <4>2. ASSUME phase = "rename" PROVE <<rename.target, rename.inode>> \in placed
        <5>1. rename.inode = index /\ rename.target = Target(index) /\ ~rename.completed
          BY <1>1, <2>1, <4>2 DEF Calls, Call
        <5> QED BY <1>1, <1>6, <2>4, <3>2, <4>2, <5>1 DEF Ahead, Pending
      <4> QED BY <4>1, <4>2
    <3> QED BY <3>1, <3>2
  <2> QED BY <1>2, <1>5, <2>1, <2>2, <2>3, <2>4, <2>5 DEF Scanning, SameCall, At, Unplaced
<1>12. CASE ReadDirectory
  <2>1. rename.pc = "scan" /\ rename'.pc = "scan"
    BY <1>1, <1>12, ReadEffect DEF ReadDirectory
  <2>2. PICK name \in rename.unread :
          /\ rename'.unread = rename.unread \ {name}
          /\ rename'.found = IF At(name) # 0 THEN rename.found \cup {name} ELSE rename.found
    BY <1>1, <1>12, ReadEffect
  <2>3. \A other : other \in rename.unread \cup rename.found /\ At(other) # 0 =>
                      other \in rename'.unread \cup rename'.found
    BY <2>2
  <2> QED BY <1>1, <1>2, <1>5, <1>9, <2>1, <2>3 DEF Scanning, SameCall, At, Unplaced
<1> QED BY <1>4, <1>10, <1>11, <1>12

-----------------------------------------------------------------------------
(* Other processes. *)

(* What they do to the captured directory: one name gets a new file, gets  *)
(* a link to a file of the plan, or loses its entry.                       *)
Meddling(name, inode) ==
    /\ entries'["captured"][name] = inode
    /\ entries'["other"] = entries["other"]
    /\ entries' \in [Directories -> [Names -> 0..nextInode']]
    /\ \A other \in Names \ {name} :
          /\ entries'["captured"][other] \in {0, At(other)}
          /\ SameEntry(other, name) => entries'["captured"][other] = 0
          /\ ~SameEntry(other, name) => entries'["captured"][other] = At(other)
    /\ <<name, inode>> \in placed'

(* What another process may do to the captured directory. *)
LEMMA MeddleCases ==
    ASSUME IInv, Meddle
    PROVE  /\ nextInode' \in Nat /\ nextInode' >= nextInode /\ placed \subseteq placed'
           /\ root' \in Directories
           /\ \/ UNCHANGED entries
              \/ \E name \in Names, inode \in Nat : Meddling(name, inode)
<1>1. Shape
  BY DEF IInv
<1>2. nextInode \in Nat /\ nextInode > Len(plan) /\ root \in Directories
  BY <1>1 DEF Shape, TypeOK
<1>3. CASE PutFile
  <2>1. PICK name \in Names : /\ entries' = With(name, nextInode)
                              /\ placed' = placed \cup {<<name, nextInode>>}
    BY <1>3 DEF PutFile
  <2>2. nextInode' = nextInode + 1 /\ UNCHANGED root
    BY <1>3 DEF PutFile
  <2>3. Meddling(name, nextInode)
    BY <1>1, <1>2, <2>1, <2>2, WithEffect DEF Meddling
  <2> QED BY <1>2, <2>1, <2>2, <2>3
<1>4. CASE LinkFile
  <2>1. PICK name \in Names, i \in DOMAIN plan :
          entries' = With(name, i) /\ placed' = placed \cup {<<name, i>>}
    BY <1>4 DEF LinkFile
  <2>2. UNCHANGED <<root, nextInode>>
    BY <1>4 DEF LinkFile
  <2>3. i \in Nat /\ i <= nextInode
    BY <1>1, <1>2, PlanNames
  <2>4. Meddling(name, i)
    BY <1>1, <1>2, <2>1, <2>2, <2>3, WithEffect DEF Meddling
  <2> QED BY <1>2, <2>1, <2>2, <2>3, <2>4
<1>5. CASE RemoveFile
  <2>1. PICK name \in Names : entries' = With(name, 0) /\ placed' = placed \cup {<<name, 0>>}
    BY <1>5 DEF RemoveFile
  <2>2. UNCHANGED <<root, nextInode>>
    BY <1>5 DEF RemoveFile
  <2>3. Meddling(name, 0)
    BY <1>1, <1>2, <2>1, <2>2, WithEffect DEF Meddling
  <2> QED BY <1>2, <2>1, <2>2, <2>3
<1>6. CASE ReplaceRoot
  BY <1>2, <1>6 DEF ReplaceRoot, Directories
<1> QED BY <1>3, <1>4, <1>5, <1>6 DEF Meddle

(* Other processes keep the invariant. *)
LEMMA MeddleInv ==
    ASSUME IInv, Meddle
    PROVE  IInv'
<1>1. /\ Shape /\ Unique /\ Calls /\ Progress /\ Strangers /\ Cleared /\ Kept
      /\ Ahead /\ Single /\ Scanning
  BY DEF IInv
<1>2. /\ UNCHANGED <<plan, insensitive, progress, rename, interrupted, faults, signals>>
      /\ meddled' \in 0..MaxForeign[plan]
  BY <1>1, PlansAssumption DEF Meddle, Shape, TypeOK
<1>3. /\ nextInode' \in Nat /\ nextInode' >= nextInode /\ placed \subseteq placed'
      /\ root' \in Directories
      /\ \/ UNCHANGED entries
         \/ \E name \in Names, inode \in Nat : Meddling(name, inode)
  BY MeddleCases
<1>4. Calls' /\ Progress'
  BY <1>1, <1>2 DEF Calls, Call, Progress, NeedsRename, Source, Target, progress, IsOk
<1>5. /\ LocalLeftovers' = LocalLeftovers /\ Succeeded' = Succeeded
      /\ \A i \in DOMAIN plan : /\ Processed(i)' = Processed(i)
                                /\ Restored(i)' = Restored(i)
                                /\ Pending(i)' = Pending(i)
                                /\ Source(i)' = Source(i) /\ Target(i)' = Target(i)
                                /\ NeedsRename(i)' = NeedsRename(i)
  BY <1>2 DEF LocalLeftovers, Succeeded, Processed, Restored, Pending, Source, Target,
              NeedsRename, progress, IsOk
<1>6. \A i : Unplaced(i)' => Unplaced(i)
  BY <1>3 DEF Unplaced
<1>s. ASSUME entries' \in [Directories -> [Names -> 0..nextInode']] PROVE Shape'
  <2>1. nextInode' > Len(plan)
    BY <1>1, <1>3, PlanNames DEF Shape
  <2>2. UNCHANGED <<phase, index, renamed, todo, failedUndo, result>>
    BY <1>2 DEF progress
  <2>3. TypeOK'
    BY <1>s, <1>1, <1>2, <1>3, <2>2 DEF Shape, TypeOK
  <2> QED BY <1>1, <1>2, <1>3, <2>1, <2>3 DEF Shape, RenameRecords
<1>c. ASSUME ~insensitive => \A name \in Names : \/ At(name)' = At(name)
                                                \/ <<name, At(name)'>> \in placed'
      PROVE  Scanning'
  <2> SUFFICES ASSUME ~insensitive, rename.pc \in {"target", "scan"} PROVE Scanning'
    BY <1>2 DEF Scanning
  <2>1. rename.source \in Names /\ rename.target \in Names
    BY CallNames
  <2>2. /\ At(rename.source)' = At(rename.source)
           \/ <<rename.source, At(rename.source)'>> \in placed'
        /\ At(rename.target)' = At(rename.target)
           \/ <<rename.target, At(rename.target)'>> \in placed'
    BY <1>c, <1>2, <2>1 DEF At
  <2>3. UNCHANGED <<rename, phase, insensitive>>
    BY <1>2 DEF progress
  <2>4. ~Unplaced(rename.inode) => ~Unplaced(rename.inode)'
    BY <1>3, <2>3 DEF Unplaced
  <2> QED BY <1>1, <1>3, <2>2, <2>3, <2>4 DEF Scanning
<1>7. CASE UNCHANGED entries
  <2>1. \A name \in Names : At(name)' = At(name)
    BY <1>7 DEF At
  <2>2. entries' \in [Directories -> [Names -> 0..nextInode']]
    <3>1. \A x \in 0..nextInode : x \in 0..nextInode'
      BY <1>1, <1>3 DEF Shape
    <3> QED BY <1>1, <1>7, <3>1 DEF Shape, TypeOK
  <2>3. Shape'
    BY <1>s, <2>2
  <2>4. Unique' /\ ReplacedRootUntouched'
    BY <1>2, <1>7 DEF IInv, Unique, ReplacedRootUntouched, Discovered
  <2>5. Strangers'
    BY <1>1, <1>2, <1>3, <1>5, <2>1 DEF Strangers
  <2>6. Cleared'
    BY <1>1, <1>2, <1>3, <1>5, <2>1, PlanNames DEF Cleared
  <2>7. Kept'
    BY <1>1, <1>2, <1>5, <1>6, <2>1 DEF Kept
  <2>8. Ahead' /\ Single'
    BY <1>1, <1>2, <1>3, <1>5, <1>6, <2>1, PlanNames DEF Ahead, Single
  <2>9. Scanning'
    BY <1>c, <1>2, <2>1
  <2> QED BY <1>4, <2>3, <2>4, <2>5, <2>6, <2>7, <2>8, <2>9 DEF IInv
<1>8. ASSUME NEW name \in Names, NEW inode \in Nat, Meddling(name, inode) PROVE IInv'
  <2>1. \A other \in Names : At(other)' # 0 =>
          \/ other # name /\ At(other)' = At(other) /\ ~SameEntry(other, name)
          \/ other = name /\ <<other, At(other)'>> \in placed'
    BY <1>8 DEF Meddling, At
  <2>2. Shape'
    <3>1. entries' \in [Directories -> [Names -> 0..nextInode']]
      BY <1>8 DEF Meddling
    <3> QED BY <1>s, <3>1
  <2>3. Unique'
    <3> SUFFICES ASSUME insensitive, NEW dir \in Directories, NEW a \in Names, NEW b \in Names,
                        entries'[dir][a] # 0, entries'[dir][b] # 0,
                        Normalized[a] = Normalized[b]
                 PROVE  a = b
      BY <1>2 DEF Unique
    <3>1. CASE dir = "other"
      BY <1>1, <1>8, <3>1 DEF Unique, Meddling
    <3>2. CASE dir = "captured"
      <4>1. At(a)' # 0 /\ At(b)' # 0
        BY <3>2 DEF At
      <4>2. CASE a = name
        BY <2>1, <4>1, <4>2 DEF SameEntry
      <4>3. CASE b = name
        BY <2>1, <4>1, <4>3 DEF SameEntry
      <4>4. CASE a # name /\ b # name
        BY <1>1, <2>1, <3>2, <4>1, <4>4 DEF Unique, At
      <4> QED BY <4>2, <4>3, <4>4
    <3> QED BY <3>1, <3>2 DEF Directories
  <2>4. ReplacedRootUntouched'
    BY <1>2, <1>8 DEF IInv, ReplacedRootUntouched, Discovered, Meddling
  <2>5. Strangers'
    <3> SUFFICES ASSUME NEW other \in Names, At(other)' > Len(plan)
                 PROVE  \/ <<other, At(other)'>> \in placed'
                        \/ LocalLeftovers
                        \/ rename.pc = "verify" /\ other = rename.target
                        \/ rename.pc = "done" /\ rename.error.kind = "Recovery"
      BY <1>2, <1>5 DEF Strangers
    <3>1. At(other)' # 0
      BY <1>1, PlanNames
    <3> QED BY <1>1, <1>3, <2>1, <3>1 DEF Strangers
  <2>6. Cleared'
    <3> SUFFICES ASSUME ~insensitive, NEW i \in DOMAIN plan, Processed(i), NeedsRename(i),
                        At(Source(i))' = i
                 PROVE  \/ <<Source(i), i>> \in placed'
                        \/ <<Target(i), i>> \in placed' /\ <<Target(i), 0>> \in placed'
      BY <1>2, <1>5 DEF Cleared
    <3>1. Source(i) \in Names /\ i # 0 /\ Source(i)' = Source(i)
      BY <1>1, <1>5, PlanNames
    <3>2. At(Source(i)) = i \/ <<Source(i), i>> \in placed'
      BY <2>1, <3>1 DEF At
    <3> QED BY <1>1, <1>3, <3>2 DEF Cleared
  <2>7. Kept'
    <3> SUFFICES ASSUME NEW i \in DOMAIN plan, NEW other \in Names, Unplaced(i)',
                        At(other)' = i
                 PROVE  /\ other \in {Source(i), Target(i)}
                        /\ insensitive \/ Restored(i) => other = Source(i)
      BY <1>2, <1>5 DEF Kept
    <3>1. i # 0
      BY <1>1, PlanNames
    <3>2. At(other) = i
      BY <2>1, <3>1 DEF Unplaced
    <3> QED BY <1>1, <1>6, <3>2 DEF Kept
  <2>8. Ahead'
    <3> SUFFICES ASSUME NEW i \in DOMAIN plan, Pending(i), NeedsRename(i), At(Target(i))' = i
                 PROVE  <<Target(i), i>> \in placed'
      BY <1>2, <1>5 DEF Ahead
    <3>1. Target(i) \in Names /\ i # 0 /\ Target(i)' = Target(i)
      BY <1>1, <1>5, PlanNames
    <3>2. At(Target(i)) = i \/ <<Target(i), i>> \in placed'
      BY <2>1, <3>1 DEF At
    <3> QED BY <1>1, <1>3, <3>2 DEF Ahead
  <2>9. Single'
    <3> SUFFICES ASSUME NEW i \in DOMAIN plan, NEW a \in Names, NEW b \in Names,
                        Unplaced(i)', At(a)' = i, At(b)' = i
                 PROVE  a = b
      BY <1>2 DEF Single
    <3>1. i # 0
      BY <1>1, PlanNames
    <3>2. At(a) = i /\ At(b) = i
      BY <2>1, <3>1 DEF Unplaced
    <3> QED BY <1>1, <1>6, <3>2 DEF Single
  <2>10. Scanning'
    <3>1. ~insensitive => \A other \in Names \ {name} : At(other)' = At(other)
      BY <1>8 DEF Meddling, SameEntry, At
    <3>2. <<name, At(name)'>> \in placed'
      BY <1>8 DEF Meddling, At
    <3> QED BY <1>c, <3>1, <3>2
  <2> QED BY <1>4, <2>2, <2>3, <2>4, <2>5, <2>6, <2>7, <2>8, <2>9, <2>10 DEF IInv
<1> QED BY <1>3, <1>7, <1>8

-----------------------------------------------------------------------------
(* The steps of run between the calls leave the file system alone. *)

Between == UNCHANGED <<plan, insensitive, entries, root, nextInode, placed, interrupted, counters>>

(* What such a step has to keep. *)
LEMMA BetweenInv ==
    ASSUME IInv, Between, rename' \in RenameRecords,
           phase' \in Phases, index' \in 0..(Len(plan) + 1), renamed' \in Seq(DOMAIN plan),
           todo' \in Seq(DOMAIN plan), failedUndo' \in BOOLEAN, result' \in AppErrors,
           Calls', Progress',
           rename'.pc \in {"idle", "open"}, rename.pc # "verify",
           rename.pc = "done" /\ rename.error.kind = "Recovery" => LocalLeftovers',
           LocalLeftovers => LocalLeftovers',
           \A i \in DOMAIN plan : Processed(i)' => Processed(i) \/ ~NeedsRename(i),
           \A i \in DOMAIN plan : Restored(i)' => Restored(i) \/ ~NeedsRename(i),
           \A i \in DOMAIN plan : Pending(i)' => Pending(i)
    PROVE  IInv'
<1>1. Shape /\ Unique /\ Strangers /\ Cleared /\ Kept /\ Ahead /\ Single
  BY DEF IInv
<1>2. UNCHANGED <<plan, insensitive, entries, root, nextInode, placed, interrupted,
                  faults, signals, meddled>>
  BY DEF Between, counters
<1>3. Shape'
  BY <1>1, <1>2 DEF Shape, TypeOK, RenameRecords
<1>4. Unique' /\ ReplacedRootUntouched'
  BY <1>2 DEF IInv, Unique, ReplacedRootUntouched, Discovered
<1>5. \A name \in Names : At(name)' = At(name)
  BY <1>2 DEF At
<1>6. Strangers'
  BY <1>1, <1>2, <1>5 DEF Strangers
<1>7. \A i \in DOMAIN plan : Source(i)' = Source(i) /\ Target(i)' = Target(i)
                           /\ NeedsRename(i)' = NeedsRename(i) /\ Unplaced(i)' = Unplaced(i)
  BY <1>2 DEF Source, Target, NeedsRename, Unplaced
<1>8. Cleared'
  <2> SUFFICES ASSUME ~insensitive, NEW i \in DOMAIN plan, Processed(i)', NeedsRename(i),
                      At(Source(i))' = i
               PROVE  \/ <<Source(i), i>> \in placed
                      \/ <<Target(i), i>> \in placed /\ <<Target(i), 0>> \in placed
    BY <1>2, <1>7 DEF Cleared
  <2>1. At(Source(i)) = i /\ Processed(i)
    BY <1>2, <1>7 DEF At
  <2> QED BY <1>1, <2>1 DEF Cleared
<1>9. Kept'
  <2> SUFFICES ASSUME NEW i \in DOMAIN plan, NEW name \in Names, Unplaced(i), At(name) = i
               PROVE  /\ name \in {Source(i), Target(i)}
                      /\ insensitive \/ Restored(i)' => name = Source(i)
    BY <1>2, <1>5, <1>7 DEF Kept
  <2>1. /\ name \in {Source(i), Target(i)}
        /\ insensitive \/ Restored(i) => name = Source(i)
    BY <1>1 DEF Kept
  <2>2. CASE NeedsRename(i)
    BY <2>1, <2>2
  <2>3. CASE ~NeedsRename(i)
    BY <2>1, <2>3 DEF NeedsRename
  <2> QED BY <2>2, <2>3
<1>10. Ahead'
  <2> SUFFICES ASSUME NEW i \in DOMAIN plan, Pending(i)', NeedsRename(i), At(Target(i))' = i
               PROVE  <<Target(i), i>> \in placed
    BY <1>2, <1>7 DEF Ahead
  <2>1. At(Target(i)) = i /\ Pending(i)
    BY <1>2, <1>7 DEF At
  <2> QED BY <1>1, <2>1 DEF Ahead
<1>11. Single' /\ Scanning'
  BY <1>1, <1>2, <1>5, <1>7 DEF Single, Scanning
<1> QED BY <1>3, <1>4, <1>6, <1>8, <1>9, <1>10, <1>11 DEF IInv

(* No call is in progress outside of the two loops, and a call that is not *)
(* made has renamed nothing.                                               *)
LEMMA Idle ==
    ASSUME IInv
    PROVE  /\ phase \notin {"rename", "rollback"} => rename.pc = "idle"
           /\ rename.pc = "idle" => ~Succeeded /\ ~rename.completed
BY DEF IInv, Calls, Succeeded

(* The steps of run in src/upload.rs, one by one: the plan is ready, ... *)
LEMMA PrepareInv ==
    ASSUME IInv, Prepare
    PROVE  IInv'
<1>1. Shape /\ Calls /\ Progress /\ Len(plan) \in Nat
  BY PlanNames DEF IInv
<1>2. /\ Between /\ phase = "prepare" /\ rename.pc = "idle"
      /\ UNCHANGED <<rename, renamed, todo, failedUndo>>
      /\ \/ phase' = "rename" /\ index' = 1 /\ UNCHANGED result
         \/ phase' = "end" /\ result' = Err("Command") /\ UNCHANGED index
  BY Idle DEF Prepare, Between, directory
<1>3. result = NoError /\ ~failedUndo /\ ~IsOk(Err("Command")) /\ Err("Command") \in AppErrors
  BY <1>1, <1>2, ErrType DEF Progress
<1>4. /\ phase' \in Phases /\ index' \in 0..(Len(plan) + 1) /\ result' \in AppErrors
      /\ rename' \in RenameRecords /\ renamed' \in Seq(DOMAIN plan)
      /\ todo' \in Seq(DOMAIN plan) /\ failedUndo' \in BOOLEAN
  BY <1>1, <1>2, <1>3 DEF Shape, TypeOK, Phases
<1>5. Calls' /\ UNCHANGED plan
  BY <1>1, <1>2 DEF Calls, Between
<1>6. Progress'
  BY <1>1, <1>2, <1>3, <1>5 DEF Progress
<1>7. ~Succeeded' /\ ~LocalLeftovers
  BY <1>2, <1>3, ErrType DEF Succeeded, LocalLeftovers
<1>8. \A i \in DOMAIN plan : ~Processed(i)' /\ Restored(i) /\ Pending(i)
  BY <1>1, <1>2, <1>3, <1>7, PlanNames DEF Processed, Restored, Pending
<1> QED BY <1>2, <1>4, <1>5, <1>6, <1>7, <1>8, BetweenInv

(* ... a rename begins, ... *)
LEMMA BeginRenameInv ==
    ASSUME IInv, BeginRename
    PROVE  IInv'
<1>1. Shape /\ Calls /\ Progress /\ Len(plan) \in Nat /\ DOMAIN plan = 1..Len(plan)
  BY PlanNames DEF IInv
<1>2. /\ Between /\ phase = "rename" /\ rename.pc = "idle" /\ index \in DOMAIN plan
      /\ UNCHANGED <<phase, renamed, todo, failedUndo, result>>
      /\ ~Succeeded /\ ~rename.completed
  BY Idle DEF BeginRename, Between, directory
<1>3. LocalLeftovers' = LocalLeftovers /\ UNCHANGED plan
  BY <1>2 DEF LocalLeftovers, Between
<1>4. /\ phase' \in Phases /\ result' \in AppErrors /\ renamed' \in Seq(DOMAIN plan)
      /\ todo' \in Seq(DOMAIN plan) /\ failedUndo' \in BOOLEAN
  BY <1>1, <1>2 DEF Shape, TypeOK
<1>5. CASE /\ NeedsRename(index) /\ UNCHANGED index
           /\ rename' = RenameCall(index, Source(index), Target(index))
  <2>1. /\ rename' \in RenameRecords /\ rename'.pc = "open" /\ ~rename'.completed
        /\ rename'.inode = index /\ rename'.source = Source(index)
        /\ rename'.target = Target(index)
    BY <1>1, <1>2, <1>5, CallEffect, PlanNames
  <2>2. Calls'
    BY <1>2, <1>3, <1>5, <2>1 DEF Calls, Call, NeedsRename, Source, Target
  <2>3. Progress' /\ index' \in 0..(Len(plan) + 1)
    BY <1>1, <1>2, <1>3, <1>5 DEF Progress
  <2>4. \A i \in DOMAIN plan :
          /\ Processed(i)' => Processed(i)
          /\ Restored(i)' => Restored(i)
          /\ Pending(i)' => Pending(i)
    BY <1>2, <1>5, <2>1 DEF Processed, Restored, Succeeded, Pending
  <2> QED BY <1>2, <1>3, <1>4, <2>1, <2>2, <2>3, <2>4, BetweenInv
<1>6. CASE ~NeedsRename(index) /\ index' = index + 1 /\ UNCHANGED rename
  <2>1. Calls' /\ rename' \in RenameRecords
    BY <1>1, <1>2, <1>3, <1>6 DEF Calls, Shape, Between
  <2>2. index' \in 1..(Len(plan) + 1)
    BY <1>1, <1>2, <1>6
  <2>3. Progress' /\ index' \in 0..(Len(plan) + 1)
    BY <1>1, <1>2, <1>3, <2>2 DEF Progress
  <2>4. \A i \in DOMAIN plan : Processed(i)' => Processed(i) \/ ~NeedsRename(i)
    <3> SUFFICES ASSUME NEW i \in DOMAIN plan, Processed(i)', i # index PROVE Processed(i)
      BY <1>6
    <3>1. i < index'
      BY <1>2, <1>6 DEF Processed, Succeeded
    <3>2. i < index
      BY <1>1, <1>2, <1>6, <3>1
    <3> QED BY <1>2, <3>2 DEF Processed
  <2>5. \A i \in DOMAIN plan : Restored(i)' => Restored(i)
    BY <1>2 DEF Restored
  <2>6. \A i \in DOMAIN plan : Pending(i)' => Pending(i)
    <3>1. \A i \in DOMAIN plan : i > index + 1 \/ i = index + 1 => i > index
      BY <1>1, <1>2
    <3> QED BY <1>2, <1>6, <3>1 DEF Pending
  <2> QED BY <1>2, <1>3, <1>4, <1>6, <2>1, <2>3, <2>4, <2>5, <2>6, BetweenInv
<1> QED BY <1>5, <1>6 DEF BeginRename

(* ... it returns, ... *)
LEMMA EndRenameInv ==
    ASSUME IInv, EndRename
    PROVE  IInv'
<1> DEFINE records == IF rename.completed THEN Append(renamed, index) ELSE renamed
           error == IF IsOk(rename.error) /\ interrupted THEN Err("Interrupted")
                    ELSE rename.error
<1>1. Shape /\ Calls /\ Progress /\ Len(plan) \in Nat /\ DOMAIN plan = 1..Len(plan)
  BY PlanNames DEF IInv
<1>2. /\ Between /\ phase = "rename" /\ rename.pc = "done" /\ rename' = NoRename
      /\ renamed' = records /\ UNCHANGED failedUndo
      /\ \/ IsOk(error) /\ index' = index + 1 /\ UNCHANGED <<phase, todo, result>>
         \/ /\ ~IsOk(error) /\ phase' = "rollback" /\ todo' = records
            /\ result' = error /\ UNCHANGED index
  BY DEF EndRename, Between, directory
<1>3. index \in DOMAIN plan
  BY <1>1, <1>2 DEF Calls, Call
<1>4. records \in Seq(DOMAIN plan) /\ error \in AppErrors
  BY <1>1, <1>3, AppendRange, ErrType DEF Shape, TypeOK
<1>5. /\ Range(renamed) \subseteq Range(records)
      /\ rename.completed => index \in Range(records)
  <2>1. renamed \in Seq(DOMAIN plan)
    BY <1>1 DEF Shape, TypeOK
  <2>2. Range(Append(renamed, index)) = Range(renamed) \cup {index}
    BY <1>3, <2>1, AppendRange
  <2> QED BY <2>2
<1>6. /\ rename.error.kind = "Recovery" => error.kind = "Recovery" /\ ~IsOk(error)
      /\ IsOk(error) => IsOk(rename.error)
  BY ErrType DEF IsOk
<1> HIDE DEF records, error
<1>7. rename' \in RenameRecords /\ rename'.pc = "idle" /\ ~rename'.completed /\ ~Succeeded'
  BY <1>2, IdleEffect DEF Succeeded
<1>8. ~LocalLeftovers /\ UNCHANGED plan /\ result = NoError /\ failedUndo' = FALSE
  BY <1>1, <1>2, ErrType DEF Progress, LocalLeftovers, Between, Shape, TypeOK
<1>9. Calls'
  BY <1>7 DEF Calls
<1>10. CASE IsOk(error) /\ index' = index + 1 /\ UNCHANGED <<phase, todo, result>>
  <2>1. index' \in 1..(Len(plan) + 1) /\ index' \in 0..(Len(plan) + 1)
    BY <1>1, <1>3, <1>10
  <2>2. Progress'
    BY <1>1, <1>2, <1>8, <1>10, <2>1 DEF Progress
  <2>3. Succeeded
    BY <1>2, <1>6, <1>10 DEF Succeeded
  <2>4. \A i \in DOMAIN plan : Processed(i)' => Processed(i)
    <3> SUFFICES ASSUME NEW i \in DOMAIN plan, Processed(i)' PROVE Processed(i)
      OBVIOUS
    <3>1. i < index'
      BY <1>2, <1>7, <1>10 DEF Processed
    <3>2. i < index \/ i = index
      BY <1>1, <1>3, <1>10, <3>1
    <3> QED BY <1>2, <2>3, <3>2 DEF Processed
  <2>5. \A i \in DOMAIN plan : Restored(i)' => Restored(i)
    BY <1>2, <1>5, <1>10 DEF Restored
  <2>6. /\ phase' \in Phases /\ result' \in AppErrors /\ todo' \in Seq(DOMAIN plan)
        /\ failedUndo' \in BOOLEAN
    BY <1>1, <1>8, <1>10 DEF Shape, TypeOK
  <2>7. \A i \in DOMAIN plan : Pending(i)' => Pending(i)
    <3>1. \A i \in DOMAIN plan : i > index + 1 \/ i = index + 1 => i > index
      BY <1>1, <1>3
    <3> QED BY <1>2, <1>10, <3>1 DEF Pending
  <2> QED BY <1>2, <1>4, <1>6, <1>7, <1>8, <1>9, <1>10, <2>1, <2>2, <2>4, <2>5, <2>6, <2>7,
             BetweenInv
<1>11. CASE /\ ~IsOk(error) /\ phase' = "rollback" /\ todo' = records
            /\ result' = error /\ UNCHANGED index
  <2>1. Progress'
    BY <1>11 DEF Progress
  <2>2. \A i \in DOMAIN plan : ~Processed(i)' /\ ~Pending(i)'
    BY <1>11 DEF Processed, Pending
  <2>3. \A i \in DOMAIN plan : Restored(i)' => Restored(i)
    BY <1>2, <1>5, <1>7, <1>11 DEF Restored
  <2>4. rename.error.kind = "Recovery" => LocalLeftovers'
    BY <1>6, <1>11 DEF LocalLeftovers
  <2>5. /\ phase' \in Phases /\ failedUndo' \in BOOLEAN /\ index' \in 0..(Len(plan) + 1)
    BY <1>1, <1>8, <1>11 DEF Shape, TypeOK, Phases
  <2> QED BY <1>2, <1>4, <1>7, <1>8, <1>9, <1>11, <2>1, <2>2, <2>3, <2>4, <2>5, BetweenInv
<1> QED BY <1>2, <1>10, <1>11

(* ... all are done, ... *)
LEMMA RenamesDoneInv ==
    ASSUME IInv, RenamesDone
    PROVE  IInv'
<1>1. Shape /\ Calls /\ Progress /\ Len(plan) \in Nat /\ DOMAIN plan = 1..Len(plan)
  BY PlanNames DEF IInv
<1>2. /\ Between /\ phase = "rename" /\ phase' = "upload" /\ rename.pc = "idle"
      /\ UNCHANGED <<rename, renamed, todo, failedUndo, result>> /\ index' = 1
      /\ index \notin DOMAIN plan /\ UNCHANGED plan
  BY DEF RenamesDone, Between, directory
<1>3. \A i \in DOMAIN plan : i < index
  BY <1>1, <1>2 DEF Progress
<1>4. /\ phase' \in Phases /\ index' \in 0..(Len(plan) + 1) /\ result' \in AppErrors
      /\ rename' \in RenameRecords /\ renamed' \in Seq(DOMAIN plan)
      /\ todo' \in Seq(DOMAIN plan) /\ failedUndo' \in BOOLEAN
  BY <1>1, <1>2 DEF Shape, TypeOK, Phases
<1>5. Calls' /\ Progress' /\ LocalLeftovers' = LocalLeftovers
  BY <1>1, <1>2 DEF Calls, Progress, LocalLeftovers, Between
<1>6. \A i \in DOMAIN plan : Processed(i) /\ ~Restored(i)' /\ ~Pending(i)'
  BY <1>2, <1>3 DEF Processed, Restored, Pending
<1> QED BY <1>2, <1>4, <1>5, <1>6, BetweenInv

(* ... the remote half goes on, succeeds or fails, ... *)
LEMMA UploadInv ==
    ASSUME IInv, UploadFile \/ UploadDone \/ UploadFails
    PROVE  IInv'
<1>1. Shape /\ Calls /\ Progress /\ Len(plan) \in Nat /\ DOMAIN plan = 1..Len(plan)
  BY PlanNames DEF IInv
<1>2. /\ Between /\ phase = "upload" /\ rename.pc = "idle" /\ UNCHANGED plan
      /\ UNCHANGED <<rename, renamed, failedUndo>>
  BY Idle DEF UploadFile, UploadDone, UploadFails, Between, directory
<1>3. result = NoError /\ ~failedUndo /\ IsOk(result) /\ ~LocalLeftovers
  BY <1>1, <1>2, ErrType DEF Progress, LocalLeftovers
<1>4. /\ rename' \in RenameRecords /\ renamed' \in Seq(DOMAIN plan) /\ failedUndo' \in BOOLEAN
      /\ index \in 0..(Len(plan) + 1)
  BY <1>1, <1>2 DEF Shape, TypeOK
<1>5. Calls' /\ ~Succeeded'
  BY <1>1, <1>2 DEF Calls, Succeeded, Between
<1>6. CASE phase' \in {"upload", "end"} /\ UNCHANGED <<todo, result>>
           /\ index' \in 0..(Len(plan) + 1)
  <2>1. phase' \in Phases /\ todo' \in Seq(DOMAIN plan) /\ result' \in AppErrors /\ Progress'
    BY <1>1, <1>2, <1>3, <1>6 DEF Shape, TypeOK, Phases, Progress
  <2>2. \A i \in DOMAIN plan : Processed(i) /\ ~Restored(i)' /\ ~Pending(i)'
    BY <1>2, <1>3, <1>6 DEF Processed, Restored, Pending
  <2> QED BY <1>2, <1>3, <1>4, <1>5, <1>6, <2>1, <2>2, BetweenInv
<1>7. CASE /\ phase' = "rollback" /\ UNCHANGED index /\ todo' \in SetToSeqs(DOMAIN plan)
           /\ \E reported \in BOOLEAN : result' = Rollback(Err("Http"), reported)
  <2>1. todo' \in Seq(DOMAIN plan) /\ Range(todo') = DOMAIN plan
    BY <1>1, <1>7, AllListed
  <2>2. result' \in AppErrors /\ ~IsOk(result')
    BY <1>7, ErrType DEF IsOk
  <2>3. phase' \in Phases /\ Progress'
    BY <1>7, <2>2 DEF Phases, Progress
  <2>4. \A i \in DOMAIN plan : ~Processed(i)' /\ ~Restored(i)' /\ ~Pending(i)'
    BY <1>5, <1>7, <2>1 DEF Processed, Restored, Pending
  <2> QED BY <1>2, <1>3, <1>4, <1>5, <1>7, <2>1, <2>2, <2>3, <2>4, BetweenInv
<1>8. CASE UploadFile
  <2>1. index' \in 0..(Len(plan) + 1)
    BY <1>1, <1>8 DEF UploadFile
  <2> QED BY <1>2, <1>6, <1>8, <2>1 DEF UploadFile
<1>9. CASE UploadDone
  BY <1>4, <1>6, <1>9 DEF UploadDone
<1>10. CASE UploadFails
  BY <1>7, <1>10 DEF UploadFails
<1> QED BY <1>8, <1>9, <1>10

(* ... the undo of a rename begins, ... *)
LEMMA BeginUndoInv ==
    ASSUME IInv, BeginUndo
    PROVE  IInv'
<1>1. Shape /\ Calls /\ Progress /\ Len(plan) \in Nat /\ DOMAIN plan = 1..Len(plan)
  BY PlanNames DEF IInv
<1>2. /\ Between /\ phase = "rollback" /\ rename.pc = "idle" /\ todo # <<>> /\ UNCHANGED plan
      /\ UNCHANGED <<phase, index, renamed, failedUndo, result>>
      /\ ~Succeeded /\ ~rename.completed
  BY Idle DEF BeginUndo, Between, directory
<1>3. /\ Front(todo) \in Seq(DOMAIN plan) /\ Last(todo) \in DOMAIN plan
      /\ Range(todo) \subseteq Range(Front(todo)) \cup {Last(todo)}
  BY <1>1, <1>2, FrontLast DEF Shape, TypeOK
<1>4. /\ phase' \in Phases /\ index' \in 0..(Len(plan) + 1) /\ result' \in AppErrors
      /\ renamed' \in Seq(DOMAIN plan) /\ failedUndo' \in BOOLEAN
  BY <1>1, <1>2 DEF Shape, TypeOK
<1>5. Progress' /\ LocalLeftovers' = LocalLeftovers
  BY <1>1, <1>2 DEF Progress, LocalLeftovers
<1>6. \A i \in DOMAIN plan : ~Processed(i)' /\ ~Pending(i)'
  BY <1>2 DEF Processed, Pending
<1>7. CASE /\ NeedsRename(Last(todo)) /\ UNCHANGED todo
           /\ rename' = RenameCall(Last(todo), Target(Last(todo)), Source(Last(todo)))
  <2>1. /\ rename' \in RenameRecords /\ rename'.pc = "open" /\ ~rename'.completed
        /\ rename'.inode = Last(todo) /\ rename'.source = Target(Last(todo))
        /\ rename'.target = Source(Last(todo))
    BY <1>1, <1>3, <1>7, CallEffect, PlanNames
  <2>2. Calls'
    BY <1>2, <1>3, <1>7, <2>1 DEF Calls, Call, NeedsRename, Source, Target
  <2>3. \A i \in DOMAIN plan : Restored(i)' => Restored(i)
    BY <1>2, <1>7, <2>1 DEF Restored, Succeeded
  <2>4. todo' \in Seq(DOMAIN plan)
    BY <1>1, <1>7 DEF Shape, TypeOK
  <2> QED BY <1>2, <1>4, <1>5, <1>6, <2>1, <2>2, <2>3, <2>4, BetweenInv
<1>8. CASE ~NeedsRename(Last(todo)) /\ todo' = Front(todo) /\ UNCHANGED rename
  <2>1. Calls' /\ ~Succeeded' /\ rename' \in RenameRecords
    BY <1>1, <1>2, <1>8 DEF Calls, Succeeded, Shape, Between
  <2>2. \A i \in DOMAIN plan : Restored(i)' => Restored(i) \/ ~NeedsRename(i)
    BY <1>2, <1>3, <1>8, <2>1 DEF Restored
  <2> QED BY <1>2, <1>3, <1>4, <1>5, <1>6, <1>8, <2>1, <2>2, BetweenInv
<1> QED BY <1>7, <1>8 DEF BeginUndo

(* ... it returns, ... *)
LEMMA EndUndoInv ==
    ASSUME IInv, EndUndo
    PROVE  IInv'
<1>1. Shape /\ Calls /\ Progress /\ Len(plan) \in Nat
  BY PlanNames DEF IInv
<1>2. /\ Between /\ phase = "rollback" /\ rename.pc = "done" /\ rename' = NoRename
      /\ UNCHANGED <<phase, index, renamed, result>> /\ UNCHANGED plan
      /\ todo' = Front(todo) /\ failedUndo' = (failedUndo \/ ~IsOk(rename.error))
  BY DEF EndUndo, Between, directory
<1>3. todo # <<>>
  BY <1>1, <1>2 DEF Calls
<1>4. Front(todo) \in Seq(DOMAIN plan) /\ Range(todo) \subseteq Range(Front(todo)) \cup {Last(todo)}
  BY <1>1, <1>3, FrontLast DEF Shape, TypeOK
<1>5. /\ phase' \in Phases /\ index' \in 0..(Len(plan) + 1) /\ result' \in AppErrors
      /\ renamed' \in Seq(DOMAIN plan)
  BY <1>1, <1>2 DEF Shape, TypeOK
<1>6. rename' \in RenameRecords /\ rename'.pc = "idle" /\ ~rename'.completed /\ ~Succeeded'
  BY <1>2, IdleEffect DEF Succeeded
<1>7. /\ Calls' /\ Progress' /\ (LocalLeftovers => LocalLeftovers')
      /\ failedUndo' \in BOOLEAN
  BY <1>1, <1>2, <1>6 DEF Calls, Progress, LocalLeftovers
<1>8. rename.error.kind = "Recovery" => LocalLeftovers'
  BY <1>2 DEF IsOk, LocalLeftovers
<1>9. \A i \in DOMAIN plan : ~Processed(i)' /\ ~Pending(i)' /\ (Restored(i)' => Restored(i))
  BY <1>2, <1>4, <1>6 DEF Processed, Pending, Restored, Succeeded
<1> QED BY <1>2, <1>4, <1>5, <1>6, <1>7, <1>8, <1>9, BetweenInv

(* ... and all are undone. *)
LEMMA UndoDoneInv ==
    ASSUME IInv, UndoDone
    PROVE  IInv'
<1>1. Shape /\ Calls /\ Progress /\ Len(plan) \in Nat
  BY PlanNames DEF IInv
<1>2. /\ Between /\ phase = "rollback" /\ phase' = "end" /\ rename.pc = "idle"
      /\ UNCHANGED <<rename, index, renamed, todo, failedUndo>> /\ UNCHANGED plan
      /\ todo = <<>> /\ result' = Rollback(result, failedUndo)
  BY DEF UndoDone, Between, directory
<1>3. result' \in AppErrors /\ result'.kind = result.kind /\ ~IsOk(result)
  BY <1>1, <1>2, ErrType DEF Shape, TypeOK, Progress
<1>4. /\ phase' \in Phases /\ index' \in 0..(Len(plan) + 1)
      /\ rename' \in RenameRecords /\ renamed' \in Seq(DOMAIN plan)
      /\ todo' \in Seq(DOMAIN plan) /\ failedUndo' \in BOOLEAN
  BY <1>1, <1>2 DEF Shape, TypeOK, Phases
<1>5. Calls' /\ Progress' /\ LocalLeftovers' = LocalLeftovers
  BY <1>1, <1>2, <1>3 DEF Calls, Progress, LocalLeftovers, Between
<1>6. \A i \in DOMAIN plan : ~Processed(i)' /\ ~Pending(i)' /\ (Restored(i)' => Restored(i))
  BY <1>2, <1>3, EmptyRange DEF Processed, Pending, Restored, IsOk
<1> QED BY <1>2, <1>3, <1>4, <1>5, <1>6, BetweenInv

-----------------------------------------------------------------------------
(* The invariant holds initially, ... *)
LEMMA InitInv == Init => IInv
<1> SUFFICES ASSUME Init PROVE IInv
  OBVIOUS
<1>1. plan \in Plans /\ plan \in Seq(Names)
  BY PlansAssumption DEF Init
<1>2. /\ Len(plan) \in Nat /\ DOMAIN plan = 1..Len(plan) /\ nextInode = Len(plan) + 1
      /\ \A i \in DOMAIN plan : plan[i] \in Names
  BY <1>1 DEF Init
<1>3. \A name \in Names :
        /\ Discovered[name] \in 0..nextInode
        /\ Discovered[name] \in DOMAIN plan => plan[Discovered[name]] = name
        /\ Discovered[name] # 0 => Discovered[name] \in DOMAIN plan
  <2> SUFFICES ASSUME NEW name \in Names
               PROVE  /\ Discovered[name] \in 0..nextInode
                      /\ Discovered[name] \in DOMAIN plan => plan[Discovered[name]] = name
                      /\ Discovered[name] # 0 => Discovered[name] \in DOMAIN plan
    OBVIOUS
  <2>1. CASE \E i \in DOMAIN plan : plan[i] = name
    <3>1. Discovered[name] = CHOOSE i \in DOMAIN plan : plan[i] = name
      BY <2>1 DEF Discovered
    <3>2. Discovered[name] \in DOMAIN plan /\ plan[Discovered[name]] = name
      BY <2>1, <3>1
    <3> QED BY <1>2, <3>2
  <2>2. CASE ~\E i \in DOMAIN plan : plan[i] = name
    BY <1>2, <2>2 DEF Discovered
  <2> QED BY <2>1, <2>2
<1>4. Discovered \in [Names -> 0..nextInode]
  BY <1>3 DEF Discovered
<1>5. entries = [dir \in Directories |-> Discovered]
  BY DEF Init
<1>6. entries \in [Directories -> [Names -> 0..nextInode]]
  BY <1>4, <1>5
<1>7. TypeOK
  <2>1. rename.pc \in RenamePcs /\ rename.error \in AppErrors
    BY IdleEffect DEF Init, RenameRecords
  <2>2. index \in 0..(Len(plan) + 1) /\ renamed \in Seq(DOMAIN plan) /\ todo \in Seq(DOMAIN plan)
    BY <1>2 DEF Init
  <2>3. /\ insensitive \in BOOLEAN /\ faults \in 0..MaxFaults /\ signals \in 0..MaxSignals
        /\ meddled \in 0..MaxForeign[plan]
    BY PlansAssumption DEF Init
  <2> QED BY <1>1, <1>6, <2>1, <2>2, <2>3, ErrType DEF Init, TypeOK, Phases, Directories
<1>8. Shape
  BY <1>2, <1>7, IdleEffect DEF Init, Shape
<1>9. Unique
  BY <1>1, <1>3, <1>5, PlansAssumption DEF Unique
<1>10. Calls /\ Progress
  BY IdleEffect DEF Init, Calls, Progress
<1>11. entries["captured"] = Discovered /\ entries["other"] = Discovered
  BY <1>5 DEF Directories
<1>12. Strangers
  BY <1>2, <1>3, <1>11 DEF Strangers, At
<1>13. Cleared
  BY DEF Init, Cleared, Processed
<1>14. Kept
  BY <1>3, <1>11 DEF Kept, At, Source
<1>15. Ahead
  <2> SUFFICES ASSUME NEW i \in DOMAIN plan, NeedsRename(i), At(Target(i)) = i PROVE FALSE
    BY DEF Ahead
  <2>1. Target(i) \in Names
    BY <1>8, PlanNames
  <2> QED BY <1>3, <1>11, <2>1 DEF At, Source, NeedsRename
<1>16. Single /\ Scanning
  BY <1>3, <1>11, IdleEffect DEF Init, Single, Scanning, At
<1> QED BY <1>8, <1>9, <1>10, <1>11, <1>12, <1>13, <1>14, <1>15, <1>16
        DEF IInv, ReplacedRootUntouched

(* A signal, and a step that changes nothing. *)
LEMMA SignalInv ==
    ASSUME IInv, Signal \/ UNCHANGED vars
    PROVE  IInv'
<1>1. /\ UNCHANGED <<plan, insensitive, entries, root, nextInode, placed, progress, rename>>
      /\ UNCHANGED <<faults, meddled>>
  BY DEF Signal, vars, directory, counters
<1>2. interrupted' \in BOOLEAN /\ signals' \in 0..MaxSignals
  <2>1. interrupted \in BOOLEAN /\ signals \in 0..MaxSignals /\ MaxSignals \in Nat
    BY PlansAssumption DEF IInv, Shape, TypeOK
  <2>2. CASE Signal
    <3>1. interrupted' = TRUE /\ signals < MaxSignals /\ signals' = signals + 1
      BY <2>2 DEF Signal
    <3> QED BY <2>1, <3>1
  <2>3. CASE UNCHANGED vars
    BY <2>1, <2>3 DEF vars, counters
  <2> QED BY <2>2, <2>3
<1>3. Shape'
  BY <1>1, <1>2 DEF IInv, Shape, TypeOK, RenameRecords, progress
<1>4. Unique' /\ Calls' /\ Progress' /\ ReplacedRootUntouched'
  BY <1>1 DEF IInv, Unique, Calls, Call, NeedsRename, Source, Target, Progress,
              ReplacedRootUntouched, Discovered, progress, IsOk
<1>5. Strangers'
  BY <1>1 DEF IInv, Strangers, LocalLeftovers, At, progress
<1>6. Cleared'
  BY <1>1
     DEF IInv, Cleared, Processed, Succeeded, NeedsRename, Source, Target, At, progress, IsOk
<1>7. Kept'
  BY <1>1 DEF IInv, Kept, Restored, Succeeded, Unplaced, Source, Target, At, progress, IsOk
<1>8. Ahead' /\ Single' /\ Scanning'
  BY <1>1 DEF IInv, Ahead, Single, Scanning, Pending, Unplaced, NeedsRename, Source, Target,
              At, progress
<1> QED BY <1>3, <1>4, <1>5, <1>6, <1>7, <1>8 DEF IInv

(* ... and every step keeps it. *)
LEMMA NextInv == IInv /\ [Next]_vars => IInv'
<1>1. ASSUME IInv, SystemCall PROVE IInv'
  BY <1>1, SystemCallShape, SystemCallUnique, SystemCallStrangers, SystemCallCleared,
     SystemCallKept, SystemCallNames, SystemCallScanning DEF IInv
<1>2. ASSUME IInv, RunStep PROVE IInv'
  BY <1>1, <1>2, PrepareInv, BeginRenameInv, EndRenameInv, RenamesDoneInv, UploadInv,
     BeginUndoInv, EndUndoInv, UndoDoneInv DEF RunStep
<1> QED BY <1>2, MeddleInv, SignalInv DEF Next, Terminated

(* The invariant holds in every reachable state. *)
LEMMA Inductive == Spec => []IInv
BY InitInv, NextInv, PTL DEF Spec

(* Every variable of the model of src/local.rs and src/atomic_rename.rs    *)
(* keeps its shape.                                                        *)
THEOREM TypeCorrect == Spec => []TypeOK
<1>1. IInv => TypeOK
  BY DEF IInv, Shape
<1> QED BY <1>1, Inductive, PTL

(* A directory that has taken the place of the input root is never renamed *)
(* in (directory_identity).                                                *)
THEOREM RootIdentity == Spec => []ReplacedRootUntouched
<1>1. IInv => ReplacedRootUntouched
  BY DEF IInv
<1> QED BY <1>1, Inductive, PTL

(* A file of another process that got renamed is reported.                 *)
THEOREM StrangersReported == Spec => []StrangersMovedReported
<1>1. IInv => StrangersMovedReported
  <2>1. ASSUME IInv, phase = "end" PROVE rename.pc = "idle"
    BY <2>1, Idle
  <2> QED BY <2>1 DEF IInv, Strangers, StrangersMovedReported, At
<1> QED BY <1>1, Inductive, PTL

(* Success leaves no discovered file under a name that is not normalized,  *)
(* whatever other processes link, put and remove during same_path_entry,   *)
(* except a file that another process has linked under its normalized name *)
(* and whose link it has removed again.                                    *)
THEOREM AllNormalized == Spec => []NoNameLeft
<1>1. IInv => NoNameLeft
  BY DEF IInv, Cleared, Processed, NoNameLeft, At
<1> QED BY <1>1, Inductive, PTL

(* The renames are done for all of the discovered files or for none.       *)
THEOREM LocalAtomicity == Spec => []LocalAllOrNothing
<1>1. IInv => LocalAllOrNothing
  <2> SUFFICES ASSUME IInv, phase = "end", ~LocalLeftovers, NEW i \in DOMAIN plan, LeftAlone(i)
               PROVE  Lookup("captured", IF IsOk(result) THEN Target(i) ELSE Source(i)) = i
    BY DEF LocalAllOrNothing
  <2>1. Shape /\ Unique /\ Kept /\ Cleared
    BY DEF IInv
  <2>2. PICK name \in Names : At(name) = i
    BY DEF LeftAlone, At
  <2>3. Unplaced(i) /\ i # 0
    <3>1. Unplaced(i)
      BY DEF LeftAlone, Unplaced
    <3> QED BY <2>1, <3>1, PlanNames
  <2>4. /\ Source(i) \in Names /\ Target(i) \in Names
        /\ Normalized[Source(i)] = Target(i) /\ Normalized[Target(i)] = Target(i)
    BY <2>1, PlanNames
  <2>5. /\ name \in {Source(i), Target(i)}
        /\ insensitive \/ Restored(i) => name = Source(i)
    BY <2>1, <2>2, <2>3 DEF Kept
  <2>6. ASSUME NEW wanted \in Names, SameEntry(name, wanted)
        PROVE  Lookup("captured", wanted) = i
    <3>1. name \in EntriesFor("captured", wanted)
      BY <2>2, <2>3, <2>6 DEF EntriesFor, At
    <3> QED BY <2>1, <2>2, <3>1, Found DEF Directories, At
  <2>7. CASE IsOk(result)
    <3>1. CASE insensitive
      BY <2>4, <2>5, <2>6, <2>7, <3>1 DEF SameEntry
    <3>2. CASE ~insensitive
      <4>1. NeedsRename(i) => name # Source(i)
        BY <2>1, <2>2, <2>3, <2>4, <2>7, <3>2 DEF Cleared, Processed, Unplaced
      <4>2. name = Target(i)
        BY <2>5, <4>1 DEF NeedsRename
      <4> QED BY <2>4, <2>6, <2>7, <4>2 DEF SameEntry
    <3> QED BY <3>1, <3>2
  <2>8. CASE ~IsOk(result)
    <3>1. Restored(i)
      BY <2>8 DEF Restored, LocalLeftovers
    <3> QED BY <2>4, <2>5, <2>6, <2>8, <3>1 DEF SameEntry
  <2> QED BY <2>7, <2>8
<1> QED BY <1>1, Inductive, PTL

(* Every file that has a name keeps one through every step of the run:     *)
(* renameat2 gets a free target, and what it takes from the source it puts *)
(* there.                                                                  *)
THEOREM NoFileLost == Spec => NothingOverwritten
<1>1. ASSUME IInv, [Next]_vars, meddled' = meddled PROVE Linked \subseteq Linked'
  <2>0. Shape /\ Unique /\ "captured" \in Directories /\ "other" \in Directories
    BY <1>1 DEF IInv, Directories
  <2>1. CASE UNCHANGED entries
    BY <2>1 DEF Linked
  <2>2. CASE SystemCall /\ Moving
    <3> SUFFICES ASSUME NEW dir \in Directories, NEW name \in Names, entries[dir][name] # 0
                 PROVE  \E d \in Directories, n \in Names : entries'[d][n] = entries[dir][name]
      BY DEF Linked
    <3>1. /\ rename.source \in Names /\ rename.target \in Names
          /\ entries'["captured"][rename.target] = At(rename.source)
          /\ \A n \in Names \ {rename.source, rename.target} :
                entries'["captured"][n] = At(n)
          /\ At(rename.target) = 0
      BY <1>1, <2>2, Renamed
    <3>2. entries'["other"] = entries["other"]
      BY <1>1, <2>2, SystemCallUnique, SystemCallShape
         DEF IInv, ReplacedRootUntouched, Discovered, Frame
    <3>3. CASE dir = "other"
      BY <2>0, <3>2, <3>3
    <3>4. CASE dir = "captured"
      <4>1. name # rename.target /\ At(name) = entries[dir][name]
        BY <3>1, <3>4 DEF At
      <4> QED BY <2>0, <3>1, <4>1
    <3> QED BY <3>3, <3>4 DEF Directories
  <2>3. CASE SystemCall /\ ~Moving
    BY <2>0, <2>1, <2>3, SystemCallCases DEF Checking, Aliased, Verifying
  <2>4. CASE Meddle
    BY <1>1, <2>0, <2>4 DEF Meddle, Shape, TypeOK
  <2>5. CASE UNCHANGED vars \/ Signal \/ Terminated
    BY <2>1, <2>5 DEF vars, Signal, Terminated, directory
  <2>6. CASE RunStep /\ ~SystemCall
    BY <2>1, <2>6 DEF RunStep, Prepare, BeginRename, EndRename, RenamesDone,
                      UploadFile, UploadDone, UploadFails, BeginUndo, EndUndo, UndoDone, directory
  <2> QED BY <1>1, <2>2, <2>3, <2>4, <2>5, <2>6 DEF Next
<1>2. IInv /\ [Next]_vars => [meddled' = meddled => Linked \subseteq Linked']_vars
  BY <1>1
<1> QED BY <1>2, Inductive, PTL DEF Spec, NothingOverwritten
=============================================================================
