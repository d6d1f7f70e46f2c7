---------------------------- MODULE OuterWriter ----------------------------
(***************************************************************************)
(* The builder of the outer archive: SyncedOuterWriter and the three       *)
(* writers behind its mutex (src/codec/store_writer.rs, tar_writer.rs,     *)
(* dir_writer.rs).                                                         *)
(*                                                                         *)
(* Producer threads push one member each.  A 7z push streams the member's  *)
(* bytes into the file and then records a header entry; the end header     *)
(* written by finish() lists the entries in order and a reader finds the   *)
(* n-th packed stream by adding up the sizes before it.  A tar push writes *)
(* a header block and then the bytes.  A directory push moves a file into  *)
(* place, over whatever was there.  Bytes are modelled as blocks: block k  *)
(* of producer p is <<p, k>>.                                              *)
(***************************************************************************)
EXTENDS SevenZHeader, FiniteSets

CONSTANTS
  Producers,    \* the threads that push (each pushes one member)
  Formats,      \* the outer formats of this instance: "sevenz", "tar", "dir"
  Name,         \* the member's path, a sequence of components
  Size,         \* the member's length in blocks
  CTime,        \* its creation time, from the listing or the file system, or NoTime
  StreamFails,  \* producers whose copy loop may hit an I/O error half way
  PushPanics,   \* producers whose push may panic while it holds the mutex
  Free          \* the value of `mutex` when nobody holds it

ASSUME MemberAssumption ==
  /\ Free \notin Producers
  /\ \A p \in Producers : Name[p] # <<>>
  /\ Size \in [Producers -> Nat]
  /\ Formats \subseteq {"sevenz", "tar", "dir"}

\* lengths and len() are words, u64 and usize in the code
ASSUME WordAssumption ==
  /\ \A p \in Producers : Size[p] < Word
  /\ IsFiniteSet(Producers) /\ Cardinality(Producers) < Word

VARIABLES
  format,
  disk_fails, \* the I/O errors of StreamFails happen in this execution
  mutex,      \* the producer that holds the mutex, or Free
  poisoned,   \* a producer panicked while holding it
  pc,         \* the state of each producer
  streamed,   \* how many blocks of its member a producer has copied
  data,       \* 7z and tar: the blocks after the signature header
  files,      \* 7z: the header entries, in order
  tree,       \* dir: the files under the root
  count,      \* files.len(), or the tar and dir writers' count
  phase       \* "open", then "finished" or "failed"

setting == <<format, disk_fails>>
vars == <<setting, mutex, poisoned, pc, streamed, data, files, tree, count, phase>>

\* what a reader is to see of a member
Content(p) == [k \in 1 .. Size[p] |-> <<p, k>>]
Member(p)  == [name |-> Name[p], content |-> Content(p)]

\* the entry a 7z push records: the bytes it copied
HeaderFile(p) == [name |-> Name[p], size |-> streamed[p], ctime |-> CTime[p]]

\* The writers' state stays in its domains: no one copies past the end of a member.
TypeOK ==
  /\ format \in Formats
  /\ disk_fails \in BOOLEAN
  /\ mutex \in Producers \cup {Free}
  /\ poisoned \in BOOLEAN
  /\ pc \in [Producers -> {"ready", "locked", "streaming", "done", "skipped",
                           "panicked"}]
  /\ streamed \in [Producers -> Nat] /\ \A p \in Producers : streamed[p] <= Size[p]
  /\ data \in Seq(Producers \X Nat)
  /\ files \in Seq([name : {Name[p] : p \in Producers}, size : Nat,
                  ctime : {CTime[p] : p \in Producers}])
  /\ tree \subseteq [name : {Name[p] : p \in Producers},
                     content : Seq(Producers \X Nat)]
  /\ count \in Nat
  /\ phase \in {"open", "finished", "failed"}

\* create(): a placeholder signature header, or an empty directory
Init ==
  /\ format \in Formats
  /\ disk_fails \in BOOLEAN
  /\ mutex = Free
  /\ poisoned = FALSE
  /\ pc = [p \in Producers |-> "ready"]
  /\ streamed = [p \in Producers |-> 0]
  /\ data = <<>>
  /\ files = <<>>
  /\ tree = {}
  /\ count = 0
  /\ phase = "open"

-----------------------------------------------------------------------------
(***************************************************************************)
(* SyncedOuterWriter::push_path_with_meta takes the mutex, or fails when   *)
(* another thread panicked with it.                                        *)
(***************************************************************************)
\* mutants: no mutual exclusion; a poisoned mutex is taken all the same
Lock_NoMutex(p) ==
  /\ phase = "open" /\ pc[p] = "ready" /\ ~poisoned
  /\ mutex' = p
  /\ pc' = [pc EXCEPT ![p] = "locked"]
  /\ UNCHANGED <<setting, poisoned, streamed, data, files, tree, count, phase>>

Lock_IgnoresPoison(p) ==
  /\ phase = "open" /\ pc[p] = "ready" /\ mutex = Free
  /\ mutex' = p
  /\ pc' = [pc EXCEPT ![p] = "locked"]
  /\ UNCHANGED <<setting, poisoned, streamed, data, files, tree, count, phase>>

Lock(p) ==
  /\ phase = "open" /\ pc[p] = "ready" /\ mutex = Free /\ ~poisoned
  /\ mutex' = p
  /\ pc' = [pc EXCEPT ![p] = "locked"]
  /\ UNCHANGED <<setting, poisoned, streamed, data, files, tree, count, phase>>

LockPoisoned(p) ==
  /\ phase = "open" /\ pc[p] = "ready" /\ mutex = Free /\ poisoned
  /\ pc' = [pc EXCEPT ![p] = "skipped"]
  /\ UNCHANGED <<setting, mutex, poisoned, streamed, data, files, tree, count,
                 phase>>

\* the guard is dropped on return: Ok or Err
Unlock(p, outcome) ==
  /\ mutex' = Free
  /\ pc' = [pc EXCEPT ![p] = outcome]

\* stat, open or the check of the name fails before anything is written
PushRefused(p) ==
  /\ pc[p] = "locked"
  /\ Unlock(p, "skipped")
  /\ UNCHANGED <<setting, poisoned, streamed, data, files, tree, count, phase>>

PushPanic(p) ==
  /\ p \in PushPanics /\ pc[p] \in {"locked", "streaming"}
  /\ Unlock(p, "panicked")
  /\ poisoned' = TRUE
  /\ UNCHANGED <<setting, streamed, data, files, tree, count, phase>>

-----------------------------------------------------------------------------
(***************************************************************************)
(* The copy loop of the 7z and tar writers.  An I/O error in the middle    *)
(* returns Err with the blocks copied so far left in the file.             *)
(***************************************************************************)
StartStream(p) ==
  /\ pc[p] = "locked" /\ format # "dir"
  /\ pc' = [pc EXCEPT ![p] = "streaming"]
  /\ data' = IF format = "tar" THEN Append(data, <<p, 0>>) ELSE data
  /\ UNCHANGED <<setting, mutex, poisoned, streamed, files, tree, count, phase>>

CopyBlock(p) ==
  /\ pc[p] = "streaming" /\ streamed[p] < Size[p]
  /\ streamed' = [streamed EXCEPT ![p] = @ + 1]
  /\ data' = Append(data, Content(p)[streamed[p] + 1])
  /\ UNCHANGED <<setting, mutex, poisoned, pc, files, tree, count, phase>>

CopyFails(p) ==
  /\ disk_fails /\ p \in StreamFails /\ pc[p] = "streaming" /\ streamed[p] < Size[p]
  /\ Unlock(p, "skipped")
  /\ UNCHANGED <<setting, poisoned, streamed, data, files, tree, count, phase>>

\* mutants: the last, empty read() is counted; an empty member is not counted
EndStream_CountsLastRead(p) ==
  /\ pc[p] = "streaming" /\ streamed[p] = Size[p]
  /\ streamed' = [streamed EXCEPT ![p] = @ + 1]
  /\ files' = IF format = "sevenz" THEN Append(files, HeaderFile(p)) ELSE files
  /\ count' = count + 1
  /\ Unlock(p, "done")
  /\ UNCHANGED <<setting, poisoned, data, tree, phase>>

EndStream_CountsPacked(p) ==
  /\ pc[p] = "streaming" /\ streamed[p] = Size[p]
  /\ files' = IF format = "sevenz" THEN Append(files, HeaderFile(p)) ELSE files
  /\ count' = IF Size[p] = 0 THEN count ELSE count + 1
  /\ Unlock(p, "done")
  /\ UNCHANGED <<setting, poisoned, streamed, data, tree, phase>>

\* 7z: the header entry (an empty file has one and no packed stream)
EndStream(p) ==
  /\ pc[p] = "streaming" /\ streamed[p] = Size[p]
  /\ files' = IF format = "sevenz" THEN Append(files, HeaderFile(p)) ELSE files
  /\ count' = count + 1
  /\ Unlock(p, "done")
  /\ UNCHANGED <<setting, poisoned, streamed, data, tree, phase>>

-----------------------------------------------------------------------------
(***************************************************************************)
(* DirOuterWriter::push_path.  Creating the parent directories fails when  *)
(* one of them is a file; what stands at the destination is removed, a     *)
(* directory with everything in it; then the file is moved into place.     *)
(***************************************************************************)
Under(path)   == {f \in tree : IsPrefix(path, f.name)}
ParentIsFile(path) == \E f \in tree : IsStrictPrefix(f.name, path)

DirPlace(p) ==
  /\ pc[p] = "locked" /\ format = "dir" /\ ~ParentIsFile(Name[p])
  /\ tree' = (tree \ Under(Name[p])) \cup {Member(p)}
  /\ count' = count + 1
  /\ Unlock(p, "done")
  /\ UNCHANGED <<setting, poisoned, streamed, data, files, phase>>

\* the move fails after the removal; the copy that is tried instead fails too,
\* and may leave the first blocks behind
DirPlaceFails(p) ==
  /\ disk_fails /\ p \in StreamFails
  /\ pc[p] = "locked" /\ format = "dir" /\ ~ParentIsFile(Name[p])
  /\ \E k \in 0 .. Size[p] :
        tree' \in {tree \ Under(Name[p]),
                  (tree \ Under(Name[p]))
                     \cup {[name |-> Name[p], content |-> SubSeq(Content(p), 1, k)]}}
  /\ Unlock(p, "skipped")
  /\ UNCHANGED <<setting, poisoned, streamed, data, files, count, phase>>

-----------------------------------------------------------------------------
(***************************************************************************)
(* SyncedOuterWriter::finish.  execute() calls it when every producer is   *)
(* done: a poisoned mutex or an empty archive is an error, and so is an    *)
(* I/O error while the end header is written.  (The scheduler of today     *)
(* hangs before it gets here when a nested worker panics, NestedScheduler; *)
(* the writer's own answer to the poison is modelled all the same.)        *)
(***************************************************************************)
ProducersDone ==
  \A p \in Producers : pc[p] \in {"done", "skipped", "panicked"}

\* mutant: an archive without members is finished
Finish_AllowsEmpty ==
  /\ phase = "open" /\ ProducersDone
  /\ phase' \in IF poisoned THEN {"failed"} ELSE {"finished", "failed"}
  /\ UNCHANGED <<setting, mutex, poisoned, pc, streamed, data, files, tree, count>>

Finish ==
  /\ phase = "open" /\ ProducersDone
  /\ phase' \in IF poisoned \/ count = 0 THEN {"failed"} ELSE {"finished", "failed"}
  /\ UNCHANGED <<setting, mutex, poisoned, pc, streamed, data, files, tree, count>>

Terminated == phase # "open" /\ UNCHANGED vars

Push(p) ==
  \/ Lock(p) \/ LockPoisoned(p) \/ PushRefused(p) \/ PushPanic(p)
  \/ StartStream(p) \/ CopyBlock(p) \/ CopyFails(p) \/ EndStream(p)
  \/ DirPlace(p) \/ DirPlaceFails(p)

Next ==
  \/ \E p \in Producers : Push(p)
  \/ Finish
  \/ Terminated

Spec == Init /\ [][Next]_vars

-----------------------------------------------------------------------------
(***************************************************************************)
(* How a reader understands the file.  A 7z reader: the packed streams are *)
(* contiguous from the signature header on (packPos = 0), so the n-th one  *)
(* starts after the sizes before it.  (What it takes to find the sizes and *)
(* names in the header: SevenZHeader and HeaderReadsBack.)                 *)
(***************************************************************************)
PackOffset(n) ==
  LET sum[i \in 0 .. n] == IF i = 0 THEN 0 ELSE sum[i - 1] + files[i].size
  IN  sum[n - 1]

ReadSevenZ ==
  {[name    |-> files[n].name,
    content |-> SubSeq(data, PackOffset(n) + 1, PackOffset(n) + files[n].size)]
     : n \in 1 .. Len(files)}

(***************************************************************************)
(* A tar reader goes from one header to the next, skipping the size the    *)
(* header gives, and stops where it finds no header.  (The writer side of  *)
(* the format belongs to the tar crate.)                                   *)
(***************************************************************************)
ReadTar ==
  LET entries[pos \in 1 .. Len(data) + 1] ==
        IF pos > Len(data) \/ data[pos][2] # 0 THEN {}
        ELSE LET p   == data[pos][1]
                 end == pos + Size[p]
             IN  IF end > Len(data) THEN {}
                 ELSE {[name |-> Name[p], content |-> SubSeq(data, pos + 1, end)]}
                        \cup entries[end + 1]
  IN  entries[1]

ReadBack ==
  CASE format = "sevenz" -> ReadSevenZ
    [] format = "tar"    -> ReadTar
    [] format = "dir"    -> tree

-----------------------------------------------------------------------------
(***************************************************************************)
(* Properties.                                                             *)
(***************************************************************************)

Written == {p \in Producers : pc[p] = "done"}

(***************************************************************************)
(* The finished archive holds, with its own name and bytes, every member   *)
(* whose push returned Ok, and nothing of those that were skipped, in      *)
(* whatever order the producers got the mutex; and len(), which the        *)
(* verification of the output is compared with, is their number.           *)
(***************************************************************************)
ReadsBack ==
  phase = "finished" /\ ~disk_fails =>
    /\ ReadBack = {Member(p) : p \in Written}
    /\ count = Cardinality(Written) /\ count = Cardinality(ReadBack)

(***************************************************************************)
(* A push that panicked with the mutex taints the archive for good: no     *)
(* member is appended after it and the archive is never finished.          *)
(***************************************************************************)
PoisonIsFinal ==
  [][poisoned => phase' # "finished" /\ data' = data /\ files' = files
                 /\ tree' = tree /\ count' = count]_vars

(***************************************************************************)
(* The end header that finish() would write now gives a reader every file  *)
(* of the archive with its own name, size and time: empty members take no  *)
(* packed stream and members without a time take none, wherever they are.  *)
(***************************************************************************)
HeaderReadsBack == format = "sevenz" => read_header(write_raw_header(files)) = files

(***************************************************************************)
(* "Other members still land in the output": a member whose push returned  *)
(* Ok is in the finished output, whole, whatever happened to other ones.   *)
(***************************************************************************)
OtherMembersLand ==
  phase = "finished" => \A p \in Written : Member(p) \in ReadBack

(***************************************************************************)
(* At every moment the file, read as if it were finished now, behaves like *)
(* an archive that members are appended to in one step each.  (Executions  *)
(* with I/O errors do not, see OtherMembersLand: they are mapped to one in *)
(* which nothing happens.)                                                 *)
(***************************************************************************)
Abstract == INSTANCE OuterArchive WITH
               Members <- {Member(p) : p \in Producers},
               archive <- IF disk_fails THEN {} ELSE ReadBack,
               sealed  <- ~disk_fails /\ phase = "finished"

AppendsAtomically == Abstract!Spec
=============================================================================
