--------------------------- MODULE StreamConvert ---------------------------
(***************************************************************************)
(* NativeSevenZ::stream_convert_to_nonsolid of src/archive/native.rs: one  *)
(* promise kept by three conversions.                                      *)
(*                                                                         *)
(*   sequential   the calling thread decodes, encodes and appends in turn  *)
(*   ahead        a decode thread and the calling thread (DecodeAhead)     *)
(*   parallel     decode thread, pool and calling thread (ParallelCodec)   *)
(*                                                                         *)
(* Each of them first clears the way for the output and opens the input on *)
(* the calling thread, and starts its other threads only then.  The three  *)
(* agree on what the output holds and in which order, and differ on what   *)
(* an archive without members is worth: Phase 3 refuses it, the other two  *)
(* seal it.  The threads a conversion has not are left as they begin.      *)
(***************************************************************************)
EXTENDS ParallelCodec

CONSTANTS
  Modes,        \* the values of NativeOptions::pipeline in this instance
  AheadDepth    \* DecodeAhead { depth }

VARIABLES
  mode,         \* options.pipeline
  started,      \* the threads of the conversion have been spawned
  queue,        \* DecodeAhead's channel
  item          \* the member the calling thread encodes itself, or 0

StreamAssumption ==
  /\ Modes \subseteq {"sequential", "ahead", "parallel"}
  /\ AheadDepth \in Nat

ASSUME StreamAssumption

Ahead == INSTANCE DecodeAhead WITH
           Depth <- IF AheadDepth = 0 THEN 1 ELSE AheadDepth     \* depth.max(1)

streaming  == <<mode, started, queue, item>>
threads3   == <<work, encoding, results, pending, next_id>>      \* Phase 3 only
allVars    == <<vars, streaming>>

\* Threads, channels and map stay in their domains: every job is an entry of
\* the archive, and no thread runs before the input has been opened.
StreamTypeOK ==
  /\ mode \in Modes
  /\ started \in BOOLEAN
  /\ decode \in {"opening", "reading", "sending"} \cup DecodeEnded
  /\ cursor \in 1 .. EntryCount + 1
  /\ kept \in 0 .. EntryCount
  /\ skipped \in 0 .. EntryCount
  /\ work \in Seq(Jobs)
  /\ encode \in {"running"} \cup EncodeEnded
  /\ threads \in 0 .. PoolThreads
  /\ busy \in SUBSET Jobs
  /\ broken \in {"no", "err", "panic"}
  /\ results \in Seq(Jobs)
  /\ queue \in Seq(1 .. EntryCount)
  /\ item \in 0 .. EntryCount
  /\ writer \in {"preparing", "reading", "encoding", "joining"} \cup WriterStates
  /\ pending \in SUBSET Jobs
  /\ next_id \in Nat
  /\ written \in Seq(1 .. EntryCount)
  /\ output \in {"none", "old", "open", "removed", "sealed"}
  /\ item # 0 <=> writer = "encoding"
  /\ ~started => decode = "opening" /\ encode = "running"

StreamInit ==
  /\ mode \in Modes
  /\ started = FALSE
  /\ queue = <<>>
  /\ item = 0
  /\ decode = "opening" /\ cursor = 1 /\ kept = 0 /\ skipped = 0
  /\ work = <<>>
  /\ encode = "running" /\ threads = PoolThreads /\ busy = {} /\ broken = "no"
  /\ results = <<>>
  /\ writer = "preparing" /\ pending = {} /\ next_id = 0 /\ written = <<>>
  /\ output \in {"none", "old"}

-----------------------------------------------------------------------------
(***************************************************************************)
(* prepare_output and open_reader, on the calling thread.                  *)
(***************************************************************************)

\* create_dir_all or remove_file fails: nothing has changed
PrepareFails ==
  /\ writer = "preparing" /\ "prepare" \in Faults
  /\ writer' = "err"
  /\ UNCHANGED <<decoding, threads3, written, output, streaming>>

\* an output that was there is removed before the input has been opened
OpenFails ==
  /\ writer = "preparing" /\ "open" \in Faults
  /\ writer' = "err"
  /\ output' = "none"
  /\ UNCHANGED <<decoding, threads3, written, streaming>>

Prepare ==
  /\ writer = "preparing"
  /\ writer' = "creating"
  /\ output' = "none"
  /\ started' = (mode # "sequential")
  /\ UNCHANGED <<decoding, threads3, written, mode, queue, item>>

-----------------------------------------------------------------------------
(***************************************************************************)
(* The sequential conversion: stream_convert_sequential, and               *)
(* process_entry_stream for each entry.                                    *)
(***************************************************************************)
SequentialCreate ==
  /\ writer = "creating"
  /\ \/ writer' = "reading" /\ output' = "open"
     \/ "create" \in Faults /\ writer' = "err" /\ UNCHANGED output
  /\ UNCHANGED <<decode, cursor, kept, skipped, item, written>>

SequentialSkip ==
  /\ writer = "reading" /\ cursor <= EntryCount /\ cursor \notin Keep
  /\ skipped' = skipped + 1
  /\ cursor' = cursor + 1
  /\ UNCHANGED <<decode, kept, writer, item, written, output>>

SequentialEntry ==
  /\ writer = "reading" /\ cursor \in Keep
  /\ item' = cursor
  /\ writer' = "encoding"
  /\ UNCHANGED <<decode, cursor, kept, skipped, written, output>>

SequentialDecodeFails ==
  /\ writer = "reading" /\ cursor <= EntryCount /\ "decode" \in Faults
  /\ writer' = "err"
  /\ UNCHANGED <<decode, cursor, kept, skipped, item, written, output>>

\* mutant: the member is appended twice, the retry of an encoder that succeeded
SequentialPush_Twice ==
  /\ writer = "encoding"
  /\ written' = written \o <<item, item>>
  /\ kept' = kept + 1
  /\ cursor' = cursor + 1
  /\ item' = 0
  /\ writer' = "reading"
  /\ UNCHANGED <<decode, skipped, output>>

SequentialPush ==
  /\ writer = "encoding"
  /\ written' = Append(written, item)
  /\ kept' = kept + 1
  /\ cursor' = cursor + 1
  /\ item' = 0
  /\ writer' = "reading"
  /\ UNCHANGED <<decode, skipped, output>>

SequentialPushFails ==
  /\ writer = "encoding" /\ "push" \in Faults
  /\ item' = 0
  /\ writer' = "err"
  /\ UNCHANGED <<decode, cursor, kept, skipped, written, output>>

SequentialFinish ==
  /\ writer = "reading" /\ cursor > EntryCount
  /\ \/ writer' = "ok" /\ output' = "sealed"
     \/ "finish" \in Faults /\ writer' = "err" /\ UNCHANGED output
  /\ UNCHANGED <<decode, cursor, kept, skipped, item, written>>

Sequential ==
  \/ SequentialCreate \/ SequentialSkip \/ SequentialEntry
  \/ SequentialDecodeFails \/ SequentialPush \/ SequentialPushFails
  \/ SequentialFinish

-----------------------------------------------------------------------------
(***************************************************************************)
(* The threads, whichever conversion they belong to.                       *)
(***************************************************************************)
DecodeThread ==
  /\ started
  /\ \/ mode = "parallel" /\ Decode /\ UNCHANGED streaming
     \/ mode = "ahead" /\ Ahead!Decode /\ UNCHANGED <<mode, started, threads3>>

EncodeThread ==
  /\ started /\ mode = "parallel"
  /\ Encode /\ UNCHANGED streaming

CallingThread ==
  \/ PrepareFails \/ OpenFails \/ Prepare
  \/ /\ writer # "preparing"
     /\ \/ mode = "parallel" /\ Writer /\ UNCHANGED streaming
        \/ mode = "ahead" /\ Ahead!Writer /\ UNCHANGED <<mode, started, threads3>>
        \/ mode = "sequential" /\ Sequential
             /\ UNCHANGED <<mode, started, queue, threads3>>

\* the call has returned, and so has every thread it started
StreamEnded ==
  /\ writer \in Returned
  /\ started /\ mode = "ahead" => Ahead!Ended
  /\ started /\ mode = "parallel" => AllEnded

StreamStops == StreamEnded /\ UNCHANGED allVars

StreamNext == DecodeThread \/ EncodeThread \/ CallingThread \/ StreamStops

StreamSpec == StreamInit /\ [][StreamNext]_allVars

\* the threads are the operating system's, and each runs while it can
Fairness ==
  WF_allVars(DecodeThread) /\ WF_allVars(EncodeThread) /\ WF_allVars(CallingThread)

FairSpec == StreamSpec /\ Fairness

-----------------------------------------------------------------------------
(***************************************************************************)
(* Properties.                                                             *)
(***************************************************************************)

(***************************************************************************)
(* Phase 3: no pack is lost or doubled between the two channels, the pool  *)
(* and the reorder map, until a pool thread breaks.                        *)
(***************************************************************************)
NoPackLost == mode = "parallel" => JobsAccounted

(***************************************************************************)
(* Back-pressure: the uncompressed members in memory are those of the      *)
(* bounded channel, one per thread that compresses, and the one the        *)
(* decoder waits with, however large the archive is.                       *)
(***************************************************************************)
MemoryBounded ==
  /\ mode = "parallel" => InMemory <= Workers + PoolThreads + 1
  /\ mode = "ahead" =>
       Len(queue) + (IF item # 0 THEN 1 ELSE 0) + (IF decode = "sending" THEN 1 ELSE 0)
         <= (IF AheadDepth = 0 THEN 1 ELSE AheadDepth) + 2

(***************************************************************************)
(* Whatever the number of threads, the kept members are written one by one *)
(* in the order of the source, and the call succeeds only when it wrote    *)
(* them all.                                                               *)
(***************************************************************************)
OneByOne == INSTANCE SolidConvert WITH
              refuse_empty <- mode = "parallel",
              outcome <- IF writer \in Returned THEN writer ELSE "running"

RefinesSolidConvert == OneByOne!Spec

(***************************************************************************)
(* Whatever fails, the call returns, and the threads it may have detached  *)
(* come to an end: none waits for ever on a channel.                       *)
(***************************************************************************)
EveryThreadEnds == <>[]StreamEnded
=============================================================================
