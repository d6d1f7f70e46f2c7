--------------------------- MODULE ParallelCodec ---------------------------
(***************************************************************************)
(* The windowed parallel conversion of a solid archive, the default of the *)
(* native backend: stream_convert_parallel_codec of src/archive/native.rs. *)
(*                                                                         *)
(* A decode thread reads the members in the order of the archive, drops    *)
(* those the filter rejects and sends the others, numbered, through a      *)
(* bounded channel.  An encode thread compresses them on the threads of    *)
(* the rayon pool (par_bridge), which finish in any order, and sends the   *)
(* packs through an unbounded channel.  The calling thread, the writer,    *)
(* puts them back in order in a map and appends them to the output.        *)
(*                                                                         *)
(* A sender is dropped when its thread ends, a receiver when the thread    *)
(* that reads from it does: that is how each of the three learns that      *)
(* another one has stopped.  Any of them may fail at any member.           *)
(*                                                                         *)
(* The module has the variables and the steps of the three threads;        *)
(* StreamConvert says how they begin and states what they promise.         *)
(***************************************************************************)
EXTENDS Naturals, Sequences, FiniteSets

CONSTANTS
  EntryCount,     \* how many file entries the source archive has
  Keep,           \* the entries that are safe and pass the filter
  Workers,        \* encode_threads(pack), the capacity of the work channel
  PoolThreads,    \* the threads of the rayon pool
  Faults          \* what may go wrong in this instance

FaultKinds == {"prepare", "open", "decode", "decode_panic", "encode",
               "encode_panic", "create", "push", "finish"}

ASSUME CodecAssumption ==
  /\ EntryCount \in Nat
  /\ Keep \subseteq 1 .. EntryCount
  /\ Workers \in Nat \ {0}
  /\ PoolThreads \in Nat \ {0}
  /\ Faults \subseteq FaultKinds

Jobs == [id : Nat, entry : 1 .. EntryCount]     \* EncodeJob, EncodeResult

VARIABLES
  decode,     \* the decode thread
  cursor,     \* the entry for_each_entries is at
  kept,       \* how many jobs were sent; also the id of the next one
  skipped,    \* how many entries were rejected
  work,       \* the bounded channel work_tx .. work_rx
  encode,     \* the encode thread
  threads,    \* how many pool threads are still in the bridge
  busy,       \* the jobs being compressed
  broken,     \* what stopped a pool thread: "no", "err" or "panic"
  results,    \* the unbounded channel res_tx .. res_rx
  writer,     \* the calling thread
  pending,    \* the reorder map
  next_id,
  written,    \* the entries appended to the output
  output      \* the output file: "none", "old", "open", "removed" or "sealed"

decoding == <<decode, cursor, kept, skipped>>
encoding == <<encode, threads, busy, broken>>
writing  == <<writer, pending, next_id, written, output>>
vars == <<decoding, work, encoding, results, writing>>

Returned    == {"ok", "err"}
DecodeEnded == {"closed", "ok", "err", "panicked"}    \* work_tx is dropped
EncodeEnded == {"ok", "err", "panicked"}              \* work_rx, res_tx are

WriterStates == {"creating", "receiving", "pushing", "join_encode",
                 "join_decode", "finishing"} \cup Returned

-----------------------------------------------------------------------------
(***************************************************************************)
(* The decode thread.                                                      *)
(***************************************************************************)
DecodeOpen ==
  /\ decode = "opening"
  /\ decode' \in {"reading"} \cup (IF "open" \in Faults THEN {"err"} ELSE {})
  /\ UNCHANGED <<cursor, kept, skipped, work, encoding, results, writing>>

\* mutant: the loop does not stop at the last entry
DecodeSkip_PastTheEnd ==
  /\ decode = "reading" /\ cursor \notin Keep
  /\ skipped' = skipped + 1
  /\ cursor' = cursor + 1
  /\ UNCHANGED <<decode, kept, work, encoding, results, writing>>

\* a rejected member of a solid block is decoded all the same, into a sink
DecodeSkip ==
  /\ decode = "reading" /\ cursor <= EntryCount /\ cursor \notin Keep
  /\ skipped' = skipped + 1
  /\ cursor' = cursor + 1
  /\ UNCHANGED <<decode, kept, work, encoding, results, writing>>

DecodeEntry ==
  /\ decode = "reading" /\ cursor <= EntryCount /\ cursor \in Keep
  /\ decode' = "sending"
  /\ UNCHANGED <<cursor, kept, skipped, work, encoding, results, writing>>

DecodeFails ==
  /\ decode = "reading" /\ cursor <= EntryCount
  /\ \/ "decode" \in Faults /\ decode' = "err"
     \/ "decode_panic" \in Faults /\ decode' = "panicked"
  /\ UNCHANGED <<cursor, kept, skipped, work, encoding, results, writing>>

\* mutant: the id is the entry's place in the archive
DecodeSend_EntryIndexAsId ==
  /\ decode = "sending" /\ encode = "running" /\ Len(work) < Workers
  /\ work' = Append(work, [id |-> cursor - 1, entry |-> cursor])
  /\ kept' = kept + 1
  /\ cursor' = cursor + 1
  /\ decode' = "reading"
  /\ UNCHANGED <<skipped, encoding, results, writing>>

\* mutant: an unbounded channel
DecodeSend_Unbounded ==
  /\ decode = "sending" /\ encode = "running"
  /\ work' = Append(work, [id |-> kept, entry |-> cursor])
  /\ kept' = kept + 1
  /\ cursor' = cursor + 1
  /\ decode' = "reading"
  /\ UNCHANGED <<skipped, encoding, results, writing>>

\* send() waits while the channel is full
DecodeSend ==
  /\ decode = "sending" /\ encode = "running" /\ Len(work) < Workers
  /\ work' = Append(work, [id |-> kept, entry |-> cursor])
  /\ kept' = kept + 1
  /\ cursor' = cursor + 1
  /\ decode' = "reading"
  /\ UNCHANGED <<skipped, encoding, results, writing>>

\* mutant: the failure of send() is ignored and the loop goes on
DecodeSendFails_Waits ==
  /\ decode = "sending" /\ encode \in EncodeEnded
  /\ decode' = "sending"
  /\ UNCHANGED <<cursor, kept, skipped, work, encoding, results, writing>>

\* work_rx is gone: the callback answers Ok(false) and the reading stops
DecodeSendFails ==
  /\ decode = "sending" /\ encode \in EncodeEnded
  /\ decode' = "closed"
  /\ UNCHANGED <<cursor, kept, skipped, work, encoding, results, writing>>

\* drop(work_tx), and then the counts are sent
DecodeClose ==
  /\ decode = "reading" /\ cursor > EntryCount
  /\ decode' = "closed"
  /\ UNCHANGED <<cursor, kept, skipped, work, encoding, results, writing>>

DecodeReturn ==
  /\ decode = "closed"
  /\ decode' = "ok"
  /\ UNCHANGED <<cursor, kept, skipped, work, encoding, results, writing>>

-----------------------------------------------------------------------------
(***************************************************************************)
(* The encode thread, which waits for the pool threads of the bridge.      *)
(*                                                                         *)
(* par_bridge and try_for_each belong to rayon: each pool thread takes the *)
(* next job under a lock and runs it, until the channel is closed, its own *)
(* job failed, or it sees that another one did.  (External: modelled from  *)
(* what the closure can rely on.)                                          *)
(***************************************************************************)
IdleThread == Cardinality(busy) < threads

TakeJob ==
  /\ encode = "running" /\ IdleThread /\ work # <<>>
  /\ busy' = busy \cup {Head(work)}
  /\ work' = Tail(work)
  /\ UNCHANGED <<decoding, encode, threads, broken, results, writing>>

Compress(job) ==
  /\ job \in busy /\ writer \notin Returned
  /\ busy' = busy \ {job}
  /\ results' = Append(results, job)
  /\ UNCHANGED <<decoding, work, encode, threads, broken, writing>>

\* compress() fails, or res_rx is gone: "p3 result channel closed"
CompressFails(job) ==
  /\ job \in busy
  /\ "encode" \in Faults \/ writer \in Returned
  /\ busy' = busy \ {job}
  /\ threads' = threads - 1
  /\ broken' = IF broken = "panic" THEN "panic" ELSE "err"
  /\ UNCHANGED <<decoding, work, encode, results, writing>>

CompressPanics(job) ==
  /\ job \in busy /\ "encode_panic" \in Faults
  /\ busy' = busy \ {job}
  /\ threads' = threads - 1
  /\ broken' = "panic"
  /\ UNCHANGED <<decoding, work, encode, results, writing>>

\* the channel is empty and closed, or another thread has failed
PoolThreadEnds ==
  /\ encode = "running" /\ IdleThread
  /\ \/ work = <<>> /\ decode \in DecodeEnded
     \/ broken # "no"
  /\ threads' = threads - 1
  /\ UNCHANGED <<decoding, work, encode, busy, broken, results, writing>>

\* the bridge returns; work_rx (with what it still holds) and res_tx are dropped
EncodeReturn ==
  /\ encode = "running" /\ threads = 0
  /\ encode' = CASE broken = "no"    -> "ok"
                 [] broken = "err"   -> "err"
                 [] broken = "panic" -> "panicked"
  /\ work' = <<>>
  /\ UNCHANGED <<decoding, threads, busy, broken, results, writing>>

-----------------------------------------------------------------------------
(***************************************************************************)
(* The writer.  An early return drops res_rx and detaches the two threads. *)
(***************************************************************************)
Create ==
  /\ writer = "creating"
  /\ \/ writer' = "receiving" /\ output' = "open"
     \/ "create" \in Faults /\ writer' = "err" /\ UNCHANGED output
  /\ UNCHANGED <<decoding, work, encoding, results, pending, next_id, written>>

ReceivePack ==
  /\ writer = "receiving" /\ results # <<>>
  /\ pending' = pending \cup {Head(results)}
  /\ results' = Tail(results)
  /\ writer' = "pushing"
  /\ UNCHANGED <<decoding, work, encoding, next_id, written, output>>

\* mutant: the pack that came is pushed, whatever its number
PushPacked_AsReceived ==
  /\ writer = "pushing"
  /\ \E job \in pending :
        /\ pending' = pending \ {job}
        /\ written' = Append(written, job.entry)
  /\ next_id' = next_id + 1
  /\ UNCHANGED <<decoding, work, encoding, results, writer, output>>

PushPacked ==
  /\ writer = "pushing"
  /\ \E job \in pending :
        /\ job.id = next_id
        /\ pending' = pending \ {job}
        /\ written' = Append(written, job.entry)
  /\ next_id' = next_id + 1
  /\ UNCHANGED <<decoding, work, encoding, results, writer, output>>

PushFails ==
  /\ writer = "pushing" /\ "push" \in Faults
  /\ \E job \in pending : job.id = next_id
  /\ writer' = "err"
  /\ UNCHANGED <<decoding, work, encoding, results, pending, next_id, written,
                 output>>

PushDone ==
  /\ writer = "pushing" /\ \A job \in pending : job.id # next_id
  /\ writer' = "receiving"
  /\ UNCHANGED <<decoding, work, encoding, results, pending, next_id, written,
                 output>>

ResultsClosed ==
  /\ writer = "receiving" /\ results = <<>> /\ encode \in EncodeEnded
  /\ writer' = "join_encode"
  /\ UNCHANGED <<decoding, work, encoding, results, pending, next_id, written,
                 output>>

\* mutant: the outcome of the joined thread is ignored
JoinDecode_Ignored ==
  /\ writer = "join_decode" /\ decode \in {"ok", "err", "panicked"}
  /\ writer' = "finishing"
  /\ UNCHANGED <<decoding, work, encoding, results, pending, next_id, written,
                 output>>

JoinEncode ==
  /\ writer = "join_encode" /\ encode \in EncodeEnded
  /\ writer' = IF encode = "ok" THEN "join_decode" ELSE "err"
  /\ UNCHANGED <<decoding, work, encoding, results, pending, next_id, written,
                 output>>

\* the counts are received at once: a decode thread that returned Ok sent them
JoinDecode ==
  /\ writer = "join_decode" /\ decode \in {"ok", "err", "panicked"}
  /\ writer' = IF decode = "ok" THEN "finishing" ELSE "err"
  /\ UNCHANGED <<decoding, work, encoding, results, pending, next_id, written,
                 output>>

\* an output without members is removed and refused
FinishOutput ==
  /\ writer = "finishing"
  /\ \/ written = <<>> /\ writer' = "err" /\ output' = "removed"
     \/ written # <<>> /\ writer' = "ok" /\ output' = "sealed"
     \/ written # <<>> /\ "finish" \in Faults /\ writer' = "err" /\ UNCHANGED output
  /\ UNCHANGED <<decoding, work, encoding, results, pending, next_id, written>>

-----------------------------------------------------------------------------
Decode ==
  \/ DecodeOpen \/ DecodeSkip \/ DecodeEntry \/ DecodeFails \/ DecodeSend
  \/ DecodeSendFails \/ DecodeClose \/ DecodeReturn

Encode ==
  \/ TakeJob
  \/ \E job \in busy : Compress(job) \/ CompressFails(job) \/ CompressPanics(job)
  \/ PoolThreadEnds
  \/ EncodeReturn

Writer ==
  \/ Create \/ ReceivePack \/ PushPacked \/ PushFails \/ PushDone
  \/ ResultsClosed \/ JoinEncode \/ JoinDecode \/ FinishOutput

AllEnded ==
  /\ writer \in Returned
  /\ encode \in EncodeEnded
  /\ decode \in {"ok", "err", "panicked"}

-----------------------------------------------------------------------------
(***************************************************************************)
(* Properties.                                                             *)
(***************************************************************************)
InChannel(chan) == {chan[i] : i \in 1 .. Len(chan)}

(***************************************************************************)
(* Until something breaks, every job that was sent is in exactly one of    *)
(* the places a job passes through: no pack is lost or doubled on the way  *)
(* from one channel to the other or in the reorder map.                    *)
(***************************************************************************)
JobsAccounted ==
  broken = "no"
    => LET inFlight == InChannel(work) \cup busy \cup InChannel(results)
                         \cup pending
       IN  /\ kept = Len(work) + Cardinality(busy) + Len(results)
                       + Cardinality(pending) + Len(written)
           /\ {job.id : job \in inFlight} = next_id .. kept - 1

(***************************************************************************)
(* The uncompressed members in memory: those in the channel, one per pool  *)
(* thread, and the one the decoder waits with.                             *)
(***************************************************************************)
InMemory == Len(work) + Cardinality(busy) + (IF decode = "sending" THEN 1 ELSE 0)

=============================================================================
