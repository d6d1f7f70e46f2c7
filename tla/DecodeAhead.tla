---------------------------- MODULE DecodeAhead ----------------------------
(***************************************************************************)
(* The decode-ahead conversion of a solid archive:                         *)
(* stream_convert_pipeline of src/archive/native.rs.  A decode thread      *)
(* sends the kept members through a channel of bounded depth; the calling  *)
(* thread encodes and appends them as they come.  The writer sees the end  *)
(* of the members and a failure of the decoder as the same thing, a closed *)
(* channel, and tells them apart only when it joins the thread.            *)
(* StreamConvert runs it beside the two other conversions.                 *)
(***************************************************************************)
EXTENDS Naturals, Sequences

CONSTANTS
  EntryCount,   \* how many file entries the source archive has
  Keep,         \* the entries that are safe and pass the filter
  Depth,        \* the capacity of the channel
  Faults        \* what may go wrong in this instance

AheadAssumption ==
  /\ EntryCount \in Nat
  /\ Keep \subseteq 1 .. EntryCount
  /\ Depth \in Nat \ {0}

VARIABLES
  decode,     \* the decode thread
  cursor,     \* the entry for_each_entries is at
  kept, skipped,
  queue,      \* the channel tx .. rx
  writer,     \* the calling thread
  item,       \* the member being encoded, or 0
  written,    \* the entries appended to the output
  output      \* the output file: "none", "old", "open" or "sealed"

vars == <<decode, cursor, kept, skipped, queue, writer, item, written, output>>

Returned    == {"ok", "err"}
DecodeEnded == {"ok", "err", "panicked"}

-----------------------------------------------------------------------------
DecodeOpen ==
  /\ decode = "opening"
  /\ decode' \in {"reading"} \cup (IF "open" \in Faults THEN {"err"} ELSE {})
  /\ UNCHANGED <<cursor, kept, skipped, queue, writer, item, written, output>>

DecodeSkip ==
  /\ decode = "reading" /\ cursor <= EntryCount /\ cursor \notin Keep
  /\ skipped' = skipped + 1
  /\ cursor' = cursor + 1
  /\ UNCHANGED <<decode, kept, queue, writer, item, written, output>>

DecodeEntry ==
  /\ decode = "reading" /\ cursor \in Keep
  /\ decode' = "sending"
  /\ UNCHANGED <<cursor, kept, skipped, queue, writer, item, written, output>>

DecodeFails ==
  /\ decode = "reading" /\ cursor <= EntryCount
  /\ \/ "decode" \in Faults /\ decode' = "err"
     \/ "decode_panic" \in Faults /\ decode' = "panicked"
  /\ UNCHANGED <<cursor, kept, skipped, queue, writer, item, written, output>>

DecodeSend ==
  /\ decode = "sending" /\ writer \notin Returned /\ Len(queue) < Depth
  /\ queue' = Append(queue, cursor)
  /\ kept' = kept + 1
  /\ cursor' = cursor + 1
  /\ decode' = "reading"
  /\ UNCHANGED <<skipped, writer, item, written, output>>

\* rx is gone: the callback answers Ok(false) and the reading stops
DecodeSendFails ==
  /\ decode = "sending" /\ writer \in Returned
  /\ decode' = "ok"
  /\ UNCHANGED <<cursor, kept, skipped, queue, writer, item, written, output>>

\* the counts are the value of the thread
DecodeReturn ==
  /\ decode = "reading" /\ cursor > EntryCount
  /\ decode' = "ok"
  /\ UNCHANGED <<cursor, kept, skipped, queue, writer, item, written, output>>

-----------------------------------------------------------------------------
Create ==
  /\ writer = "creating"
  /\ \/ writer' = "receiving" /\ output' = "open"
     \/ "create" \in Faults /\ writer' = "err" /\ UNCHANGED output
  /\ UNCHANGED <<decode, cursor, kept, skipped, queue, item, written>>

Receive ==
  /\ writer = "receiving" /\ queue # <<>>
  /\ item' = Head(queue)
  /\ queue' = Tail(queue)
  /\ writer' = "encoding"
  /\ UNCHANGED <<decode, cursor, kept, skipped, written, output>>

PushEntry ==
  /\ writer = "encoding"
  /\ written' = Append(written, item)
  /\ item' = 0
  /\ writer' = "receiving"
  /\ UNCHANGED <<decode, cursor, kept, skipped, queue, output>>

PushFails ==
  /\ writer = "encoding" /\ "push" \in Faults
  /\ item' = 0
  /\ writer' = "err"
  /\ UNCHANGED <<decode, cursor, kept, skipped, queue, written, output>>

\* recv() fails: the channel is empty and the sender is gone
ChannelClosed ==
  /\ writer = "receiving" /\ queue = <<>> /\ decode \in DecodeEnded
  /\ writer' = "joining"
  /\ UNCHANGED <<decode, cursor, kept, skipped, queue, item, written, output>>

\* mutant: the error of the decoder is lost
Join_Ignored ==
  /\ writer = "joining" /\ decode \in DecodeEnded
  /\ writer' = "finishing"
  /\ UNCHANGED <<decode, cursor, kept, skipped, queue, item, written, output>>

Join ==
  /\ writer = "joining" /\ decode \in DecodeEnded
  /\ writer' = IF decode = "ok" THEN "finishing" ELSE "err"
  /\ UNCHANGED <<decode, cursor, kept, skipped, queue, item, written, output>>

FinishOutput ==
  /\ writer = "finishing"
  /\ \/ writer' = "ok" /\ output' = "sealed"
     \/ "finish" \in Faults /\ writer' = "err" /\ UNCHANGED output
  /\ UNCHANGED <<decode, cursor, kept, skipped, queue, item, written>>

-----------------------------------------------------------------------------
Decode ==
  \/ DecodeOpen \/ DecodeSkip \/ DecodeEntry \/ DecodeFails \/ DecodeSend
  \/ DecodeSendFails \/ DecodeReturn

Writer ==
  \/ Create \/ Receive \/ PushEntry \/ PushFails \/ ChannelClosed \/ Join
  \/ FinishOutput

\* both threads have come to their end
Ended == writer \in Returned /\ decode \in DecodeEnded

=============================================================================
