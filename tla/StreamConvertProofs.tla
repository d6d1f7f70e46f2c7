------------------------- MODULE StreamConvertProofs -------------------------
(***************************************************************************)
(* Proofs about StreamConvert, for any archive, filter, number of workers  *)
(* and pool threads, queue depth and set of faults: IInv is inductive, and *)
(* with it no pack is lost, the members in memory are bounded, and each of *)
(* the three conversions implements SolidConvert.                          *)
(***************************************************************************)
EXTENDS StreamConvert, FiniteSetTheorems, SequenceTheorems, TLAPS

-----------------------------------------------------------------------------
(***************************************************************************)
(* The inductive invariant of the proofs.  A kept member is known by its   *)
(* rank, the number of kept members before it in the archive: the job that *)
(* carries it has that number for its id, and what is written are the      *)
(* members of the first ranks.                                             *)
(***************************************************************************)
Rank(entry) == Cardinality({k \in Keep : k < entry})

\* the counts follow the reader of the archive
CountsOK ==
  /\ kept = Rank(cursor)
  /\ kept + skipped = cursor - 1
  /\ decode = "sending" => cursor \in Keep

\* the output holds the first kept members, and no other
WrittenOK ==
  InChannel(written) = {k \in Keep : Rank(k) < Len(written)}

\* the jobs on their way from the decode thread to the output
InFlight == InChannel(work) \cup busy \cup InChannel(results) \cup pending

NoneTwice(chan) == \A i, j \in 1 .. Len(chan) : chan[i] = chan[j] => i = j

JobOK(job) ==
  job.entry \in Keep /\ job.id = Rank(job.entry) /\ job.id \in next_id .. kept - 1

OnePlace ==
  /\ NoneTwice(work) /\ NoneTwice(results)
  /\ InChannel(work) \cap busy = {} /\ InChannel(work) \cap InChannel(results) = {}
  /\ InChannel(work) \cap pending = {} /\ busy \cap InChannel(results) = {}
  /\ busy \cap pending = {} /\ InChannel(results) \cap pending = {}

\* each job is at one place, and each number of the range is a job until a thread breaks
JobsOK ==
  /\ next_id = Len(written) /\ next_id <= kept
  /\ \A job \in InFlight : JobOK(job)
  /\ OnePlace
  /\ broken = "no" => \A id \in next_id .. kept - 1 : \E job \in InFlight : job.id = id

\* the channel and the pool hold no more than they may; a thread leaves the bridge for a reason
PoolOK ==
  /\ Len(work) <= Workers
  /\ Cardinality(busy) <= threads
  /\ broken = "no" /\ threads < PoolThreads => decode \in DecodeEnded /\ work = <<>>
  /\ encode \in EncodeEnded => threads = 0
  /\ encode = "ok" => broken = "no"

\* what each of the three threads knows of the others when it goes on
ThreadsOK ==
  /\ broken = "no" /\ decode \in {"closed", "ok"} => cursor > EntryCount
  /\ writer \notin {"pushing"} \cup Returned => \A job \in pending : job.id # next_id
  /\ writer \in {"join_encode", "join_decode", "finishing"} =>
       encode \in EncodeEnded /\ results = <<>>
  /\ writer \in {"join_decode", "finishing"} => encode = "ok"
  /\ writer = "finishing" => decode = "ok"

ParallelOK == mode = "parallel" => JobsOK /\ PoolOK /\ ThreadsOK

\* the item and the queue continue what is written, up to the reader
AheadOK ==
  mode = "ahead" =>
    LET held == IF item = 0 THEN 0 ELSE 1
    IN  /\ Len(queue) <= (IF AheadDepth = 0 THEN 1 ELSE AheadDepth)
        /\ writer \notin Returned =>
             /\ item # 0 => item \in Keep /\ Rank(item) = Len(written)
             /\ \A i \in 1 .. Len(queue) :
                  queue[i] \in Keep /\ Rank(queue[i]) = Len(written) + held + i - 1
             /\ kept = Len(written) + held + Len(queue)
             /\ decode = "ok" => cursor > EntryCount
        /\ writer \in {"joining", "finishing"} => queue = <<>> /\ decode \in Ahead!DecodeEnded
        /\ writer = "finishing" => decode = "ok"

SequentialOK ==
  mode = "sequential" =>
    /\ ~started
    /\ kept = Len(written)
    /\ item # 0 => item = cursor /\ cursor \in Keep

IInv ==
  /\ StreamTypeOK
  /\ CountsOK
  /\ WrittenOK
  /\ ParallelOK
  /\ AheadOK
  /\ SequentialOK

-----------------------------------------------------------------------------
(* Ranks.                                                                  *)

LEMMA KeepRange ==
  /\ EntryCount \in Nat
  /\ \A k \in Keep : k \in Int /\ k >= 1 /\ k <= EntryCount
BY CodecAssumption

Before(entry) == {k \in Keep : k < entry}

LEMMA BeforeFinite ==
  \A entry \in Int : IsFiniteSet(Before(entry)) /\ Cardinality(Before(entry)) \in Nat
<1>1. IsFiniteSet(1 .. EntryCount)
  BY KeepRange, FS_Interval
<1>2. ASSUME NEW entry \in Int
      PROVE  IsFiniteSet(Before(entry)) /\ Cardinality(Before(entry)) \in Nat
  <2>1. Before(entry) \in SUBSET (1 .. EntryCount)
    BY KeepRange DEF Before
  <2>. QED BY <1>1, <2>1, FS_Subset, FS_CardinalityType
<1>. QED BY <1>2

LEMMA RankType == \A entry \in Int : Rank(entry) \in Nat
BY BeforeFinite DEF Rank, Before

LEMMA RankFirst == Rank(1) = 0
<1>1. {k \in Keep : k < 1} = {}
  BY KeepRange
<1>. QED BY <1>1, FS_EmptySet DEF Rank

\* the rank grows by one behind each kept member
LEMMA RankNext ==
  ASSUME NEW entry \in 1 .. EntryCount
  PROVE  /\ entry \in Keep => Rank(entry + 1) = Rank(entry) + 1
         /\ entry \notin Keep => Rank(entry + 1) = Rank(entry)
<1>1. entry \in Int /\ entry + 1 \in Int
  OBVIOUS
<1>2. CASE entry \in Keep
  <2>0. \A k \in Keep : k < entry + 1 <=> k < entry \/ k = entry
    BY KeepRange
  <2>1. Before(entry + 1) = Before(entry) \cup {entry}
    BY <1>2, <2>0, ~ (entry < entry) DEF Before
  <2>2. entry \notin Before(entry)
    BY KeepRange DEF Before
  <2>3. Cardinality(Before(entry + 1)) = Cardinality(Before(entry)) + 1
    BY <1>1, <2>1, <2>2, BeforeFinite, FS_AddElement
  <2>. QED BY <1>2, <2>3 DEF Rank, Before
<1>3. CASE entry \notin Keep
  <2>0. \A k \in Keep : k < entry + 1 <=> k < entry
    BY <1>3, KeepRange
  <2>1. Before(entry + 1) = Before(entry)
    BY <2>0 DEF Before
  <2>. QED BY <1>1, <1>3, <2>1, RankType DEF Rank, Before
<1>. QED BY <1>2, <1>3

\* a kept member's rank is below that of everything behind it
LEMMA RankGrows ==
  ASSUME NEW k \in Keep, NEW entry \in Int, k < entry
  PROVE  Rank(k) < Rank(entry)
<1>1. k \in Int
  BY KeepRange
<1>2. Before(k) \cup {k} \in SUBSET Before(entry) /\ k \notin Before(k)
  BY KeepRange DEF Before
<1>3. Cardinality(Before(k) \cup {k}) = Cardinality(Before(k)) + 1
  BY <1>1, <1>2, BeforeFinite, FS_AddElement
<1>4. Cardinality(Before(k) \cup {k}) <= Cardinality(Before(entry))
  BY <1>2, BeforeFinite, FS_Subset
<1>. QED BY <1>1, <1>3, <1>4, BeforeFinite DEF Rank, Before

LEMMA RankInjective ==
  ASSUME NEW k \in Keep, NEW m \in Keep
  PROVE  /\ Rank(k) = Rank(m) => k = m
         /\ Rank(k) <= Rank(m) => k <= m
<1>1. k \in Int /\ m \in Int
  BY KeepRange
<1>2. Rank(k) \in Nat /\ Rank(m) \in Nat
  BY <1>1, RankType
<1>3. k < m => Rank(k) < Rank(m)
  BY <1>1, RankGrows
<1>4. m < k => Rank(m) < Rank(k)
  BY <1>1, RankGrows
<1>. QED BY <1>1, <1>2, <1>3, <1>4

-----------------------------------------------------------------------------
(* Channels.                                                               *)

LEMMA ChannelAppend ==
  ASSUME NEW S, NEW chan \in Seq(S), NEW x
  PROVE  /\ InChannel(Append(chan, x)) = InChannel(chan) \cup {x}
         /\ NoneTwice(chan) /\ x \notin InChannel(chan) => NoneTwice(Append(chan, x))
         /\ Len(Append(chan, x)) = Len(chan) + 1
<1>1. /\ Len(chan) \in Nat /\ Len(Append(chan, x)) = Len(chan) + 1
      /\ \A i \in 1 .. Len(chan) : Append(chan, x)[i] = chan[i]
      /\ Append(chan, x)[Len(chan) + 1] = x
  OBVIOUS
<1>2. \A i \in 1 .. Len(chan) + 1 : i \in 1 .. Len(chan) \/ i = Len(chan) + 1
  BY <1>1
<1>3. InChannel(Append(chan, x)) = InChannel(chan) \cup {x}
  BY <1>1, <1>2 DEF InChannel
<1>4. ASSUME NoneTwice(chan), x \notin InChannel(chan) PROVE NoneTwice(Append(chan, x))
  BY <1>1, <1>2, <1>4 DEF NoneTwice, InChannel
<1>. QED BY <1>1, <1>3, <1>4

LEMMA ChannelTail ==
  ASSUME NEW S, NEW chan \in Seq(S), chan # <<>>
  PROVE  /\ Head(chan) \in S /\ Tail(chan) \in Seq(S) /\ Len(Tail(chan)) = Len(chan) - 1
         /\ Len(chan) \in Nat /\ Len(chan) >= 1 /\ Head(chan) = chan[1]
         /\ \A i \in 1 .. Len(Tail(chan)) : Tail(chan)[i] = chan[i + 1]
         /\ InChannel(chan) = InChannel(Tail(chan)) \cup {Head(chan)}
         /\ NoneTwice(chan) => NoneTwice(Tail(chan)) /\ Head(chan) \notin InChannel(Tail(chan))
<1>1. /\ Head(chan) \in S /\ Tail(chan) \in Seq(S) /\ Len(Tail(chan)) = Len(chan) - 1
      /\ Head(chan) = chan[1]
      /\ \A i \in 1 .. Len(Tail(chan)) : Tail(chan)[i] = chan[i + 1]
  BY HeadTailProperties
<1>2. Len(chan) \in Nat /\ Len(chan) >= 1
  BY EmptySeq
<1>3. /\ \A i \in 1 .. Len(Tail(chan)) : i + 1 \in 1 .. Len(chan) /\ i + 1 # 1
      /\ 1 \in 1 .. Len(chan)
      /\ \A i \in 1 .. Len(chan) : i = 1 \/ (i - 1 \in 1 .. Len(Tail(chan)) /\ (i - 1) + 1 = i)
  BY <1>1, <1>2
<1>4. InChannel(chan) = InChannel(Tail(chan)) \cup {Head(chan)}
  <2>1. ASSUME NEW y \in InChannel(chan) PROVE y \in InChannel(Tail(chan)) \cup {Head(chan)}
    <3>1. PICK i \in 1 .. Len(chan) : y = chan[i]
      BY DEF InChannel
    <3>2. CASE i = 1
      BY <1>1, <3>1, <3>2
    <3>3. CASE i # 1
      <4>1. i - 1 \in 1 .. Len(Tail(chan)) /\ Tail(chan)[i - 1] = y
        BY <1>1, <1>3, <3>1, <3>3
      <4>. QED BY <4>1 DEF InChannel
    <3>. QED BY <3>2, <3>3
  <2>2. ASSUME NEW y \in InChannel(Tail(chan)) \cup {Head(chan)} PROVE y \in InChannel(chan)
    BY <1>1, <1>3 DEF InChannel
  <2>. QED BY <2>1, <2>2
<1>5. ASSUME NoneTwice(chan)
      PROVE  NoneTwice(Tail(chan)) /\ Head(chan) \notin InChannel(Tail(chan))
  <2>1. Head(chan) \notin InChannel(Tail(chan))
    BY <1>1, <1>3, <1>5 DEF NoneTwice, InChannel
  <2>2. ASSUME NEW i \in 1 .. Len(Tail(chan)), NEW j \in 1 .. Len(Tail(chan)),
               Tail(chan)[i] = Tail(chan)[j]
        PROVE  i = j
    <3>1. i + 1 = j + 1
      BY <1>1, <1>3, <1>5, <2>2 DEF NoneTwice
    <3>. QED BY <1>1, <1>2, <3>1
  <2>. QED BY <2>1, <2>2 DEF NoneTwice
<1>. QED BY <1>1, <1>2, <1>4, <1>5

\* a channel that holds nothing twice is as long as its set of values
LEMMA ChannelLength ==
  ASSUME NEW S, NEW chan \in Seq(S), NoneTwice(chan)
  PROVE  IsFiniteSet(InChannel(chan)) /\ Cardinality(InChannel(chan)) = Len(chan)
<1>. DEFINE f == [i \in 1 .. Len(chan) |-> chan[i]]
<1>0. Len(chan) \in Nat
  OBVIOUS
<1>1. IsFiniteSet(1 .. Len(chan)) /\ Cardinality(1 .. Len(chan)) = Len(chan)
  <2>1. IsFiniteSet(1 .. Len(chan)) /\ Cardinality(1 .. Len(chan)) =
           IF 1 > Len(chan) THEN 0 ELSE Len(chan) - 1 + 1
    BY <1>0, FS_Interval
  <2>. QED BY <1>0, <2>1
<1>2. f \in Bijection(1 .. Len(chan), InChannel(chan))
  <2>1. f \in [1 .. Len(chan) -> InChannel(chan)]
    BY DEF InChannel
  <2>2. \A i, j \in 1 .. Len(chan) : f[i] = f[j] => i = j
    BY DEF NoneTwice
  <2>3. \A y \in InChannel(chan) : \E i \in 1 .. Len(chan) : f[i] = y
    BY DEF InChannel
  <2>. QED BY <2>1, <2>2, <2>3 DEF Bijection, Injection, Surjection, IsInjective
<1>. QED BY <1>1, <1>2, FS_Bijection DEF ExistsBijection

-----------------------------------------------------------------------------
(* The output.                                                             *)

\* the member whose rank is the length of the output is the next one to write
LEMMA AppendRank ==
  ASSUME NEW w \in Seq(1 .. EntryCount), NEW m \in Keep, Rank(m) = Len(w),
         InChannel(w) = {k \in Keep : Rank(k) < Len(w)}
  PROVE  /\ Append(w, m) \in Seq(1 .. EntryCount)
         /\ InChannel(Append(w, m)) = {k \in Keep : Rank(k) < Len(Append(w, m))}
<1>1. m \in 1 .. EntryCount
  BY KeepRange
<1>2. /\ InChannel(Append(w, m)) = InChannel(w) \cup {m}
      /\ Len(Append(w, m)) = Len(w) + 1 /\ Len(w) \in Nat
  BY ChannelAppend
<1>3. \A k \in Keep : Rank(k) \in Nat
  BY KeepRange, RankType
<1>4. \A k \in Keep : Rank(k) < Len(w) + 1 <=> Rank(k) < Len(w) \/ k = m
  BY <1>2, <1>3, RankInjective
<1>5. InChannel(Append(w, m)) = {k \in Keep : Rank(k) < Len(w) + 1}
  BY <1>2, <1>4
<1>. QED BY <1>1, <1>2, <1>5

-----------------------------------------------------------------------------
(* The initial states.                                                     *)

LEMMA StreamInitInv == StreamInit => IInv
<1>. SUFFICES ASSUME StreamInit PROVE IInv
  OBVIOUS
<1>. USE DEF StreamInit
<1>0. EntryCount \in Nat /\ PoolThreads \in Nat /\ Workers \in Nat
  BY CodecAssumption
<1>1. StreamTypeOK
  <2>1. started \in BOOLEAN /\ (~started => decode = "opening" /\ encode = "running")
    OBVIOUS
  <2>2. item # 0 <=> writer = "encoding"
    OBVIOUS
  <2>3. mode \in Modes /\ busy \in SUBSET Jobs /\ pending \in SUBSET Jobs
    OBVIOUS
  <2>. QED BY <1>0, <2>1, <2>2, <2>3 DEF StreamTypeOK
<1>2. CountsOK
  BY RankFirst DEF CountsOK
<1>3. InChannel(<<>>) = {} /\ NoneTwice(<<>>)
  BY DEF InChannel, NoneTwice
<1>4. WrittenOK
  <2>1. \A k \in Keep : ~(Rank(k) < 0)
    BY KeepRange, RankType
  <2>. QED BY <1>3, <2>1 DEF WrittenOK
<1>5. JobsOK
  BY <1>3 DEF JobsOK, InFlight, OnePlace
<1>6. PoolOK
  BY CodecAssumption, FS_EmptySet DEF PoolOK, EncodeEnded
<1>7. ThreadsOK /\ AheadOK /\ SequentialOK
  BY CodecAssumption, StreamAssumption DEF ThreadsOK, AheadOK, SequentialOK, StreamAssumption
<1>. QED BY <1>1, <1>2, <1>4, <1>5, <1>6, <1>7 DEF IInv, ParallelOK

-----------------------------------------------------------------------------
(***************************************************************************)
(* Phase 3.  Most steps move at most one job and leave the other parts of  *)
(* the invariant as they are.                                              *)
(***************************************************************************)
LEMMA ParallelFrame ==
  ASSUME mode = "parallel", UNCHANGED streaming,
         StreamTypeOK', CountsOK', WrittenOK', JobsOK', PoolOK', ThreadsOK'
  PROVE  IInv'
BY DEF IInv, ParallelOK, AheadOK, SequentialOK, streaming

\* the invariant in this mode, and the plain types the prover wants as facts of their own
LEMMA ParallelFacts ==
  ASSUME IInv, mode = "parallel"
  PROVE  /\ StreamTypeOK /\ CountsOK /\ WrittenOK /\ JobsOK /\ PoolOK /\ ThreadsOK
         /\ work \in Seq(Jobs) /\ results \in Seq(Jobs)
         /\ busy \in SUBSET Jobs /\ pending \in SUBSET Jobs
         /\ next_id \in Nat /\ kept \in Nat /\ cursor \in Nat /\ skipped \in Nat
         /\ EntryCount \in Nat /\ threads \in Nat /\ Len(written) \in Nat
BY CodecAssumption DEF IInv, ParallelOK, StreamTypeOK

\* a step that moves jobs from one place to another, or loses some when a thread breaks
LEMMA JobsMoved ==
  ASSUME JobsOK, UNCHANGED <<kept, next_id, written>>, InFlight' \subseteq InFlight, OnePlace',
         broken' = "no" => broken = "no" /\ InFlight' = InFlight
  PROVE  JobsOK'
<1>1. \A job \in InFlight' : JobOK(job)'
  BY DEF JobsOK, JobOK
<1>2. ASSUME broken' = "no"
      PROVE  \A id \in next_id' .. kept' - 1 : \E job \in InFlight' : job.id = id
  BY <1>2 DEF JobsOK
<1>3. next_id' = Len(written') /\ next_id' <= kept'
  BY DEF JobsOK
<1>. QED BY <1>1, <1>2, <1>3 DEF JobsOK, JobOK

LEMMA JobsStay ==
  ASSUME JobsOK, UNCHANGED <<work, busy, results, pending, broken, kept, next_id, written>>
  PROVE  JobsOK'
<1>1. InFlight' = InFlight
  BY DEF InFlight, InChannel
<1>2. OnePlace'
  <2>1. /\ InChannel(work)' = InChannel(work) /\ InChannel(results)' = InChannel(results)
        /\ NoneTwice(work)' = NoneTwice(work) /\ NoneTwice(results)' = NoneTwice(results)
    BY DEF InChannel, NoneTwice
  <2>. QED BY <2>1 DEF JobsOK, OnePlace
<1>. QED BY <1>1, <1>2, JobsMoved

\* there are no more jobs than kept members
LEMMA JobsFinite ==
  ASSUME JobsOK, NEW S \in SUBSET Jobs, S \subseteq InFlight
  PROVE  IsFiniteSet(S) /\ Cardinality(S) \in Nat
<1>. DEFINE f == [k \in Keep |-> [id |-> Rank(k), entry |-> k]]
            T == {f[k] : k \in Keep}
<1>1. IsFiniteSet(Keep)
  <2>1. IsFiniteSet(1 .. EntryCount) /\ Keep \in SUBSET (1 .. EntryCount)
    BY CodecAssumption, FS_Interval
  <2>. QED BY <2>1, FS_Subset
<1>2. f \in Surjection(Keep, T)
  BY DEF Surjection
<1>3. IsFiniteSet(T)
  BY <1>1, <1>2, FS_Surjection
<1>4. S \in SUBSET T
  <2>1. ASSUME NEW job \in S PROVE job \in T
    <3>1. job.entry \in Keep /\ job.id = Rank(job.entry)
      BY DEF JobsOK, JobOK
    <3>2. job = [id |-> job.id, entry |-> job.entry]
      BY DEF Jobs
    <3>3. job = f[job.entry]
      BY <3>1, <3>2
    <3>. QED BY <3>1, <3>3
  <2>. QED BY <2>1
<1>. QED BY <1>3, <1>4, FS_Subset, FS_CardinalityType

LEMMA CountOn ==
  ASSUME NEW a \in Int, NEW b \in Int, NEW c \in Int, a + b = c - 1
  PROVE  a + (b + 1) = (c + 1) - 1
OBVIOUS

\* the decode thread at a step that sends nothing
LEMMA DecodeQuiet ==
  ASSUME IInv, mode = "parallel", started, UNCHANGED <<kept, work, encoding, results, writing>>,
         UNCHANGED streaming, decode \notin {"ok", "err", "panicked"},
         decode' \in {"reading", "sending"} \cup DecodeEnded,
         decode = "closed" => decode' = "ok" /\ cursor' = cursor,
         broken = "no" /\ decode' \in {"closed", "ok"} => cursor' > EntryCount,
         cursor' \in 1 .. EntryCount + 1, skipped' \in 0 .. EntryCount, CountsOK'
  PROVE  IInv'
<1>. USE ParallelFacts DEF encoding, writing, streaming
<1>1. StreamTypeOK'
  BY DEF StreamTypeOK
<1>2. WrittenOK'
  BY DEF WrittenOK, InChannel
<1>3. JobsOK'
  BY JobsStay
<1>4. PoolOK'
  BY DEF PoolOK, DecodeEnded
<1>5. ThreadsOK'
  BY DEF ThreadsOK
<1>. QED BY <1>1, <1>2, <1>3, <1>4, <1>5, ParallelFrame

LEMMA DecodeParallel ==
  ASSUME IInv, mode = "parallel", started, Decode, UNCHANGED streaming
  PROVE  IInv'
<1>. USE ParallelFacts DEF encoding, writing
<1>1. CASE DecodeOpen
  <2>1. CountsOK'
    BY <1>1 DEF DecodeOpen, CountsOK
  <2>. QED BY <1>1, <2>1, DecodeQuiet DEF DecodeOpen, StreamTypeOK, DecodeEnded
<1>2. CASE DecodeSkip
  <2>1. CountsOK' /\ cursor' \in 1 .. EntryCount + 1 /\ skipped' \in 0 .. EntryCount
    <3>1. cursor \in 1 .. EntryCount
      BY <1>2 DEF DecodeSkip, StreamTypeOK
    <3>2. Rank(cursor + 1) = Rank(cursor)
      BY <1>2, <3>1, RankNext DEF DecodeSkip
    <3>. QED BY <1>2, <3>1, <3>2, SMTT(30) DEF DecodeSkip, CountsOK
  <2>. QED BY <1>2, <2>1, DecodeQuiet DEF DecodeSkip
<1>3. CASE DecodeEntry
  <2>1. CountsOK'
    BY <1>3 DEF DecodeEntry, CountsOK
  <2>. QED BY <1>3, <2>1, DecodeQuiet DEF DecodeEntry, StreamTypeOK
<1>4. CASE DecodeFails
  <2>1. CountsOK'
    BY <1>4 DEF DecodeFails, CountsOK
  <2>. QED BY <1>4, <2>1, DecodeQuiet DEF DecodeFails, StreamTypeOK, DecodeEnded
<1>5. CASE DecodeSendFails
  <2>1. CountsOK'
    BY <1>5 DEF DecodeSendFails, CountsOK
  <2>2. broken # "no"
    BY <1>5, CodecAssumption DEF DecodeSendFails, PoolOK, DecodeEnded
  <2>. QED BY <1>5, <2>1, <2>2, DecodeQuiet DEF DecodeSendFails, StreamTypeOK, DecodeEnded
<1>6. CASE DecodeClose
  <2>1. CountsOK'
    BY <1>6 DEF DecodeClose, CountsOK
  <2>. QED BY <1>6, <2>1, DecodeQuiet DEF DecodeClose, StreamTypeOK, DecodeEnded
<1>7. CASE DecodeReturn
  <2>1. CountsOK'
    BY <1>7 DEF DecodeReturn, CountsOK
  <2>. QED BY <1>7, <2>1, DecodeQuiet DEF DecodeReturn, StreamTypeOK, DecodeEnded, ThreadsOK
<1>8. CASE DecodeSend
  <2>. DEFINE job == [id |-> kept, entry |-> cursor]
  <2>. USE <1>8 DEF DecodeSend
  <2>1. /\ cursor \in Keep /\ cursor \in 1 .. EntryCount /\ kept = Rank(cursor)
        /\ kept + 1 \in 0 .. EntryCount
    BY KeepRange, SMTT(30) DEF CountsOK, StreamTypeOK
  <2>2. CountsOK'
    <3>1. Rank(cursor + 1) = Rank(cursor) + 1
      BY <2>1, RankNext
    <3>2. kept' = Rank(cursor + 1) /\ cursor' = cursor + 1 /\ decode' = "reading"
      BY <2>1, <3>1
    <3>3. kept' + skipped' = cursor' - 1
      <4>1. kept \in Nat /\ skipped \in Nat /\ cursor \in Nat /\ kept + skipped = cursor - 1
        BY ParallelFacts DEF CountsOK
      <4>2. kept' = kept + 1 /\ skipped' = skipped /\ cursor' = cursor + 1
        OBVIOUS
      <4>. QED BY <4>1, <4>2
    <3>. QED BY <3>2, <3>3 DEF CountsOK
  <2>3. job \in Jobs /\ work' = Append(work, job) /\ work' \in Seq(Jobs)
    BY <2>1 DEF Jobs
  <2>4. StreamTypeOK'
    BY <2>1, <2>3 DEF StreamTypeOK, streaming
  <2>5. WrittenOK'
    BY DEF WrittenOK, InChannel
  <2>6. job \notin InFlight
    <3>1. \A other \in InFlight : other.id < kept
      BY DEF JobsOK, JobOK
    <3>. QED BY <3>1
  <2>7. /\ InChannel(work') = InChannel(work) \cup {job}
        /\ NoneTwice(work) /\ job \notin InChannel(work) => NoneTwice(work')
        /\ Len(work') = Len(work) + 1
    BY <2>3, ChannelAppend
  <2>8. InChannel(results)' = InChannel(results) /\ NoneTwice(results)' = NoneTwice(results)
    BY DEF InChannel, NoneTwice
  <2>9. InFlight' = InFlight \cup {job}
    BY <2>7, <2>8 DEF InFlight
  <2>10. OnePlace'
    BY <2>6, <2>7, <2>8 DEF JobsOK, OnePlace, InFlight
  <2>11. JobsOK'
    <3>1. next_id <= kept
      BY DEF JobsOK
    <3>2. \A other \in InFlight' : JobOK(other)'
      BY <2>1, <2>9, <3>1 DEF JobsOK, JobOK
    <3>3. ASSUME broken' = "no", NEW id \in next_id' .. kept' - 1
          PROVE  \E other \in InFlight' : other.id = id
      BY <2>9, <3>3, SMTT(30) DEF JobsOK
    <3>. QED BY <2>10, <3>2, <3>3 DEF JobsOK, JobOK
  <2>12. PoolOK'
    BY <2>7, CodecAssumption DEF PoolOK, DecodeEnded
  <2>13. ThreadsOK'
    BY DEF ThreadsOK, EncodeEnded
  <2>. QED BY <2>2, <2>4, <2>5, <2>11, <2>12, <2>13, ParallelFrame
<1>. QED BY <1>1, <1>2, <1>3, <1>4, <1>5, <1>6, <1>7, <1>8 DEF Decode

\* the jobs that are being compressed, counted
LEMMA BusyCount ==
  ASSUME IInv, mode = "parallel"
  PROVE  /\ IsFiniteSet(busy) /\ Cardinality(busy) \in Nat /\ Cardinality(busy) <= threads
         /\ \A job \in busy : /\ Cardinality(busy \ {job}) = Cardinality(busy) - 1
                              /\ Cardinality(busy) >= 1 /\ threads >= 1 /\ encode = "running"
         /\ \A job : job \notin busy => Cardinality(busy \cup {job}) = Cardinality(busy) + 1
<1>. USE ParallelFacts
<1>1. IsFiniteSet(busy) /\ Cardinality(busy) \in Nat
  BY JobsFinite DEF InFlight
<1>2. Cardinality(busy) <= threads
  BY DEF PoolOK
<1>3. ASSUME NEW job \in busy
      PROVE  /\ Cardinality(busy \ {job}) = Cardinality(busy) - 1
             /\ Cardinality(busy) >= 1 /\ threads >= 1 /\ encode = "running"
  <2>1. Cardinality(busy \ {job}) = Cardinality(busy) - 1 /\ Cardinality(busy \ {job}) \in Nat
    BY <1>1, FS_RemoveElement, FS_CardinalityType
  <2>2. threads >= 1
    BY <1>1, <1>2, <2>1
  <2>3. encode \notin EncodeEnded
    BY <2>2 DEF PoolOK
  <2>. QED BY <1>1, <2>1, <2>2, <2>3 DEF StreamTypeOK, EncodeEnded
<1>4. ASSUME NEW job, job \notin busy PROVE Cardinality(busy \cup {job}) = Cardinality(busy) + 1
  BY <1>1, <1>4, FS_AddElement
<1>. QED BY <1>1, <1>2, <1>3, <1>4

\* a step of the encode thread or of the pool leaves the two other threads where they are
LEMMA EncodeFrame ==
  ASSUME IInv, mode = "parallel", UNCHANGED <<decoding, writing, streaming>>,
         work' \in Seq(Jobs), results' \in Seq(Jobs), busy' \in SUBSET Jobs,
         threads' \in 0 .. PoolThreads, broken' \in {"no", "err", "panic"},
         encode' \in {"running"} \cup EncodeEnded, started, JobsOK', PoolOK',
         broken' = "no" => broken = "no",
         encode \in EncodeEnded => encode' = encode /\ results' = results
  PROVE  IInv'
<1>. USE ParallelFacts DEF decoding, writing, streaming
<1>1. StreamTypeOK'
  BY DEF StreamTypeOK
<1>2. CountsOK' /\ WrittenOK'
  BY DEF CountsOK, WrittenOK, InChannel
<1>3. ThreadsOK'
  BY DEF ThreadsOK, EncodeEnded
<1>. QED BY <1>1, <1>2, <1>3, ParallelFrame

LEMMA EncodeParallel ==
  ASSUME IInv, mode = "parallel", started, Encode, UNCHANGED streaming
  PROVE  IInv'
<1>. USE ParallelFacts, BusyCount DEF decoding, writing
<1>. DEFINE threadTypes == /\ threads \in 0 .. PoolThreads /\ broken \in {"no", "err", "panic"}
                           /\ encode \in {"running"} \cup EncodeEnded
<1>0. threadTypes
  BY DEF StreamTypeOK
<1>1. CASE TakeJob
  <2>. USE <1>1 DEF TakeJob
  <2>. DEFINE job == Head(work)
  <2>1. /\ job \in Jobs /\ work' \in Seq(Jobs) /\ Len(work') = Len(work) - 1 /\ Len(work) \in Nat
        /\ InChannel(work) = InChannel(work') \cup {job}
        /\ NoneTwice(work) => NoneTwice(work') /\ job \notin InChannel(work')
    BY ChannelTail
  <2>2. /\ InChannel(results)' = InChannel(results) /\ NoneTwice(results)' = NoneTwice(results)
        /\ InChannel(work)' = InChannel(work')
    BY DEF InChannel, NoneTwice
  <2>3. InFlight' = InFlight
    BY <2>1, <2>2 DEF InFlight
  <2>4. OnePlace'
    BY <2>1, <2>2 DEF JobsOK, OnePlace
  <2>5. JobsOK'
    BY <2>3, <2>4, JobsMoved
  <2>6. job \notin busy
    BY <2>1 DEF JobsOK, OnePlace
  <2>7. PoolOK'
    BY <2>1, <2>6, CodecAssumption DEF PoolOK, IdleThread, EncodeEnded
  <2>. QED BY <1>0, <2>1, <2>5, <2>7, EncodeFrame DEF EncodeEnded
<1>2. ASSUME NEW job \in busy, Compress(job) PROVE IInv'
  <2>. USE <1>2 DEF Compress
  <2>1. job \in Jobs /\ results' \in Seq(Jobs)
    OBVIOUS
  <2>2. /\ InChannel(results') = InChannel(results) \cup {job}
        /\ NoneTwice(results) /\ job \notin InChannel(results) => NoneTwice(results')
    BY ChannelAppend
  <2>3. /\ InChannel(work)' = InChannel(work) /\ NoneTwice(work)' = NoneTwice(work)
        /\ InChannel(results)' = InChannel(results')
    BY DEF InChannel, NoneTwice
  <2>4. InFlight' = InFlight
    BY <2>2, <2>3 DEF InFlight
  <2>5. OnePlace'
    BY <2>2, <2>3 DEF JobsOK, OnePlace
  <2>6. JobsOK'
    BY <2>4, <2>5, JobsMoved
  <2>7. PoolOK'
    BY DEF PoolOK
  <2>. QED BY <1>0, <2>1, <2>6, <2>7, EncodeFrame DEF EncodeEnded
<1>3. ASSUME NEW job \in busy, CompressFails(job) \/ CompressPanics(job) PROVE IInv'
  <2>1. /\ busy' = busy \ {job} /\ threads' = threads - 1 /\ broken' \in {"err", "panic"}
        /\ UNCHANGED <<decoding, work, encode, results, writing>>
    BY <1>3 DEF CompressFails, CompressPanics
  <2>2. /\ InChannel(work)' = InChannel(work) /\ NoneTwice(work)' = NoneTwice(work)
        /\ InChannel(results)' = InChannel(results) /\ NoneTwice(results)' = NoneTwice(results)
    BY <2>1 DEF InChannel, NoneTwice
  <2>3. InFlight' \subseteq InFlight
    BY <2>1, <2>2 DEF InFlight
  <2>4. OnePlace'
    BY <2>1, <2>2 DEF JobsOK, OnePlace
  <2>5. JobsOK'
    BY <2>1, <2>3, <2>4, JobsMoved
  <2>6. /\ Cardinality(busy') = Cardinality(busy) - 1 /\ Cardinality(busy) \in Nat
        /\ threads >= 1 /\ encode = "running" /\ Cardinality(busy) <= threads
    BY <1>3, <2>1
  <2>7. threads' \in 0 .. PoolThreads
    BY <1>0, <2>1, <2>6, CodecAssumption
  <2>8. PoolOK'
    BY <2>1, <2>6, <2>7 DEF PoolOK, EncodeEnded
  <2>. QED BY <1>0, <2>1, <2>5, <2>7, <2>8, EncodeFrame DEF EncodeEnded
<1>4. CASE PoolThreadEnds
  <2>. USE <1>4 DEF PoolThreadEnds
  <2>1. JobsOK'
    BY JobsStay
  <2>2. threads' \in 0 .. PoolThreads /\ Cardinality(busy) <= threads'
    BY <1>0, CodecAssumption DEF IdleThread
  <2>3. PoolOK'
    BY <2>2 DEF PoolOK, EncodeEnded
  <2>. QED BY <1>0, <2>1, <2>2, <2>3, EncodeFrame DEF EncodeEnded
<1>5. CASE EncodeReturn
  <2>. USE <1>5 DEF EncodeReturn
  <2>1. broken = "no" => work = <<>>
    BY CodecAssumption DEF PoolOK
  <2>2. /\ InChannel(<<>>) = {} /\ NoneTwice(<<>>)
        /\ InChannel(work)' = {} /\ NoneTwice(work)'
        /\ InChannel(results)' = InChannel(results) /\ NoneTwice(results)' = NoneTwice(results)
    BY DEF InChannel, NoneTwice
  <2>3. InFlight' \subseteq InFlight /\ (broken = "no" => InFlight' = InFlight)
    BY <2>1, <2>2 DEF InFlight
  <2>4. OnePlace'
    BY <2>2 DEF JobsOK, OnePlace
  <2>5. JobsOK'
    BY <2>3, <2>4, JobsMoved
  <2>6. encode' \in EncodeEnded /\ (encode' = "ok" => broken = "no")
    BY <1>0 DEF EncodeEnded
  <2>7. PoolOK'
    <3>1. Len(work') <= Workers
      BY CodecAssumption
    <3>2. Cardinality(busy)' <= threads' /\ threads' = 0 /\ work' = <<>>
      OBVIOUS
    <3>. QED BY <2>6, <3>1, <3>2, CodecAssumption DEF PoolOK
  <2>. QED BY <1>0, <2>5, <2>6, <2>7, EncodeFrame DEF EncodeEnded
<1>. QED BY <1>1, <1>2, <1>3, <1>4, <1>5 DEF Encode

\* a step of the calling thread, which leaves the two others where they are
LEMMA WriterFrame ==
  ASSUME IInv, mode = "parallel", UNCHANGED <<decoding, work, encoding, streaming>>,
         writer \in WriterStates, writer' \in WriterStates,
         results' \in Seq(Jobs), pending' \in SUBSET Jobs, next_id' \in Nat,
         written' \in Seq(1 .. EntryCount),
         output' \in {"none", "old", "open", "removed", "sealed"},
         WrittenOK', JobsOK', ThreadsOK'
  PROVE  IInv'
<1>. USE ParallelFacts DEF decoding, encoding, streaming
<1>1. StreamTypeOK'
  <2>1. item = 0 /\ writer' # "encoding"
    BY DEF StreamTypeOK, WriterStates, Returned
  <2>. QED BY <2>1 DEF StreamTypeOK
<1>2. CountsOK' /\ PoolOK'
  BY DEF CountsOK, PoolOK
<1>. QED BY <1>1, <1>2, ParallelFrame

\* ... and moves nothing
LEMMA WriterQuiet ==
  ASSUME IInv, mode = "parallel", UNCHANGED <<decoding, work, encoding, streaming>>,
         UNCHANGED <<results, pending, next_id, written>>,
         writer \in WriterStates, writer' \in WriterStates,
         output' \in {"none", "old", "open", "removed", "sealed"}, ThreadsOK'
  PROVE  IInv'
<1>. USE ParallelFacts DEF decoding, encoding
<1>1. WrittenOK'
  BY DEF WrittenOK, InChannel
<1>2. JobsOK'
  BY JobsStay
<1>3. written' \in Seq(1 .. EntryCount)
  BY DEF StreamTypeOK
<1>. QED BY <1>1, <1>2, <1>3, WriterFrame

LEMMA PushKeepsInv ==
  ASSUME IInv, mode = "parallel", PushPacked, UNCHANGED streaming
  PROVE  IInv'
<1>. USE ParallelFacts DEF decoding, encoding, PushPacked
<1>1. PICK job \in pending :
        job.id = next_id /\ pending' = pending \ {job} /\ written' = Append(written, job.entry)
  OBVIOUS
<1>2. /\ job \in InFlight /\ job \in Jobs /\ job.entry \in Keep /\ job.id = Rank(job.entry)
      /\ job.id \in next_id .. kept - 1 /\ Rank(job.entry) = Len(written)
      /\ job.entry \in 1 .. EntryCount
  BY <1>1 DEF InFlight, JobsOK, JobOK, Jobs
<1>3. written \in Seq(1 .. EntryCount) /\ InChannel(written) = {k \in Keep : Rank(k) < Len(written)}
  BY DEF StreamTypeOK, WrittenOK
<1>4. /\ written' \in Seq(1 .. EntryCount) /\ Len(written') = Len(written) + 1
      /\ InChannel(written') = {k \in Keep : Rank(k) < Len(written')}
  <2>. DEFINE longer == Append(written, job.entry)
  <2>1. longer \in Seq(1 .. EntryCount) /\ InChannel(longer) = {k \in Keep : Rank(k) < Len(longer)}
    BY <1>2, <1>3, AppendRank
  <2>2. Len(longer) = Len(written) + 1
    BY <1>3
  <2>. QED BY <1>1, <2>1, <2>2
<1>5. WrittenOK'
  BY <1>4 DEF WrittenOK, InChannel
<1>6. /\ InChannel(work)' = InChannel(work) /\ NoneTwice(work)' = NoneTwice(work)
      /\ InChannel(results)' = InChannel(results) /\ NoneTwice(results)' = NoneTwice(results)
  BY DEF InChannel, NoneTwice
<1>7. InFlight' = InFlight \ {job}
  BY <1>1, <1>6 DEF InFlight, JobsOK, OnePlace
<1>8. OnePlace'
  BY <1>1, <1>6 DEF JobsOK, OnePlace
<1>9. ASSUME NEW other \in InFlight, other.id = next_id
      PROVE  other = job
  <2>1. other \in Jobs /\ other.entry \in Keep /\ other.id = Rank(other.entry)
    BY DEF InFlight, JobsOK, JobOK, InChannel
  <2>2. other.entry = job.entry
    BY <1>1, <1>2, <1>9, <2>1, RankInjective
  <2>. QED BY <1>1, <1>2, <1>9, <2>1, <2>2 DEF Jobs
<1>10. JobsOK'
  <2>1. next_id' = Len(written') /\ next_id' <= kept'
    BY <1>1, <1>2, <1>4 DEF JobsOK
  <2>2. ASSUME NEW other \in InFlight' PROVE JobOK(other)'
    <3>1. other \in InFlight /\ other.id # next_id
      BY <1>7, <1>9
    <3>2. JobOK(other)
      BY <3>1 DEF JobsOK
    <3>. QED BY <3>1, <3>2 DEF JobOK
  <2>3. ASSUME broken' = "no", NEW id \in next_id' .. kept' - 1
        PROVE  \E other \in InFlight' : other.id = id
    <3>1. id \in next_id .. kept - 1 /\ id # next_id
      BY <2>3
    <3>2. PICK other \in InFlight : other.id = id
      BY <2>3, <3>1 DEF JobsOK
    <3>. QED BY <1>1, <1>7, <3>1, <3>2
  <2>. QED BY <1>8, <2>1, <2>2, <2>3 DEF JobsOK
<1>11. ThreadsOK'
  BY DEF ThreadsOK, Returned
<1>. QED BY <1>1, <1>4, <1>5, <1>10, <1>11, WriterFrame DEF WriterStates, StreamTypeOK

LEMMA WriterParallel ==
  ASSUME IInv, mode = "parallel", Writer, UNCHANGED streaming
  PROVE  IInv'
<1>. USE ParallelFacts DEF decoding, encoding
<1>. DEFINE outputs == {"none", "old", "open", "removed", "sealed"}
<1>0. output \in outputs
  BY DEF StreamTypeOK
<1>1. CASE Create
  <2>1. ThreadsOK'
    BY <1>1 DEF Create, ThreadsOK, Returned
  <2>. QED BY <1>0, <1>1, <2>1, WriterQuiet DEF Create, WriterStates, Returned
<1>2. CASE ReceivePack
  <2>. USE <1>2 DEF ReceivePack
  <2>. DEFINE job == Head(results)
  <2>1. /\ job \in Jobs /\ results' \in Seq(Jobs)
        /\ InChannel(results) = InChannel(results') \cup {job}
        /\ NoneTwice(results) => NoneTwice(results') /\ job \notin InChannel(results')
    BY ChannelTail
  <2>2. /\ InChannel(work)' = InChannel(work) /\ NoneTwice(work)' = NoneTwice(work)
        /\ InChannel(results)' = InChannel(results')
    BY DEF InChannel, NoneTwice
  <2>3. InFlight' = InFlight
    BY <2>1, <2>2 DEF InFlight
  <2>4. OnePlace'
    BY <2>1, <2>2 DEF JobsOK, OnePlace
  <2>5. JobsOK'
    BY <2>3, <2>4, JobsMoved
  <2>6. WrittenOK' /\ ThreadsOK'
    BY DEF WrittenOK, InChannel, ThreadsOK, Returned
  <2>. QED BY <2>1, <2>5, <2>6, WriterFrame DEF WriterStates, StreamTypeOK
<1>3. CASE PushPacked
  BY <1>3, PushKeepsInv
<1>4. CASE PushFails
  <2>1. ThreadsOK'
    BY <1>4 DEF PushFails, ThreadsOK, Returned
  <2>. QED BY <1>0, <1>4, <2>1, WriterQuiet DEF PushFails, WriterStates, Returned
<1>5. CASE PushDone
  <2>1. ThreadsOK'
    BY <1>5 DEF PushDone, ThreadsOK, Returned
  <2>. QED BY <1>0, <1>5, <2>1, WriterQuiet DEF PushDone, WriterStates, Returned
<1>6. CASE ResultsClosed
  <2>1. ThreadsOK'
    BY <1>6 DEF ResultsClosed, ThreadsOK, Returned
  <2>. QED BY <1>0, <1>6, <2>1, WriterQuiet DEF ResultsClosed, WriterStates, Returned
<1>7. CASE JoinEncode
  <2>1. ThreadsOK'
    BY <1>7 DEF JoinEncode, ThreadsOK, Returned
  <2>. QED BY <1>0, <1>7, <2>1, WriterQuiet DEF JoinEncode, WriterStates, Returned
<1>8. CASE JoinDecode
  <2>1. ThreadsOK'
    BY <1>8 DEF JoinDecode, ThreadsOK, Returned
  <2>. QED BY <1>0, <1>8, <2>1, WriterQuiet DEF JoinDecode, WriterStates, Returned
<1>9. CASE FinishOutput
  <2>1. ThreadsOK'
    BY <1>9 DEF FinishOutput, ThreadsOK, Returned
  <2>. QED BY <1>0, <1>9, <2>1, WriterQuiet DEF FinishOutput, WriterStates, Returned
<1>. QED BY <1>1, <1>2, <1>3, <1>4, <1>5, <1>6, <1>7, <1>8, <1>9 DEF Writer

-----------------------------------------------------------------------------
(***************************************************************************)
(* Decode-ahead.                                                           *)
(***************************************************************************)
Depth == IF AheadDepth = 0 THEN 1 ELSE AheadDepth
Held  == IF item = 0 THEN 0 ELSE 1

\* while the call runs, the item and the queue continue the output up to the reader
AheadLine ==
  /\ item # 0 => item \in Keep /\ Rank(item) = Len(written)
  /\ \A i \in 1 .. Len(queue) : queue[i] \in Keep /\ Rank(queue[i]) = Len(written) + Held + i - 1
  /\ kept = Len(written) + Held + Len(queue)
  /\ decode = "ok" => cursor > EntryCount

AheadEnds ==
  /\ writer \in {"joining", "finishing"} => queue = <<>> /\ decode \in Ahead!DecodeEnded
  /\ writer = "finishing" => decode = "ok"

LEMMA AheadParts ==
  AheadOK <=> (mode = "ahead" => /\ Len(queue) <= Depth
                                 /\ writer \notin Returned => AheadLine
                                 /\ AheadEnds)
BY DEF AheadOK, AheadLine, AheadEnds, Depth, Held

LEMMA AheadFacts ==
  ASSUME IInv, mode = "ahead"
  PROVE  /\ StreamTypeOK /\ CountsOK /\ WrittenOK /\ Len(queue) <= Depth
         /\ writer \notin Returned => AheadLine
         /\ AheadEnds /\ Depth \in Nat /\ Depth >= 1 /\ EntryCount \in Nat
         /\ kept \in Nat /\ cursor \in Nat /\ skipped \in Nat /\ Len(written) \in Nat
         /\ queue \in Seq(1 .. EntryCount) /\ Len(queue) \in Nat
         /\ item # 0 <=> writer = "encoding"
<1>1. AheadOK /\ StreamTypeOK /\ CountsOK /\ WrittenOK
  BY DEF IInv
<1>2. Depth \in Nat /\ Depth >= 1
  BY StreamAssumption DEF StreamAssumption, Depth
<1>3. item # 0 <=> writer = "encoding"
  BY <1>1 DEF StreamTypeOK
<1>4. /\ EntryCount \in Nat /\ kept \in Nat /\ cursor \in Nat /\ skipped \in Nat
      /\ Len(written) \in Nat /\ queue \in Seq(1 .. EntryCount) /\ Len(queue) \in Nat
  BY <1>1, CodecAssumption DEF StreamTypeOK
<1>. QED BY <1>1, <1>2, <1>3, <1>4, AheadParts

LEMMA AheadFrame ==
  ASSUME IInv, mode = "ahead", UNCHANGED <<mode, started, threads3>>,
         decode' \in {"opening", "reading", "sending"} \cup DecodeEnded,
         cursor' \in 1 .. EntryCount + 1, kept' \in 0 .. EntryCount, skipped' \in 0 .. EntryCount,
         queue' \in Seq(1 .. EntryCount), item' \in 0 .. EntryCount,
         item' # 0 <=> writer' = "encoding",
         writer' \in {"preparing", "reading", "encoding", "joining"} \cup WriterStates, written' \in Seq(1 .. EntryCount),
         output' \in {"none", "old", "open", "removed", "sealed"},
         started \/ decode' = decode, CountsOK', WrittenOK',
         Len(queue') <= Depth, writer' \notin Returned => AheadLine', AheadEnds'
  PROVE  IInv'
<1>. USE DEF threads3, encoding
<1>1. started \in BOOLEAN /\ (~started' => decode' = "opening" /\ encode' = "running")
  BY DEF IInv, StreamTypeOK
<1>3. StreamTypeOK'
  BY <1>1 DEF IInv, StreamTypeOK
<1>4. AheadOK' /\ ParallelOK' /\ SequentialOK'
  BY DEF AheadOK, AheadLine, AheadEnds, Held, Depth, ParallelOK, SequentialOK
<1>. QED BY <1>3, <1>4 DEF IInv

\* the types AheadFrame asks for, of the present state
LEMMA AheadTypes ==
  ASSUME IInv, mode = "ahead"
  PROVE  /\ decode \in {"opening", "reading", "sending"} \cup DecodeEnded
         /\ cursor \in 1 .. EntryCount + 1 /\ kept \in 0 .. EntryCount
         /\ skipped \in 0 .. EntryCount /\ queue \in Seq(1 .. EntryCount)
         /\ item \in 0 .. EntryCount /\ item # 0 <=> writer = "encoding"
         /\ written \in Seq(1 .. EntryCount)
         /\ output \in {"none", "old", "open", "removed", "sealed"}
<1>1. item # 0 <=> writer = "encoding"
  BY AheadFacts
<1>. QED BY <1>1 DEF IInv, StreamTypeOK

\* the decode thread at a step that sends nothing
LEMMA AheadQuiet ==
  ASSUME IInv, mode = "ahead", started, UNCHANGED <<mode, started, threads3>>,
         UNCHANGED <<kept, queue, writer, item, written, output>>,
         decode \notin Ahead!DecodeEnded, decode' \in {"reading", "sending"} \cup Ahead!DecodeEnded,
         writer \notin Returned /\ decode' = "ok" => cursor' > EntryCount,
         cursor' \in 1 .. EntryCount + 1, skipped' \in 0 .. EntryCount, CountsOK'
  PROVE  IInv'
<1>. USE AheadFacts, AheadTypes
<1>1. decode' \in {"opening", "reading", "sending"} \cup DecodeEnded
  BY DEF DecodeEnded, Ahead!DecodeEnded
<1>2. WrittenOK'
  BY DEF WrittenOK, InChannel
<1>3. writer' \notin Returned => AheadLine'
  BY DEF AheadLine, Held
<1>4. AheadEnds'
  BY DEF AheadEnds
<1>5. writer' \in {"preparing", "reading", "encoding", "joining"} \cup WriterStates
  BY DEF StreamTypeOK
<1>. QED BY <1>1, <1>2, <1>3, <1>4, <1>5, AheadFrame

LEMMA DecodeAheadStep ==
  ASSUME IInv, mode = "ahead", started, Ahead!Decode, UNCHANGED <<mode, started, threads3>>
  PROVE  IInv'
<1>. USE AheadFacts, AheadTypes
<1>1. CASE Ahead!DecodeOpen
  <2>1. CountsOK'
    BY <1>1 DEF Ahead!DecodeOpen, CountsOK
  <2>. QED BY <1>1, <2>1, AheadQuiet DEF Ahead!DecodeOpen, Ahead!DecodeEnded
<1>2. CASE Ahead!DecodeSkip
  <2>1. CountsOK' /\ cursor' \in 1 .. EntryCount + 1 /\ skipped' \in 0 .. EntryCount
    <3>1. cursor \in 1 .. EntryCount
      BY <1>2 DEF Ahead!DecodeSkip
    <3>2. Rank(cursor + 1) = Rank(cursor)
      BY <1>2, <3>1, RankNext DEF Ahead!DecodeSkip
    <3>3. kept = Rank(cursor) /\ kept + skipped = cursor - 1 /\ skipped + 1 \in 0 .. EntryCount
      BY <3>1 DEF CountsOK
    <3>4. /\ kept' = kept /\ cursor' = cursor + 1 /\ skipped' = skipped + 1
          /\ decode' = "reading" /\ cursor + 1 \in 1 .. EntryCount + 1
      BY <1>2, <3>1 DEF Ahead!DecodeSkip
    <3>5. kept \in Int /\ skipped \in Int /\ cursor \in Int
      BY <3>1
    <3>6. kept + (skipped + 1) = (cursor + 1) - 1
      BY <3>3, <3>5, CountOn
    <3>7. kept' + skipped' = cursor' - 1
      BY <3>4, <3>6, Zenon
    <3>. QED BY <3>2, <3>3, <3>4, <3>7 DEF CountsOK
  <2>. QED BY <1>2, <2>1, AheadQuiet DEF Ahead!DecodeSkip, Ahead!DecodeEnded
<1>3. CASE Ahead!DecodeEntry
  <2>1. CountsOK'
    BY <1>3 DEF Ahead!DecodeEntry, CountsOK
  <2>. QED BY <1>3, <2>1, AheadQuiet DEF Ahead!DecodeEntry, Ahead!DecodeEnded
<1>4. CASE Ahead!DecodeFails
  <2>1. CountsOK'
    BY <1>4 DEF Ahead!DecodeFails, CountsOK
  <2>. QED BY <1>4, <2>1, AheadQuiet DEF Ahead!DecodeFails, Ahead!DecodeEnded
<1>5. CASE Ahead!DecodeSendFails
  <2>1. CountsOK'
    BY <1>5 DEF Ahead!DecodeSendFails, CountsOK
  <2>. QED BY <1>5, <2>1, AheadQuiet
       DEF Ahead!DecodeSendFails, Ahead!DecodeEnded, Ahead!Returned, Returned
<1>6. CASE Ahead!DecodeReturn
  <2>1. CountsOK'
    BY <1>6 DEF Ahead!DecodeReturn, CountsOK
  <2>. QED BY <1>6, <2>1, AheadQuiet DEF Ahead!DecodeReturn, Ahead!DecodeEnded
<1>7. CASE Ahead!DecodeSend
  <2>. USE <1>7 DEF Ahead!DecodeSend
  <2>1. /\ cursor \in Keep /\ cursor \in 1 .. EntryCount /\ kept = Rank(cursor)
        /\ kept + 1 \in 0 .. EntryCount /\ kept + skipped = cursor - 1
    BY KeepRange DEF CountsOK
  <2>2. CountsOK'
    <3>1. Rank(cursor + 1) = Rank(cursor) + 1
      BY <2>1, RankNext
    <3>2. kept' = Rank(cursor') /\ decode' = "reading"
      BY <2>1, <3>1
    <3>3. kept' + skipped' = cursor' - 1
      BY <2>1, SMTT(30)
    <3>. QED BY <3>2, <3>3 DEF CountsOK
  <2>3. /\ queue' \in Seq(1 .. EntryCount) /\ Len(queue') = Len(queue) + 1
        /\ \A i \in 1 .. Len(queue) : queue'[i] = queue[i]
        /\ queue'[Len(queue) + 1] = cursor
    BY <2>1
  <2>4. writer \notin Returned /\ Len(queue) < Depth
    BY DEF Ahead!Returned, Returned, Depth
  <2>5. AheadLine'
    <3>1. \A i \in 1 .. Len(queue') : i \in 1 .. Len(queue) \/ i = Len(queue) + 1
      BY <2>3
    <3>2. Held' = Held /\ Held \in Nat /\ written' = written
      BY DEF Held
    <3>3. \A i \in 1 .. Len(queue') :
            queue'[i] \in Keep /\ Rank(queue'[i]) = Len(written) + Held + i - 1
      <4>1. /\ kept = Len(written) + Held + Len(queue)
            /\ \A i \in 1 .. Len(queue) :
                 queue[i] \in Keep /\ Rank(queue[i]) = Len(written) + Held + i - 1
        BY <2>4 DEF AheadLine
      <4>2. kept = Len(written) + Held + (Len(queue) + 1) - 1
        BY <3>2, <4>1
      <4>. QED BY <2>1, <2>3, <3>1, <4>1, <4>2
    <3>4. kept' = Len(written) + Held + Len(queue')
      BY <2>1, <2>3, <2>4, <3>2 DEF AheadLine
    <3>. QED BY <2>4, <3>2, <3>3, <3>4 DEF AheadLine
  <2>6. WrittenOK' /\ AheadEnds'
    BY DEF WrittenOK, InChannel, AheadEnds, Ahead!DecodeEnded
  <2>7. Len(queue') <= Depth
    BY <2>3, <2>4
  <2>8. writer' \in {"preparing", "reading", "encoding", "joining"} \cup WriterStates
    BY <2>4 DEF AheadEnds, StreamTypeOK, Ahead!DecodeEnded
  <2>. QED BY <2>1, <2>2, <2>3, <2>5, <2>6, <2>7, <2>8, AheadFrame
<1>. QED BY <1>1, <1>2, <1>3, <1>4, <1>5, <1>6, <1>7 DEF Ahead!Decode

\* the calling thread at a step that takes and writes nothing
LEMMA WriterAheadQuiet ==
  ASSUME IInv, mode = "ahead", UNCHANGED <<mode, started, threads3>>,
         UNCHANGED <<decode, cursor, kept, skipped, queue, written>>,
         writer \notin Returned, item' = 0, writer = "encoding" => writer' \in Returned,
         writer' \in {"joining"} \cup WriterStates,
         output' \in {"none", "old", "open", "removed", "sealed"}, AheadEnds'
  PROVE  IInv'
<1>. USE AheadFacts, AheadTypes
<1>1. CountsOK' /\ WrittenOK'
  BY DEF CountsOK, WrittenOK, InChannel
<1>2. writer' \notin Returned => AheadLine'
  BY DEF AheadLine, Held
<1>3. item' # 0 <=> writer' = "encoding"
  BY DEF WriterStates, Returned
<1>4. item' \in 0 .. EntryCount
  OBVIOUS
<1>. QED BY <1>1, <1>2, <1>3, <1>4, AheadFrame

LEMMA WriterAheadStep ==
  ASSUME IInv, mode = "ahead", Ahead!Writer, UNCHANGED <<mode, started, threads3>>
  PROVE  IInv'
<1>. USE AheadFacts, AheadTypes
<1>1. CASE Ahead!Create
  <2>1. AheadEnds'
    BY <1>1 DEF Ahead!Create, AheadEnds
  <2>. QED BY <1>1, <2>1, WriterAheadQuiet DEF Ahead!Create, WriterStates, Returned
<1>2. CASE Ahead!PushFails
  <2>1. AheadEnds'
    BY <1>2 DEF Ahead!PushFails, AheadEnds
  <2>. QED BY <1>2, <2>1, WriterAheadQuiet DEF Ahead!PushFails, WriterStates, Returned
<1>3. CASE Ahead!ChannelClosed
  <2>1. AheadEnds'
    BY <1>3 DEF Ahead!ChannelClosed, AheadEnds
  <2>. QED BY <1>3, <2>1, WriterAheadQuiet DEF Ahead!ChannelClosed, WriterStates, Returned
<1>4. CASE Ahead!Join
  <2>1. AheadEnds'
    BY <1>4 DEF Ahead!Join, AheadEnds
  <2>. QED BY <1>4, <2>1, WriterAheadQuiet DEF Ahead!Join, WriterStates, Returned
<1>5. CASE Ahead!FinishOutput
  <2>1. AheadEnds'
    BY <1>5 DEF Ahead!FinishOutput, AheadEnds
  <2>. QED BY <1>5, <2>1, WriterAheadQuiet DEF Ahead!FinishOutput, WriterStates, Returned
<1>6. CASE Ahead!Receive
  <2>. USE <1>6 DEF Ahead!Receive
  <2>1. writer \notin Returned /\ item = 0
    BY DEF Returned
  <2>2. /\ kept = Len(written) + Len(queue)
        /\ \A i \in 1 .. Len(queue) : queue[i] \in Keep /\ Rank(queue[i]) = Len(written) + i - 1
        /\ decode = "ok" => cursor > EntryCount
    BY <2>1 DEF AheadLine, Held
  <2>3. /\ Head(queue) \in 1 .. EntryCount /\ queue' \in Seq(1 .. EntryCount)
        /\ Len(queue') = Len(queue) - 1 /\ Len(queue) >= 1 /\ Head(queue) = queue[1]
        /\ \A i \in 1 .. Len(queue') : queue'[i] = queue[i + 1]
    BY ChannelTail
  <2>4. item' \in Keep /\ Rank(item') = Len(written) /\ item' # 0 /\ item' \in 0 .. EntryCount
    BY <2>2, <2>3, KeepRange
  <2>5. AheadLine'
    <3>1. Held' = 1 /\ written' = written
      BY <2>4 DEF Held
    <3>2. \A i \in 1 .. Len(queue') :
            queue'[i] \in Keep /\ Rank(queue'[i]) = Len(written) + 1 + i - 1
      <4>1. \A i \in 1 .. Len(queue') : i + 1 \in 1 .. Len(queue) /\ i \in Int
        BY <2>3
      <4>. QED BY <2>2, <2>3, <4>1
    <3>3. kept = Len(written) + 1 + Len(queue')
      BY <2>2, <2>3
    <3>. QED BY <2>2, <2>4, <3>1, <3>2, <3>3 DEF AheadLine
  <2>6. CountsOK' /\ WrittenOK' /\ AheadEnds'
    BY DEF CountsOK, WrittenOK, InChannel, AheadEnds
  <2>7. Len(queue') <= Depth
    BY <2>3
  <2>. QED BY <2>3, <2>4, <2>5, <2>6, <2>7, AheadFrame
<1>7. CASE Ahead!PushEntry
  <2>. USE <1>7 DEF Ahead!PushEntry
  <2>1. writer \notin Returned /\ item # 0
    BY DEF Returned
  <2>2. /\ item \in Keep /\ Rank(item) = Len(written) /\ kept = Len(written) + 1 + Len(queue)
        /\ \A i \in 1 .. Len(queue) : queue[i] \in Keep /\ Rank(queue[i]) = Len(written) + 1 + i - 1
        /\ decode = "ok" => cursor > EntryCount
    BY <2>1 DEF AheadLine, Held
  <2>3. /\ written' \in Seq(1 .. EntryCount)
        /\ InChannel(written') = {k \in Keep : Rank(k) < Len(written')}
    BY <2>2, AppendRank DEF WrittenOK
  <2>4. Len(written') = Len(written) + 1
    BY <2>2
  <2>5. AheadLine'
    <3>1. Held' = 0 /\ item' = 0 /\ UNCHANGED <<queue, decode, cursor, kept>>
      BY DEF Held
    <3>2. \A i \in 1 .. Len(queue) : Len(written) + 1 + i - 1 = Len(written') + 0 + i - 1
      BY <2>4
    <3>3. kept = Len(written') + 0 + Len(queue)
      BY <2>2, <2>4
    <3>. QED BY <2>2, <3>1, <3>2, <3>3 DEF AheadLine
  <2>6. CountsOK' /\ WrittenOK' /\ AheadEnds'
    BY <2>3 DEF CountsOK, WrittenOK, InChannel, AheadEnds
  <2>7. writer' \in WriterStates /\ item' \in 0 .. EntryCount
    BY DEF WriterStates
  <2>. QED BY <2>3, <2>5, <2>6, <2>7, AheadFrame
<1>. QED BY <1>1, <1>2, <1>3, <1>4, <1>5, <1>6, <1>7 DEF Ahead!Writer

-----------------------------------------------------------------------------
(***************************************************************************)
(* The sequential conversion, and the steps before any thread runs.        *)
(***************************************************************************)
LEMMA SequentialFacts ==
  ASSUME IInv, mode = "sequential"
  PROVE  /\ StreamTypeOK /\ CountsOK /\ WrittenOK /\ ~started /\ kept = Len(written)
         /\ item # 0 => item = cursor /\ cursor \in Keep
         /\ EntryCount \in Nat /\ kept \in Nat /\ cursor \in Nat /\ skipped \in Nat
         /\ cursor \in 1 .. EntryCount + 1 /\ kept \in 0 .. EntryCount
         /\ skipped \in 0 .. EntryCount /\ item \in 0 .. EntryCount
         /\ written \in Seq(1 .. EntryCount)
         /\ output \in {"none", "old", "open", "removed", "sealed"}
         /\ item # 0 <=> writer = "encoding"
<1>1. item # 0 <=> writer = "encoding"
  BY DEF IInv, StreamTypeOK
<1>. QED BY <1>1, CodecAssumption DEF IInv, SequentialOK, StreamTypeOK

LEMMA SequentialFrame ==
  ASSUME IInv, mode = "sequential", UNCHANGED <<decode, mode, started, queue, threads3>>,
         cursor' \in 1 .. EntryCount + 1, kept' \in 0 .. EntryCount, skipped' \in 0 .. EntryCount,
         item' \in 0 .. EntryCount, item' # 0 <=> writer' = "encoding",
         writer' \in {"preparing", "reading", "encoding"} \cup WriterStates,
         written' \in Seq(1 .. EntryCount),
         output' \in {"none", "old", "open", "removed", "sealed"}, CountsOK', WrittenOK',
         kept' = Len(written'), item' # 0 => item' = cursor' /\ cursor' \in Keep
  PROVE  IInv'
<1>. USE DEF threads3, encoding
<1>1. started \in BOOLEAN /\ (~started' => decode' = "opening" /\ encode' = "running")
  BY DEF IInv, StreamTypeOK
<1>2. StreamTypeOK'
  BY <1>1 DEF IInv, StreamTypeOK
<1>3. AheadOK' /\ ParallelOK' /\ SequentialOK'
  BY DEF AheadOK, ParallelOK, SequentialOK, IInv
<1>. QED BY <1>2, <1>3 DEF IInv

LEMMA SequentialStep ==
  ASSUME IInv, mode = "sequential", Sequential, UNCHANGED <<mode, started, queue, threads3>>
  PROVE  IInv'
<1>. USE SequentialFacts
<1>0. decode = "opening"
  BY DEF StreamTypeOK
<1>1. ASSUME UNCHANGED <<decode, cursor, kept, written>>, skipped' = skipped, item' \in {0, cursor},
             item' # 0 <=> writer' = "encoding", item' # 0 => cursor \in Keep,
             writer' \in {"preparing", "reading", "encoding"} \cup WriterStates,
             output' \in {"none", "old", "open", "removed", "sealed"}
      PROVE  IInv'
  <2>1. CountsOK' /\ WrittenOK'
    BY <1>1 DEF CountsOK, WrittenOK, InChannel
  <2>2. item' \in 0 .. EntryCount
    BY <1>1, KeepRange
  <2>. QED BY <1>1, <2>1, <2>2, SequentialFrame
<1>2. CASE SequentialCreate
  BY <1>1, <1>2 DEF SequentialCreate, WriterStates, Returned
<1>3. CASE SequentialSkip
  <2>. USE <1>3 DEF SequentialSkip
  <2>1. cursor \in 1 .. EntryCount
    OBVIOUS
  <2>2. Rank(cursor + 1) = Rank(cursor)
    BY <2>1, RankNext
  <2>3. kept = Rank(cursor) /\ kept + skipped = cursor - 1 /\ skipped + 1 \in 0 .. EntryCount
    BY <2>1 DEF CountsOK
  <2>4. /\ kept' = kept /\ cursor' = cursor + 1 /\ skipped' = skipped + 1
        /\ decode' = decode /\ cursor + 1 \in 1 .. EntryCount + 1
    BY <2>1
  <2>5. kept' + skipped' = cursor' - 1
    <3>1. kept \in Nat /\ skipped \in Nat /\ cursor \in Nat
      OBVIOUS
    <3>. QED BY ONLY <2>3, <2>4, <3>1
  <2>6. CountsOK' /\ WrittenOK'
    BY <1>0, <2>2, <2>3, <2>4, <2>5 DEF CountsOK, WrittenOK, InChannel
  <2>. QED BY <2>3, <2>4, <2>6, SequentialFrame
<1>4. CASE SequentialEntry
  <2>1. cursor # 0
    BY KeepRange
  <2>. QED BY <1>1, <1>4, <2>1 DEF SequentialEntry, WriterStates, Returned
<1>5. CASE SequentialDecodeFails
  BY <1>1, <1>5 DEF SequentialDecodeFails, WriterStates, Returned
<1>6. CASE SequentialPush
  <2>. USE <1>6 DEF SequentialPush
  <2>1. /\ item = cursor /\ cursor \in Keep /\ cursor \in 1 .. EntryCount
        /\ kept = Rank(cursor) /\ kept + skipped = cursor - 1 /\ kept + 1 \in 0 .. EntryCount
    BY KeepRange DEF CountsOK
  <2>2. /\ written' \in Seq(1 .. EntryCount)
        /\ InChannel(written') = {k \in Keep : Rank(k) < Len(written')}
    BY <2>1, AppendRank DEF WrittenOK
  <2>3. kept' = Len(written')
    BY <2>1
  <2>4. Rank(cursor + 1) = Rank(cursor) + 1
    BY <2>1, RankNext
  <2>5. kept' + skipped' = cursor' - 1
    <3>1. kept' = kept + 1 /\ skipped' = skipped /\ cursor' = cursor + 1
      OBVIOUS
    <3>2. kept \in Nat /\ skipped \in Nat /\ cursor \in Nat
      OBVIOUS
    <3>. QED BY ONLY <2>1, <3>1, <3>2
  <2>6. CountsOK' /\ WrittenOK'
    BY <1>0, <2>1, <2>2, <2>4, <2>5 DEF CountsOK, WrittenOK, InChannel
  <2>7. cursor' \in 1 .. EntryCount + 1 /\ kept' \in 0 .. EntryCount /\ item' \in 0 .. EntryCount
    BY <2>1
  <2>. QED BY <2>2, <2>3, <2>6, <2>7, SequentialFrame
<1>7. CASE SequentialPushFails
  BY <1>1, <1>7 DEF SequentialPushFails, WriterStates, Returned
<1>8. CASE SequentialFinish
  BY <1>1, <1>8 DEF SequentialFinish, WriterStates, Returned
<1>. QED BY <1>2, <1>3, <1>4, <1>5, <1>6, <1>7, <1>8 DEF Sequential

LEMMA PrepareStep ==
  ASSUME IInv, PrepareFails \/ OpenFails \/ Prepare
  PROVE  IInv'
<1>. USE DEF decoding, threads3, encoding, streaming
<1>1. /\ writer = "preparing" /\ writer' \in {"creating", "err"}
      /\ UNCHANGED <<decode, cursor, kept, skipped, threads3, written, mode, queue, item>>
      /\ output' \in {"none", "old", "open", "removed", "sealed"}
      /\ started' = started \/ started' = (mode # "sequential")
  BY DEF IInv, StreamTypeOK, PrepareFails, OpenFails, Prepare
<1>. HIDE DEF threads3
<1>2. started \in BOOLEAN /\ (~started => decode = "opening" /\ encode = "running")
  BY DEF IInv, StreamTypeOK
<1>3. mode = "sequential" => ~started
  BY DEF IInv, SequentialOK
<1>4. mode \in {"sequential", "ahead", "parallel"}
  BY StreamAssumption DEF IInv, StreamTypeOK, StreamAssumption
<1>5. started' \in BOOLEAN /\ (~started' => decode = "opening" /\ encode = "running")
  BY <1>1, <1>2, <1>3
<1>. USE DEF threads3
<1>6. item' # 0 <=> writer' = "encoding"
  BY <1>1 DEF IInv, StreamTypeOK
<1>7. StreamTypeOK'
  <2>1. started' \in BOOLEAN /\ (~started' => decode' = "opening" /\ encode' = "running")
    BY <1>1, <1>5
  <2>. QED BY <1>1, <1>6, <2>1 DEF IInv, StreamTypeOK, WriterStates, Returned
<1>8. CountsOK' /\ WrittenOK'
  BY <1>1 DEF IInv, CountsOK, WrittenOK, InChannel
<1>9. ParallelOK'
  <2>1. ASSUME mode = "parallel" PROVE JobsOK' /\ PoolOK' /\ ThreadsOK'
    <3>1. JobsOK /\ PoolOK /\ ThreadsOK
      BY <2>1 DEF IInv, ParallelOK
    <3>. QED BY <1>1, <3>1, JobsStay DEF PoolOK, ThreadsOK, Returned
  <2>. QED BY <1>1, <2>1 DEF ParallelOK
<1>10. AheadOK'
  <2>1. ASSUME mode = "ahead" PROVE AheadOK'
    <3>1. writer \notin Returned
      BY <1>1 DEF Returned
    <3>2. Len(queue) <= Depth /\ AheadLine
      BY <2>1, <3>1, AheadFacts
    <3>3. Len(queue') <= Depth /\ AheadLine' /\ AheadEnds'
      BY <1>1, <3>2 DEF AheadLine, Held, AheadEnds
    <3>. QED BY <3>3 DEF AheadOK, AheadLine, AheadEnds, Held, Depth
  <2>. QED BY <1>1, <2>1 DEF AheadOK
<1>11. SequentialOK'
  BY <1>1, <1>3 DEF IInv, SequentialOK
<1>. QED BY <1>7, <1>8, <1>9, <1>10, <1>11 DEF IInv

-----------------------------------------------------------------------------
(***************************************************************************)
(* The invariant, and what it is for.                                      *)
(***************************************************************************)

(***************************************************************************)
(* IInv holds in every state of the three conversions, whatever the        *)
(* decode, encode and calling threads of stream_convert_to_nonsolid do and *)
(* in whatever order, with every failure and panic the model has.          *)
(***************************************************************************)
THEOREM StreamInvariant == StreamSpec => []IInv
<1>1. IInv /\ [StreamNext]_allVars => IInv'
  <2>. SUFFICES ASSUME IInv, [StreamNext]_allVars PROVE IInv'
    OBVIOUS
  <2>1. CASE DecodeThread
    BY <2>1, DecodeParallel, DecodeAheadStep DEF DecodeThread
  <2>2. CASE EncodeThread
    BY <2>2, EncodeParallel DEF EncodeThread
  <2>3. CASE CallingThread
    BY <2>3, PrepareStep, WriterParallel, WriterAheadStep, SequentialStep DEF CallingThread
  <2>4. CASE UNCHANGED allVars
    <3>. USE <2>4 DEF allVars, vars, decoding, encoding, writing, streaming
    <3>1. StreamTypeOK'
      <4>1. item' # 0 <=> writer' = "encoding"
        BY DEF IInv, StreamTypeOK
      <4>2. started' \in BOOLEAN /\ (~started' => decode' = "opening" /\ encode' = "running")
        BY DEF IInv, StreamTypeOK
      <4>. QED BY <4>1, <4>2 DEF IInv, StreamTypeOK
    <3>2. CountsOK' /\ WrittenOK' /\ SequentialOK'
      BY DEF IInv, CountsOK, WrittenOK, InChannel, SequentialOK
    <3>3. ParallelOK'
      BY JobsStay DEF IInv, ParallelOK, PoolOK, ThreadsOK
    <3>4. AheadOK'
      BY DEF IInv, AheadOK
    <3>. QED BY <3>1, <3>2, <3>3, <3>4 DEF IInv
  <2>. QED BY <2>1, <2>2, <2>3, <2>4 DEF StreamNext, StreamStops
<1>. QED BY <1>1, StreamInitInv, PTL DEF StreamSpec

(***************************************************************************)
(* Type correctness of the three conversions of native.rs: every job on    *)
(* the way is an entry of the archive, and before the input is opened no   *)
(* thread has moved.                                                       *)
(***************************************************************************)
THEOREM StreamTypes == StreamSpec => []StreamTypeOK
BY StreamInvariant, PTL DEF IInv

LEMMA DisjointUnion ==
  ASSUME NEW S, NEW T, IsFiniteSet(S), IsFiniteSet(T), S \cap T = {}
  PROVE  IsFiniteSet(S \cup T) /\ Cardinality(S \cup T) = Cardinality(S) + Cardinality(T)
<1>1. /\ IsFiniteSet(S \cup T)
      /\ Cardinality(S \cup T) = Cardinality(S) + Cardinality(T) - Cardinality(S \cap T)
  BY FS_Union
<1>2. Cardinality(S \cap T) = 0 /\ Cardinality(S) \in Nat /\ Cardinality(T) \in Nat
  BY FS_EmptySet, FS_CardinalityType
<1>. QED BY <1>1, <1>2

\* the jobs in flight are as many as the numbers from the next to write to the next to send
LEMMA JobsCounted ==
  ASSUME IInv, mode = "parallel", broken = "no"
  PROVE  JobsAccounted
<1>. USE ParallelFacts
<1>. DEFINE f == [job \in InFlight |-> job.id]
            left == Len(work) + Cardinality(busy) + Len(results) + Cardinality(pending)
<1>1. InFlight \subseteq Jobs
  BY DEF InFlight, InChannel
<1>2. IsFiniteSet(InFlight) /\ Cardinality(InFlight) = left
  <2>1. NoneTwice(work) /\ NoneTwice(results)
    BY DEF JobsOK, OnePlace
  <2>2. IsFiniteSet(InChannel(work)) /\ Cardinality(InChannel(work)) = Len(work)
    BY <2>1, ChannelLength
  <2>3. IsFiniteSet(InChannel(results)) /\ Cardinality(InChannel(results)) = Len(results)
    BY <2>1, ChannelLength
  <2>4. IsFiniteSet(busy) /\ IsFiniteSet(pending)
    BY JobsFinite DEF InFlight
  <2>5. /\ IsFiniteSet(InChannel(work) \cup busy)
        /\ Cardinality(InChannel(work) \cup busy) = Len(work) + Cardinality(busy)
    BY <2>2, <2>4, DisjointUnion DEF JobsOK, OnePlace
  <2>6. (InChannel(work) \cup busy) \cap InChannel(results) = {}
    BY DEF JobsOK, OnePlace
  <2>7. /\ IsFiniteSet(InChannel(work) \cup busy \cup InChannel(results))
        /\ Cardinality(InChannel(work) \cup busy \cup InChannel(results))
             = Len(work) + Cardinality(busy) + Len(results)
    BY ONLY <2>3, <2>5, <2>6, DisjointUnion
  <2>8. (InChannel(work) \cup busy \cup InChannel(results)) \cap pending = {}
    BY DEF JobsOK, OnePlace
  <2>. QED BY <2>4, <2>7, <2>8, DisjointUnion DEF InFlight
<1>3. \A id \in next_id .. kept - 1 : \E job \in InFlight : job.id = id
  BY DEF JobsOK
<1>4. \A job \in InFlight : job.id \in next_id .. kept - 1
  BY DEF JobsOK, JobOK
<1>5. \A job, other \in InFlight : job.id = other.id => job = other
  <2>1. ASSUME NEW job \in InFlight, NEW other \in InFlight, job.id = other.id
        PROVE  job = other
    <3>1. /\ job.entry \in Keep /\ job.id = Rank(job.entry)
          /\ other.entry \in Keep /\ other.id = Rank(other.entry)
      BY DEF JobsOK, JobOK
    <3>2. job.entry = other.entry
      BY <2>1, <3>1, RankInjective
    <3>3. job \in Jobs /\ other \in Jobs
      BY <1>1
    <3>. QED BY ONLY <2>1, <3>2, <3>3 DEF Jobs
  <2>. QED BY <2>1
<1>6. f \in Bijection(InFlight, next_id .. kept - 1)
  BY <1>3, <1>4, <1>5 DEF Bijection, Injection, Surjection, IsInjective
<1>7. Cardinality(next_id .. kept - 1) = kept - next_id
  <2>0. next_id \in Int /\ kept - 1 \in Int
    OBVIOUS
  <2>1. Cardinality(next_id .. kept - 1)
          = IF next_id > kept - 1 THEN 0 ELSE (kept - 1) - next_id + 1
    BY ONLY <2>0, FS_Interval
  <2>2. next_id <= kept
    BY DEF JobsOK
  <2>. QED BY <2>1, <2>2
<1>8. Cardinality(InFlight) = kept - next_id
  BY <1>2, <1>6, <1>7, FS_Bijection DEF ExistsBijection
<1>9. kept = left + Len(written)
  <2>1. next_id = Len(written)
    BY DEF JobsOK
  <2>2. left = kept - Len(written)
    BY <1>2, <1>8, <2>1
  <2>. QED BY <2>2
<1>10. {job.id : job \in InFlight} = next_id .. kept - 1
  BY <1>3, <1>4
<1>. QED BY <1>9, <1>10 DEF JobsAccounted, InFlight

(***************************************************************************)
(* Phase 3 of native.rs loses and doubles no pack, however the pool orders *)
(* the jobs and for any number of workers, pool threads and members: until *)
(* a thread breaks, what was sent is in one of the two channels, with the  *)
(* pool, in the reorder map or in the output, each number once.            *)
(***************************************************************************)
THEOREM NoPackIsLost == StreamSpec => []NoPackLost
<1>1. IInv => NoPackLost
  BY JobsCounted DEF NoPackLost, JobsAccounted
<1>. QED BY <1>1, StreamInvariant, PTL

(***************************************************************************)
(* Back-pressure of both pipelines of native.rs, for any capacity: members *)
(* held uncompressed never exceed the bounded channel, the threads that    *)
(* compress and the one the decode thread waits with in send().            *)
(***************************************************************************)
THEOREM MemoryIsBounded == StreamSpec => []MemoryBounded
<1>1. IInv => MemoryBounded
  <2>. SUFFICES ASSUME IInv PROVE MemoryBounded
    OBVIOUS
  <2>1. ASSUME mode = "parallel" PROVE InMemory <= Workers + PoolThreads + 1
    <3>1. /\ Len(work) \in Nat /\ Cardinality(busy) \in Nat /\ Cardinality(busy) <= threads
          /\ Len(work) <= Workers
      BY <2>1, ParallelFacts, BusyCount DEF PoolOK
    <3>2. threads \in 0 .. PoolThreads /\ PoolThreads \in Nat /\ Workers \in Nat
      BY CodecAssumption DEF IInv, StreamTypeOK
    <3>. QED BY <3>1, <3>2 DEF InMemory
  <2>2. ASSUME mode = "ahead"
        PROVE  Len(queue) + (IF item # 0 THEN 1 ELSE 0) + (IF decode = "sending" THEN 1 ELSE 0)
                 <= (IF AheadDepth = 0 THEN 1 ELSE AheadDepth) + 2
    <3>1. Len(queue) <= Depth /\ Len(queue) \in Nat /\ Depth \in Nat
      BY <2>2, AheadFacts
    <3>. DEFINE held == IF item # 0 THEN 1 ELSE 0
                sent == IF decode = "sending" THEN 1 ELSE 0
    <3>2. held \in 0 .. 1 /\ sent \in 0 .. 1
      OBVIOUS
    <3>. HIDE DEF held, sent
    <3>3. Len(queue) + held + sent <= Depth + 2
      BY ONLY <3>1, <3>2
    <3>. QED BY <3>3 DEF Depth, held, sent
  <2>. QED BY <2>1, <2>2 DEF MemoryBounded
<1>. QED BY <1>1, StreamInvariant, PTL

-----------------------------------------------------------------------------
(***************************************************************************)
(* The refinement of SolidConvert: what a step of the calling thread is to *)
(* someone who sees the output and the outcome only.                       *)
(***************************************************************************)
Running == writer \notin Returned

LEMMA UnseenStep ==
  ASSUME UNCHANGED <<mode, written>>, writer' = writer \/ (Running /\ Running')
  PROVE  UNCHANGED OneByOne!vars
<1>1. (mode = "parallel")' = (mode = "parallel")
  OBVIOUS
<1>2. (IF writer \in Returned THEN writer ELSE "running")'
         = (IF writer \in Returned THEN writer ELSE "running")
  BY DEF Running, Returned
<1>. QED BY <1>1, <1>2 DEF OneByOne!vars

LEMMA FailStep ==
  ASSUME UNCHANGED <<mode, written>>, Running, writer' = "err"
  PROVE  OneByOne!Fail
<1>1. (mode = "parallel")' = (mode = "parallel")
  OBVIOUS
<1>2. /\ (IF writer \in Returned THEN writer ELSE "running") = "running"
      /\ (IF writer \in Returned THEN writer ELSE "running")' = "err"
  BY DEF Running, Returned
<1>. QED BY <1>1, <1>2 DEF OneByOne!Fail

LEMMA MissingIs ==
  ASSUME WrittenOK
  PROVE  OneByOne!Missing = {k \in Keep : ~ (Rank(k) < Len(written))}
BY DEF WrittenOK, OneByOne!Missing, InChannel

LEMMA SucceedStep ==
  ASSUME UNCHANGED <<mode, written>>, Running, writer' = "ok", IInv,
         kept = Len(written), cursor > EntryCount, mode = "parallel" => written # <<>>
  PROVE  OneByOne!Succeed
<1>1. (mode = "parallel")' = (mode = "parallel")
  OBVIOUS
<1>2. /\ (IF writer \in Returned THEN writer ELSE "running") = "running"
      /\ (IF writer \in Returned THEN writer ELSE "running")' = "ok"
  BY DEF Running, Returned
<1>3. OneByOne!Missing = {}
  <2>1. cursor \in Int /\ Rank(cursor) = Len(written) /\ WrittenOK
    BY DEF IInv, StreamTypeOK, CountsOK
  <2>2. \A k \in Keep : k < cursor
    BY <2>1, KeepRange
  <2>3. \A k \in Keep : Rank(k) < Len(written)
    BY <2>1, <2>2, RankGrows
  <2>. QED BY <2>1, <2>3, MissingIs
<1>. QED BY <1>1, <1>2, <1>3 DEF OneByOne!Succeed

LEMMA WriteStep ==
  ASSUME UNCHANGED mode, Running, Running', IInv,
         NEW m \in Keep, Rank(m) = Len(written), written' = Append(written, m)
  PROVE  OneByOne!Write
<1>1. (mode = "parallel")' = (mode = "parallel")
  OBVIOUS
<1>2. /\ (IF writer \in Returned THEN writer ELSE "running") = "running"
      /\ (IF writer \in Returned THEN writer ELSE "running")' = "running"
  BY DEF Running
<1>3. OneByOne!Missing = {k \in Keep : ~ (Rank(k) < Len(written))}
  BY MissingIs DEF IInv
<1>4. \A k \in Keep : k \in Int /\ Rank(k) \in Nat
  BY KeepRange, RankType
<1>5. m \in OneByOne!Missing
  BY <1>3, <1>4
<1>6. ASSUME NEW k \in OneByOne!Missing PROVE m <= k
  <2>1. k \in Keep /\ Rank(m) <= Rank(k)
    BY <1>3, <1>4
  <2>. QED BY <2>1, RankInjective
<1>7. \A k \in OneByOne!Missing : m <= k
  BY <1>6
<1>. QED BY <1>1, <1>2, <1>5, <1>7 DEF OneByOne!Write

\* Phase 3 seals the output only when the reorder map has given up every job
LEMMA ParallelComplete ==
  ASSUME IInv, mode = "parallel", writer = "finishing"
  PROVE  kept = Len(written) /\ cursor > EntryCount
<1>. USE ParallelFacts
<1>1. encode = "ok" /\ decode = "ok" /\ results = <<>>
  BY DEF ThreadsOK
<1>2. broken = "no" /\ threads = 0
  BY <1>1 DEF PoolOK, EncodeEnded
<1>3. work = <<>>
  BY <1>2, CodecAssumption DEF PoolOK
<1>4. busy = {}
  BY <1>2, BusyCount
<1>5. InFlight = pending
  BY <1>1, <1>3, <1>4 DEF InFlight, InChannel
<1>6. \A job \in pending : job.id # next_id
  BY DEF ThreadsOK, Returned
<1>7. next_id \notin next_id .. kept - 1
  BY <1>2, <1>5, <1>6 DEF JobsOK
<1>8. kept = next_id
  <2>1. next_id <= kept
    BY DEF JobsOK
  <2>. QED BY <1>7, <2>1
<1>. QED BY <1>1, <1>2, <1>8 DEF JobsOK, ThreadsOK

LEMMA ParallelRefines ==
  ASSUME IInv, mode = "parallel", Writer, UNCHANGED streaming
  PROVE  OneByOne!Next \/ UNCHANGED OneByOne!vars
<1>. USE DEF streaming, Running, Returned
<1>1. CASE Create
  <2>1. writer' = "err" \/ writer' = "receiving"
    BY <1>1 DEF Create
  <2>2. UNCHANGED <<mode, written>> /\ Running
    BY <1>1 DEF Create
  <2>3. CASE writer' = "err"
    BY <2>2, <2>3, FailStep DEF OneByOne!Next
  <2>4. CASE writer' = "receiving"
    BY <2>2, <2>4, UnseenStep
  <2>. QED BY <2>1, <2>3, <2>4
<1>2. CASE ReceivePack
  BY <1>2, UnseenStep DEF ReceivePack
<1>3. CASE PushPacked
  <2>1. PICK job \in pending : job.id = next_id /\ written' = Append(written, job.entry)
    BY <1>3 DEF PushPacked
  <2>2. job.entry \in Keep /\ Rank(job.entry) = Len(written)
    BY <2>1, ParallelFacts DEF InFlight, JobsOK, JobOK
  <2>. QED BY <1>3, <2>1, <2>2, WriteStep DEF PushPacked, OneByOne!Next
<1>4. CASE PushFails
  BY <1>4, FailStep DEF PushFails, OneByOne!Next
<1>5. CASE PushDone \/ ResultsClosed
  BY <1>5, UnseenStep DEF PushDone, ResultsClosed
<1>6. CASE JoinEncode
  BY <1>6, FailStep, UnseenStep DEF JoinEncode, OneByOne!Next
<1>7. CASE JoinDecode
  BY <1>7, FailStep, UnseenStep DEF JoinDecode, OneByOne!Next
<1>8. CASE FinishOutput
  <2>1. kept = Len(written) /\ cursor > EntryCount
    BY <1>8, ParallelComplete DEF FinishOutput
  <2>. QED BY <1>8, <2>1, FailStep, SucceedStep DEF FinishOutput, OneByOne!Next
<1>. QED BY <1>1, <1>2, <1>3, <1>4, <1>5, <1>6, <1>7, <1>8 DEF Writer, OneByOne!Next

LEMMA AheadRefines ==
  ASSUME IInv, mode = "ahead", Ahead!Writer, UNCHANGED <<mode, started, threads3>>
  PROVE  OneByOne!Next \/ UNCHANGED OneByOne!vars
<1>. USE DEF Running, Returned
<1>1. CASE Ahead!Create
  BY <1>1, FailStep, UnseenStep DEF Ahead!Create, OneByOne!Next
<1>2. CASE Ahead!Receive
  BY <1>2, UnseenStep DEF Ahead!Receive
<1>3. CASE Ahead!PushEntry
  <2>1. item # 0 /\ AheadLine
    BY <1>3, AheadFacts DEF Ahead!PushEntry
  <2>. QED BY <1>3, <2>1, WriteStep DEF Ahead!PushEntry, AheadLine, OneByOne!Next
<1>4. CASE Ahead!PushFails
  BY <1>4, FailStep DEF Ahead!PushFails, OneByOne!Next
<1>5. CASE Ahead!ChannelClosed
  BY <1>5, UnseenStep DEF Ahead!ChannelClosed
<1>6. CASE Ahead!Join
  BY <1>6, FailStep, UnseenStep DEF Ahead!Join, OneByOne!Next
<1>7. CASE Ahead!FinishOutput
  <2>1. /\ AheadLine /\ queue = <<>> /\ item = 0 /\ decode = "ok"
    BY <1>7, AheadFacts DEF Ahead!FinishOutput, AheadEnds
  <2>2. kept = Len(written) /\ cursor > EntryCount
    BY <2>1, AheadFacts DEF AheadLine, Held
  <2>. QED BY <1>7, <2>2, FailStep, SucceedStep DEF Ahead!FinishOutput, OneByOne!Next
<1>. QED BY <1>1, <1>2, <1>3, <1>4, <1>5, <1>6, <1>7 DEF Ahead!Writer

LEMMA SequentialRefines ==
  ASSUME IInv, mode = "sequential", Sequential, UNCHANGED <<mode, started, queue, threads3>>
  PROVE  OneByOne!Next \/ UNCHANGED OneByOne!vars
<1>. USE DEF Running, Returned
<1>1. CASE SequentialCreate
  BY <1>1, FailStep, UnseenStep DEF SequentialCreate, OneByOne!Next
<1>2. CASE SequentialSkip \/ SequentialEntry
  BY <1>2, UnseenStep DEF SequentialSkip, SequentialEntry
<1>3. CASE SequentialDecodeFails \/ SequentialPushFails
  BY <1>3, FailStep DEF SequentialDecodeFails, SequentialPushFails, OneByOne!Next
<1>4. CASE SequentialPush
  <2>1. item \in Keep /\ Rank(item) = Len(written)
    BY <1>4, SequentialFacts DEF SequentialPush, CountsOK
  <2>. QED BY <1>4, <2>1, WriteStep DEF SequentialPush, OneByOne!Next
<1>5. CASE SequentialFinish
  <2>1. kept = Len(written) /\ cursor > EntryCount
    BY <1>5, SequentialFacts DEF SequentialFinish
  <2>. QED BY <1>5, <2>1, FailStep, SucceedStep DEF SequentialFinish, OneByOne!Next
<1>. QED BY <1>1, <1>2, <1>3, <1>4, <1>5 DEF Sequential

(***************************************************************************)
(* stream_convert_to_nonsolid keeps one promise in its three modes, for    *)
(* any archive, filter, worker count, queue depth and failure: the output  *)
(* grows by the kept members one at a time in the order of the source, and *)
(* the call answers Ok only when all of them are in it (in Phase 3, only   *)
(* when there is one).                                                     *)
(***************************************************************************)
THEOREM StreamRefines == StreamSpec => RefinesSolidConvert
<1>1. StreamInit => OneByOne!Init
  BY DEF StreamInit, OneByOne!Init, Returned
<1>2. IInv /\ [StreamNext]_allVars => [OneByOne!Next]_(OneByOne!vars)
  <2>. SUFFICES ASSUME IInv, [StreamNext]_allVars
                PROVE  OneByOne!Next \/ UNCHANGED OneByOne!vars
    OBVIOUS
  <2>1. CASE DecodeThread
    BY <2>1, UnseenStep
       DEF DecodeThread, streaming, writing, Decode, DecodeOpen, DecodeSkip, DecodeEntry,
           DecodeFails, DecodeSend, DecodeSendFails, DecodeClose, DecodeReturn,
           Ahead!Decode, Ahead!DecodeOpen, Ahead!DecodeSkip, Ahead!DecodeEntry,
           Ahead!DecodeFails, Ahead!DecodeSend, Ahead!DecodeSendFails, Ahead!DecodeReturn
  <2>2. CASE EncodeThread
    BY <2>2, UnseenStep
       DEF EncodeThread, streaming, writing, Encode, TakeJob, Compress, CompressFails,
           CompressPanics, PoolThreadEnds, EncodeReturn
  <2>3. CASE PrepareFails \/ OpenFails \/ Prepare
    <3>1. UNCHANGED <<mode, written>> /\ Running /\ (writer' = "err" \/ writer' = "creating")
      BY <2>3 DEF PrepareFails, OpenFails, Prepare, streaming, Running, Returned
    <3>2. CASE writer' = "err"
      BY <3>1, <3>2, FailStep DEF OneByOne!Next
    <3>3. CASE writer' = "creating"
      BY <3>1, <3>3, UnseenStep DEF Running, Returned
    <3>. QED BY <3>1, <3>2, <3>3
  <2>4. CASE mode = "parallel" /\ Writer /\ UNCHANGED streaming
    BY <2>4, ParallelRefines
  <2>5. CASE mode = "ahead" /\ Ahead!Writer /\ UNCHANGED <<mode, started, threads3>>
    BY <2>5, AheadRefines
  <2>6. CASE mode = "sequential" /\ Sequential /\ UNCHANGED <<mode, started, queue, threads3>>
    BY <2>6, SequentialRefines
  <2>7. CASE UNCHANGED allVars
    BY <2>7, UnseenStep DEF allVars, vars, writing, streaming
  <2>. QED BY <2>1, <2>2, <2>3, <2>4, <2>5, <2>6, <2>7
           DEF StreamNext, CallingThread, StreamStops
<1>. QED BY <1>1, <1>2, StreamInvariant, PTL DEF StreamSpec, RefinesSolidConvert, OneByOne!Spec

=============================================================================
