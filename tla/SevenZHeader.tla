---------------------------- MODULE SevenZHeader ----------------------------
(***************************************************************************)
(* The end header of a non-solid 7z archive, as src/codec/sevenz_header.rs *)
(* writes it and as a 7z reader understands it.                            *)
(*                                                                         *)
(* A file is a record [name, size, ctime]; one of size 0 has no packed     *)
(* stream.  The header is a record of its sections.  Numbers and bit sets  *)
(* are sequences of bytes of ByteBits bits (8 in the code), so that small  *)
(* numbers cross the boundaries of the encoding; checksums, coders and the *)
(* property identifiers and lengths that only delimit sections are left    *)
(* out, and so is kEmptyFile: its bits, all set, say that every file       *)
(* without a stream is a file and no directory.  ctime stands for the four *)
(* optional properties.  A section the code omits when it would say        *)
(* nothing is present here, and says nothing.                              *)
(***************************************************************************)
EXTENDS Naturals, Sequences, SequencesExt, FiniteSetsExt

CONSTANTS
  ByteBits,      \* bits of a byte
  NoTime         \* None: the property is not defined for the file

ASSUME HeaderAssumption == ByteBits \in Nat /\ ByteBits > 1

\* 1 << n
Pow2[n \in 0 .. ByteBits * ByteBits] == IF n = 0 THEN 1 ELSE 2 * Pow2[n - 1]

Byte == Pow2[ByteBits]
Word == Pow2[ByteBits * ByteBits]    \* a u64 is smaller

\* value >> i bytes
Shifted(value, i) == value \div Pow2[ByteBits * i]

(***************************************************************************)
(* write_u64: the first byte has as many leading ones as bytes follow it,  *)
(* and the top bits of the number below them; the bytes follow low first.  *)
(***************************************************************************)
ExtraBytes(value) ==
  Min({i \in 0 .. ByteBits : i = ByteBits \/ value < Pow2[(ByteBits - 1) * (i + 1)]})

LeadingOnes(i) == Byte - Pow2[ByteBits - i]

FirstByte(value, i) == LeadingOnes(i) + (IF i = ByteBits THEN 0 ELSE Shifted(value, i))

\* mutant: the bytes after the first are written high first
write_u64_HighFirst(value) ==
  LET i == ExtraBytes(value)
  IN  <<FirstByte(value, i)>> \o [k \in 1 .. i |-> Shifted(value, i - k) % Byte]

write_u64(value) ==
  LET i == ExtraBytes(value)
  IN  <<FirstByte(value, i)>> \o [k \in 1 .. i |-> Shifted(value, k - 1) % Byte]

\* bitset_bytes: the first element is the highest bit of the first byte
ByteOf(k, elements) ==
  LET Bits[i \in 0 .. ByteBits] ==
        IF i = 0 THEN 0
        ELSE Bits[i - 1] + (IF (k - 1) * ByteBits + i \in elements THEN Pow2[ByteBits - i] ELSE 0)
  IN  Bits[ByteBits]

bitset_bytes(n, elements) ==
  [k \in 1 .. (n + ByteBits - 1) \div ByteBits |-> ByteOf(k, elements)]

(***************************************************************************)
(* write_raw_header.                                                       *)
(***************************************************************************)
Numbers(values) == FlattenSeq([k \in DOMAIN values |-> write_u64(values[k])])
Empty(files)    == {k \in DOMAIN files : files[k].size = 0}
Defined(files)  == {k \in DOMAIN files : files[k].ctime # NoTime}

\* the values at these places, in order
Taken(values, places) ==
  FlattenSeq([k \in DOMAIN values |-> IF k \in places THEN <<values[k]>> ELSE <<>>])

\* write_pack_info (and write_unpack_info: a stored file's sizes are the same)
write_pack_info(files) ==
  LET sizes == Taken([k \in DOMAIN files |-> files[k].size], DOMAIN files \ Empty(files))
  IN  [count |-> write_u64(Len(sizes)), sizes |-> Numbers(sizes)]

write_optional_u64_prop(files) ==
  [all_defined |-> Defined(files) = DOMAIN files,
   bits        |-> bitset_bytes(Len(files), Defined(files)),
   values      |-> Taken([k \in DOMAIN files |-> files[k].ctime], Defined(files))]

write_raw_header(files) ==
  [pack         |-> write_pack_info(files),
   count        |-> write_u64(Len(files)),
   empty_stream |-> bitset_bytes(Len(files), Empty(files)),
   names        |-> [k \in DOMAIN files |-> files[k].name],
   ctime        |-> write_optional_u64_prop(files)]

-----------------------------------------------------------------------------
(***************************************************************************)
(* A reader of the format: the files without an empty-stream bit take the  *)
(* packed streams in order, the files with a defined bit the times.        *)
(***************************************************************************)
FollowingBytes(first) == Max({i \in 0 .. ByteBits : first >= LeadingOnes(i)})

ReadU64(bytes) ==
  LET i == FollowingBytes(bytes[1])
      Low[k \in 0 .. i] ==
        IF k = 0 THEN 0 ELSE Low[k - 1] + bytes[k + 1] * Pow2[ByteBits * (k - 1)]
  IN  (bytes[1] - LeadingOnes(i)) * Pow2[ByteBits * i] + Low[i]

\* count numbers, one after the other
ReadNumbers(count, bytes) ==
  LET start[k \in 1 .. count] ==
        IF k = 1 THEN 1 ELSE start[k - 1] + 1 + FollowingBytes(bytes[start[k - 1]])
  IN  [k \in 1 .. count |-> ReadU64(SubSeq(bytes, start[k], Len(bytes)))]

HasBit(bytes, k) ==
  (bytes[1 + (k - 1) \div ByteBits] \div Pow2[ByteBits - 1 - ((k - 1) % ByteBits)]) % 2 = 1

Rank(k, elements) == Cardinality({j \in elements : j <= k})

read_header(header) ==
  LET n       == ReadU64(header.count)
      content == {k \in 1 .. n : ~HasBit(header.empty_stream, k)}
      defined == {k \in 1 .. n : header.ctime.all_defined \/ HasBit(header.ctime.bits, k)}
      sizes   == ReadNumbers(ReadU64(header.pack.count), header.pack.sizes)
  IN  [k \in 1 .. n |->
         [name  |-> header.names[k],
          size  |-> IF k \in content THEN sizes[Rank(k, content)] ELSE 0,
          ctime |-> IF k \in defined THEN header.ctime.values[Rank(k, defined)] ELSE NoTime]]
=============================================================================
