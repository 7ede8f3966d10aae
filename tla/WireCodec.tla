------------------------------ MODULE WireCodec ------------------------------
(***************************************************************************)
(* The wire decoder of the peer-network protocol: MessageParser, appended *)
(* to src/backend/src/workers/__tests__/dataCleanup.test.ts (lines        *)
(* 163-221).  A parser holds a Buffer and a cursor; int8, int32 and int64 *)
(* read 1, 4 and 8 bytes little-endian, str a 4-byte length and then that *)
(* many bytes as UTF-8, rawHexStr(size) size bytes as hex.  Each read      *)
(* throws "Buffer underflow" when the buffer is too short.                 *)
(*                                                                         *)
(* The encoder is not in this repository: the buffer a parser is given is *)
(* modelled from the spec (4.1) as the little-endian, length-prefixed      *)
(* encoding of a message, possibly cut short in transit.  The caller reads *)
(* the message's fields in order and abandons it at the first underflow.   *)
(* A string is a sequence of character codes; bytes below 128 decode to   *)
(* the same code and a byte 0xFF, never valid in UTF-8, to U+FFFD.  A hex  *)
(* string is its sequence of nibbles.  TLC's integers have 32 bits, so   *)
(* the int64 fields of the instances hold small values.                    *)
(***************************************************************************)
EXTENDS Naturals, Sequences, SequencesExt

CONSTANT Messages   \* the messages whose encodings the parser is given

\* A field of a message: its kind and value; a raw field carries its bytes.
Int8(v) == [kind |-> "int8", val |-> v]
Int32(v) == [kind |-> "int32", val |-> v]
Int64(v) == [kind |-> "int64", val |-> v]
Str(chars) == [kind |-> "str", val |-> chars]
Raw(bytes) == [kind |-> "raw", val |-> bytes]

IntWidth == [int8 |-> 1, int32 |-> 4, int64 |-> 8]

\* v as n little-endian bytes: the low byte of v, then of v \div 256, ...
LE(v, n) ==
    LET rest[i \in 0 .. n] == IF i = 0 THEN v ELSE rest[i - 1] \div 256
    IN  [i \in 1 .. n |-> rest[i - 1] % 256]

-----------------------------------------------------------------------------
(* The reference encoder (spec 4.1).                                       *)

EncodeField(f) ==
    CASE f.kind \in {"int8", "int32", "int64"} -> LE(f.val, IntWidth[f.kind])
      [] f.kind = "str" -> LE(Len(f.val), 4) \o f.val
      [] f.kind = "raw" -> f.val

Encode(msg) == FlattenSeq([i \in 1 .. Len(msg) |-> EncodeField(msg[i])])

-----------------------------------------------------------------------------
(* The conversions of the reads.                                           *)

\* readUInt8, readUInt32LE, readBigUInt64LE: the bytes as a little-endian
\* unsigned number, accumulated from the last (most significant) byte.
LEValue(bytes) ==
    LET n == Len(bytes)
        acc[i \in 0 .. n] == IF i = 0 THEN 0 ELSE acc[i - 1] * 256 + bytes[n - i + 1]
    IN  acc[n]

\* toString('utf8') over the byte alphabet of the messages.
Utf8(bytes) == [i \in DOMAIN bytes |-> IF bytes[i] < 128 THEN bytes[i] ELSE 65533]

\* toString('hex'): two nibbles per byte, high one first.
Hex(bytes) ==
    [i \in 1 .. 2 * Len(bytes) |->
        LET b == bytes[(i + 1) \div 2] IN IF i % 2 = 1 THEN b \div 16 ELSE b % 16]

\* What each read of the field returns from an intact buffer.
Decoded(msg) ==
    [i \in 1 .. Len(msg) |-> IF msg[i].kind = "raw" THEN Hex(msg[i].val) ELSE msg[i].val]

-----------------------------------------------------------------------------
VARIABLES
    msg,      \* the message that was encoded
    data,     \* this.data: its encoding, possibly cut short
    pointer,  \* this.pointer
    out,      \* the values the reads returned, in order
    failed    \* a read threw "Buffer underflow"

vars == << msg, data, pointer, out, failed >>

\* The parser is constructed over a prefix of an encoded message.
Init ==
    /\ msg \in Messages
    /\ data \in Prefixes(Encode(msg))
    /\ pointer = 0
    /\ out = << >>
    /\ failed = FALSE

\* The read the caller makes next: the kind of the next field, and for a
\* raw field the size it passes to rawHexStr.
NextField == msg[Len(out) + 1]

CallerReads == ~failed /\ Len(out) < Len(msg)

Bytes(from, n) == SubSeq(data, from + 1, from + n)

\* The guard of every read: "this.pointer + size > this.data.length".
UnderflowsAtEnd(n) == pointer + n >= Len(data)

Underflows(n) == pointer + n > Len(data)

\* int8, int32 and int64 (lines 172-196).
ReadInt ==
    LET n == IntWidth[NextField.kind] IN
    /\ CallerReads
    /\ NextField.kind \in {"int8", "int32", "int64"}
    /\ IF Underflows(n)
          THEN /\ failed' = TRUE
               /\ UNCHANGED << pointer, out >>
          ELSE /\ out' = Append(out, LEValue(Bytes(pointer, n)))
               /\ pointer' = pointer + n
               /\ UNCHANGED failed
    /\ UNCHANGED << msg, data >>

\* A str that takes its payload from where the length prefix starts.
ReadStrAtPrefix ==
    /\ CallerReads
    /\ NextField.kind = "str"
    /\ IF Underflows(4)
          THEN /\ failed' = TRUE
               /\ UNCHANGED << pointer, out >>
          ELSE LET size == LEValue(Bytes(pointer, 4))
                   p == pointer + 4
               IN  IF p + size > Len(data)
                      THEN /\ failed' = TRUE
                           /\ pointer' = p
                           /\ UNCHANGED out
                      ELSE /\ out' = Append(out, Utf8(Bytes(pointer, size)))
                           /\ pointer' = p + size
                           /\ UNCHANGED failed
    /\ UNCHANGED << msg, data >>

\* str (lines 199-211): the length prefix, the cursor moved past it, then
\* the payload.
ReadStr ==
    /\ CallerReads
    /\ NextField.kind = "str"
    /\ IF Underflows(4)
          THEN /\ failed' = TRUE
               /\ UNCHANGED << pointer, out >>
          ELSE LET size == LEValue(Bytes(pointer, 4))
                   p == pointer + 4
               IN  IF p + size > Len(data)
                      THEN /\ failed' = TRUE
                           /\ pointer' = p
                           /\ UNCHANGED out
                      ELSE /\ out' = Append(out, Utf8(Bytes(p, size)))
                           /\ pointer' = p + size
                           /\ UNCHANGED failed
    /\ UNCHANGED << msg, data >>

\* rawHexStr(size) (lines 213-220).
ReadRaw ==
    LET n == Len(NextField.val) IN
    /\ CallerReads
    /\ NextField.kind = "raw"
    /\ IF Underflows(n)
          THEN /\ failed' = TRUE
               /\ UNCHANGED << pointer, out >>
          ELSE /\ out' = Append(out, Hex(Bytes(pointer, n)))
               /\ pointer' = pointer + n
               /\ UNCHANGED failed
    /\ UNCHANGED << msg, data >>

Next == ReadInt \/ ReadStr \/ ReadRaw

Spec == Init /\ [][Next]_vars

-----------------------------------------------------------------------------
(* Reads return what was written: every value a read has returned is the  *)
(* field that the encoder wrote there, never a partial or shifted value,   *)
(* and the cursor sits just past the encoding of the fields read so far    *)
(* (spec 4.1; the bounds checks and cursor updates of lines 172-220).      *)
DecodesWhatWasEncoded ==
    /\ IsPrefix(out, Decoded(msg))
    /\ ~failed => pointer = Len(Encode(SubSeq(msg, 1, Len(out))))

(* Underflow means truncation: a read throws "Buffer underflow" only when *)
(* the buffer is shorter than the message's encoding, so an intact message *)
(* always decodes in full, whatever the widths and lengths of its fields   *)
(* (spec 4.1 and its test, spec 7: a 4-byte read from 3 bytes fails).       *)
UnderflowOnlyOnTruncation == failed => Len(data) < Len(Encode(msg))

=============================================================================
