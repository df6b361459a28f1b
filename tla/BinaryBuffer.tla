---------------------------- MODULE BinaryBuffer ----------------------------
(***************************************************************************)
(* BinaryBuffer: big endian integers of fixed width, strings and blobs     *)
(* behind a signed length, arrays behind a signed count.  A byte has Base  *)
(* values, 256 in the program; with a smaller Base the limits that the     *)
(* widths imply come within reach.  A buffer to write to is its bytes (the *)
(* write cursor is at their end), a buffer to read from adds the read      *)
(* cursor and the values read so far.  thrown: an operation has thrown     *)
(* InvalidInputException, and none follows.                                *)
(***************************************************************************)
EXTENDS Integers, SequencesExt

CONSTANT Base

ASSUME BaseAssumption == Base \in Nat \ {0} /\ Base % 2 = 0

UnsignedMax(w) == Base ^ w - 1
SignedMax(w)   == (Base ^ w) \div 2 - 1

\* Two's complement, most significant byte first.
Digits(v, w) == [i \in 1 .. w |-> (v \div Base ^ (w - i)) % Base]
Unsigned(q)  == FoldLeft(LAMBDA n, d : n * Base + d, 0, q)

\* Faulty variant: signed values are read as unsigned ones.
AsUnsigned(v, w) == v

AsSigned(v, w) == IF v > SignedMax(w) THEN v - Base ^ w ELSE v

-----------------------------------------------------------------------------
(* Sizes                                                                   *)

StringSize(s)        == 2 + Len(s)
BlobSize(s)          == 4 + Len(s)
ArraySize(sizes)     == FoldLeft(LAMBDA n, e : n + e, 4, sizes)

-----------------------------------------------------------------------------
(* Writing                                                                 *)

Throw(b) == [b EXCEPT !.thrown = TRUE]

\* reserve(), called by allocate_buffer for a buffer whose cursors are at 0.
reserve(n) == [bytes |-> <<>>, thrown |-> n > UnsignedMax(4)]

grow_buffer(b, n) == IF UnsignedMax(4) - Len(b.bytes) < n THEN Throw(b) ELSE b

write_bytes(b, q) ==
    LET g == grow_buffer(b, Len(q)) IN
    IF g.thrown THEN g ELSE [g EXCEPT !.bytes = @ \o q]

\* write_byte, write_ushort, write_uint, write_ulong and the signed ones.
write_int(b, v, w) == write_bytes(b, Digits(v, w))

write_string(b, s) ==
    IF Len(s) > SignedMax(2) THEN Throw(b) ELSE write_bytes(write_int(b, Len(s), 2), s)

write_blob(b, s) ==
    IF Len(s) > SignedMax(4) THEN Throw(b) ELSE write_bytes(write_int(b, Len(s), 4), s)

\* What write_array writes before the elements.
write_count(b, n) == IF n > SignedMax(4) THEN Throw(b) ELSE write_int(b, n, 4)

-----------------------------------------------------------------------------
(* Reading                                                                 *)

Reader(q) == [bytes |-> q, read |-> 0, got |-> <<>>, thrown |-> FALSE]

\* check_read_length throws.
TooShort(r, n) == Len(r.bytes) < r.read + n

Ahead(r, n)  == SubSeq(r.bytes, r.read + 1, r.read + n)
Got(r, v, n) == [r EXCEPT !.got = Append(@, v), !.read = @ + n]

\* read_byte, read_ushort, read_uint, read_ulong ...
read_unsigned(r, w) == IF TooShort(r, w) THEN Throw(r) ELSE Got(r, Unsigned(Ahead(r, w)), w)

\* ... and read_short, read_int, read_long.
read_signed(r, w) == IF TooShort(r, w) THEN Throw(r) ELSE Got(r, AsSigned(Unsigned(Ahead(r, w)), w), w)

read_bytes(r, n) == IF n # 0 /\ TooShort(r, n) THEN Throw(r) ELSE Got(r, Ahead(r, n), n)

\* A length has been read and becomes that of the bytes: none if not positive.
read_sized(r) ==
    IF r.thrown THEN r
    ELSE read_bytes([r EXCEPT !.got = Front(@)], IF Last(r.got) > 0 THEN Last(r.got) ELSE 0)

read_string(r) == read_sized(read_signed(r, 2))

read_blob(r) == read_sized(read_signed(r, 4))
=============================================================================
