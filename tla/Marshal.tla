------------------------------ MODULE Marshal ------------------------------
(***************************************************************************)
(* Messages as bits (libuavcan: BitStream, ScalarCodec, IntegerSpec,       *)
(* Array).  A buffer is the sequence of its bits, eight to a byte, the     *)
(* most significant first.  A field is an integer, or an array of them; an *)
(* array at the end of a message, of elements of 8 bits or more, is        *)
(* written without its length ("tail array optimization").                 *)
(***************************************************************************)
EXTENDS Integers, Sequences, SequencesExt

CONSTANTS
  Schemas,     \* the messages: sequences of fields
  Values,      \* what the elements of a field may be set to
  Capacities,  \* sizes of the buffer, in bytes
  Matrices,    \* square matrices, as sequences of rows
  NaN

VARIABLES
  schema, message,  \* the fields of the message and their values, or a matrix
  stream,           \* BitStream: buf_, bit_offset_ and byte_cache_
  size,             \* of the buffer
  at,               \* the field that is next
  phase,            \* "encode", "decode", "done", "failed"; "matrix", "unpacked"
  decoded

marshalVars == <<schema, message, stream, size, at, phase, decoded>>

Zeros(n) == [i \in 1..n |-> 0]
bitlenToBytelen(n) == (n + 7) \div 8
Least(m, n) == IF m < n THEN m ELSE n
Most(m, n) == IF m > n THEN m ELSE n

-----------------------------------------------------------------------------
\* bitarrayCopy: as many bits at a time as neither byte ends within.
RECURSIVE bitarrayCopy(_, _, _, _, _)
bitarrayCopy(src, from, len, dst, to) ==
  IF len = 0 THEN dst
  ELSE LET n == Least(len, 8 - Most(from % 8, to % 8))
       IN bitarrayCopy(src, from + n, len - n,
            [i \in 1..Len(dst) |-> IF i \in to + 1..to + n THEN src[i - to + from] ELSE dst[i]], to + n)

\* The cache is left as it was.
NextCacheNone(s, tmp, offset) == s.cache

\* byte_cache_: the last byte, if it is not full.
NextCache(s, tmp, offset) == IF offset % 8 = 0 THEN Zeros(8) ELSE SubSeq(tmp, Len(tmp) - 7, Len(tmp))

\* BitStream::write, with its result
write(s, bits, len) ==
  LET shift == s.offset % 8
      bytelen == bitlenToBytelen(len + shift)
      copied == bitarrayCopy(bits, 0, len, Zeros(8 * bytelen), shift)
      tmp == [i \in 1..Len(copied) |-> IF i <= 8 THEN Most(copied[i], s.cache[i]) ELSE copied[i]]
      first == s.offset \div 8
      fits == Least(bytelen, size - first)
      buf == SubSeq(s.buf, 1, 8 * first) \o SubSeq(tmp, 1, 8 * fits)
  IN [buf |-> buf, cache |-> NextCache(s, tmp, s.offset + len),
      offset |-> IF fits < bytelen THEN s.offset ELSE s.offset + len,
      ok |-> fits = bytelen, bits |-> <<>>]

\* BitStream::read
read(s, len) ==
  LET shift == s.offset % 8
      bytelen == bitlenToBytelen(len + shift)
      first == s.offset \div 8
      ok == 8 * (first + bytelen) <= Len(s.buf)
  IN IF ~ok THEN [s EXCEPT !.ok = FALSE]
     ELSE [s EXCEPT !.ok = TRUE, !.offset = @ + len,
                    !.bits = bitarrayCopy(SubSeq(s.buf, 8 * first + 1, 8 * (first + bytelen)), shift, len,
                                          Zeros(8 * bitlenToBytelen(len)), 0)]

\* Bit i of a value of len bits, after clearExtraBits.
Bit(v, len, i) == ((v % 2^len) \div 2^i) % 2

\* ScalarCodec::encode and encodeBytesImpl: the bytes of the value, the lowest first, the
\* bits of the last one shifted to the left.
encodeBytes(v, len) ==
  [i \in 1..8 * bitlenToBytelen(len) |->
     LET byte == (i - 1) \div 8
         width == Least(8, len - 8 * byte)
         j == (i - 1) % 8
     IN IF j < width THEN Bit(v, len, 8 * byte + width - 1 - j) ELSE 0]

\* decodeBytesImpl: the same backwards.
decodeBytes(bits, len) ==
  LET place(i) == LET byte == (i - 1) \div 8
                  IN 8 * byte + Least(8, len - 8 * byte) - 1 - ((i - 1) % 8)
      inside(i) == (i - 1) % 8 < Least(8, len - 8 * ((i - 1) \div 8))
  IN FoldLeft(LAMBDA n, i : IF inside(i) THEN n + bits[i] * 2^place(i) ELSE n, 0, [i \in 1..Len(bits) |-> i])

\* fixTwosComplement
fixTwosComplement(v, len, signed) == IF signed /\ v >= 2^(len - 1) THEN v - 2^len ELSE v

-----------------------------------------------------------------------------
\* IntegerSpec::max, min, saturate and truncate
MaxOf(t) == IF t.signed THEN 2^(t.len - 1) - 1 ELSE 2^t.len - 1
MinOf(t) == IF t.signed THEN -MaxOf(t) - 1 ELSE 0
saturate(t, v) == IF v > MaxOf(t) THEN MaxOf(t) ELSE IF v <= MinOf(t) THEN MinOf(t) ELSE v
truncate(t, v) == v % 2^t.len
Cast(t, v) == IF t.saturates THEN saturate(t, v) ELSE truncate(t, v)

encodeInteger(s, t, v) == IF s.ok THEN write(s, encodeBytes(Cast(t, v), t.len), t.len) ELSE s
decodeInteger(s, t) == IF s.ok THEN read(s, t.len) ELSE s
Decoded(s, t) == fixTwosComplement(decodeBytes(s.bits, t.len), t.len, t.signed)

\* RawEncodedSizeType: as many bits as the greatest size takes.
SizeType(max) == [len |-> CHOOSE n \in 1..8 : 2^(n - 1) <= max /\ max < 2^n, signed |-> FALSE, saturates |-> TRUE]

\* isOptimizedTailArray, of the last field
isOptimizedTailArray(f, last) == f.dynamic /\ last /\ f.len >= 8

\* Array::encodeImpl
encodeArray(s, f, last, vs) ==
  FoldLeft(LAMBDA x, v : encodeInteger(x, f, v),
           IF f.dynamic /\ ~isOptimizedTailArray(f, last) THEN encodeInteger(s, SizeType(f.max), Len(vs)) ELSE s, vs)

\* Array::decodeImpl of so many elements
decodeStatic(s, f, n) ==
  FoldLeft(LAMBDA r, i : LET x == decodeInteger(r.s, f)
                         IN [s |-> x, vs |-> IF x.ok THEN Append(r.vs, Decoded(x, f)) ELSE r.vs],
           [s |-> s, vs |-> <<>>], [i \in 1..n |-> i])

\* ... of elements up to the end of the stream, no more than the array holds
RECURSIVE decodeTail(_, _, _)
decodeTail(s, f, vs) ==
  LET x == decodeInteger(s, f)
  IN IF ~x.ok THEN [s |-> [x EXCEPT !.ok = TRUE], vs |-> vs]
     ELSE IF Len(vs) = f.max THEN [s |-> [x EXCEPT !.ok = FALSE], vs |-> vs]
     ELSE decodeTail(x, f, Append(vs, Decoded(x, f)))

decodeArray(s, f, last) ==
  IF ~f.dynamic THEN decodeStatic(s, f, f.max)
  ELSE IF isOptimizedTailArray(f, last) THEN decodeTail(s, f, <<>>)
  ELSE LET x == decodeInteger(s, SizeType(f.max))
           n == Decoded(x, SizeType(f.max))
       IN IF ~x.ok \/ n > f.max THEN [s |-> [x EXCEPT !.ok = FALSE], vs |-> <<>>] ELSE decodeStatic(x, f, n)

-----------------------------------------------------------------------------
\* Packing of square matrices; two elements are close when they are equal numbers.
Close(a, b) == a # NaN /\ b # NaN /\ a = b
Side(m) == 1..Len(m)
isScalar(m) == \A i, j \in Side(m) : IF i = j THEN Close(m[i][i], m[1][1]) ELSE Close(m[i][j], 0)
isDiagonal(m) == \A i, j \in Side(m) : i # j => Close(m[i][j], 0)
isSymmetric(m) == \A i, j \in Side(m) : i # j => Close(m[i][j], m[j][i])

RowsFrom(m, first) == FlattenSeq([i \in Side(m) |-> SubSeq(m[i], first[i], Len(m))])

\* packSquareMatrixImpl, by detectOptimalPackingMode
packSquareMatrix(m) ==
  IF \A i, j \in Side(m) : m[i][j] = NaN THEN <<>>
  ELSE IF isScalar(m) THEN <<m[1][1]>>
  ELSE IF isDiagonal(m) THEN [i \in Side(m) |-> m[i][i]]
  ELSE IF isSymmetric(m) THEN RowsFrom(m, [i \in Side(m) |-> i])
  ELSE RowsFrom(m, [i \in Side(m) |-> 1])

Triangle(n) == ((1 + n) * n) \div 2

\* The place of an element of the upper triangle, as source_index comes to it.
TriangleIndex(n, i, j) == (i - 1) * n - Triangle(i - 1) + j

\* unpackSquareMatrixImpl
unpackSquareMatrix(p, n) ==
  [i \in 1..n |-> [j \in 1..n |->
     IF Len(p) = n \/ Len(p) = 1 THEN IF i # j THEN 0 ELSE IF Len(p) = 1 THEN p[1] ELSE p[i]
     ELSE IF Len(p) = Triangle(n) THEN p[TriangleIndex(n, Least(i, j), Most(i, j))]
     ELSE IF Len(p) = n * n THEN p[(i - 1) * n + j]
     ELSE 0]]
-----------------------------------------------------------------------------
\* The values of StorageType.
Storage(t) ==
  LET bits == IF t.len = 1 THEN 1 ELSE IF t.len <= 8 THEN 8 ELSE 16
  IN IF t.signed THEN -2^(bits - 1)..2^(bits - 1) - 1 ELSE 0..2^bits - 1

\* Values a field may have.
FieldValues(f) == UNION {[1..n -> Values \cap Storage(f)] : n \in IF f.dynamic THEN 0..f.max ELSE {f.max}}

MarshalInit ==
  /\ \/ schema \in Schemas /\ message = <<>> /\ size \in Capacities /\ phase = "encode"
     \/ schema = <<>> /\ message \in Matrices /\ size = 0 /\ phase = "matrix"
  /\ stream = [buf |-> <<>>, offset |-> 0, cache |-> Zeros(8), ok |-> TRUE, bits |-> <<>>]
  /\ at = 1 /\ decoded = <<>>

\* A field is written, after those before it; the first failure ends the encoding.
EncodeField ==
  /\ phase = "encode"
  /\ \E vs \in FieldValues(schema[at]) :
       /\ message' = Append(message, vs)
       /\ stream' = encodeArray(stream, schema[at], at = Len(schema), vs)
  /\ IF ~stream'.ok THEN phase' = "failed" /\ at' = at
     ELSE IF at = Len(schema) THEN phase' = "decode" /\ at' = 1
     ELSE phase' = phase /\ at' = at + 1
  /\ UNCHANGED <<schema, size, decoded>>

\* The receiver reads them from a stream of its own.
DecodeField ==
  LET s == IF at = 1 THEN [stream EXCEPT !.offset = 0] ELSE stream
      r == decodeArray(s, schema[at], at = Len(schema))
  IN /\ phase = "decode"
     /\ stream' = r.s
     /\ decoded' = Append(decoded, r.vs)
     /\ phase' = IF ~r.s.ok THEN "failed" ELSE IF at = Len(schema) THEN "done" ELSE phase
     /\ at' = at + 1
     /\ UNCHANGED <<schema, message, size>>

\* A matrix is packed into an array and unpacked by the receiver.
SendMatrix ==
  /\ phase = "matrix"
  /\ decoded' = unpackSquareMatrix(packSquareMatrix(message), Len(message))
  /\ phase' = "unpacked"
  /\ UNCHANGED <<schema, message, stream, size, at>>

MarshalNext == EncodeField \/ DecodeField \/ SendMatrix
MarshalSpec == MarshalInit /\ [][MarshalNext]_marshalVars

-----------------------------------------------------------------------------
\* What the fields are after the cast of their type.
Expected == [i \in 1..Len(message) |-> [j \in 1..Len(message[i]) |-> Cast(schema[i], message[i][j])]]

BitsNeeded ==
  FoldLeft(LAMBDA n, i : n + Len(message[i]) * schema[i].len
                           + (IF schema[i].dynamic /\ ~isOptimizedTailArray(schema[i], i = Len(schema))
                              THEN SizeType(schema[i].max).len ELSE 0),
           0, [i \in 1..Len(message) |-> i])

\* A message comes out of the bits as it went in, after its fields' casts, wherever the
\* fields begin and end in their bytes; it fails only when it does not fit the buffer.  A
\* packed matrix is unpacked as it was, but one that is all NaN, which is unpacked as zeros.
SurvivesTheWire ==
  /\ phase = "done" => decoded = Expected
  /\ phase = "failed" => decoded = <<>> /\ BitsNeeded > 8 * size
  /\ phase = "unpacked" =>
       decoded = [i \in Side(message) |->
                   [j \in Side(message) |-> IF packSquareMatrix(message) = <<>> THEN 0 ELSE message[i][j]]]

=============================================================================
