-------------------------------- MODULE Codec --------------------------------
(***************************************************************************)
(* The byte-level codec of gocaskDB: Go's varints (encoding/binary), the   *)
(* log record encoding and the header decode of data/log_record.go, the    *)
(* read of one record in data/data_file.go, and the sequence-number       *)
(* prefix of batch.go.  A byte string                                      *)
(* is a sequence of naturals in 0..255; CRC-32 is computed for real (IEEE  *)
(* polynomial, table driven, as hash/crc32 does).                          *)
(***************************************************************************)
EXTENDS Integers, Sequences, Bitwise

MaxVarintLen32 == 5
MaxVarintLen64 == 10
\* maxLogRecordHeaderSize: crc, type and two varint32 sizes
MaxLogRecordHeaderSize == MaxVarintLen32 * 2 + 1 + 4

\* TLC integers are 32-bit: every varint value modelled stays below 2^30,
\* where Go's uint32/int64 casts of sizes and offsets are identities.

-----------------------------------------------------------------------------
(* encoding/binary varints.                                                *)

\* binary.PutUvarint: 7 bits per byte, low group first, high bit = more
RECURSIVE PutUvarint(_)
PutUvarint(x) ==
  IF x < 128 THEN <<x>> ELSE <<(x % 128) + 128>> \o PutUvarint(x \div 128)

\* binary.Uvarint from byte i with x and shift s so far: [x, n], n = 0 when
\* the buffer ends first, n < 0 on overflow
RECURSIVE UvarintFrom(_, _, _, _)
UvarintFrom(buf, i, x, s) ==
  CASE i >= Len(buf)         -> [x |-> 0, n |-> 0]
    [] i = MaxVarintLen64    -> [x |-> 0, n |-> -(i + 1)]
    [] buf[i + 1] < 128      ->
         IF i = MaxVarintLen64 - 1 /\ buf[i + 1] > 1
         THEN [x |-> 0, n |-> -(i + 1)]
         ELSE [x |-> x + buf[i + 1] * 2^s, n |-> i + 1]
    [] OTHER -> UvarintFrom(buf, i + 1, x + (buf[i + 1] - 128) * 2^s, s + 7)

Uvarint(buf) == UvarintFrom(buf, 0, 0, 0)

\* binary.PutVarint: zig-zag (ux = x << 1, complemented when x < 0)
PutVarint(x) == PutUvarint(IF x >= 0 THEN 2 * x ELSE -2 * x - 1)

\* binary.Varint: x = ux >> 1, complemented when ux is odd
ZigZag(u) == [x |-> IF u.x % 2 = 0 THEN u.x \div 2 ELSE -(u.x \div 2) - 1, n |-> u.n]
Varint(buf) == ZigZag(Uvarint(buf))

-----------------------------------------------------------------------------
(* hash/crc32 ChecksumIEEE.                                                *)

\* A 32-bit CRC is held as its 4 bytes, least significant first (the
\* order binary.LittleEndian writes it in).
\* byte xor, through a table of the xors of two 4-bit halves
XorNibble == [a \in 0..15, b \in 0..15 |-> a ^^ b]
XorByte(a, b) == XorNibble[a \div 16, b \div 16] * 16 + XorNibble[a % 16, b % 16]
\* the xor of two 4-byte words
XorBytes(a, b) == <<XorByte(a[1], b[1]), XorByte(a[2], b[2]),
                    XorByte(a[3], b[3]), XorByte(a[4], b[4])>>

\* c >> 1 and c >> 8 on a little-endian 4-byte word
Shr1(c) == <<(c[1] \div 2) + (c[2] % 2) * 128, (c[2] \div 2) + (c[3] % 2) * 128,
             (c[3] \div 2) + (c[4] % 2) * 128, c[4] \div 2>>
Shr8(c) == <<c[2], c[3], c[4], 0>>

\* the IEEE polynomial 0xEDB88320, reversed
IEEE == <<32, 131, 184, 237>>

\* crc32.IEEETable: eight shifts of each byte, with the polynomial xored
\* in when the low bit is set
CrcTable ==
  LET step(c) == IF c[1] % 2 = 1 THEN XorBytes(Shr1(c), IEEE) ELSE Shr1(c)
      RECURSIVE steps(_, _)
      steps(c, k) == IF k = 0 THEN c ELSE steps(step(c), k - 1)
  IN [i \in 0..255 |-> steps(<<i, 0, 0, 0>>, 8)]

\* crc32.update (simpleUpdate): crc = tab[byte(crc)^v] ^ (crc >> 8)
RECURSIVE CrcUpdate(_, _)
CrcUpdate(crc, bytes) ==
  IF bytes = <<>> THEN crc
  ELSE CrcUpdate(XorBytes(CrcTable[XorByte(crc[1], Head(bytes))], Shr8(crc)), Tail(bytes))

\* crc32.ChecksumIEEE: start from ^0, finish with ^
Ones == <<255, 255, 255, 255>>
Crc32(bytes) == XorBytes(CrcUpdate(Ones, bytes), Ones)

-----------------------------------------------------------------------------
(* data/log_record.go.  A record is [key, value, type], key and value byte *)
(* strings, type a byte (LogRecordNormal = 0, Deleted = 1, Finished = 2).  *)

\* EncodeLogRecord: crc | type | varint kLen | varint vLen | key | value,
\* the crc over everything after it
WithCrc(body) == Crc32(body) \o body
EncodeLogRecord(r) ==
  WithCrc(<<r.type>> \o PutVarint(Len(r.key)) \o PutVarint(Len(r.value))
          \o r.key \o r.value)

\* decodeLogRecordHeader: None-like [ok |-> FALSE] for 4 bytes or fewer;
\* a varint cut short by the end of buf reads as 0 and consumes nothing
HeaderWithValueSize(buf, k, i1, v) ==
  [ok |-> TRUE, crc |-> SubSeq(buf, 1, 4), type |-> buf[5],
   keySize |-> k.x, valueSize |-> v.x, size |-> i1 + v.n]
HeaderWithKeySize(buf, k, i1) ==
  HeaderWithValueSize(buf, k, i1, Varint(SubSeq(buf, i1 + 1, Len(buf))))
HeaderFrom(buf, k) == HeaderWithKeySize(buf, k, 5 + k.n)
DecodeLogRecordHeader(buf) ==
  IF Len(buf) <= 4 THEN [ok |-> FALSE]
  ELSE HeaderFrom(buf, Varint(SubSeq(buf, 6, Len(buf))))

\* File.readNBytes through FileIO.Read (ReadAt): n bytes at offset, or
\* io.EOF when the file ends first
ReadNBytes(f, n, offset) ==
  IF offset + n > Len(f) THEN [ok |-> FALSE]
  ELSE [ok |-> TRUE, b |-> SubSeq(f, offset + 1, offset + n)]

\* Mutant: the header is always read as maxLogRecordHeaderSize bytes.
HeaderBytesNoClamp(f, offset) == MaxLogRecordHeaderSize

\* how many header bytes ReadLogRecord reads: up to the end of the file
HeaderBytes(f, offset) ==
  IF offset + MaxLogRecordHeaderSize > Len(f) THEN Len(f) - offset
  ELSE MaxLogRecordHeaderSize

\* File.ReadLogRecord(offset) on a file holding the bytes f: the record and
\* its size, io.EOF, or the CRC error.  The io.EOF of a short read is
\* returned as it is, and the replay takes it as the end of the file.
\* the CRC check and the record, once the header h and the key and value
\* bytes kv are read
CheckRecord(hb, h, kv) ==
  IF Crc32(SubSeq(hb, 5, h.size) \o kv) # h.crc THEN [res |-> "CRC"]
  ELSE [res  |-> "OK",
        rec  |-> [key   |-> SubSeq(kv, 1, h.keySize),
                  value |-> SubSeq(kv, h.keySize + 1, Len(kv)),
                  type  |-> h.type],
        size |-> h.size + h.keySize + h.valueSize]

\* the key and value read kr that follows a decoded header h
ReadKeyValue(hb, h, kr) ==
  IF h.keySize = 0 /\ h.valueSize = 0 THEN CheckRecord(hb, h, <<>>)
  ELSE IF ~kr.ok THEN [res |-> "EOF"]
  ELSE CheckRecord(hb, h, kr.b)

\* the decoded header h of the header bytes hb read at offset
ReadAfterHeader(f, offset, hb, h) ==
  IF ~h.ok THEN [res |-> "EOF"]
  ELSE IF h.crc = <<0, 0, 0, 0>> /\ h.keySize = 0 /\ h.valueSize = 0
       THEN [res |-> "EOF"]
  ELSE ReadKeyValue(hb, h, ReadNBytes(f, h.keySize + h.valueSize, offset + h.size))

\* the header read hr at offset
ReadFromHeader(f, offset, hr) ==
  IF ~hr.ok THEN [res |-> "EOF"]
  ELSE ReadAfterHeader(f, offset, hr.b, DecodeLogRecordHeader(hr.b))

ReadLogRecord(f, offset) ==
  ReadFromHeader(f, offset, ReadNBytes(f, HeaderBytes(f, offset), offset))

-----------------------------------------------------------------------------
(* batch.go: the sequence number prefixed to every key written.           *)

EncodeKeyWithSeqNo(key, seq) == PutUvarint(seq) \o key

KeyAfterSeqNo(k, u) == [key |-> SubSeq(k, u.n + 1, Len(k)), seq |-> u.x]
DecodeKeyWithSeqNo(k) == KeyAfterSeqNo(k, Uvarint(k))
====
