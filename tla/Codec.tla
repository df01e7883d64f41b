-------------------------------- MODULE Codec ---------------------------------
(***************************************************************************)
(* Kafka's record batches (flowforge/kafka.py): what the producer encodes  *)
(* and the consumer decodes, over sequences of byte values.  A field of    *)
(* fixed width is one element, so a header has 13 instead of 61; the       *)
(* checksum CRC32C is the sequence it is computed from.                    *)
(***************************************************************************)
EXTENDS Integers, Sequences, SequencesExt

HeaderLen == 13

\* Zigzag, then base 128 with the lowest digits first.
RECURSIVE Base128(_)
Base128(u) == IF u < 128 THEN <<u>> ELSE <<128 + (u % 128)>> \o Base128(u \div 128)
EncodeVarint(v) == Base128(IF v < 0 THEN -2 * v - 1 ELSE 2 * v)

\* The unsigned value that starts at an offset, and the offset after it.
RECURSIVE Digits(_, _)
Digits(data, at) ==
    IF data[at] < 128 THEN [value |-> data[at], next |-> at + 1]
    ELSE LET rest == Digits(data, at + 1)
         IN  [rest EXCEPT !.value = data[at] - 128 + 128 * @]

\* (mutant) the sign is not undone
DecodeUnsigned(data, at) == LET u == Digits(data, at) IN [u EXCEPT !.value = @ \div 2]
DecodeVarint(data, at) ==
    LET u == Digits(data, at)
    IN  [u EXCEPT !.value = IF @ % 2 = 0 THEN @ \div 2 ELSE -(@ \div 2) - 1]

\* A record: a value, a timestamp (0 for none), headers <<name, value>> and a
\* key, which is <<>> where there is none.
Sized(bytes) == EncodeVarint(Len(bytes)) \o bytes

EncodeRecord(record, index, first) ==
    LET stamp == IF record.timestamp = 0 THEN first ELSE record.timestamp
        body == <<0>> \o EncodeVarint(stamp - first) \o EncodeVarint(index)
                \o (IF record.key = <<>> THEN EncodeVarint(-1) ELSE Sized(record.key[1]))
                \o Sized(record.value) \o EncodeVarint(Len(record.headers))
                \o FlattenSeq([i \in DOMAIN record.headers |->
                                  Sized(record.headers[i][1]) \o Sized(record.headers[i][2])])
    IN  EncodeVarint(Len(body)) \o body

\* The batch's time is the one given, or the first record's, or the clock's.
Clock == 150
FirstStamp(records, base) ==
    IF base # 0 THEN base ELSE IF records[1].timestamp # 0 THEN records[1].timestamp ELSE Clock

EncodeBatch(records, base) ==
    LET first == FirstStamp(records, base)
        Later(a, r) == IF r.timestamp > a THEN r.timestamp ELSE a
        covered == <<0, Len(records) - 1, first, FoldLeft(Later, first, records), -1, -1, -1, Len(records)>>
                   \o FlattenSeq([i \in DOMAIN records |-> EncodeRecord(records[i], i - 1, first)])
        body == <<-1, 2, covered>> \o covered
    IN  <<0, Len(body)>> \o body

\* What a broker does to a batch it appends: its first offset, which no checksum covers.
Stored(batch, offset) == [batch EXCEPT ![1] = offset]

-----------------------------------------------------------------------------
(* decode_record_batches; a reader is where it is and what it has read.    *)

Varint(r, field) == LET d == DecodeVarint(r.data, r.at) IN [r EXCEPT !.at = d.next, !.got = @ @@ (field :> d.value)]

\* A length and as many bytes, <<>> for a negative length.
Bytes(r, field) ==
    LET size == DecodeVarint(r.data, r.at)
        end == size.next + size.value
    IN  IF size.value < 0 THEN [r EXCEPT !.at = size.next, !.got = @ @@ (field :> <<>>)]
        ELSE [r EXCEPT !.at = end, !.got = @ @@ (field :> <<SubSeq(r.data, size.next, end - 1)>>)]

RECURSIVE Headers(_, _, _)
Headers(r, count, read) ==
    IF count = 0 THEN read
    ELSE LET pair == Bytes(Bytes([r EXCEPT !.got = <<>>], "name"), "value")
         IN  Headers(pair, count - 1, Append(read, <<pair.got.name[1], FlattenSeq(pair.got.value)>>))

\* After a record the cursor is where its length says.
DecodeRecord(batch, at) ==
    LET length == DecodeVarint(batch, at)
        start == [data |-> batch, at |-> length.next + 1, got |-> <<>>]
        r == Varint(Bytes(Bytes(Varint(Varint(start, "stamp"), "offset"), "key"), "value"), "count")
    IN  [next |-> length.next + length.value,
         record |-> [value |-> FlattenSeq(r.got.value), key |-> r.got.key,
                     headers |-> Headers(r, r.got.count, <<>>),
                     timestamp |-> batch[8] + r.got.stamp, offset |-> batch[1] + r.got.offset]]

RECURSIVE DecodeRecords(_, _, _)
DecodeRecords(batch, at, count) ==
    IF count = 0 THEN <<>>
    ELSE LET d == DecodeRecord(batch, at) IN <<d.record>> \o DecodeRecords(batch, d.next, count - 1)

\* The batches that are whole; one that was damaged raises, which is <<"raised">> here.
RECURSIVE DecodeBatches(_)
DecodeBatches(data) ==
    LET end == 2 + data[2]
        batch == SubSeq(data, 1, end)
    IN  IF Len(data) < HeaderLen \/ end > Len(data) THEN <<>>
        ELSE IF batch[4] # 2 \/ batch[5] # SubSeq(batch, 6, end) THEN <<"raised">>
        ELSE DecodeRecords(batch, HeaderLen + 1, batch[13]) \o DecodeBatches(SubSeq(data, end + 1, Len(data)))
=============================================================================
