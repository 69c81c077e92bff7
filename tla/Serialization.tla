--------------------------- MODULE Serialization ---------------------------
(***************************************************************************)
(* src/src/storage/serialization.cpp: rows as bytes.  A row is its number  *)
(* of values and the values; a value is a tag and its payload, where a     *)
(* string has its length in front.  Bytes are digits to the base Base and  *)
(* the fixed widths of the code (4 and 8 bytes) are constants.             *)
(***************************************************************************)
EXTENDS Integers, Sequences, SequencesExt

CONSTANTS Base,       \* values of a byte: 256 in the code
          SizeWidth,  \* bytes of a count or a length: 4
          WordWidth   \* bytes of an INT or a DOUBLE: 8

ASSUME FormatAssumption == /\ Base \in Nat /\ Base > 3    \* a byte holds any tag
                           /\ SizeWidth \in Nat \ {0}
                           /\ WordWidth \in Nat \ {0}

\* Values: null, the integers and doubles of a word, strings of bytes.  A
\* double is the word that holds it.
NullValue == [type |-> "null"]
IntValue(n) == [type |-> "int", n |-> n]
DoubleValue(bits) == [type |-> "double", bits |-> bits]
TextValue(chars) == [type |-> "varchar", chars |-> chars]

Tag == [null |-> 0, int |-> 1, double |-> 2, varchar |-> 3]

Byte == 0 .. Base - 1

\* The powers of Base.
Power[i \in Nat] == IF i = 0 THEN 1 ELSE Base * Power[i - 1]

\* Little endian digits of n, modulo what the width holds, and back.
Digits(n, width) == [i \in 1 .. width |-> (n \div Power[i - 1]) % Base]
Number(digits) ==
    LET upTo[i \in 0 .. Len(digits)] ==
            IF i = 0 THEN 0 ELSE upTo[i - 1] + digits[i] * Power[i - 1]
    IN  upTo[Len(digits)]

\* A word read as a two's complement integer.
Signed(word) == IF 2 * word < Power[WordWidth] THEN word ELSE word - Power[WordWidth]

\* append_value
ValueBytes(value) ==
    <<Tag[value.type]>> \o
    CASE value.type = "null"    -> <<>>
      [] value.type = "int"     -> Digits(value.n, WordWidth)
      [] value.type = "double"  -> Digits(value.bits, WordWidth)
      [] value.type = "varchar" -> Digits(Len(value.chars), SizeWidth) \o value.chars

\* serialize_row
RowBytes(row) ==
    Digits(Len(row), SizeWidth) \o FlattenSeq([i \in DOMAIN row |-> ValueBytes(row[i])])

\* Rows are sequences of values, and their lengths and those of their strings
\* fit their counts.
Word == 0 .. Power[WordWidth] - 1
Value == [type : {"null"}]
         \cup [type : {"int"}, n : {Signed(word) : word \in Word}]
         \cup [type : {"double"}, bits : Word]
         \cup [type : {"varchar"}, chars : Seq(Byte)]
Serializable(row) ==
    /\ row \in Seq(Value)
    /\ Len(row) < Power[SizeWidth]
    /\ \A i \in DOMAIN row : row[i].type = "varchar" => Len(row[i].chars) < Power[SizeWidth]
----------------------------------------------------------------------------
\* A Reader: the bytes, how many of them are read, what came out, and why it
\* stopped.
Reader(bytes) == [bytes |-> bytes, at |-> 0, values |-> <<>>, error |-> "none"]

Remaining(reader) == Len(reader.bytes) - reader.at
Ahead(reader, from, n) == SubSeq(reader.bytes, reader.at + from, reader.at + from + n - 1)

Failed(reader, error) == [reader EXCEPT !.error = error]

\* The next n bytes, which must be there, are the value.
Take(reader, n, value) ==
    IF Remaining(reader) < n THEN Failed(reader, "unexpected end")
    ELSE [reader EXCEPT !.at = @ + n, !.values = Append(@, value)]

\* read_value: the next tag, and what it says must follow.
ReadText(reader) ==
    IF Remaining(reader) < 1 + SizeWidth THEN Failed(reader, "unexpected end")
    ELSE LET length == Number(Ahead(reader, 2, SizeWidth))
         IN  Take(reader, 1 + SizeWidth + length,
                  TextValue(Ahead(reader, 2 + SizeWidth, length)))

ReadValue(reader) ==
    IF reader.error # "none" THEN reader
    ELSE IF Remaining(reader) = 0 THEN Failed(reader, "unexpected end")
    ELSE LET tag  == reader.bytes[reader.at + 1]
             word == Number(Ahead(reader, 2, WordWidth))
         IN  CASE tag = Tag.null    -> Take(reader, 1, NullValue)
               [] tag = Tag.int     -> Take(reader, 1 + WordWidth, IntValue(Signed(word)))
               [] tag = Tag.double  -> Take(reader, 1 + WordWidth, DoubleValue(word))
               [] tag = Tag.varchar -> ReadText(reader)
               [] OTHER             -> Failed(reader, "invalid tag")

\* Fault: bytes behind the last value are not looked at.
EndedAnywhere(reader) == reader

Ended(reader) ==
    IF reader.error = "none" /\ Remaining(reader) # 0 THEN Failed(reader, "trailing data")
    ELSE reader

\* deserialize_row: the reader at its end, with the row or an error.
Deserialized(bytes) ==
    LET start == Reader(bytes)
        count == Number(Ahead(start, 1, SizeWidth))
        after[i \in 0 .. count] == IF i = 0 THEN [start EXCEPT !.at = SizeWidth]
                                   ELSE ReadValue(after[i - 1])
    IN  IF Remaining(start) < SizeWidth \/ count > Remaining(start) - SizeWidth
        THEN Failed(start, "unexpected end")
        ELSE Ended(after[count])

IsRow(bytes, row) == \E reader \in {Deserialized(bytes)} :
                        reader.error = "none" /\ reader.values = row
=============================================================================
