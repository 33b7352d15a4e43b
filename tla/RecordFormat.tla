---------------------------- MODULE RecordFormat ----------------------------
(***************************************************************************)
(* The bytes of a version 4 or 5 record (log.go): how Append lays a record *)
(* out, how the scan and the point reads take it apart again.              *)
(*                                                                         *)
(* A file is a sequence of cells.  A fixed-width integer is one cell, and  *)
(* so is a byte of a key, an attribute, a value or an extension; sizes and *)
(* offsets count cells, the first of which is at 1.  The checksum is ideal:*)
(* it is the sequence of cells it covers.                                  *)
(***************************************************************************)
EXTENDS Integers, Sequences, SequencesExt, FiniteSets, TLC

CONSTANTS maxKeySize, maxValueSize, maxAttributesSize, maxAttributeCount,
          maxExtensionsSize

ASSUME LimitsAssumption ==
  {maxKeySize, maxValueSize, maxAttributesSize, maxAttributeCount, maxExtensionsSize}
    \subseteq Nat

-----------------------------------------------------------------------------
(* Cells.                                                                  *)

Num(n) == <<"num", n>>

Checksum(s) == <<"crc32c", s>>

(* A checksum read as a length is a number no field may have. *)
Unlikely == 1000

Number(cell) == IF cell[1] = "num" THEN cell[2] ELSE Unlikely

(* n cells of s from position p on. *)
Slice(s, p, n) == SubSeq(s, p, p + n - 1)

(* What is left of s at position p. *)
Left(s, p) == Len(s) + 1 - p

(* strings.Compare on names: the order of sort.Strings. *)
Before(a, b) ==
  \/ IsStrictPrefix(a, b)
  \/ \E i \in DOMAIN a \cap DOMAIN b :
       /\ Number(a[i]) < Number(b[i])
       /\ Slice(a, 1, i - 1) = Slice(b, 1, i - 1)

recordMinimumLength == 5   \* flags, three lengths, checksum
recordFieldsOffset  == 6   \* the cell of the key, in a record that starts at 1
extensionHeaderSize == 2   \* tag, length

-----------------------------------------------------------------------------
(* Attributes: a count, and for each name in order its length, the length  *)
(* of its value, the name and the value.                                   *)

NoAttributes == [name \in {} |-> <<>>]

(* Mutant: the two lengths change places. *)
AttributeEntry_Swapped(name, value) ==
  <<Num(Len(value)), Num(Len(name))>> \o name \o value

AttributeEntry(name, value) == <<Num(Len(name)), Num(Len(value))>> \o name \o value

encodeAttributes(attributes) ==
  LET names   == SetToSortSeq(DOMAIN attributes, Before)
      entries == [i \in DOMAIN names |-> AttributeEntry(names[i], attributes[names[i]])]
  IN  <<Num(Len(names))>> \o FlattenSeq(entries)

(* What encodeAttributes refuses otherwise. *)
AttributesFit(attributes) ==
  /\ Cardinality(DOMAIN attributes) <= maxAttributeCount
  /\ <<>> \notin DOMAIN attributes
  /\ Len(encodeAttributes(attributes)) <= maxAttributesSize

(* The outcomes of a decoder: a result, an error that is or wraps          *)
(* io.ErrUnexpectedEOF, or another error.                                  *)
Ok(result) == [status |-> "ok", result |-> result]
Eof == [status |-> "eof"]
Bad == [status |-> "bad"]

(* Mutant: bytes after the last entry are accepted. *)
AtEnd_Lax(buf, pos) == TRUE

(* The block ends with its last entry. *)
AtEnd(buf, pos) == Left(buf, pos) = 0

(* The loop of decodeAttributes, with `count` entries to go. *)
RECURSIVE DecodeEntries(_, _, _, _)
DecodeEntries(buf, pos, count, attributes) ==
  IF count = 0 THEN IF AtEnd(buf, pos) THEN Ok(attributes) ELSE Bad
  ELSE IF Left(buf, pos) < 2 THEN Eof
  ELSE LET keyLen   == Number(buf[pos])
           valueLen == Number(buf[pos + 1])
           key      == Slice(buf, pos + 2, keyLen)
           valuePos == pos + 2 + keyLen
       IN  IF keyLen = 0 \/ keyLen > Left(buf, pos + 2) THEN Bad
           ELSE IF valueLen > Left(buf, valuePos) THEN Eof
           ELSE IF key \in DOMAIN attributes THEN Bad
           ELSE DecodeEntries(buf, valuePos + valueLen, count - 1,
                              attributes @@ (key :> Slice(buf, valuePos, valueLen)))

decodeAttributes(buf) ==
  IF Len(buf) < 1 \/ Number(buf[1]) > maxAttributeCount THEN Bad
  ELSE DecodeEntries(buf, 2, Number(buf[1]), NoAttributes)

-----------------------------------------------------------------------------
(* Extensions: entries of a tag, a length and a payload.                   *)

(* Mutant: the length counts the entry's own header. *)
RECURSIVE ValidFrom_WithHeader(_, _)
ValidFrom_WithHeader(extensions, pos) ==
  \/ Left(extensions, pos) = 0
  \/ /\ Left(extensions, pos) >= extensionHeaderSize
     /\ LET length == Number(extensions[pos + 1])
        IN  /\ length >= extensionHeaderSize /\ length <= Left(extensions, pos)
            /\ ValidFrom_WithHeader(extensions, pos + length)

RECURSIVE ValidFrom(_, _)
ValidFrom(extensions, pos) ==
  \/ Left(extensions, pos) = 0
  \/ /\ Left(extensions, pos) >= extensionHeaderSize
     /\ LET length == Number(extensions[pos + 1])
            next   == pos + extensionHeaderSize
        IN  length <= Left(extensions, next) /\ ValidFrom(extensions, next + length)

validateExtensions(extensions) == ValidFrom(extensions, 1)

-----------------------------------------------------------------------------
(* Records.                                                                *)

(* What Append refuses otherwise, before it writes anything. *)
Fits(r) ==
  /\ Len(r.key) <= maxKeySize /\ Len(r.value) <= maxValueSize
  /\ Len(r.extensions) <= maxExtensionsSize /\ validateExtensions(r.extensions)
  /\ AttributesFit(r.attributes)

(* Mutant: the checksum leaves the flags out. *)
Covered_NoFlags(body) == Tail(body)

(* The checksum covers the flags and all that follows. *)
Covered(body) == body

(* The buffer that Append fills. *)
Encode(r) ==
  LET attributes == encodeAttributes(r.attributes)
      body == <<Num(IF r.deleted THEN 1 ELSE 0), Num(Len(r.key)), Num(Len(attributes)),
                Num(Len(r.value))>> \o r.key \o attributes \o r.value \o r.extensions
  IN  <<Num(Len(body) + 1)>> \o body \o <<Checksum(Covered(body))>>

(* The lengths in the record at position p, and where its areas start. *)
Layout(s, p) ==
  LET key == Number(s[p + 2]) attributes == Number(s[p + 3]) value == Number(s[p + 4])
      start == p + recordFieldsOffset - 1
  IN  [keyLen |-> key, attributesLen |-> attributes, valueLen |-> value,
       known           |-> recordMinimumLength + key + attributes + value,
       attributesStart |-> start + key,
       valueStart      |-> start + key + attributes,
       extensionsStart |-> start + key + attributes + value]

(* Mutant: the record has to end before the file does. *)
Plausible_InFile(s, p) ==
  LET l == Layout(s, p)
  IN  /\ l.keyLen <= maxKeySize /\ l.attributesLen <= maxAttributesSize
      /\ l.valueLen <= maxValueSize
      /\ l.known <= Number(s[p]) /\ Number(s[p]) - l.known <= maxExtensionsSize
      /\ Number(s[p]) < Left(s, p)

(* The lengths are within the limits and within the record. *)
Plausible(s, p) ==
  LET l == Layout(s, p)
  IN  /\ l.keyLen <= maxKeySize /\ l.attributesLen <= maxAttributesSize
      /\ l.valueLen <= maxValueSize
      /\ l.known <= Number(s[p]) /\ Number(s[p]) - l.known <= maxExtensionsSize

ChecksumMatches(s, p) ==
  s[p + Number(s[p])] = Checksum(Covered(Slice(s, p + 1, Number(s[p]) - 1)))

(* The record of s at p, its lengths and its checksum being right. *)
Parsed(s, p) ==
  LET l == Layout(s, p)
      extensions == Slice(s, l.extensionsStart, Number(s[p]) - l.known)
      decoded    == decodeAttributes(Slice(s, l.attributesStart, l.attributesLen))
  IN  IF ~validateExtensions(extensions) THEN Bad
      ELSE IF decoded.status # "ok" THEN decoded
      ELSE Ok([key |-> Slice(s, p + recordFieldsOffset - 1, l.keyLen),
               attributes |-> decoded.result,
               value |-> Slice(s, l.valueStart, l.valueLen), extensions |-> extensions,
               deleted |-> Number(s[p + 1]) % 2 = 1])

(* The reader stops at the first field that is missing or wrong. *)
readRecordFrom(s, p) ==
  IF Number(s[p]) < recordMinimumLength THEN Bad
  ELSE IF Left(s, p) < recordFieldsOffset - 1 THEN Eof
  ELSE IF ~Plausible(s, p) THEN Bad
  ELSE IF Left(s, p) < Number(s[p]) + 1 THEN Eof
  ELSE IF ~ChecksumMatches(s, p) THEN Bad
  ELSE Parsed(s, p)

(* A point read: the cells of one record, of the size the index has. *)
validateStoredRecord(s) ==
  LET l == Layout(s, 1)
  IN  IF \/ Len(s) < 1 + recordMinimumLength
         \/ Number(s[1]) + 1 # Len(s) \/ ~ChecksumMatches(s, 1) \/ l.known > Number(s[1])
        THEN Bad
        ELSE Ok([value      |-> Slice(s, l.valueStart, l.valueLen),
                 extensions |-> Slice(s, l.extensionsStart, Number(s[1]) - l.known)])
=============================================================================
