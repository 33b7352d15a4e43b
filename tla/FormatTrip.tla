----------------------------- MODULE FormatTrip -----------------------------
(***************************************************************************)
(* Records on their way to a file and back: a record is laid out by the    *)
(* current writer or by the version 3 writer, and then cut short, damaged  *)
(* in one cell or followed by others.  Beside them, arbitrary blocks of    *)
(* cells, as the fuzz test of the log feeds them to the decoders.          *)
(***************************************************************************)
EXTENDS LegacyFormat

CONSTANTS MaxBlock,   \* bound on the length of an arbitrary block
          MaxCell     \* bound on the numbers in one

ASSUME BlockAssumption == MaxBlock \in Nat /\ MaxCell \in Nat

VARIABLES
  given,   \* the record that was stored
  cells,   \* what the file holds of it
  fate     \* what happened to it

vars == <<given, cells, fate>>

-----------------------------------------------------------------------------
(* The records to store.                                                   *)

Cells(s) == [i \in DOMAIN s |-> Num(s[i])]

Entry(tag, payload) == <<Num(tag), Num(Len(payload))>> \o payload

Records ==
  [key        : {Cells(<<1>>), Cells(<<0, 2>>)},
   attributes : {NoAttributes, Cells(<<1>>) :> <<>>,
                 Cells(<<2, 1>>) :> Cells(<<0>>) @@ Cells(<<2>>) :> Cells(<<3, 3>>)},
   value      : {<<>>, Cells(<<0>>), Cells(<<6, 6>>), Cells(<<1, 1, 1, 1, 1>>)},
   extensions : {<<>>, Entry(9, Cells(<<1>>)), Entry(8, <<>>) \o Entry(9, Cells(<<2>>))},
   deleted    : BOOLEAN]

(* A map with the texts that are not Missing. *)
Missing == <<Num(99)>>

Present(m) == [name \in {n \in DOMAIN m : m[n] # Missing} |-> m[name]]

Numerals == {Missing, <<>>, <<Num(0)>>, <<Num(1)>>, <<Num(0), Num(1)>>, <<Word>>,
             <<Minus, Num(1), Num(0)>>}

LegacyRecords ==
  {[key |-> Cells(<<1>>), value |-> v, extensions |-> e, deleted |-> FALSE,
    attributes |-> Present(Status :> s @@ TotalSize :> n @@ IsBad :> b @@ x :> t)] :
     v \in {<<>>, Cells(<<6, 6>>)}, e \in {<<>>, Entry(9, <<>>)},
     s \in {Missing, <<>>, <<Word>>, Cells(<<1, 1, 1>>)}, n \in Numerals,
     b \in {Missing, <<>>, <<True>>, <<False>>, <<Num(1)>>, <<Num(0)>>, <<Word>>},
     x \in {AddedOn, <<Word>>}, t \in {Missing, <<Num(1)>>}}

-----------------------------------------------------------------------------
Init ==
  /\ given \in Records \cup LegacyRecords
  /\ cells = <<>> /\ fate = "given"

(* Append *)
Store ==
  /\ fate = "given"
  /\ cells' = IF Fits(given) THEN Encode(given) ELSE <<>>
  /\ fate'  = IF Fits(given) THEN "stored" ELSE "refused"
  /\ UNCHANGED given

(* encodeV3Record *)
StoreV3 ==
  /\ fate = "given" /\ given \in LegacyRecords
  /\ LET encoded == encodeV3Record(given)
     IN  /\ cells' = IF encoded.status = "ok" THEN encoded.result ELSE <<>>
         /\ fate'  = IF encoded.status = "ok" THEN "stored v3" ELSE "refused v3"
  /\ UNCHANGED given

(* Only a part of the record is in the file. *)
Tear(n) ==
  /\ fate \in {"stored", "stored v3"} /\ n < Len(cells)
  /\ cells' = Slice(cells, 1, n)
  /\ fate'  = IF fate = "stored" THEN "torn" ELSE "torn v3"
  /\ UNCHANGED given

(* One cell, but not the length, has changed. *)
Damage(i, c) ==
  /\ fate = "stored" /\ given \in Records /\ i \in 2..Len(cells) /\ cells[i] # c
  /\ cells' = [cells EXCEPT ![i] = c] /\ fate' = "damaged" /\ UNCHANGED given

(* The length, which the checksum does not cover, has changed. *)
Misjudge(n) ==
  /\ fate \in {"stored", "followed"} /\ given \in Records /\ Number(cells[1]) # n
  /\ cells' = [cells EXCEPT ![1] = Num(n)] /\ fate' = "misjudged" /\ UNCHANGED given

(* The record is not the last one in the file. *)
Follow(tail) ==
  /\ fate \in {"stored", "stored v3"}
  /\ cells' = cells \o tail
  /\ fate'  = IF fate = "stored" THEN "followed" ELSE "followed v3"
  /\ UNCHANGED given

(* Any block of cells, one cell after the other. *)
Grow(n) ==
  /\ \/ fate = "given" /\ given = CHOOSE r \in Records : TRUE
     \/ fate = "block" /\ Len(cells) < MaxBlock
  /\ cells' = Append(cells, Num(n)) /\ fate' = "block" /\ UNCHANGED given

Done ==
  /\ \/ fate \in {"torn", "torn v3", "damaged", "misjudged", "followed", "followed v3",
                 "refused", "refused v3"}
     \/ fate = "block" /\ Len(cells) = MaxBlock
  /\ UNCHANGED vars

Next ==
  \/ Store \/ StoreV3 \/ Done
  \/ \E n \in 1..Len(cells) : Tear(n)
  \/ \E i \in DOMAIN cells : \E n \in 0..MaxCell : Damage(i, Num(n))
  \/ \E n \in 0..Len(cells) + 1 : Misjudge(n)
  \/ \E tail \in {<<Num(0)>>, <<Num(6), Num(1)>>} : Follow(tail)
  \/ \E n \in 0..MaxCell : Grow(n)

Spec == Init /\ [][Next]_vars

-----------------------------------------------------------------------------
(* A record in a file reads back as what was stored, whatever follows it:  *)
(* key, attributes, value, extensions and the tombstone by the recovery    *)
(* scan, and the value and extensions by a point read of the stored size.  *)
ReadsBack ==
  fate \in {"stored", "followed"} =>
    /\ readRecordFrom(cells, 1) = Ok(given)
    /\ validateStoredRecord(Slice(cells, 1, Len(Encode(given))))
         = Ok([value |-> given.value, extensions |-> given.extensions])

(* Every proper part of a record reads as an incomplete one, never as      *)
(* corruption and never as a record: this is what lets Iterate cut off the *)
(* record of an interrupted write (log.go: "makes incomplete-tail          *)
(* recovery unambiguous"), in all versions.                                *)
PartsAreIncomplete ==
  /\ fate = "torn" => readRecordFrom(cells, 1) = Eof
  /\ fate = "torn v3" => readLegacyRecordFrom(cells, 1, 3) = Eof

(* A change of one cell other than the length is corruption, to the scan   *)
(* and to a point read: it is neither served nor taken for an incomplete   *)
(* record, which Iterate would cut off together with what follows.  A      *)
(* changed length may look like an incomplete record to the scan, but it   *)
(* is served neither by the scan nor by a point read of the stored size.   *)
DamageIsCorruption ==
  /\ fate = "damaged" =>
       readRecordFrom(cells, 1) = Bad /\ validateStoredRecord(cells) = Bad
  /\ fate = "misjudged" =>
       /\ readRecordFrom(cells, 1) \in {Bad, Eof}
       /\ validateStoredRecord(Slice(cells, 1, Len(Encode(given)))) = Bad

(* The pieces between the cuts of a block. *)
Pieces(block, cuts) ==
  LET Adjacent(pair) == /\ pair[1] < pair[2]
                        /\ \A c \in cuts : c <= pair[1] \/ c >= pair[2]
  IN  {SubSeq(block, pair[1], pair[2] - 1) : pair \in {q \in cuts \X cuts : Adjacent(q)}}

(* The ways to cut a block, from position p on. *)
Cuttings(block, p) ==
  {cuts \in SUBSET (p..Len(block) + 1) : {p, Len(block) + 1} \subseteq cuts}

IsAttributeEntry(e) ==
  /\ Len(e) >= 2 /\ Number(e[1]) > 0
  /\ Len(e) = 2 + Number(e[1]) + Number(e[2])

IsExtensionEntry(e) == Len(e) >= 2 /\ Len(e) = 2 + Number(e[2])

(* decodeAttributes accepts exactly the blocks that are a count and that   *)
(* many well-formed entries with different names, in any order, and gives  *)
(* each name the value it has there.                                       *)
DecodesExactly ==
  fate = "block" /\ Number(cells[1]) <= maxAttributeCount =>
    LET good == {cuts \in Cuttings(cells, 2) :
                   /\ Cardinality(cuts) = Number(cells[1]) + 1
                   /\ \A e \in Pieces(cells, cuts) : IsAttributeEntry(e)
                   /\ Cardinality({Slice(e, 3, Number(e[1])) : e \in Pieces(cells, cuts)})
                        = Number(cells[1])}
        m == decodeAttributes(cells)
    IN  /\ (m.status = "ok") <=> (good # {})
        /\ \A cuts \in good : \A e \in Pieces(cells, cuts) :
             m.result[Slice(e, 3, Number(e[1]))] = Slice(e, 3 + Number(e[1]), Number(e[2]))

(* validateExtensions accepts exactly the blocks that can be cut into      *)
(* entries of a tag, a length and as many cells.                           *)
ExtensionsExactly ==
  fate = "block" =>
    (validateExtensions(cells) <=>
       \E cuts \in Cuttings(cells, 1) : \A e \in Pieces(cells, cuts) : IsExtensionEntry(e))

(* What a value of the named fields is after a trip through version 3: a   *)
(* text as it was, a number in its shortest spelling, a flag in words, and *)
(* for what was absent the empty text, zero and false.                     *)
Respelt(attributes, name) ==
  LET text == Attribute(attributes, name)
  IN  CASE name \in v3StringFields -> text
        [] name = IsBad -> IF text \in {<<True>>, <<Num(1)>>} THEN <<True>> ELSE <<False>>
        [] OTHER -> IF text = <<>> THEN <<Num(0)>>
                    ELSE FormatInt(ParseInt(text).result)

(* A record that version 3 can express comes back from the version 3 log   *)
(* with its key and value, and with all eight attributes, respelt; and a   *)
(* second downgrade writes the same bytes again.                           *)
V3ReadsBack ==
  fate \in {"stored v3", "followed v3"} =>
    LET back == readLegacyRecordFrom(cells, 1, 3)
    IN  /\ back = Ok([given EXCEPT !.attributes =
                        [name \in v3Fields |-> Respelt(given.attributes, name)]])
        /\ encodeV3Record(back.result) =
             Ok(Slice(cells, 1, TakeFields(cells, 1, LegacyFields(3), <<>>).result.next - 1))

(* README.md: "a value that was absent comes back as an empty field when   *)
(* the log is read again", and a record with data that version 3 cannot    *)
(* express is refused: what is present comes back as it was.               *)
V3KeepsText ==
  fate = "stored v3" =>
    \A name \in v3Fields :
      Attribute(readLegacyRecordFrom(cells, 1, 3).result.attributes, name)
        = Attribute(given.attributes, name)
=============================================================================
