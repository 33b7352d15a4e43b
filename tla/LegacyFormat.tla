---------------------------- MODULE LegacyFormat ----------------------------
(***************************************************************************)
(* The records of versions 1 to 3: readLegacyRecordFrom (log.go), which    *)
(* reads them for a migration, and encodeV3Record (downgrade.go), which    *)
(* writes them again.  These records have neither a length nor a checksum, *)
(* and named fields where later versions have attributes; two of the       *)
(* fields are numbers and one is a bit, which become texts and back.       *)
(***************************************************************************)
EXTENDS RecordFormat

CONSTANT maxField,   \* the longest text a 16-bit length can frame
         maxInt      \* the largest 64-bit number

ASSUME LegacyAssumption == maxField \in Nat /\ maxInt \in Nat

-----------------------------------------------------------------------------
(* Texts: cells that are digits, signs or whole words.                     *)

Plus  == Num(20)
Minus == Num(21)
Word  == Num(22)   \* any other word
True  == Num(23)   \* the word true, and
False == Num(24)   \* the word false, as FormatBool spells them

IsDigit(cell) == Number(cell) \in 0..9

(* The number that a sequence of digits writes. *)
DigitsValue(text) == FoldLeft(LAMBDA n, cell : 10 * n + Number(cell), 0, text)

(* strconv.ParseInt *)
ParseInt(text) ==
  LET signed == text # <<>> /\ text[1] \in {Plus, Minus}
      digits == IF signed THEN Tail(text) ELSE text
      n      == DigitsValue(digits)
  IN  IF \/ digits = <<>> \/ \E i \in DOMAIN digits : ~IsDigit(digits[i])
         \/ n > maxInt + (IF text[1] = Minus THEN 1 ELSE 0)
        THEN Bad
        ELSE Ok(IF signed /\ text[1] = Minus THEN -n ELSE n)

RECURSIVE Digits(_)
Digits(n) == IF n < 10 THEN <<Num(n)>> ELSE Append(Digits(n \div 10), Num(n % 10))

(* strconv.FormatInt *)
FormatInt(n) == IF n < 0 THEN <<Minus>> \o Digits(-n) ELSE Digits(n)

(* strconv.ParseBool, of the texts that can be written here *)
ParseBool(text) ==
  CASE text \in {<<Num(1)>>, <<True>>}  -> Ok(TRUE)
    [] text \in {<<Num(0)>>, <<False>>} -> Ok(FALSE)
    [] OTHER                            -> Bad

FormatBool(b) == IF b THEN <<True>> ELSE <<False>>

-----------------------------------------------------------------------------
(* The attributes that stand for the named fields.                         *)

Category  == <<Num(31)>>
Provider  == <<Num(32)>>
Status    == <<Num(33)>>
Name      == <<Num(34)>>
TotalSize == <<Num(35)>>
Protocol  == <<Num(36)>>
IsBad     == <<Num(37)>>
AddedOn   == <<Num(38)>>

v3StringFields == {Category, Provider, Status, Name, Protocol}

v3Fields == v3StringFields \cup {TotalSize, IsBad, AddedOn}

(* A Go map read: the empty text for a name it does not have. *)
Attribute(attributes, name) ==
  IF name \in DOMAIN attributes THEN attributes[name] ELSE <<>>

v3Number(attributes, name) ==
  IF Attribute(attributes, name) = <<>> THEN Ok(0) ELSE ParseInt(Attribute(attributes, name))

v3Flag(attributes) ==
  IF Attribute(attributes, IsBad) = <<>> THEN Ok(FALSE)
                                         ELSE ParseBool(Attribute(attributes, IsBad))

(* What encodeV3Record returns an error for otherwise. *)
Expressible(r) ==
  /\ r.extensions = <<>> /\ DOMAIN r.attributes \subseteq v3Fields
  /\ \A name \in v3StringFields : Len(Attribute(r.attributes, name)) <= maxField
  /\ v3Number(r.attributes, TotalSize).status = "ok"
  /\ v3Number(r.attributes, AddedOn).status = "ok"
  /\ v3Flag(r.attributes).status = "ok"

(* Mutant: the flag takes the bit of the tombstone. *)
BadBit_Tombstone == 1

(* The bit of the flags that stands for the attribute bad. *)
BadBit == 2

Framed(text) == <<Num(Len(text))>> \o text

encodeV3Record(r) ==
  LET Field(name)   == Framed(Attribute(r.attributes, name))
      Integer(name) == <<Num(v3Number(r.attributes, name).result)>>
  IN  IF ~Expressible(r) THEN Bad
      ELSE Ok(Framed(r.key) \o Framed(r.value)
              \o <<Num(IF v3Flag(r.attributes).result THEN BadBit ELSE 0)>>
              \o Field(Category) \o Field(Provider) \o Field(Status) \o Field(Name)
              \o Integer(TotalSize) \o Field(Protocol) \o Integer(AddedOn))

-----------------------------------------------------------------------------
(* The fields of a record, in the order they are read. *)
LegacyFields(version) ==
  <<"key", "value", "number", "text", "text", "text", "text", "number">>
    \o IF version >= 3 THEN <<"text", "number">> ELSE <<>>


(* The longest text a field may have; a 16-bit length has no other limit. *)
Limit(kind) == CASE kind = "key"   -> maxKeySize
                 [] kind = "value" -> maxValueSize
                 [] OTHER          -> maxField

(* The values of the fields, and the position after them. *)
RECURSIVE TakeFields(_, _, _, _)
TakeFields(s, p, kinds, taken) ==
  IF kinds = <<>> THEN Ok([fields |-> taken, next |-> p])
  ELSE IF Left(s, p) < 1 THEN Eof
  ELSE IF Head(kinds) = "number"
    THEN TakeFields(s, p + 1, Tail(kinds), Append(taken, Number(s[p])))
  ELSE IF Number(s[p]) > Limit(Head(kinds)) THEN Bad
  ELSE IF Left(s, p + 1) < Number(s[p]) THEN Eof
  ELSE TakeFields(s, p + 1 + Number(s[p]), Tail(kinds),
                  Append(taken, Slice(s, p + 1, Number(s[p]))))

(* The record of s at p, with its fields turned into attributes. *)
readLegacyRecordFrom(s, p, version) ==
  LET read == TakeFields(s, p, LegacyFields(version), <<>>)
      f    == read.result.fields
      v1   == Category :> f[4] @@ Provider :> f[5] @@ Status :> f[6] @@ Name :> f[7]
                @@ TotalSize :> FormatInt(f[8])
      v3   == Protocol :> f[9] @@ IsBad :> FormatBool((f[3] \div 2) % 2 = 1)
                @@ AddedOn :> FormatInt(f[10])
  IN  IF read.status # "ok" THEN read
      ELSE Ok([key |-> f[1], value |-> f[2], extensions |-> <<>>,
               deleted    |-> f[3] % 2 = 1,
               attributes |-> IF version >= 3 THEN v1 @@ v3 ELSE v1])
=============================================================================
