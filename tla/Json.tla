-------------------------------- MODULE Json --------------------------------
(***************************************************************************)
(* JsonObject of src/src/common/common_json.cpp: read_from_string, the     *)
(* recursive descent behind it, and write_to_string, as operators over    *)
(* sequences of characters (the characters of StringUtils and the         *)
(* structural ones below).  A parse step returns [ok, val, pos] where     *)
(* pos is startPos after the call; a failure is [ok |-> FALSE].            *)
(*                                                                         *)
(* A JsonObject is [isArray |-> m_is_array, members |-> m_members], the   *)
(* members a function from key strings to values; std::map iterates them *)
(* in byte order of the keys, which KeyLess gives.  The keywords true,    *)
(* false and null are single characters "true", "false", "null" (the     *)
(* case-folding compare of read_bool and read_null is on the whole word). *)
(***************************************************************************)
EXTENDS Integers, StringUtils

Digits == <<"0", "1", "2", "3", "4", "5", "6", "7", "8", "9">>
DigitChars == Range(Digits)

(* The characters read_whitespace skips. *)
Whitespace == {"SP", "tab", "cr", "nl"}

(* Byte values, for std::map's order of keys. *)
CharCode ==
  ("nl" :> 10) @@ ("cr" :> 13) @@ ("SP" :> 32) @@ ("QT" :> 34) @@ ("CM" :> 44) @@
  ("SL" :> 47) @@ ("CO" :> 58) @@ ("BS" :> 92) @@ ("a" :> 97) @@ ("b" :> 98) @@ ("n" :> 110)

Code(c) == IF c \in DigitChars THEN 47 + (CHOOSE i \in 1 .. 10 : Digits[i] = c) ELSE CharCode[c]

RECURSIVE KeyLess(_, _)
KeyLess(s, t) ==
  /\ t # <<>>
  /\ \/ s = <<>>
     \/ Code(Head(s)) < Code(Head(t))
     \/ Head(s) = Head(t) /\ KeyLess(Tail(s), Tail(t))

(* The keys in the order a std::map iterates them: each key at its rank. *)
SortedKeys(K) ==
  LET rank(k) == Cardinality({j \in K : KeyLess(j, k)}) IN
  [i \in 1 .. Cardinality(K) |-> CHOOSE k \in K : rank(k) = i - 1]

(* common_to_string / ostream << of an integer. *)
RECURSIVE Unsigned(_)
Unsigned(n) == IF n < 10 THEN <<Digits[n + 1]>> ELSE Unsigned(n \div 10) \o <<Digits[(n % 10) + 1]>>

Decimal(n) == IF n < 0 THEN <<"MI">> \o Unsigned(-n) ELSE Unsigned(n)

(* atol of a run of decimal digits. *)
atol(s) == FoldLeft(LAMBDA n, c : 10 * n + (CHOOSE d \in 0 .. 9 : Digits[d + 1] = c), 0, s)

Fail == [ok |-> FALSE]
Undefined == [type |-> "T_UNDEFINED"]
Obj(isArray, members) == [type |-> "T_OBJ", obj |-> [isArray |-> isArray, members |-> members]]

(* str[startPos]: the character, or '\0' at size(). *)
CharAt(str, pos) == IF pos < Len(str) THEN str[pos + 1] ELSE "NUL"

-----------------------------------------------------------------------------
RECURSIVE read_whitespace(_, _)
read_whitespace(str, pos) ==
  IF pos < Len(str) /\ str[pos + 1] \in Whitespace THEN read_whitespace(str, pos + 1) ELSE pos

(* Fault-injection variant: the delimiter taken without skipping the    *)
(* blanks before it.                                                      *)
ReadDelimiterAtOnce(str, pos) ==
  IF Len(str) - pos < 1 THEN Fail
  ELSE [ok |-> TRUE, c |-> str[pos + 1], pos |-> read_whitespace(str, pos + 1)]

(* read_delimiter: skip blanks, take one character, skip blanks. *)
read_delimiter(str, pos) ==
  LET p == read_whitespace(str, pos) IN
  IF Len(str) - p < 1 THEN Fail
  ELSE [ok |-> TRUE, c |-> str[p + 1], pos |-> read_whitespace(str, p + 1)]

(* read_number: digits and dots up to the first other character; with a  *)
(* dot it is atof's value (the integer part and the fraction digits up to *)
(* the next dot), else atol's as T_INT64.  A leading '-' is not taken.    *)
RECURSIVE NumberEnd(_, _)
NumberEnd(str, pos) ==
  IF pos < Len(str) /\ str[pos + 1] \in DigitChars \cup {"DOT"} THEN NumberEnd(str, pos + 1) ELSE pos

atof(s) ==
  LET dot == CHOOSE i \in DOMAIN s : s[i] = "DOT" /\ \A j \in 1 .. i - 1 : s[j] # "DOT"
      frac == SubSeq(s, dot + 1, Len(s))
      fracEnd == IF \E i \in DOMAIN frac : frac[i] = "DOT"
                 THEN CHOOSE i \in DOMAIN frac : frac[i] = "DOT" /\ \A j \in 1 .. i - 1 : frac[j] # "DOT"
                 ELSE Len(frac) + 1
  IN [int |-> atol(SubSeq(s, 1, dot - 1)), frac |-> SubSeq(frac, 1, fracEnd - 1)]

read_number(str, pos) ==
  LET e == NumberEnd(str, pos)
      floatStr == SubSeq(str, pos + 1, e)
  IN IF floatStr = <<>> THEN Fail
     ELSE [ok |-> TRUE, pos |-> e,
           val |-> IF "DOT" \in Range(floatStr)
                   THEN [type |-> "T_DOUBLE", d |-> atof(floatStr)]
                   ELSE [type |-> "T_INT64", n |-> atol(floatStr)]]

read_bool(str, pos, wanted) ==
  IF CharAt(str, pos) # wanted THEN Fail
  ELSE [ok |-> TRUE, val |-> [type |-> "T_BOOL", b |-> wanted = "true"], pos |-> pos + 1]

(* read_null consumes the word and leaves the result as it was. *)
read_null(str, pos) == IF CharAt(str, pos) # "null" THEN Fail ELSE [ok |-> TRUE, pos |-> pos + 1]

(* Fault-injection variant: the new member keyed by the size after it. *)
PushFromOne(o, v) ==
  IF ~o.isArray THEN o
  ELSE [o EXCEPT !.members = (Decimal(Cardinality(DOMAIN o.members) + 1) :> v) @@ @]

(* push: on an array, the next member is keyed by its index in decimal. *)
push(o, v) ==
  IF ~o.isArray THEN o
  ELSE [o EXCEPT !.members = (Decimal(Cardinality(DOMAIN o.members)) :> v) @@ @]

-----------------------------------------------------------------------------
(***************************************************************************)
(* The recursive descent.  read_json_key_value dispatches on the first    *)
(* character after the blanks; read_object and read_array run their while *)
(* loops as ObjectMembers and ArrayMembers, one member per call, each     *)
(* step of the loop body an operator of its own.                          *)
(***************************************************************************)
RECURSIVE read_json_key_value(_, _), KeyValueAt(_, _), read_object(_, _),
          ObjectMembers(_, _, _), ObjectKey(_, _, _), ObjectColon(_, _, _, _),
          ObjectValue(_, _, _, _), ObjectNext(_, _, _), read_array(_, _),
          ArrayMembers(_, _, _), ArrayValue(_, _, _), ArrayNext(_, _, _)

read_json_key_value(str, pos) ==
  IF pos >= Len(str) THEN Fail ELSE KeyValueAt(str, read_whitespace(str, pos))

KeyValueAt(str, p) ==
  LET c == CharAt(str, p) IN
  CASE c = "QT" -> LET r == read_string(str, p) IN
                   IF r.ok THEN [ok |-> TRUE, val |-> [type |-> "T_STRING", str |-> r.value], pos |-> r.next]
                   ELSE Fail
    [] c \in {"MI"} \cup DigitChars -> read_number(str, p)
    [] c = "LB" -> read_object(str, p)
    [] c = "LK" -> read_array(str, p)
    [] c \in {"true", "false"} -> read_bool(str, p, c)
    [] c = "null" -> LET r == read_null(str, p) IN
                     IF r.ok THEN [ok |-> TRUE, val |-> Undefined, pos |-> r.pos] ELSE Fail
    [] OTHER -> Fail

(* read_object: '{', then members until a '}' where a member may start,   *)
(* or a '}' after a member.                                               *)
read_object(str, pos) ==
  IF Len(str) - pos < 2 \/ str[pos + 1] # "LB" THEN Fail
  ELSE ObjectMembers(str, pos + 1, Obj(FALSE, <<>>).obj)

ObjectMembers(str, pos, o) ==
  IF pos >= Len(str) THEN Fail
  ELSE IF str[pos + 1] = "RB" THEN [ok |-> TRUE, val |-> [type |-> "T_OBJ", obj |-> o], pos |-> pos + 1]
  ELSE ObjectKey(str, read_json_key_value(str, pos), o)

ObjectKey(str, k, o) ==
  IF ~k.ok \/ k.val.type # "T_STRING" THEN Fail
  ELSE ObjectColon(str, k.val.str, read_delimiter(str, k.pos), o)

ObjectColon(str, key, d, o) ==
  IF ~d.ok \/ d.c # "CO" THEN Fail
  ELSE ObjectValue(str, key, read_json_key_value(str, d.pos), o)

(* m_members[key] = value: a repeated key overwrites. *)
ObjectValue(str, key, v, o) ==
  IF ~v.ok THEN Fail
  ELSE ObjectNext(str, [o EXCEPT !.members = (key :> v.val) @@ @], read_delimiter(str, v.pos))

ObjectNext(str, o, d) ==
  IF ~d.ok THEN Fail
  ELSE CASE d.c = "RB" -> [ok |-> TRUE, val |-> [type |-> "T_OBJ", obj |-> o], pos |-> d.pos]
         [] d.c = "CM" -> ObjectMembers(str, d.pos, o)
         [] OTHER -> Fail

(* read_array(str, result, startPos): the same loop, members pushed. *)
read_array(str, pos) ==
  IF Len(str) - pos < 2 \/ str[pos + 1] # "LK" THEN Fail
  ELSE ArrayMembers(str, pos + 1, Obj(TRUE, <<>>).obj)

ArrayMembers(str, pos, o) ==
  IF pos >= Len(str) THEN Fail
  ELSE IF str[pos + 1] = "RK" THEN [ok |-> TRUE, val |-> [type |-> "T_OBJ", obj |-> o], pos |-> pos + 1]
  ELSE ArrayValue(str, read_json_key_value(str, pos), o)

ArrayValue(str, v, o) ==
  IF ~v.ok THEN Fail ELSE ArrayNext(str, push(o, v.val), read_delimiter(str, v.pos))

ArrayNext(str, o, d) ==
  IF ~d.ok THEN Fail
  ELSE CASE d.c = "RK" -> [ok |-> TRUE, val |-> [type |-> "T_OBJ", obj |-> o], pos |-> d.pos]
         [] d.c = "CM" -> ArrayMembers(str, d.pos, o)
         [] OTHER -> Fail

(* read_array(str, startPos) of the object itself: the same loop, with    *)
(* m_is_array set on entry.                                               *)
ReadArrayInPlace(str, pos) == read_array(str, pos)

(* read_from_string on a fresh JsonObject: blanks, then an object or an   *)
(* array; what follows it is not looked at.                               *)
read_from_string(str) ==
  IF str = <<>> THEN Fail
  ELSE LET p == read_whitespace(str, 0) IN
       CASE CharAt(str, p) = "LB" -> read_object(str, p)
         [] CharAt(str, p) = "LK" -> ReadArrayInPlace(str, p)
         [] OTHER -> Fail

-----------------------------------------------------------------------------
(***************************************************************************)
(* write_to_string: the members in key order, comma-separated, keys       *)
(* quoted as they are (not escaped), values by type.  T_DOUBLE (ostream   *)
(* << double, six significant digits) is not modelled: no value here      *)
(* holds one.                                                              *)
(***************************************************************************)
IntTypes == {"T_INT8", "T_INT16", "T_INT32", "T_INT64", "T_UINT8", "T_UINT16", "T_UINT32", "T_UINT64"}

RECURSIVE write_to_string(_), WriteValue(_), WriteMembers(_, _)

WriteValue(v) ==
  CASE v.type = "T_NULL" -> [ok |-> TRUE, str |-> <<"null">>]
    [] v.type = "T_BOOL" -> [ok |-> TRUE, str |-> <<IF v.b THEN "true" ELSE "false">>]
    [] v.type \in IntTypes -> [ok |-> TRUE, str |-> Decimal(v.n)]
    [] v.type = "T_STRING" -> [ok |-> TRUE, str |-> WriteString(v.str)]
    [] v.type = "T_OBJ" -> write_to_string(v.obj)
    [] v.type = "T_UNDEFINED" -> Fail

MemberLabel(o, k) == IF o.isArray THEN <<>> ELSE <<"QT">> \o k \o <<"QT", "CO">>

WriteMembers(o, ks) ==
  IF ks = <<>> THEN [ok |-> TRUE, str |-> <<>>]
  ELSE LET w == WriteValue(o.members[Head(ks)])
           rest == WriteMembers(o, Tail(ks))
       IN IF ~w.ok \/ ~rest.ok THEN Fail
          ELSE [ok |-> TRUE,
                str |-> MemberLabel(o, Head(ks)) \o w.str
                        \o (IF Tail(ks) = <<>> THEN <<>> ELSE <<"CM">>) \o rest.str]

(* What write_to_string leaves in the object: its T_STRING case runs      *)
(* escape_string on the stored string itself, in nested objects too.      *)
RECURSIVE WrittenObject(_), WrittenValue(_)
WrittenValue(v) ==
  CASE v.type = "T_STRING" -> [v EXCEPT !.str = escape_string(@)]
    [] v.type = "T_OBJ" -> [v EXCEPT !.obj = WrittenObject(@)]
    [] OTHER -> v

WrittenObject(o) == [o EXCEPT !.members = [k \in DOMAIN @ |-> WrittenValue(@[k])]]

write_to_string(o) ==
  LET body == WriteMembers(o, SortedKeys(DOMAIN o.members)) IN
  IF ~body.ok THEN Fail
  ELSE [ok |-> TRUE,
        str |-> <<IF o.isArray THEN "LK" ELSE "LB">> \o body.str \o <<IF o.isArray THEN "RK" ELSE "RB">>]

====
