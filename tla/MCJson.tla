------------------------------- MODULE MCJson -------------------------------
(***************************************************************************)
(* Reproducers for JsonObject outside the documents MCCodec checks: one    *)
(* call of write_to_string then read_from_string on a JsonObject of Docs, *)
(* or of read_from_string then write_to_string on a text of Texts.  Each  *)
(* .cfg picks the sets that show one behaviour of the parser.             *)
(***************************************************************************)
EXTENDS Json

CONSTANTS
  Docs,   \* JsonObjects to write and read back
  Texts   \* texts to read and write back

VARIABLES call, done, ret

vars == <<call, done, ret>>

Boolean(b) == [type |-> "T_BOOL", b |-> b]

(* Arrays of eleven bools, as push builds them. *)
MCLongArrays ==
  {[isArray |-> TRUE, members |-> [k \in {Decimal(i - 1) : i \in 1 .. 11} |-> Boolean(s[atol(k) + 1])]] :
     s \in [1 .. 11 -> BOOLEAN]}

(* An object with one string member holding a quote. *)
MCQuoteDocs == {[isArray |-> FALSE, members |-> <<"a">> :> [type |-> "T_STRING", str |-> <<"QT">>]]}

(* An object with one negative integer, as a command builder fills it. *)
MCNegativeDocs == {[isArray |-> FALSE, members |-> <<"a">> :> [type |-> "T_INT32", n |-> -1]]}

(* {"a":null} and the empty object and array with a blank inside. *)
MCNullTexts == {<<"LB", "QT", "a", "QT", "CO", "null", "RB">>}
MCBlankTexts == {<<"LB", "SP", "RB">>, <<"LK", "SP", "RK">>}

Init ==
  /\ call \in [kind : {"doc"}, o : Docs] \cup [kind : {"text"}, s : Texts]
  /\ done = FALSE
  /\ ret = 0

DocCall ==
  /\ ~done /\ call.kind = "doc"
  /\ LET w == write_to_string(call.o) IN
     ret' = [w |-> w, r |-> IF w.ok THEN read_from_string(w.str) ELSE Fail,
             w2 |-> write_to_string(WrittenObject(call.o))]
  /\ done' = TRUE /\ UNCHANGED call

TextCall ==
  /\ ~done /\ call.kind = "text"
  /\ LET r == read_from_string(call.s)
         w == IF r.ok THEN write_to_string(r.val.obj) ELSE Fail
     IN ret' = [r |-> r, w |-> w, rr |-> IF w.ok THEN read_from_string(w.str) ELSE Fail]
  /\ done' = TRUE /\ UNCHANGED call

Next == DocCall \/ TextCall

Spec == Init /\ [][Next]_vars

(* The value read_number gives back for a written integer of any width. *)
RECURSIVE Read(_)
Read(v) ==
  CASE v.type \in IntTypes -> [type |-> "T_INT64", n |-> v.n]
    [] v.type = "T_OBJ" -> [type |-> "T_OBJ", obj |-> [v.obj EXCEPT !.members = [k \in DOMAIN @ |-> Read(@[k])]]]
    [] OTHER -> v

-----------------------------------------------------------------------------
(* What write_to_string writes, read_from_string reads back as the same   *)
(* object: arrays keep their order (push keys them by decimal index and   *)
(* std::map writes them in string order) and negative integers read back. *)
DocReadBack ==
  done /\ call.kind = "doc" =>
    ret.w.ok /\ ret.r.ok /\ ret.r.val = Read([type |-> "T_OBJ", obj |-> call.o])

(* Writing the same JsonObject twice writes the same text: the first      *)
(* write leaves the stored strings as they were.                          *)
WriteRepeatable == done /\ call.kind = "doc" => ret.w2 = ret.w

(* A JSON text read_from_string accepts is one write_to_string can write *)
(* again, and that reads back the same: read_null's member is writable.   *)
TextWrittenBack ==
  done /\ call.kind = "text" /\ ret.r.ok => ret.w.ok /\ ret.rr = ret.r

(* read_from_string accepts an empty object or array with a blank inside. *)
TextAccepted == done /\ call.kind = "text" => ret.r.ok

====
