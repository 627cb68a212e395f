----------------------------- MODULE StringUtils -----------------------------
(***************************************************************************)
(* The string helpers of src/src/common/common_utils.cpp and the JSON      *)
(* string escaping of src/src/common/common_json.cpp built on them, as     *)
(* operators over sequences of characters.  A character is a short name:  *)
(* "BS" backslash, "SL" slash, "QT" double quote, "bsp" "ff" "nl" "cr"    *)
(* "tab" the control characters \b \f \n \r \t, and letters as themselves. *)
(* Positions are 0-based as in std::string; npos is -1.                   *)
(***************************************************************************)
EXTENDS Naturals, Sequences, SequencesExt

CONSTANT Letters   \* the plain characters strings are drawn from

(* str.find(t, from): the first position at or after from where t starts. *)
Find(s, t, from) ==
  LET hits == {i \in from .. (Len(s) - Len(t)) : SubSeq(s, i + 1, i + Len(t)) = t}
  IN IF hits = {} THEN -1 ELSE CHOOSE i \in hits : \A j \in hits : i <= j

RECURSIVE ReplaceFrom(_, _, _, _)

(* Fault-injection variant: the search resumes one character after the  *)
(* replacement.                                                           *)
ReplaceFromSkipOne(s, search, repl, lastPos) ==
  LET pos == Find(s, search, lastPos) IN
  IF pos < 0 THEN s
  ELSE ReplaceFrom(SubSeq(s, 1, pos) \o repl \o SubSeq(s, pos + Len(search) + 1, Len(s)),
                   search, repl, pos + Len(repl) + 1)

(* The loop of string_replace: replace at pos, search again from          *)
(* pos + replacement.length().                                            *)
ReplaceFrom(s, search, repl, lastPos) ==
  LET pos == Find(s, search, lastPos) IN
  IF pos < 0 THEN s
  ELSE ReplaceFrom(SubSeq(s, 1, pos) \o repl \o SubSeq(s, pos + Len(search) + 1, Len(s)),
                   search, repl, pos + Len(repl))

string_replace(s, search, repl) ==
  IF search = repl \/ search = <<>> THEN s ELSE ReplaceFrom(s, search, repl, 0)

(* string_split: the pieces between the separators, found left to right; *)
(* an empty separator gives the whole string.                             *)
RECURSIVE SplitPieces(_, _, _)
SplitPieces(s, sep, begin) ==
  LET pos == Find(s, sep, begin) IN
  IF pos < 0 THEN <<SubSeq(s, begin + 1, Len(s))>>
  ELSE <<SubSeq(s, begin + 1, pos)>> \o SplitPieces(s, sep, pos + Len(sep))

string_split(s, sep) == IF sep = <<>> THEN <<s>> ELSE SplitPieces(s, sep, 0)

-----------------------------------------------------------------------------
(* escape_string and unescape_string: string_replace with each pair in    *)
(* the order of the code.                                                 *)
EscapePairs ==
  << <<<<"BS">>, <<"BS", "BS">>>>, <<<<"SL">>, <<"BS", "SL">>>>, <<<<"QT">>, <<"BS", "QT">>>>,
     <<<<"bsp">>, <<"BS", "b">>>>, <<<<"ff">>, <<"BS", "f">>>>, <<<<"nl">>, <<"BS", "n">>>>,
     <<<<"cr">>, <<"BS", "r">>>>, <<<<"tab">>, <<"BS", "t">>>> >>

UnescapePairs ==
  << <<<<"BS", "SL">>, <<"SL">>>>, <<<<"BS", "QT">>, <<"QT">>>>, <<<<"BS", "b">>, <<"bsp">>>>,
     <<<<"BS", "f">>, <<"ff">>>>, <<<<"BS", "n">>, <<"nl">>>>, <<<<"BS", "r">>, <<"cr">>>>,
     <<<<"BS", "t">>, <<"tab">>>>, <<<<"BS", "BS">>, <<"BS">>>> >>

ReplaceAllPairs(s, pairs) == FoldLeft(LAMBDA acc, pr : string_replace(acc, pr[1], pr[2]), s, pairs)

(* Fault-injection variant: the slash escaped before the backslash. *)
EscapeSlashFirst(s) ==
  ReplaceAllPairs(s, <<EscapePairs[2], EscapePairs[1]>> \o SubSeq(EscapePairs, 3, 8))

escape_string(s) == ReplaceAllPairs(s, EscapePairs)

unescape_string(s) == ReplaceAllPairs(s, UnescapePairs)

(* JsonObject::read_string from startPos: an opening quote, then the     *)
(* first quote whose previous character is not a backslash closes it.     *)
RECURSIVE CloseQuote(_, _)
CloseQuote(str, pos) ==
  LET q == Find(str, <<"QT">>, pos) IN
  IF q < 0 THEN -1 ELSE IF str[q] = "BS" THEN CloseQuote(str, q + 1) ELSE q

read_string(str, startPos) ==
  IF Len(str) - startPos < 2 \/ str[startPos + 1] # "QT" THEN [ok |-> FALSE]
  ELSE LET q == CloseQuote(str, startPos + 1) IN
       IF q < 0 THEN [ok |-> FALSE]
       ELSE [ok |-> TRUE, value |-> unescape_string(SubSeq(str, startPos + 2, q)), next |-> q + 1]

(* The T_STRING case of write_to_string: escape, then quote. *)
WriteString(s) == <<"QT">> \o escape_string(s) \o <<"QT">>

-----------------------------------------------------------------------------
(* Reference: every occurrence replaced, left to right, none of them      *)
(* inside a replacement.                                                  *)
RECURSIVE RefReplace(_, _, _)
RefReplace(s, search, repl) ==
  IF Len(s) < Len(search) THEN s
  ELSE IF SubSeq(s, 1, Len(search)) = search
       THEN repl \o RefReplace(SubSeq(s, Len(search) + 1, Len(s)), search, repl)
       ELSE <<Head(s)>> \o RefReplace(Tail(s), search, repl)

(* The characters escape_string knows, besides the letters. *)
Specials == {"BS", "SL", "QT", "bsp", "ff", "nl", "cr", "tab"}

====
