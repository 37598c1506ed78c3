-------------------------- MODULE PartialArguments --------------------------
(***************************************************************************)
(* The reader of tool arguments that are still arriving                    *)
(* (tool_call_argument_parser.cpp): while the language model streams the   *)
(* JSON object of a file_write call, the card on the screen shows the path *)
(* and the content as far as they have come (chat_event_bridge.cpp); after *)
(* a call that could not be prepared the same reader fills in its card     *)
(* (tool_round_runner.cpp).                                                *)
(*                                                                         *)
(* A document is a sequence of characters.  What the reader tells apart is *)
(* kept: the structural characters, blanks, the backslash, the letters u   *)
(* and n of an escape, plain characters, and hexadecimal quadruples as one *)
(* character each: a code unit of its own, the high half and the low half  *)
(* of a surrogate pair.  A quadruple that is cut short has not come.       *)
(***************************************************************************)
EXTENDS Naturals, SequencesExt

CONSTANTS Documents, \* what the model may stream: complete JSON objects, each
                     \* a record of its text and of the value that Key has in it
          Key        \* the key that is looked for, a sequence of characters

VARIABLES document, arrived, shown

vars == <<document, arrived, shown>>

NoValue == <<"none">>
Blank == {" "}

\* The character at a position, "end" past the last one.
At(json, c) == IF c <= Len(json) THEN json[c] ELSE "end"

\* The first position from c on that is no blank.
SkipWhitespace(json, c) ==
  LET skip[i \in Nat] == IF At(json, i) \in Blank THEN skip[i + 1] ELSE i IN skip[c]

MatchesKey(json, c) ==
  /\ \A k \in 1..Len(Key) : At(json, c + k - 1) = Key[k]
  /\ At(json, c + Len(Key)) = "quote"

\* The position after the quote that closes the string that c is in; an
\* escaped character is passed over.
SkipString(json, c) ==
  LET skip[i \in Nat] ==
        CASE At(json, i) = "end" -> i
          [] At(json, i) = "quote" -> i + 1
          [] At(json, i) = "backslash" -> skip[i + 2]
          [] OTHER -> skip[i + 1]
  IN skip[c]

\* The position after Key, looked for among the strings at depth 1; 0 if it
\* has not come.
FindKey(json) ==
  LET find[c \in Nat, depth \in Nat] ==
        CASE At(json, c) = "end" -> 0
          [] At(json, c) \in {"{", "["} -> find[c + 1, depth + 1]
          [] At(json, c) \in {"}", "]"} -> IF depth = 0 THEN 0 ELSE find[c + 1, depth - 1]
          [] At(json, c) = "quote" ->
               IF depth = 1 /\ MatchesKey(json, c + 1) THEN c + Len(Key) + 2
               ELSE find[SkipString(json, c + 1), depth]
          [] OTHER -> find[c + 1, depth]
  IN find[1, 0]

\* ParseHex4: the code unit at a position, if all four digits have come.
Quadruple(json, c) == IF At(json, c) \in {"unit", "high", "low"} THEN At(json, c) ELSE "cut"

\* A mutant: a surrogate that waits for its other half is shown by itself.
EscapeHalf(json, c) ==
  LET e == At(json, c + 1) IN
  CASE e \in {"quote", "backslash"} -> <<2, e>>
    [] e = "n" -> <<2, "newline">>
    [] e = "u" /\ Quadruple(json, c + 2) # "cut" -> <<3, Quadruple(json, c + 2)>>
    [] OTHER -> <<0, e>>

\* One escape: how many characters it takes and what it stands for; <<0, _>>
\* when it is cut short or unknown, and the value ends before it.
Escape(json, c) ==
  LET e == At(json, c + 1) IN
  CASE e \in {"quote", "backslash"} -> <<2, e>>
    [] e = "n" -> <<2, "newline">>
    [] e = "u" /\ Quadruple(json, c + 2) \in {"unit", "low"} -> <<3, Quadruple(json, c + 2)>>
    [] e = "u" /\ Quadruple(json, c + 2) = "high" ->
         IF At(json, c + 3) = "backslash" /\ At(json, c + 4) = "u" /\ Quadruple(json, c + 5) = "low"
         THEN <<6, "pair">> ELSE <<0, e>>
    [] OTHER -> <<0, e>>

ReadValue(json, start) ==
  LET read[c \in Nat] ==
        CASE At(json, c) \in {"end", "quote"} -> <<>>
          [] At(json, c) = "backslash" ->
               LET e == Escape(json, c) IN
               IF e[1] = 0 THEN <<>> ELSE <<e[2]>> \o read[c + e[1]]
          [] OTHER -> <<json[c]>> \o read[c + 1]
  IN read[start]

ExtractStringFieldPartial(json) ==
  LET key == FindKey(json)
      colon == SkipWhitespace(json, key)
      quote == SkipWhitespace(json, colon + 1)
  IN IF key = 0 \/ At(json, colon) # ":" \/ At(json, quote) # "quote" THEN NoValue
     ELSE ReadValue(json, quote + 1)

-----------------------------------------------------------------------------

\* shown: the field on the card.
Init == document \in Documents /\ arrived = 0 /\ shown = NoValue

\* One character more, and the card is drawn again from all that has arrived;
\* a delta of several characters draws the last of these cards.
ArgumentDelta ==
  /\ arrived < Len(document.text)
  /\ arrived' = arrived + 1
  /\ shown' = ExtractStringFieldPartial(SubSeq(document.text, 1, arrived'))
  /\ UNCHANGED document

Next == ArgumentDelta
Spec == Init /\ [][Next]_vars

TypeOK == /\ document.value \in Seq(STRING)
          /\ arrived \in 0..Len(document.text)
          /\ shown \in Seq(STRING)

\* Whatever has arrived, the card shows a beginning of the value that the
\* document turns out to have, or nothing: never the value of another field,
\* half a character, or text that is taken back when more arrives.
ShownIsPrefix == shown = NoValue \/ IsPrefix(shown, document.value)
=============================================================================
