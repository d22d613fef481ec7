--------------------------- MODULE AffinityParser ---------------------------
(***************************************************************************)
(* The parser of OPENEBS_IO_NFS_SERVER_NODE_AFFINITY (node_affinity.go).   *)
(*                                                                         *)
(* A text is a sequence of tokens: words, and the characters the parser    *)
(* looks at.  Its loops over texts and lists of texts are recursive        *)
(* functions from the front of a list to the whole.                        *)
(***************************************************************************)
EXTENDS Naturals, Sequences, SequencesExt, FiniteSetsExt

CONSTANT Words          \* label keys and values

\* The characters the parser looks at; labels hold none of them.
Space == " "
Comma == ","
Colon == ":"
Open == "["
Close == "]"
Marks == {Space, Comma, Colon, Open, Close}

ASSUME WordsAssumption == Words \cap Marks = {}

Tokens == Words \cup Marks
Texts == Seq(Tokens)

-----------------------------------------------------------------------------
(* The setting, as it is meant and as it is written *)

\* A rule as its author means it: a label with one of some values or, without
\* values, with any; and a way to spell the rule.
Rules == [key : Words, values : Seq(Words), style : {"plain", "padded", "brackets"}]

\* strings.Join
Joined(texts, sep) ==
  LET join[t \in Seq(Texts)] ==
        IF t = <<>> THEN <<>>
        ELSE IF Len(t) = 1 THEN Last(t)
        ELSE join[Front(t)] \o sep \o Last(t)
  IN  join[texts]

Units(words) == [i \in DOMAIN words |-> <<words[i]>>]

\* "key", " key ", "key:[]", "key:[a,b]", " key :[ a,b ]"
Listed(rule) == rule.values # <<>> \/ rule.style = "brackets"
Pad(rule) == IF rule.style = "padded" THEN <<Space>> ELSE <<>>
KeyText(rule) == Pad(rule) \o <<rule.key>> \o Pad(rule)
ValuesText(rule) == Joined(Units(rule.values), <<Comma>>)
Bracketed(rule) == <<Open>> \o (Pad(rule) \o ValuesText(rule) \o Pad(rule))
Spelled(rule) ==
  IF Listed(rule) THEN KeyText(rule) \o <<Colon>> \o (Bracketed(rule) \o <<Close>>)
  ELSE KeyText(rule)

Spellings(s) == [i \in DOMAIN s |-> Spelled(s[i])]
Text(s) == Joined(Spellings(s), <<Comma>>)

\* What its author means by setting s.
Requirement(rule) ==
  [key |-> <<rule.key>>,
   operator |-> IF rule.values = <<>> THEN "Exists" ELSE "In",
   values |-> Units(rule.values)]
MeantBy(s) == [i \in DOMAIN s |-> Requirement(s[i])]

-----------------------------------------------------------------------------
(* Package strings *)

EndsWith(text, sep) ==
  /\ Len(sep) <= Len(text)
  /\ SubSeq(text, Len(text) - Len(sep) + 1, Len(text)) = sep

\* One more token of a text, parts being what came before it: a part ends where
\* a separator is complete.
Cut(parts, token, sep) ==
  LET part == Append(Last(parts), token)
  IN  IF EndsWith(part, sep)
      THEN Front(parts) \o <<SubSeq(part, 1, Len(part) - Len(sep)), <<>>>>
      ELSE Append(Front(parts), part)

\* strings.Split, for separators that do not overlap themselves
Split(text, sep) ==
  LET split[t \in Texts] ==
        IF t = <<>> THEN <<<<>>>> ELSE Cut(split[Front(t)], Last(t), sep)
  IN  split[text]

\* strings.TrimRight, TrimLeft, TrimSpace
TrimRight(text, c) ==
  SubSeq(text, 1, Max({0} \cup {i \in DOMAIN text : text[i] # c}))
TrimLeft(text, c) ==
  SubSeq(text, Min({Len(text) + 1} \cup {i \in DOMAIN text : text[i] # c}), Len(text))
TrimSpace(text) == TrimLeft(TrimRight(text, Space), Space)

-----------------------------------------------------------------------------
(* The parser *)

\* Mutant: a list without values is a list.
getNodeSelectorRequirementListed(text) ==
  LET keyValues == Split(text, <<Colon>>)
      listed == Len(keyValues) > 1
      valueList ==
        Split(TrimSpace(TrimLeft(TrimRight(keyValues[2], Close), Open)), <<Comma>>)
  IN  [key |-> TrimSpace(keyValues[1]),
       operator |-> IF listed THEN "In" ELSE "Exists",
       values |-> IF listed THEN valueList ELSE <<>>]

getNodeSelectorRequirement(text) ==
  LET keyValues == Split(text, <<Colon>>)
      valueList ==
        Split(TrimSpace(TrimLeft(TrimRight(keyValues[2], Close), Open)), <<Comma>>)
      listed == /\ Len(keyValues) > 1
                /\ Len(valueList) > 1 \/ TrimSpace(valueList[1]) # <<>>
  IN  [key |-> TrimSpace(keyValues[1]),
       operator |-> IF listed THEN "In" ELSE "Exists",
       values |-> IF listed THEN valueList ELSE <<>>]

\* The matches of ",.*:\[.*": commas with a ":[" somewhere behind them.
Matching(text) ==
  {i \in DOMAIN text : /\ text[i] = Comma
                       /\ \E j \in i + 1 .. Len(text) - 1 :
                            text[j] = Colon /\ text[j + 1] = Open}

\* Mutant: the first match.
getLeftMostMatchingString(text) ==
  IF Matching(text) = {} THEN <<>>
  ELSE SubSeq(text, Min(Matching(text)) + 1, Len(text))

\* What follows the last match.
getRightMostMatchingString(text) ==
  IF Matching(text) = {} THEN <<>>
  ELSE SubSeq(text, Max(Matching(text)) + 1, Len(text))

\* The loop over keys, which skips empty ones.
KeyRequirements(keys) ==
  LET requirements[k \in Seq(Texts)] ==
        IF k = <<>> THEN <<>>
        ELSE IF TrimSpace(Last(k)) = <<>> THEN requirements[Front(k)]
        ELSE Append(requirements[Front(k)], getNodeSelectorRequirement(Last(k)))
  IN  requirements[keys]

\* A piece of the setting: keys, at most one of them with values and that one
\* last.
getOneOrMoreNodeSelectorRequirements(text) ==
  LET complex == getRightMostMatchingString(text)
      rest    == SubSeq(text, 1, Len(text) - Len(complex))
      keys    == KeyRequirements(Split(rest, <<Comma>>))
  IN  IF Contains(rest, Open) THEN <<getNodeSelectorRequirement(rest)>>
      ELSE IF complex = <<>> THEN keys
      ELSE Append(keys, getNodeSelectorRequirement(complex))

\* The loop over pieces.
PieceRequirements(pieces) ==
  LET requirements[p \in Seq(Texts)] ==
        IF p = <<>> THEN <<>>
        ELSE requirements[Front(p)] \o getOneOrMoreNodeSelectorRequirements(Last(p))
  IN  requirements[pieces]

getNodeAffinityRules(text) ==
  IF text = <<>> THEN <<>> ELSE PieceRequirements(Split(text, <<Close, Comma>>))
=============================================================================
