--------------------------- MODULE SidebarLines --------------------------
(***************************************************************************)
(* How a sidebar line is cut for clients before 1.13, which draw it as the  *)
(* prefix of a team, the entry of the line and the suffix of the team, each *)
(* at most MaxChars (16) long (handlers/configuration.rs                    *)
(* scoreboard_line_parts).  A line is a sequence of characters; Sign is the *)
(* section sign that makes the next character a code.                       *)
(***************************************************************************)
EXTENDS Naturals, Sequences, SequencesExt

CONSTANTS
  MaxChars,
  Colors, Formats,  \* the codes 0-f and k-o
  Letters,          \* characters that are no codes
  Sign, Reset       \* the section sign and the code r

Codes == Colors \cup Formats \cup {Reset}

(* As SplitLegacyTeamPart, at the limit whatever is there *)
SplitLegacyTeamPart_Anywhere(value) ==
  IF Len(value) <= MaxChars THEN <<value, <<>>>>
  ELSE <<SubSeq(value, 1, MaxChars), SubSeq(value, MaxChars + 1, Len(value))>>

(* The first part and the rest; a code is not torn from its sign *)
SplitLegacyTeamPart(value) ==
  IF Len(value) <= MaxChars THEN <<value, <<>>>>
  ELSE LET at == IF value[MaxChars] = Sign THEN MaxChars - 1 ELSE MaxChars
       IN  <<SubSeq(value, 1, at), SubSeq(value, at + 1, Len(value))>>

(* One character of active_legacy_formatting's loop *)
Scan(style, char) ==
  IF ~style.coded THEN [style EXCEPT !.coded = char = Sign]
  ELSE [coded |-> FALSE,
        color |-> IF char \in Colors THEN <<char>> ELSE IF char = Reset THEN <<>> ELSE style.color,
        formats |-> IF char \in Colors \cup {Reset} THEN <<>>
                    ELSE IF char \in Formats \ ToSet(style.formats) THEN Append(style.formats, char)
                    ELSE style.formats]

(* The codes that bring the formatting at the end of the prefix back *)
ActiveLegacyFormatting(value) ==
  LET style == FoldLeft(Scan, [coded |-> FALSE, color |-> <<>>, formats |-> <<>>], value)
      codes == style.color \o style.formats
  IN  FlattenSeq([i \in DOMAIN codes |-> <<Sign, codes[i]>>])
        \o (IF codes = <<>> THEN <<Sign, Reset>> ELSE <<>>)

ScoreboardLineParts(line) ==
  LET parts == SplitLegacyTeamPart(line)
      formatting == ActiveLegacyFormatting(parts[1])
  IN  IF parts[2] = <<>> THEN [prefix |-> line, suffix |-> <<>>]
      ELSE [prefix |-> parts[1], suffix |-> SplitLegacyTeamPart(formatting \o parts[2])[1]]

----------------------------------------------------------------------------
(* What a client draws: the characters that are neither sign nor code, each *)
(* in the last color before it and the formats since then                   *)

DrawnAt(text) == {i \in DOMAIN text : text[i] # Sign /\ (i > 1 => text[i - 1] # Sign)}

StyleAt(text, i) ==
  LET codes == {j \in 1..(i - 1) : text[j] = Sign}
      resets == {j \in codes : text[j + 1] \notin Formats}
      since == {j \in codes : \A r \in resets : j > r}
      last == {r \in resets : \A other \in resets : other <= r}
  IN  [color |-> {text[r + 1] : r \in last} \cap Colors, formats |-> {text[j + 1] : j \in since}]

Drawn(text) ==
  LET order == SetToSortSeq(DrawnAt(text), LAMBDA i, j : i < j)
  IN  [k \in DOMAIN order |-> <<text[order[k]], StyleAt(text, order[k])>>]
==========================================================================
