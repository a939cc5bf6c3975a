------------------------------- MODULE ChatText -------------------------------
(***************************************************************************)
(* The texts of the chat: the configuration's formats in MiniMessage with  *)
(* placeholders, into which lobby_chat puts what players wrote, the        *)
(* components parse_mini_message makes of them, and the forms in which a   *)
(* component reaches a client: fields of NBT or JSON, and the section      *)
(* codes of old texts.                                                     *)
(*                                                                         *)
(* A text is a sequence of characters, where the name of a tag or of an    *)
(* entity and a placeholder are one character each: a text that spells one *)
(* out letter by letter is a text of other letters.                        *)
(***************************************************************************)
EXTENDS Integers, Sequences, SequencesExt, FiniteSets

CONSTANTS
  Colors, Formats,      \* the names of the tags that color and format text
  Sign, Reset           \* the section sign and the code that ends a style

Plain == [color |-> "none", formats |-> {}]
Piece(text, style) == [text |-> text, style |-> style]

-------------------------------------------------------------------------------
(* parse_mini_message.  The pieces of text, each with its style, become    *)
(* the extra components of an empty one.                                   *)
Entities == [lt |-> "<", gt |-> ">", amp |-> "&"]
StylingTags == Colors \cup Formats

apply_styling_tag(tag, style) ==
  IF tag \in Colors THEN [style EXCEPT !.color = tag] ELSE [style EXCEPT !.formats = @ \cup {tag}]

push_text(pieces, text, style) ==
  CASE text = <<>> -> pieces
    [] text # <<>> /\ pieces # <<>> /\ Last(pieces).style = style ->
         Append(Front(pieces), Piece(Last(pieces).text \o text, style))
    [] OTHER -> Append(pieces, Piece(text, style))

Failed(error) == [error |-> error, pieces |-> <<>>]
IndexOf(text, c) == SelectInSeq(text, LAMBDA x : x = c)
StartsWith(text, c) == text # <<>> /\ Head(text) = c

(* A tag by what stands between its brackets.  Closing tags need not match *)
(* the tag they close.                                                     *)
Tag(inner) ==
  LET closing == Head(inner) = "/"
      selfClosing == ~closing /\ Last(inner) = "/"
      name == IF closing THEN Tail(inner) ELSE IF selfClosing THEN Front(inner) ELSE inner
  IN [closing |-> closing, selfClosing |-> selfClosing, styles |-> Len(name) = 1 /\ name[1] \in StylingTags,
      newline |-> name = <<"newline">>, name |-> name]

(* The stack of styles after a tag. *)
Restyled(tag, stack) ==
  CASE tag.closing -> IF tag.styles /\ Len(stack) > 1 THEN Front(stack) ELSE stack
    [] ~tag.closing -> IF tag.styles /\ ~tag.selfClosing
                       THEN Append(stack, apply_styling_tag(tag.name[1], Last(stack))) ELSE stack

(* What is left to parse, with the pieces and the stack so far.  An &      *)
(* without a ; is text; an entity the code does not know vanishes.         *)
RECURSIVE Parse(_, _, _)
Parse(text, pieces, stack) ==
  LET end(c) == IndexOf(Tail(text), c)
      inside(c) == SubSeq(text, 2, end(c))
      after(c) == SubSeq(text, end(c) + 2, Len(text))
  IN CASE text = <<>> -> [error |-> "none", pieces |-> pieces]
       [] StartsWith(text, "<") ->
            IF end(">") <= 1 THEN Failed("Malformed")
            ELSE LET tag == Tag(inside(">"))
                     newline == IF tag.newline /\ ~tag.closing THEN <<"newline">> ELSE <<>>
                 IN IF tag.styles \/ tag.newline
                    THEN Parse(after(">"), push_text(pieces, newline, Last(stack)), Restyled(tag, stack))
                    ELSE Failed("UnknownTag")
       [] StartsWith(text, "&") ->
            IF end(";") = 0 THEN Parse(Tail(text), push_text(pieces, <<"&">>, Last(stack)), stack)
            ELSE LET name == inside(";")
                     known == Len(name) = 1 /\ name[1] \in DOMAIN Entities
                     expanded == IF known THEN <<Entities[name[1]]>> ELSE <<>>
                 IN Parse(after(";"), push_text(pieces, expanded, Last(stack)), stack)
       [] OTHER -> Parse(Tail(text), push_text(pieces, <<Head(text)>>, Last(stack)), stack)

(* A component with a text and a style, and those it contains. *)
Component(text, style, extra) == [text |-> text, style |-> style, extra |-> extra]
New(text) == Component(text, Plain, <<>>)

parse_mini_message(text) ==
  LET parsed == Parse(text, <<>>, <<Plain>>)
  IN [error |-> parsed.error,
      component |-> Component(<<>>, Plain, [i \in DOMAIN parsed.pieces |->
                      Component(parsed.pieces[i].text, parsed.pieces[i].style, <<>>)])]
ParseOr(text, fallback) ==
  LET parsed == parse_mini_message(text)
  IN IF parsed.error = "none" THEN parsed.component ELSE New(fallback)

-------------------------------------------------------------------------------
(* lobby_chat. *)
escape_minimessage_text(text) ==
  FlattenSeq([i \in DOMAIN text |->
    CASE text[i] = "&" -> <<"&", "amp", ";">>
      [] text[i] = "<" -> <<"&", "lt", ";">>
      [] text[i] = ">" -> <<"&", "gt", ";">>
      [] OTHER -> <<text[i]>>])

(* substitute_two and substitute_pm: every placeholder of the format, and  *)
(* none of a value.                                                        *)
Substitute(format, values) ==
  FlattenSeq([i \in DOMAIN format |->
    IF format[i] \in DOMAIN values THEN values[format[i]] ELSE <<format[i]>>])
(* substitute_one: the first. *)
substitute_one(format, key, value) ==
  LET first == IndexOf(format, key)
  IN IF first = 0 THEN format
     ELSE SubSeq(format, 1, first - 1) \o value \o SubSeq(format, first + 1, Len(format))

format_lobby_chat(sender, message, format) ==
  ParseOr(Substitute(format, [k \in {"{sender}", "{message}"} |->
            escape_minimessage_text(IF k = "{sender}" THEN sender ELSE message)]),
          sender \o <<":">> \o message)

format_lobby_lifecycle_message(player, template) ==
  ParseOr(substitute_one(template, "{player}", escape_minimessage_text(player)), player)

(* Both sides of a private message; its formats may call the recipient the *)
(* target.                                                                 *)
format_private_message(plan, format, fallback) ==
  ParseOr(Substitute(format, [k \in {"{sender}", "{recipient}", "{target}", "{message}"} |->
            escape_minimessage_text(CASE k = "{sender}" -> plan.sender
                                      [] k = "{message}" -> plan.message
                                      [] OTHER -> plan.recipient)]),
          fallback)
format_private_message_for_sender(plan) ==
  format_private_message(plan, plan.sender_format, <<"To">> \o plan.recipient \o <<":">> \o plan.message)
format_private_message_for_recipient(plan) ==
  format_private_message(plan, plan.recipient_format, <<"From">> \o plan.sender \o <<":">> \o plan.message)

-------------------------------------------------------------------------------
(* to_nbt and to_json: fields at their default are left out. *)
RECURSIVE Fields(_)
Fields(component) ==
  LET style == component.style
      keys == {"text"} \cup style.formats
              \cup (IF style.color # "none" THEN {"color"} ELSE {})
              \cup (IF component.extra # <<>> THEN {"extra"} ELSE {})
  IN [k \in keys |->
        CASE k = "text" -> component.text
          [] k = "color" -> style.color
          [] k = "extra" -> [i \in DOMAIN component.extra |-> Fields(component.extra[i])]
          [] k \in Formats -> 1]

(* to_legacy_text: the codes of a style, its color first, for a color ends *)
(* the formats before it.                                                  *)
Codes(style) ==
  (IF style.color = "none" THEN <<>> ELSE <<Sign, style.color>>)
  \o FlattenSeq(SetToSeq({<<Sign, f>> : f \in style.formats}))
to_legacy_text(component) ==
  Codes(component.style) \o component.text
  \o FlattenSeq([i \in DOMAIN component.extra |->
       <<Sign, Reset>> \o Codes(component.extra[i].style) \o component.extra[i].text])

-------------------------------------------------------------------------------
(* What a client draws: the characters, each with its style.  A component  *)
(* inside another has its style, but for what it says itself.              *)
RECURSIVE Drawn(_, _)
Drawn(fields, outer) ==
  LET style == [color |-> IF "color" \in DOMAIN fields THEN fields.color ELSE outer.color,
                formats |-> outer.formats \cup (DOMAIN fields \cap Formats)]
      extra == IF "extra" \in DOMAIN fields THEN fields.extra ELSE <<>>
  IN [i \in DOMAIN fields.text |-> <<fields.text[i], style>>]
     \o FlattenSeq([i \in DOMAIN extra |-> Drawn(extra[i], style)])

(* The same of a text with section codes. *)
RECURSIVE DrawnLegacy(_, _)
DrawnLegacy(text, style) ==
  CASE text = <<>> -> <<>>
    [] Len(text) > 1 /\ StartsWith(text, Sign) ->
         DrawnLegacy(Tail(Tail(text)),
           CASE text[2] \in Colors -> [color |-> text[2], formats |-> {}]
             [] text[2] \in Formats -> [style EXCEPT !.formats = @ \cup {text[2]}]
             [] OTHER -> Plain)
    [] OTHER -> <<<<Head(text), style>>>> \o DrawnLegacy(Tail(text), style)
===============================================================================
