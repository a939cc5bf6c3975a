-------------------------------- MODULE Signs ---------------------------------
(***************************************************************************)
(* SignBlockEntity: signs in a schematic have the form of the version that *)
(* wrote it, with one text before 1.20 and two since then, and are sent in *)
(* the form of the client.  A message is a JSON text, of a string or of an *)
(* object, or, since 1.21.5, NBT; the code keeps a string.                 *)
(***************************************************************************)
EXTENDS Integers, Sequences, SequencesExt

CONSTANTS
  Color, Black,   \* SignColor and its default
  Text, NoText    \* what is written on a line, and nothing

V1_20 == 1
V1_21_5 == 2
Versions == 0..2

Message == [as : {"string", "json string", "json object", "compound"}, text : Text]

(* remove_string_tag_quote takes the quotes off a JSON string.  SignMessage*)
(* tries NBT first, for which any string will do: the text of an object is *)
(* its JSON.  A compound is none of both, and an error.                    *)
Component(message) ==
  IF message.as = "json object" THEN [json |-> message.text] ELSE message.text
Readable(messages) == \A i \in DOMAIN messages : messages[i].as # "compound"

(* One message that cannot be read takes those of its face with it. *)
DefaultFace == [glowing |-> 0, color |-> Black, messages |-> <<>>]
Face(face) ==
  [face EXCEPT !.messages =
     IF Readable(@) THEN [i \in DOMAIN face.messages |-> Component(face.messages[i])] ELSE <<>>]

(* Without the fields of a legacy sign everything is that of a modern one, *)
(* whose fields may all be missing.                                        *)
from_nbt(sign) ==
  IF sign.of = "modern"
  THEN [of |-> "modern", is_waxed |-> sign.is_waxed, front |-> Face(sign.front), back |-> Face(sign.back)]
  ELSE IF Readable(sign.front.messages) THEN [of |-> "legacy", front |-> Face(sign.front)]
  ELSE [of |-> "modern", is_waxed |-> 0, front |-> DefaultFace, back |-> DefaultFace]

Line(face, i) == IF i \in DOMAIN face.messages THEN face.messages[i] ELSE NoText
to_legacy(sign) ==
  IF sign.of = "legacy" THEN sign
  ELSE [of |-> "legacy",
        front |-> [sign.front EXCEPT !.messages = [i \in 1..4 |-> Line(sign.front, i)]]]
to_modern(sign) ==
  IF sign.of = "modern" THEN sign
  ELSE [of |-> "modern", is_waxed |-> 0, front |-> sign.front, back |-> DefaultFace]

(* JSON strings up to 1.21.4, and always on a legacy sign; NBT since then. *)
Written(face, as) ==
  [face EXCEPT !.messages = [i \in DOMAIN face.messages |-> [as |-> as, text |-> face.messages[i]]]]
to_version_value(sign, version) ==
  LET as == IF version >= V1_21_5 THEN "string" ELSE "json string"
      modern == to_modern(sign)
      legacy == to_legacy(sign)
  IN IF version >= V1_20
     THEN [modern EXCEPT !.front = Written(@, as), !.back = Written(@, as)]
     ELSE [legacy EXCEPT !.front = Written(@, as)]

-------------------------------------------------------------------------------
(* The client: the lines of a face it understands, four or none. *)
ClientForm(version) ==
  [of |-> IF version >= V1_20 THEN "modern" ELSE "legacy",
   as |-> IF version >= V1_21_5 THEN "string" ELSE "json string"]
ClientLines(face, version) ==
  IF /\ Len(face.messages) = 4
     /\ \A i \in 1..4 : face.messages[i].as = ClientForm(version).as
  THEN [i \in 1..4 |-> face.messages[i].text] ELSE [i \in 1..4 |-> NoText]
===============================================================================
