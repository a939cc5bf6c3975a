------------------------------- MODULE Commands -------------------------------
(***************************************************************************)
(* The commands of a player twice: the tree of nodes the Commands packet   *)
(* offers to a client since 1.13, and Command::parse, which reads the line *)
(* the client sends back.                                                  *)
(*                                                                         *)
(* A line is a sequence of words and spaces, no two words next to each     *)
(* other.  A word is an atom; FloatOf and PortOf say which words are       *)
(* numbers and which.                                                      *)
(***************************************************************************)
EXTENDS Integers, Sequences, SequencesExt, FiniteSets

CONSTANTS
  Space,
  Empty,        \* the alias of a command that is switched off
  FloatOf,      \* the value of each word that is a float, in hundredths
  PortOf        \* the value of each word that is an unsigned 16-bit integer

-------------------------------------------------------------------------------
(* ServerCommands: the kinds in the order in which parse tries them. *)
Kinds == <<"spawn", "fly", "fly_speed", "transfer", "server", "msg", "reply">>

(* The names a command goes by, none when it is switched off. *)
Aliases(config, kind) ==
  ({config[kind]} \cup IF kind = "reply" THEN ToSet(config.reply_aliases) ELSE {}) \ {Empty}

(* str::trim, split_whitespace and split_first_word. *)
Trim(line) ==
  LET words == {i \in DOMAIN line : line[i] # Space}
  IN IF words = {} THEN <<>>
     ELSE SubSeq(line, CHOOSE i \in words : \A j \in words : i <= j,
                       CHOOSE i \in words : \A j \in words : i >= j)
Words(line) == SelectSeq(line, LAMBDA x : x # Space)
RestOf(line) == IF Trim(line) = <<>> THEN <<>> ELSE Trim(Tail(Trim(line)))

Parsed(kind, arguments) == [error |-> "none", command |-> kind, arguments |-> arguments]
Refused(error) == [error |-> error]

Speed(float) == IF float < 0 THEN 0 ELSE IF float > 100 THEN 100 ELSE float
ParseFlySpeed(rest) ==
  IF Words(rest) = <<>> THEN Parsed("fly_speed", <<5>>)
  ELSE IF Words(rest)[1] \in DOMAIN FloatOf THEN Parsed("fly_speed", <<Speed(FloatOf[Words(rest)[1]])>>)
  ELSE Refused("InvalidSpeed")

ParseTransfer(rest) ==
  CASE Len(Words(rest)) = 0 -> Refused("InvalidHost")
    [] Len(Words(rest)) = 1 -> Parsed("transfer", <<Words(rest)[1], 25565>>)
    [] OTHER -> IF Words(rest)[2] \in DOMAIN PortOf
                THEN Parsed("transfer", <<Words(rest)[1], PortOf[Words(rest)[2]]>>)
                ELSE Refused("InvalidPort")

ParseArguments(kind, rest) ==
  CASE kind \in {"spawn", "fly"} -> Parsed(kind, <<>>)
    [] kind = "fly_speed" -> ParseFlySpeed(rest)
    [] kind = "transfer" -> ParseTransfer(rest)
    [] kind = "server" -> IF Words(rest) = <<>> THEN Refused("MissingDestinationId")
                          ELSE Parsed(kind, <<Words(rest)[1]>>)
    [] kind = "msg" -> IF rest = <<>> THEN Refused("MissingPrivateMessageTarget")
                       ELSE Parsed(kind, <<rest[1], RestOf(rest)>>)
    [] kind = "reply" -> Parsed(kind, <<rest>>)

parse(config, line) ==
  LET kind == SelectInSeq(Kinds, LAMBDA k : Head(Trim(line)) \in Aliases(config, k))
  IN CASE Trim(line) = <<>> -> Refused("Empty")
       [] Trim(line) # <<>> /\ kind = 0 -> Refused("Unknown")
       [] OTHER -> ParseArguments(Kinds[kind], RestOf(line))

-------------------------------------------------------------------------------
(* The packet.  Versions: those that know neither the transfer packet nor  *)
(* numbers for the parsers, those that know the numbers, and those that    *)
(* know both.                                                              *)
V1_13 == 1
V1_19 == 2
V1_20_5 == 3
Versions == V1_13 .. V1_20_5

Float(name, min, max) == [name |-> name, parser |-> "float", min |-> min, max |-> max]
Integer(name, min, max) == [name |-> name, parser |-> "integer", min |-> min, max |-> max]
String(name, behavior) == [name |-> name, parser |-> "string", behavior |-> behavior]

(* What send_commands_packet offers of a kind, under each of its aliases:  *)
(* /server is never among them.                                            *)
Arguments(kind) ==
  CASE kind = "fly_speed" -> <<Float("speed", 0, 100)>>
    [] kind = "transfer" -> <<String("hostname", "SingleWord"), Integer("port", 0, 65535)>>
    [] kind = "msg" -> <<String("player", "SingleWord"), String("message", "GreedyPhrase")>>
    [] kind = "reply" -> <<String("message", "GreedyPhrase")>>
    [] OTHER -> <<>>
Required(kind) ==
  CASE kind = "msg" -> 2 [] kind \in {"transfer", "reply"} -> 1 [] OTHER -> 0

Offered(config, version) ==
  LET named == [k \in DOMAIN Kinds |-> [alias |-> config[Kinds[k]], kind |-> Kinds[k]]]
               \o [i \in DOMAIN config.reply_aliases |->
                     [alias |-> config.reply_aliases[i], kind |-> "reply"]]
      isSent(c) == /\ c.alias # Empty /\ c.kind # "server"
                   /\ c.kind = "transfer" => version >= V1_20_5
      sent == SelectSeq(named, isSent)
  IN [i \in DOMAIN sent |-> [alias |-> sent[i].alias, arguments |-> Arguments(sent[i].kind),
                             required |-> Required(sent[i].kind)]]

(* Node indices count from zero, the root. *)
Node(type, name, executable, children, argument) ==
  [type |-> type, name |-> name, executable |-> executable, children |-> children, argument |-> argument]

(* CommandsPacket::new: a command's literal, then its arguments, each the  *)
(* only child of the node before it.  The code compares the distance to    *)
(* that node, which is always one, with the number of required arguments.  *)
WithCommand(nodes, command) ==
  LET n == Len(command.arguments)
      next(i) == IF i < n THEN <<Len(nodes) + i + 1>> ELSE <<>>
      argument(i) == Node("argument", command.arguments[i].name, 1 >= command.required, next(i),
                          <<command.arguments[i]>>)
  IN nodes \o <<Node("literal", command.alias, command.required < 1, next(0), <<>>)>>
           \o [i \in 1..n |-> argument(i)]

Nodes(commands) ==
  LET nodes == FoldLeft(WithCommand, <<Node("root", "", FALSE, <<>>, <<>>)>>, commands)
      literals == SelectSeq([i \in DOMAIN nodes |-> i - 1], LAMBDA i : nodes[i + 1].type = "literal")
  IN [nodes EXCEPT ![1].children = literals]

(* The fields of a node on the wire. *)
TypeIds == [root |-> 0, literal |-> 1, argument |-> 2]
BehaviorIds == [SingleWord |-> 0, QuotablePhrase |-> 1, GreedyPhrase |-> 2]
ParserId(parser, version) ==
  IF version >= V1_19 THEN CASE parser = "float" -> 1 [] parser = "integer" -> 3 [] parser = "string" -> 5
  ELSE CASE parser = "float" -> "brigadier:float"
         [] parser = "integer" -> "brigadier:integer"
         [] parser = "string" -> "brigadier:string"
Properties(argument) ==
  IF argument.parser = "string" THEN <<BehaviorIds[argument.behavior]>>
  ELSE <<3, argument.min, argument.max>>

EncodeNode(node, version) ==
  <<TypeIds[node.type] + (IF node.executable THEN 4 ELSE 0), node.children>>
  \o (IF node.type = "root" THEN <<>> ELSE <<node.name>>)
  \o FlattenSeq([i \in DOMAIN node.argument |->
       <<ParserId(node.argument[i].parser, version)>> \o Properties(node.argument[i])])

-------------------------------------------------------------------------------
(* The client's side, as the game reads the packet. *)
ClientParsers(version) ==
  IF version >= V1_19 THEN [n \in {1, 3, 5} |-> CASE n = 1 -> "float" [] n = 3 -> "integer" [] n = 5 -> "string"]
  ELSE [n \in {"brigadier:float", "brigadier:integer", "brigadier:string"} |->
          CASE n = "brigadier:float" -> "float" [] n = "brigadier:integer" -> "integer"
            [] n = "brigadier:string" -> "string"]
ClientNode(fields, version) ==
  LET type == fields[1] % 4
  IN [type |-> type, executable |-> (fields[1] \div 4) % 2 = 1, children |-> fields[2],
      name |-> IF type = 0 THEN "" ELSE fields[3],
      parser |-> IF type = 2 THEN ClientParsers(version)[fields[4]] ELSE "none",
      properties |-> SubSeq(fields, 5, Len(fields))]

(* The words an argument takes, if it takes those from the nth on. *)
Takes(node, words, n) ==
  LET inRange(values) == words[n] \in DOMAIN values
                         /\ values[words[n]] \in node.properties[2] .. node.properties[3]
  IN CASE n > Len(words) -> 0
       [] n <= Len(words) /\ node.parser = "float" -> IF inRange(FloatOf) THEN 1 ELSE 0
       [] n <= Len(words) /\ node.parser = "integer" -> IF inRange(PortOf) THEN 1 ELSE 0
       [] n <= Len(words) /\ node.parser = "string" ->
            IF node.properties[1] = 2 THEN Len(words) - n + 1 ELSE 1

RECURSIVE Completes(_, _, _, _)
Completes(nodes, node, words, n) ==
  \/ n > Len(words) /\ node.executable
  \/ \E i \in ToSet(node.children) :
       LET child == nodes[i + 1]
           taken == IF child.type = 1 THEN IF n <= Len(words) /\ words[n] = child.name THEN 1 ELSE 0
                    ELSE Takes(child, words, n)
       IN taken > 0 /\ Completes(nodes, child, words, n + taken)

(* The client shows the line as a command that can be run. *)
ClientAccepts(config, version, line) ==
  LET nodes == Nodes(Offered(config, version))
      read == [i \in DOMAIN nodes |-> ClientNode(EncodeNode(nodes[i], version), version)]
  IN Completes(read, read[1], Words(line), 1)
===============================================================================
