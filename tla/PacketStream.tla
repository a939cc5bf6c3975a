----------------------------- MODULE PacketStream -----------------------------
(***************************************************************************)
(* The framing of one connection (crates/net) under the select! loop of    *)
(* server/network.rs.                                                      *)
(*                                                                         *)
(* A frame is the VarInt of its length and its content; once compression   *)
(* is on, the content is the VarInt of the uncompressed length, 0 if it is *)
(* not compressed, and the payload.  read_packet is a future that holds    *)
(* the bytes it has taken from the socket.  When another branch of select! *)
(* is ready first, the future is dropped, and these bytes with it.         *)
(***************************************************************************)
EXTENDS VarInt, SequencesExt

CONSTANTS
  Packet,                 \* packets: nonempty sequences of bytes
  MAXIMUM_PACKET_LENGTH,
  Threshold,              \* compression.threshold, or NoCompression
  MaxPackets,             \* bound: packets the client sends
  MaxInterrupts           \* bound: keep-alives and broadcasts while reading

NoCompression == -1

(* A length is a VarInt, and what the client sends fits in a frame, in     *)
(* either format.                                                          *)
FramesFit ==
  /\ MAXIMUM_PACKET_LENGTH \in Nat /\ MAXIMUM_PACKET_LENGTH < 2^(Width - 1)
  /\ Threshold \in Nat \cup {NoCompression}
  /\ \A packet \in Packet :
       /\ packet \in Seq(Byte) \ {<<>>}
       /\ Len(Encode(Len(packet))) + 1 + Len(packet) <= MAXIMUM_PACKET_LENGTH
ASSUME PacketStreamAssumption == FramesFit /\ MaxPackets \in Nat /\ MaxInterrupts \in Nat

VARIABLES
  up,                    \* bytes on their way to the server
  down,                  \* frames on their way to the client
  client_compression,    \* the client has switched to the compressed format
  compression_settings,  \* PacketStream: the server has
  consumed,              \* bytes taken by the read_packet future in progress
  replies,               \* what process_packet has still to do
  sent, received,        \* packets sent by the client, handled by the server
  cancelled,             \* reads dropped with bytes in them
  failures,              \* reads that returned an error other than an end
  interrupts, open

reading == <<consumed, received, cancelled, failures>>
writing == <<down, compression_settings, replies, interrupts>>
clientside == <<client_compression, sent>>
vars == <<up, open, clientside, reading, writing>>

-------------------------------------------------------------------------------
(* Formats *)

(* flate2, external: the payload behind a header that plain data lacks.    *)
ZlibHeader == CONTINUE_BIT + 1
Compress(data) == <<ZlibHeader>> \o data
Decompress(payload) == Tail(payload)
IsCompressed(payload) == payload # <<>> /\ Head(payload) = ZlibHeader

(* write_uncompressed_packet, write_compressed_packet_format *)
WithLength(content) == Encode(Len(content)) \o content
Frame(packet, compression) ==
  CASE ~compression -> WithLength(packet)
    [] compression /\ Len(packet) >= Threshold -> WithLength(Encode(Len(packet)) \o Compress(packet))
    [] OTHER -> WithLength(Encode(0) \o packet)

(* read_and_validate_packet_length on the bytes so far: the length, or why *)
(* there is none.                                                          *)
Length(bytes) ==
  LET length == Decode(bytes)
  IN IF length.error # "none" THEN IF Len(bytes) >= MaxBytes THEN "VarIntTooLong" ELSE "more"
     ELSE CASE length.value < 0 -> "NegativeLength"
            [] length.value > MAXIMUM_PACKET_LENGTH -> "PacketTooLarge"
            [] length.value = 0 -> "ZeroLengthPacket"
            [] OTHER -> "known"

FrameLength(bytes) == LET length == Decode(bytes) IN length.read + length.value

(* The content of a compressed frame; the decompressed size must be the    *)
(* one announced.                                                          *)
Uncompressed_Unmarked(content) ==  \* mutant: 0 is taken for a size as well
  LET size == Decode(content)
      payload == SubSeq(content, size.read + 1, Len(content))
  IN IF size.error = "none" /\ IsCompressed(payload) /\ Len(Decompress(payload)) = size.value
       THEN Decompress(payload) ELSE <<>>

Uncompressed(content) ==
  LET size == Decode(content)
      payload == SubSeq(content, size.read + 1, Len(content))
      accepted == size.error = "none" /\ size.value \in 0 .. MAXIMUM_PACKET_LENGTH
  IN IF accepted /\ size.value = 0 THEN payload
     ELSE IF accepted /\ IsCompressed(payload) /\ Len(Decompress(payload)) = size.value
       THEN Decompress(payload) ELSE <<>>

(* RawPacket::new refuses a packet without an id.                          *)
Content(bytes) ==
  LET content == SubSeq(bytes, Decode(bytes).read + 1, Len(bytes))
  IN IF compression_settings THEN Uncompressed(content) ELSE content

-------------------------------------------------------------------------------
Init ==
  /\ up = <<>> /\ down = <<>>
  /\ client_compression = FALSE /\ compression_settings = FALSE
  /\ consumed = <<>> /\ replies = <<>>
  /\ sent = <<>> /\ received = <<>>
  /\ cancelled = 0 /\ failures = 0 /\ interrupts = 0
  /\ open = TRUE

(* The client, external: after its first packet, the login request, it     *)
(* waits for the answer.                                                   *)
LoggedIn == "LoginSuccess"
SetCompression == "SetCompression"

ClientSend(packet) ==
  /\ open
  /\ Len(sent) < MaxPackets
  /\ sent = <<>> \/ client_compression = (Threshold >= 0)
  /\ sent' = Append(sent, packet)
  /\ up' = up \o Frame(packet, client_compression)
  /\ UNCHANGED <<open, client_compression, reading, writing>>

ClientReceive ==
  /\ down # <<>>
  /\ down' = Tail(down)
  /\ client_compression' = (client_compression \/ Head(down).packet = SetCompression)
  /\ UNCHANGED <<up, open, sent, reading, compression_settings, replies, interrupts>>

(* The task is in select! and its read_packet future is polled.            *)
Polling == open /\ replies = <<>>

(* One byte of the length, or a part of the content as it arrives.         *)
Needed(bytes) ==
  CASE Length(bytes) = "more" -> 1
    [] Length(bytes) = "known" -> FrameLength(bytes) - Len(bytes)
    [] OTHER -> 0

ReadBytes_Short(n) ==  \* mutant: the last byte is never asked for
  /\ Polling /\ n <= Len(up)
  /\ Length(consumed) = "known" => n < Needed(consumed)
  /\ consumed' = consumed \o SubSeq(up, 1, n)
  /\ up' = SubSeq(up, n + 1, Len(up))
  /\ UNCHANGED <<open, clientside, received, cancelled, failures, writing>>

ReadBytes(n) ==
  /\ Polling /\ n <= Len(up)
  /\ consumed' = consumed \o SubSeq(up, 1, n)
  /\ up' = SubSeq(up, n + 1, Len(up))
  /\ UNCHANGED <<open, clientside, received, cancelled, failures, writing>>

(* The whole frame is there: the packet goes to process_packet.  The first *)
(* one is the login, answered by login_start::send_login_packets.          *)
Complete(bytes) == Length(bytes) = "known" /\ Len(bytes) = FrameLength(bytes)

LoginReplies ==
  IF Threshold >= 0 THEN <<SetCompression, "enable", LoggedIn>> ELSE <<LoggedIn>>

ReadPacket ==
  /\ Polling
  /\ Complete(consumed) /\ Content(consumed) # <<>>
  /\ received' = Append(received, Content(consumed))
  /\ consumed' = <<>>
  /\ replies' = IF received = <<>> THEN LoginReplies ELSE <<>>
  /\ UNCHANGED <<up, open, clientside, cancelled, failures, down, compression_settings, interrupts>>

(* Any other outcome is PacketProcessingError::Custom: it is logged and    *)
(* the loop starts the next read where the socket stands.                  *)
ReadFails ==
  /\ Polling
  /\ \/ Length(consumed) \notin {"more", "known"}
     \/ Complete(consumed) /\ Content(consumed) = <<>>
  /\ consumed' = <<>>
  /\ failures' = failures + 1
  /\ UNCHANGED <<up, open, clientside, received, cancelled, writing>>

(* The replies of process_packet, in order; set_compression takes effect   *)
(* for both directions.                                                    *)
Reply ==
  /\ open /\ replies # <<>>
  /\ IF Head(replies) = "enable"
       THEN compression_settings' = TRUE /\ UNCHANGED down
       ELSE /\ down' = Append(down, [packet |-> Head(replies), compressed |-> compression_settings])
            /\ UNCHANGED compression_settings
  /\ replies' = Tail(replies)
  /\ UNCHANGED <<up, open, clientside, reading, interrupts>>

(* Another branch of select! is ready: the read future is dropped, then    *)
(* the branch writes its packet.  The other branches have something to do  *)
(* in Play only, which the older versions enter with the login.            *)
Interrupt ==
  /\ Polling /\ received # <<>>
  /\ interrupts < MaxInterrupts
  /\ interrupts' = interrupts + 1
  /\ cancelled' = cancelled + (IF consumed = <<>> THEN 0 ELSE 1)
  /\ consumed' = <<>>
  /\ down' = Append(down, [packet |-> "KeepAlive", compressed |-> compression_settings])
  /\ UNCHANGED <<up, open, clientside, received, failures, compression_settings, replies>>

(* The socket ends: Disconnected, the task leaves its loop.                *)
Disconnect ==
  /\ Polling
  /\ up = <<>>
  /\ ~Complete(consumed) /\ Length(consumed) \in {"more", "known"}
  /\ open' = FALSE
  /\ UNCHANGED <<up, clientside, reading, writing>>

ServerStep == (\E n \in 1 .. Needed(consumed) : ReadBytes(n)) \/ ReadPacket \/ ReadFails \/ Reply

Next == (\E packet \in Packet : ClientSend(packet)) \/ ClientReceive
        \/ ServerStep \/ Interrupt \/ Disconnect

(* tokio runs a task that has something to do, and the network delivers.   *)
Fairness == WF_vars(ServerStep) /\ WF_vars(ClientReceive)

Spec == Init /\ [][Next]_vars
FairSpec == Spec /\ Fairness

-------------------------------------------------------------------------------
TypeOK ==
  /\ up \in Seq(Byte) /\ consumed \in Seq(Byte)
  /\ client_compression \in BOOLEAN /\ compression_settings \in BOOLEAN /\ open \in BOOLEAN
  /\ sent \in Seq(Packet) /\ Len(sent) <= MaxPackets
  /\ \A i \in DOMAIN received : received[i] \in Seq(Byte) \ {<<>>}
  /\ \A i \in DOMAIN down : down[i].packet \in {SetCompression, LoggedIn, "KeepAlive"}
  /\ cancelled \in 0 .. interrupts /\ interrupts \in 0 .. MaxInterrupts

(* The server handles what the client sent, in order and without errors,   *)
(* across the switch of the format, as long as no read was dropped between *)
(* two bytes of a frame: a lost frame boundary has no other cause.  And    *)
(* every frame reaches the client in the format it reads then.             *)
OnlyCancelledReadsLose ==
  /\ cancelled = 0 => IsPrefix(received, sent) /\ failures = 0
  /\ down # <<>> => Head(down).compressed = client_compression

(* A client whose packets arrive in pieces is still heard: what it sent is *)
(* handled, unless a read was dropped.                                     *)
EverythingArrives == <>[](received = sent \/ cancelled > 0)

-------------------------------------------------------------------------------
(* What a test says and the code does not keep *)

(* packet_stream.rs, test_slow_read_packet and test_two_packets: packets   *)
(* that arrive slowly are read as they were sent.                          *)
SlowPacketsArrive == IsPrefix(received, sent)
===============================================================================
