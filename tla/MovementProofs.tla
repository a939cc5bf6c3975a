----------------------------- MODULE MovementProofs ----------------------------
(***************************************************************************)
(* Proofs about what the observers' clients show of a player, for any       *)
(* observers, heights, speeds, queue capacities and numbers of packets      *)
(* under way.                                                              *)
(***************************************************************************)
EXTENDS Movement, TLAPS, WellFoundedInduction

Pose == [y : Int, crouching : Int]
ToServer == [kind : {"move", "turn", "crouch"}, value : Int]
ToClient == [kind : {"relative", "absolute", "crouch"}, value : Int]

MovementTyped ==
  /\ y \in Int /\ position \in Int /\ session \in Int /\ crouching \in Int
  /\ up \in Seq(ToServer) /\ down \in Seq(Int)
  /\ pending \in [kind : {"none", "movement", "metadata"}, from : Int, to : Int, recipients : SUBSET Observer]
  /\ present \in SUBSET Observer
  /\ phase \in [Observer -> {"out", "registered", "sending", "planned", "play"}]
  /\ spawn \in [Observer -> Pose] /\ view \in [Observer -> Pose]
  /\ queue \in [Observer -> Seq(ToClient)]
  /\ dropped \in [Observer -> BOOLEAN]

(* What is shown in the end, whatever packets come first                    *)
End(shown, packets) == Showing(shown, packets)[Len(packets)]

(* A plan goes from what was last broadcast to what the session holds now.  *)
PlanIsCurrent ==
  /\ pending.kind = "none" <=> pending = NoPlan
  /\ pending.kind = "movement" => pending.to = session
  /\ pending.kind = "metadata" => pending.to = crouching
  /\ pending.kind # "none" => present \subseteq pending.recipients
  /\ \A o \in present : phase[o] = "play"

(* Who was there before holds the position that the next packet starts      *)
(* from.                                                                   *)
Base == IF pending.kind = "movement" THEN pending.from ELSE session
BaseIsHeld == \A o \in present : ~dropped[o] => End(view[o], queue[o]).y = Base

(* The pose is settled for an observer unless a change of it is about to be *)
(* broadcast to it.                                                        *)
Settled(o) == ~(pending.kind = "metadata" /\ o \in pending.recipients)

(* Whatever is in the queue ends with the player's pose: for an observer    *)
(* without a plan if it started with it, then from what its plan says, and  *)
(* then from what it shows.                                                *)
EndsWithPose(starts, o) ==
  \A shown \in Pose : shown.crouching = starts => End(shown, queue[o]).crouching = crouching
PoseSettlesFor(o) ==
  /\ phase[o] \in {"out", "registered"} => queue[o] = <<>>
  /\ ~dropped[o] /\ Settled(o) =>
       /\ phase[o] = "sending" => EndsWithPose(crouching, o)
       /\ phase[o] = "planned" => EndsWithPose(spawn[o].crouching, o)
       /\ phase[o] = "play" => End(view[o], queue[o]).crouching = crouching
PoseSettles == \A o \in Observer : PoseSettlesFor(o)

-------------------------------------------------------------------------------
(* Induction, by the least number that a claim fails for                    *)

LEMMA LeastOf ==
  ASSUME NEW T, T \subseteq Nat, T # {}
  PROVE  \E n \in T : \A m \in T : n <= m
<1> DEFINE R == OpToRel(<, Nat)
<1>1. IsWellFoundedOn(R, Nat)
  BY NatLessThanWellFounded
<1>2. \A m \in Nat, n \in Nat : m < n => <<m, n>> \in R
  BY DEF OpToRel
<1> HIDE DEF R
<1>3. PICK n \in T : \A m \in T : ~(<<m, n>> \in R)
  BY <1>1, WFMin
<1>4. \A m \in T : ~(m < n)
  BY <1>2, <1>3
<1>5. \A m \in T : n <= m
  BY <1>4
<1> QED
  BY <1>5

LEMMA Induction ==
  ASSUME NEW T, 0 \in T, \A n \in Nat : n \in T => n + 1 \in T
  PROVE  Nat \subseteq T
<1> DEFINE C == Nat \ T
<1> SUFFICES ASSUME C # {} PROVE FALSE
  OBVIOUS
<1>1. PICK n \in C : \A m \in C : n <= m
  BY LeastOf
<1>2. n # 0 /\ n - 1 \in Nat /\ (n - 1) + 1 = n
  BY <1>1
<1>3. n - 1 \in T
  BY <1>1, <1>2
<1> QED
  BY <1>1, <1>2, <1>3

-------------------------------------------------------------------------------
(* What a client shows, packet by packet                                   *)

ShowsFrom(f, shown, packets, n) == f[0] = shown /\ \A i \in 1..n : f[i] = Shown(f[i - 1], packets[i])

LEMMA ShownTyped == ASSUME NEW shown \in Pose, NEW packet \in ToClient PROVE Shown(shown, packet) \in Pose
<1>1. packet.kind \in {"relative", "absolute", "crouch"} /\ packet.value \in Int
  BY DEF ToClient
<1>2. CASE packet.kind = "relative"
  BY <1>1, <1>2 DEF Shown, Pose
<1>3. CASE packet.kind = "absolute"
  BY <1>1, <1>3 DEF Shown, Pose
<1>4. CASE packet.kind = "crouch"
  BY <1>1, <1>4 DEF Shown, Pose
<1> QED
  BY <1>1, <1>2, <1>3, <1>4

(* For any packets there is a way to show them,                             *)
LEMMA ShowingExists ==
  ASSUME NEW shown \in Pose, NEW packets \in Seq(ToClient)
  PROVE  \E f \in [0..Len(packets) -> Pose] : ShowsFrom(f, shown, packets, Len(packets))
<1> DEFINE T == {n \in Nat : n <= Len(packets) => \E f \in [0..n -> Pose] : ShowsFrom(f, shown, packets, n)}
<1>1. 0 \in T
  <2> DEFINE f == [i \in 0..0 |-> shown]
  <2>1. f \in [0..0 -> Pose] /\ ShowsFrom(f, shown, packets, 0)
    BY DEF ShowsFrom
  <2> QED
    BY <2>1
<1>2. ASSUME NEW n \in Nat, n \in T PROVE n + 1 \in T
  <2> SUFFICES ASSUME n + 1 <= Len(packets) PROVE \E f \in [0..n + 1 -> Pose] : ShowsFrom(f, shown, packets, n + 1)
    OBVIOUS
  <2>1. n <= Len(packets) /\ Len(packets) \in Nat /\ n + 1 \in 1..Len(packets)
    OBVIOUS
  <2>2. PICK f \in [0..n -> Pose] : ShowsFrom(f, shown, packets, n)
    BY <1>2, <2>1
  <2>3. Shown(f[n], packets[n + 1]) \in Pose
    <3>1. f[n] \in Pose /\ packets[n + 1] \in ToClient
      BY <2>1
    <3> QED
      BY <3>1, ShownTyped
  <2> DEFINE g == [i \in 0..n + 1 |-> IF i <= n THEN f[i] ELSE Shown(f[n], packets[n + 1])]
  <2>4. g \in [0..n + 1 -> Pose]
    BY <2>3
  <2>5. \A i \in 1..n + 1 : g[i] = Shown(g[i - 1], packets[i])
    <3> TAKE i \in 1..n + 1
    <3>1. CASE i <= n
      <4>1. g[i] = f[i] /\ g[i - 1] = f[i - 1] /\ i \in 1..n
        BY <3>1
      <4> QED
        BY <2>2, <4>1 DEF ShowsFrom
    <3>2. CASE i = n + 1
      <4>1. g[n + 1] = Shown(f[n], packets[n + 1]) /\ g[n] = f[n] /\ i - 1 = n
        BY <3>2
      <4> QED
        BY <3>2, <4>1
    <3> QED
      BY <3>1, <3>2
  <2>6. g[0] = shown
    BY <2>2 DEF ShowsFrom
  <2> HIDE DEF g
  <2> QED
    BY <2>4, <2>5, <2>6 DEF ShowsFrom
<1>3. Len(packets) \in T
  <2> HIDE DEF T
  <2>1. Nat \subseteq T
    BY <1>1, <1>2, Induction
  <2> QED
    BY <2>1
<1> QED
  BY <1>3

(* and there is only one.                                                   *)
LEMMA ShowingUnique ==
  ASSUME NEW shown, NEW packets, NEW n \in Nat, NEW f, NEW g, ShowsFrom(f, shown, packets, n), ShowsFrom(g, shown, packets, n)
  PROVE  f[n] = g[n]
<1> DEFINE T == {m \in Nat : m <= n => f[m] = g[m]}
<1>1. 0 \in T
  BY DEF ShowsFrom
<1>2. ASSUME NEW m \in Nat, m \in T PROVE m + 1 \in T
  <2> SUFFICES ASSUME m + 1 <= n PROVE f[m + 1] = g[m + 1]
    OBVIOUS
  <2>1. m <= n /\ m + 1 \in 1..n /\ (m + 1) - 1 = m
    OBVIOUS
  <2>2. f[m] = g[m]
    BY <1>2, <2>1
  <2> QED
    BY <2>1, <2>2 DEF ShowsFrom
<1>3. n \in T
  <2> HIDE DEF T
  <2> QED
    BY <1>1, <1>2, Induction
<1> QED
  BY <1>3

LEMMA EndOf ==
  ASSUME NEW shown \in Pose, NEW packets \in Seq(ToClient)
  PROVE  /\ ShowsFrom(Showing(shown, packets), shown, packets, Len(packets))
         /\ End(shown, packets) \in Pose
         /\ \A f : ShowsFrom(f, shown, packets, Len(packets)) => f[Len(packets)] = End(shown, packets)
<1> DEFINE F(f) == [i \in 0..Len(packets) |-> IF i = 0 THEN shown ELSE Shown(f[i - 1], packets[i])]
<1>1. Len(packets) \in Nat
  OBVIOUS
<1>2. PICK f \in [0..Len(packets) -> Pose] : ShowsFrom(f, shown, packets, Len(packets))
  BY ShowingExists
<1>3. f = F(f)
  <2>1. \A i \in 0..Len(packets) : f[i] = IF i = 0 THEN shown ELSE Shown(f[i - 1], packets[i])
    <3> TAKE i \in 0..Len(packets)
    <3>1. i # 0 => i \in 1..Len(packets)
      BY <1>1
    <3> QED
      BY <1>2, <3>1 DEF ShowsFrom
  <2> QED
    BY <1>2, <2>1
<1>4. Showing(shown, packets) = CHOOSE g : g = F(g)
  BY DEF Showing
<1>5. Showing(shown, packets) = F(Showing(shown, packets))
  BY <1>3, <1>4
<1>6. ShowsFrom(Showing(shown, packets), shown, packets, Len(packets))
  <2> DEFINE g == Showing(shown, packets)
  <2>1. g = F(g)
    BY <1>5
  <2> HIDE DEF g
  <2>2. g[0] = shown
    BY <1>1, <2>1
  <2>3. \A i \in 1..Len(packets) : g[i] = Shown(g[i - 1], packets[i])
    BY <1>1, <2>1
  <2> QED
    BY <2>2, <2>3 DEF ShowsFrom, g
<1>7. \A h : ShowsFrom(h, shown, packets, Len(packets)) => h[Len(packets)] = End(shown, packets)
  BY <1>1, <1>6, ShowingUnique DEF End
<1>8. f[Len(packets)] \in Pose
  BY <1>1, <1>2
<1> QED
  BY <1>2, <1>6, <1>7, <1>8

LEMMA EndOfNone == ASSUME NEW shown \in Pose PROVE End(shown, <<>>) = shown
<1> DEFINE none == <<>>
<1>1. none \in Seq(ToClient) /\ Len(none) = 0
  OBVIOUS
<1> HIDE DEF none
<1>2. ShowsFrom(Showing(shown, none), shown, none, 0)
  BY <1>1, EndOf
<1> QED
  BY <1>1, <1>2 DEF ShowsFrom, End, none

LEMMA EndOfMore ==
  ASSUME NEW shown \in Pose, NEW packets \in Seq(ToClient), NEW packet \in ToClient
  PROVE  End(shown, Append(packets, packet)) = Shown(End(shown, packets), packet)
<1> DEFINE more == Append(packets, packet)
           n == Len(packets)
           f == Showing(shown, packets)
           g == [i \in 0..n + 1 |-> IF i <= n THEN f[i] ELSE Shown(f[n], packet)]
<1>1. n \in Nat /\ more \in Seq(ToClient) /\ Len(more) = n + 1 /\ more[n + 1] = packet /\ \A i \in 1..n : more[i] = packets[i]
  OBVIOUS
<1> HIDE DEF more
<1>2. ShowsFrom(f, shown, packets, n)
  BY EndOf
<1> HIDE DEF f, n
<1>3. \A i \in 1..n + 1 : g[i] = Shown(g[i - 1], more[i])
  <2> TAKE i \in 1..n + 1
  <2>1. CASE i <= n
    <3>1. g[i] = f[i] /\ g[i - 1] = f[i - 1] /\ i \in 1..n
      BY <1>1, <2>1
    <3> QED
      BY <1>1, <1>2, <3>1 DEF ShowsFrom
  <2>2. CASE i = n + 1
    <3>1. g[n + 1] = Shown(f[n], packet) /\ g[n] = f[n] /\ i - 1 = n
      BY <1>1, <2>2
    <3> QED
      BY <1>1, <2>2, <3>1
  <2> QED
    BY <1>1, <2>1, <2>2
<1>4. g[0] = shown /\ g[n + 1] = Shown(f[n], packet)
  BY <1>1, <1>2 DEF ShowsFrom
<1> HIDE DEF g
<1>5. ShowsFrom(g, shown, more, Len(more))
  BY <1>1, <1>3, <1>4 DEF ShowsFrom
<1>6. g[Len(more)] = End(shown, more)
  BY <1>1, <1>5, EndOf
<1> QED
  BY <1>1, <1>4, <1>6 DEF End, f, n, more

LEMMA EndOfRest ==
  ASSUME NEW shown \in Pose, NEW packets \in Seq(ToClient), packets # <<>>
  PROVE  End(Shown(shown, Head(packets)), Tail(packets)) = End(shown, packets)
<1> DEFINE rest == Tail(packets)
           n == Len(rest)
           f == Showing(shown, packets)
           g == [i \in 0..n |-> f[i + 1]]
           next == Shown(shown, Head(packets))
<1>1. /\ n \in Nat /\ rest \in Seq(ToClient) /\ Len(packets) = n + 1 /\ Head(packets) = packets[1] /\ packets[1] \in ToClient
      /\ \A i \in 1..n : rest[i] = packets[i + 1]
  OBVIOUS
<1> HIDE DEF rest
<1>2. ShowsFrom(f, shown, packets, n + 1) /\ f[n + 1] = End(shown, packets)
  BY <1>1, EndOf DEF End
<1> HIDE DEF f, n
<1>3. g[0] = next
  <2>1. 1 \in 1..n + 1 /\ g[0] = f[1] /\ 1 - 1 = 0
    BY <1>1
  <2> QED
    BY <1>1, <1>2, <2>1 DEF ShowsFrom
<1>4. \A i \in 1..n : g[i] = Shown(g[i - 1], rest[i])
  <2> TAKE i \in 1..n
  <2>1. g[i] = f[i + 1] /\ g[i - 1] = f[i] /\ i + 1 \in 1..n + 1 /\ (i + 1) - 1 = i
    BY <1>1
  <2>2. f[i + 1] = Shown(f[i], packets[i + 1])
    BY <1>2, <2>1 DEF ShowsFrom
  <2> QED
    BY <1>1, <2>1, <2>2
<1>5. g[n] = f[n + 1]
  BY <1>1
<1> HIDE DEF g
<1>6. next \in Pose
  BY <1>1, ShownTyped
<1> HIDE DEF next
<1>7. ShowsFrom(g, next, rest, Len(rest))
  BY <1>1, <1>3, <1>4 DEF ShowsFrom, n
<1>8. g[Len(rest)] = End(next, rest)
  BY <1>1, <1>6, <1>7, EndOf
<1>9. Len(rest) = n
  BY DEF n
<1> QED
  BY <1>2, <1>5, <1>8, <1>9 DEF next, rest

-------------------------------------------------------------------------------
(* Types                                                                   *)

LEMMA Takes1 ==
  ASSUME MovementTyped, NEW kinds, Takes(kinds)
  PROVE  /\ up' \in Seq(ToServer) /\ pending = NoPlan /\ Head(up) \in ToServer
         /\ Head(up).kind \in kinds /\ Head(up).value \in Int
<1>1. up \in Seq(ToServer) /\ up # <<>> /\ up' = Tail(up) /\ pending = NoPlan /\ Head(up).kind \in kinds
  BY DEF Takes, MovementTyped
<1>2. Head(up) \in ToServer /\ up' \in Seq(ToServer)
  BY <1>1
<1>3. Head(up).value \in Int
  BY <1>2 DEF ToServer
<1> QED
  BY <1>1, <1>2, <1>3

LEMMA SendTyped ==
  ASSUME MovementTyped, NEW kind \in {"move", "turn", "crouch"}, NEW value \in Int, Send(kind, value)
  PROVE  up' \in Seq(ToServer)
<1>1. [kind |-> kind, value |-> value] \in ToServer
  BY DEF ToServer
<1> QED
  BY <1>1 DEF Send, MovementTyped

LEMMA HeightsTyped == /\ {Bottom, MinY, SpawnY, Top} \subseteq Int /\ MaxFall \in Nat /\ FallSpeed \in Nat
                      /\ \A o \in Observer : Quantum[o] \in Nat \ {0}
BY MovementAssumption

LEMMA DivInt == ASSUME NEW n \in Int, NEW m \in Nat \ {0} PROVE n \div m \in Int
OBVIOUS

(* A plan, and what it becomes for a client                                 *)
LEMMA PacketsOf ==
  ASSUME MovementTyped, NEW o \in Observer
  PROVE  \/ Packets(pending, Quantum[o]) = <<>> /\ pending.kind # "metadata" /\ pending.to = pending.from
         \/ \E packet \in ToClient :
              /\ Packets(pending, Quantum[o]) = <<packet>>
              /\ IF pending.kind = "metadata" THEN packet.kind = "crouch" /\ packet.value = pending.to
                 ELSE /\ packet.kind \in {"relative", "absolute"}
                      /\ packet.kind = "relative" => packet.value = Rounded(pending.to - pending.from, Quantum[o]) * Quantum[o]
                      /\ packet.kind = "absolute" => packet.value = Floored(pending.to, Quantum[o])
<1> DEFINE q == Quantum[o]
           steps == Rounded(pending.to - pending.from, q)
<1>1. q \in Nat \ {0} /\ pending.from \in Int /\ pending.to \in Int
  BY HeightsTyped DEF MovementTyped
<1> HIDE DEF q
<1>2. steps \in Int
  <2>1. pending.to - pending.from \in Int
    BY <1>1
  <2>2. \A delta \in Int : Distance(delta, 0) \in Int
    BY DEF Distance
  <2>3. (2 * Distance(pending.to - pending.from, 0) + q) \div (2 * q) \in Int
    <3> DEFINE n == 2 * Distance(pending.to - pending.from, 0) + q
    <3>1. n \in Int
      BY <1>1, <2>1, <2>2
    <3>2. 2 * q \in Nat \ {0}
      BY <1>1
    <3> HIDE DEF n
    <3>4. n \div (2 * q) \in Int
      BY <3>1, <3>2, DivInt
    <3> QED
      BY <3>4 DEF n
  <2> QED
    BY <2>3 DEF Rounded
<1>3. Floored(pending.to, q) \in Int
  <2>1. pending.to \div q \in Int
    BY <1>1, DivInt
  <2> QED
    BY <1>1, <2>1 DEF Floored
<1>4. steps * q \in Int
  BY <1>1, <1>2
<1> HIDE DEF steps
<1>5. \/ pending.kind = "metadata" /\ Packets(pending, q) = <<[kind |-> "crouch", value |-> pending.to]>>
      \/ pending.kind # "metadata" /\ pending.to = pending.from /\ Packets(pending, q) = <<>>
      \/ pending.kind # "metadata" /\ Packets(pending, q) = <<[kind |-> "absolute", value |-> Floored(pending.to, q)]>>
      \/ pending.kind # "metadata" /\ Packets(pending, q) = <<[kind |-> "relative", value |-> steps * q]>>
  BY DEF Packets, steps
<1>6. /\ [kind |-> "crouch", value |-> pending.to] \in ToClient
      /\ [kind |-> "absolute", value |-> Floored(pending.to, q)] \in ToClient
      /\ [kind |-> "relative", value |-> steps * q] \in ToClient
  BY <1>1, <1>3, <1>4 DEF ToClient
<1> QED
  BY <1>5, <1>6 DEF q, steps

(* What a broadcast does for one observer                                   *)
LEMMA BroadcastTo ==
  ASSUME MovementTyped, Broadcast, NEW o \in Observer
  PROVE  /\ queue'[o] \in Seq(ToClient) /\ dropped'[o] \in BOOLEAN
         /\ ~dropped'[o] =>
              /\ ~dropped[o]
              /\ queue'[o] = IF o \in pending.recipients \cap Senders
                             THEN queue[o] \o Packets(pending, Quantum[o]) ELSE queue[o]
         /\ o \notin Senders /\ queue[o] = <<>> => queue'[o] = <<>>
<1> DEFINE to == IF o \in pending.recipients \cap Senders /\ ~dropped[o] THEN Packets(pending, Quantum[o]) ELSE <<>>
           fits == Len(queue[o]) + Len(to) <= QueueCapacity
<1>1. /\ queue'[o] = (IF fits THEN queue[o] \o to ELSE <<>>)
      /\ dropped'[o] = (dropped[o] \/ ~fits)
  BY DEF Broadcast
<1>2. to \in Seq(ToClient)
  <2>1. Packets(pending, Quantum[o]) \in Seq(ToClient)
    <3>1. <<>> \in Seq(ToClient) /\ \A packet \in ToClient : <<packet>> \in Seq(ToClient)
      OBVIOUS
    <3> QED
      BY <3>1, PacketsOf
  <2>2. <<>> \in Seq(ToClient)
    OBVIOUS
  <2> QED
    BY <2>1, <2>2
<1>3. queue[o] \in Seq(ToClient) /\ dropped[o] \in BOOLEAN /\ queue[o] \o <<>> = queue[o]
  BY DEF MovementTyped
<1>4. fits \in BOOLEAN
  OBVIOUS
<1> HIDE DEF fits
<1>5. queue'[o] \in Seq(ToClient) /\ dropped'[o] \in BOOLEAN
  <2> HIDE DEF to
  <2> QED
    BY <1>1, <1>2, <1>3, <1>4
<1>6. ~dropped'[o] => ~dropped[o] /\ queue'[o] = queue[o] \o to
  BY <1>1
<1>7. ~dropped[o] => queue[o] \o to = IF o \in pending.recipients \cap Senders
                                      THEN queue[o] \o Packets(pending, Quantum[o]) ELSE queue[o]
  BY <1>3
<1>8. o \notin Senders /\ queue[o] = <<>> => queue'[o] = <<>>
  BY <1>1, <1>3
<1> QED
  BY <1>5, <1>6, <1>7, <1>8

LEMMA PlanTyped ==
  ASSUME MovementTyped, NEW to \in Int, Plan(to)
  PROVE  /\ session' = to
         /\ pending' = [kind |-> "movement", from |-> session, to |-> to, recipients |-> Recipients]
         /\ pending' \in [kind : {"none", "movement", "metadata"}, from : Int, to : Int, recipients : SUBSET Observer]
<1>1. session \in Int /\ Recipients \in SUBSET Observer
  BY DEF MovementTyped, Recipients
<1> QED
  BY <1>1 DEF Plan

LEMMA PlayerTyped ==
  ASSUME MovementTyped, PlayerStep
  PROVE  MovementTyped' /\ UNCHANGED <<task, lobby, observers>>
<1>1. /\ y' \in Int /\ up' \in Seq(ToServer) /\ down' \in Seq(Int)
      /\ UNCHANGED <<task, lobby, observers>>
  <2>1. y \in Int /\ y - 1 \in Int /\ y + 1 \in Int /\ down \in Seq(Int)
    BY DEF MovementTyped
  <2>2. ASSUME NEW to \in {y - 1, y + 1}, Walk(to)
        PROVE  y' \in Int /\ up' \in Seq(ToServer) /\ down' \in Seq(Int) /\ UNCHANGED <<task, lobby, observers>>
    BY <2>1, <2>2, SendTyped DEF Walk
  <2>3. ASSUME Turn
        PROVE  y' \in Int /\ up' \in Seq(ToServer) /\ down' \in Seq(Int) /\ UNCHANGED <<task, lobby, observers>>
    BY <2>1, <2>3, SendTyped DEF Turn
  <2>4. ASSUME NEW by \in 1..MaxFall, Fall(by)
        PROVE  y' \in Int /\ up' \in Seq(ToServer) /\ down' \in Seq(Int) /\ UNCHANGED <<task, lobby, observers>>
    <3>1. y' = (IF y - by < Bottom THEN Bottom ELSE y - by) /\ Send("move", y')
          /\ UNCHANGED <<down, task, lobby, observers>>
      BY <2>4 DEF Fall
    <3>2. y - by \in Int /\ Bottom \in Int
      BY <2>1, HeightsTyped
    <3>3. y' \in Int
      BY <3>1, <3>2
    <3> QED
      BY <2>1, <3>1, <3>3, SendTyped
  <2>5. ASSUME Crouch
        PROVE  y' \in Int /\ up' \in Seq(ToServer) /\ down' \in Seq(Int) /\ UNCHANGED <<task, lobby, observers>>
    BY <2>1, <2>5, SendTyped DEF Crouch
  <2>6. ASSUME Synchronize
        PROVE  y' \in Int /\ up' \in Seq(ToServer) /\ down' \in Seq(Int) /\ UNCHANGED <<task, lobby, observers>>
    <3>1. y' \in Int /\ down' \in Seq(Int) /\ Send("move", y') /\ UNCHANGED <<task, lobby, observers>>
      BY <2>1, <2>6 DEF Synchronize
    <3> QED
      BY <3>1, SendTyped
  <2> QED
    BY <2>2, <2>3, <2>4, <2>5, <2>6 DEF PlayerStep
<1> QED
  BY <1>1 DEF MovementTyped, task, lobby, observers

(* How a movement is handled: at once, or with a plan                       *)
LEMMA HandleMoveDoes ==
  ASSUME MovementTyped, HandleMove
  PROVE  /\ MovementTyped' /\ pending = NoPlan /\ UNCHANGED <<crouching, observers>>
         /\ \/ UNCHANGED <<session, pending>>
            \/ \E to \in Int : /\ session' = to
                               /\ pending' = [kind |-> "movement", from |-> session, to |-> to, recipients |-> Recipients]
<1>1. Takes({"move", "turn"}) /\ UNCHANGED <<y, crouching, observers>>
  BY DEF HandleMove
<1>2. up' \in Seq(ToServer) /\ pending = NoPlan /\ Head(up).value \in Int
  BY <1>1, Takes1
<1>3. PICK to \in Int, turned \in BOOLEAN : FallsOut(to) \/ Moves(to, turned)
  <2> DEFINE turned == Head(up).kind = "turn"
             to == IF turned THEN position ELSE Head(up).value
  <2>1. FallsOut(to) \/ Moves(to, turned)
    BY DEF HandleMove
  <2>2. to \in Int /\ turned \in BOOLEAN
    BY <1>2 DEF MovementTyped
  <2> QED
    BY <2>1, <2>2
<1>4. /\ position' \in Int /\ down' \in Seq(Int)
      /\ UNCHANGED <<session, pending>> \/ \E at \in Int : Plan(at)
  <2>1. SpawnY \in Int /\ down \in Seq(Int)
    BY HeightsTyped DEF MovementTyped
  <2>2. CASE FallsOut(to)
    <3>1. \/ down' = Append(down, SpawnY) /\ position' = SpawnY /\ Plan(SpawnY)
          \/ position' = to /\ UNCHANGED <<down, session, pending>>
      BY <2>2 DEF FallsOut
    <3>2. Append(down, SpawnY) \in Seq(Int)
      BY <2>1
    <3> QED
      BY <2>1, <3>1, <3>2
  <2>3. CASE Moves(to, turned)
    BY <2>1, <2>3 DEF Moves
  <2> QED
    BY <1>3, <2>2, <2>3
<1>5. CASE UNCHANGED <<session, pending>>
  BY <1>1, <1>2, <1>4, <1>5 DEF MovementTyped, observers
<1>6. CASE \E at \in Int : Plan(at)
  <2>1. PICK at \in Int : Plan(at)
    BY <1>6
  <2>2. /\ session' = at
        /\ pending' = [kind |-> "movement", from |-> session, to |-> at, recipients |-> Recipients]
        /\ pending' \in [kind : {"none", "movement", "metadata"}, from : Int, to : Int, recipients : SUBSET Observer]
    BY <2>1, PlanTyped
  <2> QED
    BY <1>1, <1>2, <1>4, <2>2 DEF MovementTyped, observers
<1> QED
  BY <1>4, <1>5, <1>6

LEMMA HandleCrouchDoes ==
  ASSUME MovementTyped, HandleCrouch
  PROVE  /\ MovementTyped' /\ pending = NoPlan /\ UNCHANGED <<session, observers>>
         /\ \/ UNCHANGED <<crouching, pending>>
            \/ pending' = [kind |-> "metadata", from |-> crouching, to |-> crouching', recipients |-> Recipients]
<1>1. Takes({"crouch"}) /\ crouching' = Head(up).value /\ UNCHANGED <<y, down, position, limited, session, observers>>
      /\ pending' = IF crouching' = crouching THEN NoPlan
                    ELSE [kind |-> "metadata", from |-> crouching, to |-> crouching', recipients |-> Recipients]
  BY DEF HandleCrouch
<1>2. up' \in Seq(ToServer) /\ pending = NoPlan /\ Head(up).value \in Int
  BY <1>1, Takes1
<1>3. pending' \in [kind : {"none", "movement", "metadata"}, from : Int, to : Int, recipients : SUBSET Observer]
  <2>1. crouching \in Int /\ Recipients \in SUBSET Observer /\ pending \in [kind : {"none", "movement", "metadata"}, from : Int, to : Int, recipients : SUBSET Observer]
    BY DEF MovementTyped, Recipients
  <2> QED
    BY <1>1, <1>2, <2>1
<1> QED
  BY <1>1, <1>2, <1>3 DEF MovementTyped, observers

LEMMA BroadcastTyped ==
  ASSUME MovementTyped, Broadcast
  PROVE  MovementTyped' /\ pending' = NoPlan /\ UNCHANGED <<present, phase, spawn, view, session, crouching>>
<1>1. pending' = NoPlan /\ UNCHANGED <<present, player, position, limited, lobby, phase, spawn, view>>
      /\ DOMAIN queue' = Observer /\ DOMAIN dropped' = Observer
      /\ queue' = [o \in Observer |-> queue'[o]] /\ dropped' = [o \in Observer |-> dropped'[o]]
  BY DEF Broadcast
<1>2. queue' \in [Observer -> Seq(ToClient)] /\ dropped' \in [Observer -> BOOLEAN]
  BY <1>1, BroadcastTo
<1>3. pending' \in [kind : {"none", "movement", "metadata"}, from : Int, to : Int, recipients : SUBSET Observer]
  BY <1>1 DEF NoPlan
<1> QED
  BY <1>1, <1>2, <1>3 DEF MovementTyped, player, lobby

LEMMA ObserverTyped ==
  ASSUME MovementTyped, NEW o \in Observer, ObserverStep(o)
  PROVE  MovementTyped' /\ UNCHANGED <<present, player, task, lobby, dropped>>
<1> USE DEF MovementTyped, Goto, player, task, lobby
<1>1. CASE Register(o) \/ SetSender(o)
  BY <1>1 DEF Register, SetSender
<1>2. CASE PlanJoin(o)
  <2>1. [y |-> session, crouching |-> crouching] \in Pose
    BY DEF Pose
  <2> QED
    BY <1>2, <2>1 DEF PlanJoin
<1>3. CASE WriteSpawn(o)
  <2>1. [spawn[o] EXCEPT !.y = Floored(@, Quantum[o])] \in Pose
    <3>1. spawn[o].y \in Int /\ Quantum[o] \in Nat \ {0} /\ spawn[o] \in Pose
      BY HeightsTyped DEF Pose
    <3>2. spawn[o].y \div Quantum[o] \in Int
      BY <3>1, DivInt
    <3>3. Floored(spawn[o].y, Quantum[o]) \in Int
      BY <3>1, <3>2 DEF Floored
    <3> QED
      BY <3>1, <3>3 DEF Pose
  <2> QED
    BY <1>3, <2>1 DEF WriteSpawn
<1>4. CASE Receive(o)
  <2>1. queue[o] \in Seq(ToClient) /\ queue[o] # <<>> /\ view[o] \in Pose
    BY <1>4 DEF Receive
  <2>2. Head(queue[o]) \in ToClient /\ Tail(queue[o]) \in Seq(ToClient)
    BY <2>1
  <2>3. Shown(view[o], Head(queue[o])) \in Pose
    BY <2>1, <2>2, ShownTyped
  <2> QED
    BY <1>4, <2>2, <2>3 DEF Receive
<1> QED
  BY <1>1, <1>2, <1>3, <1>4 DEF ObserverStep


-------------------------------------------------------------------------------
(* Plans                                                                   *)

(* What each step does to the plan and to what the session holds            *)
LEMMA StepsAre ==
  ASSUME MovementTyped, Next
  PROVE  /\ MovementTyped'
         /\ \/ UNCHANGED <<pending, session, crouching, observers>>
            \/ /\ pending = NoPlan /\ UNCHANGED <<crouching, observers>>
               /\ \E to \in Int : /\ session' = to
                                  /\ pending' = [kind |-> "movement", from |-> session, to |-> to, recipients |-> Recipients]
            \/ /\ pending = NoPlan /\ UNCHANGED <<session, observers>>
               /\ pending' = [kind |-> "metadata", from |-> crouching, to |-> crouching', recipients |-> Recipients]
            \/ Broadcast
            \/ UNCHANGED <<present, pending, session, crouching, dropped>> /\ \E o \in Observer : ObserverStep(o)
<1>1. CASE PlayerStep
  BY <1>1, PlayerTyped DEF task, lobby
<1>2. CASE HandleMove
  BY <1>2, HandleMoveDoes
<1>3. CASE HandleCrouch
  BY <1>3, HandleCrouchDoes
<1>4. CASE Broadcast
  BY <1>4, BroadcastTyped
<1>5. CASE IntervalPasses
  BY <1>5 DEF IntervalPasses, MovementTyped, player, lobby, observers
<1>6. CASE \E o \in Observer : ObserverStep(o)
  BY <1>6, ObserverTyped DEF task, lobby
<1> QED
  BY <1>1, <1>2, <1>3, <1>4, <1>5, <1>6 DEF Next, TaskStep

(* An observer's step concerns nobody else, and nobody leaves play.         *)
LEMMA OthersStay ==
  ASSUME MovementTyped, NEW o \in Observer, ObserverStep(o)
  PROVE  /\ \A p \in Observer \ {o} : phase'[p] = phase[p] /\ spawn'[p] = spawn[p] /\ view'[p] = view[p] /\ queue'[p] = queue[p]
         /\ phase[o] = "play" => phase'[o] = "play" /\ Receive(o)
<1> USE DEF MovementTyped
<1>1. CASE Register(o)
  BY <1>1 DEF Register, Goto
<1>2. CASE SetSender(o)
  BY <1>2 DEF SetSender, Goto
<1>3. CASE PlanJoin(o)
  BY <1>3 DEF PlanJoin, Goto
<1>4. CASE WriteSpawn(o)
  BY <1>4 DEF WriteSpawn, Goto
<1>5. CASE Receive(o)
  BY <1>5 DEF Receive
<1> QED
  BY <1>1, <1>2, <1>3, <1>4, <1>5 DEF ObserverStep

LEMMA PlansAreCurrent ==
  ASSUME MovementTyped, PlanIsCurrent, Next
  PROVE  PlanIsCurrent'
<1>1. /\ NoPlan.kind = "none" /\ \A o \in present : phase[o] = "play"
      /\ present \subseteq Observer
  BY DEF NoPlan, PlanIsCurrent, MovementTyped
<1>2. present \subseteq Recipients
  BY <1>1 DEF Recipients
<1>3. CASE UNCHANGED <<pending, session, crouching, observers>>
  BY <1>3 DEF PlanIsCurrent, observers
<1>4. CASE /\ UNCHANGED <<crouching, observers>>
           /\ \E to \in Int : /\ session' = to
                              /\ pending' = [kind |-> "movement", from |-> session, to |-> to, recipients |-> Recipients]
  BY <1>1, <1>2, <1>4 DEF PlanIsCurrent, observers
<1>5. CASE /\ UNCHANGED <<session, observers>>
           /\ pending' = [kind |-> "metadata", from |-> crouching, to |-> crouching', recipients |-> Recipients]
  BY <1>1, <1>2, <1>5 DEF PlanIsCurrent, observers
<1>6. CASE Broadcast
  BY <1>1, <1>6, BroadcastTyped DEF PlanIsCurrent
<1>7. CASE UNCHANGED <<present, pending, session, crouching, dropped>> /\ \E o \in Observer : ObserverStep(o)
  <2>1. \A o \in present : phase'[o] = "play"
    BY <1>1, <1>7, OthersStay
  <2> QED
    BY <1>7, <2>1 DEF PlanIsCurrent
<1> QED
  BY <1>3, <1>4, <1>5, <1>6, <1>7, StepsAre

LEMMA ShownIs ==
  ASSUME NEW shown \in Pose, NEW packet \in ToClient
  PROVE  /\ packet.kind = "crouch" => Shown(shown, packet).crouching = packet.value /\ Shown(shown, packet).y = shown.y
         /\ packet.kind # "crouch" => Shown(shown, packet).crouching = shown.crouching
         /\ packet.kind = "relative" => Shown(shown, packet).y = shown.y + packet.value
         /\ packet.kind = "absolute" => Shown(shown, packet).y = packet.value
<1>1. packet.kind \in {"relative", "absolute", "crouch"}
  BY DEF ToClient
<1> QED
  BY <1>1 DEF Shown, Pose

-------------------------------------------------------------------------------
(* The pose                                                                *)

(* A broadcast crouch packet settles it, and movements leave it.            *)
LEMMA PoseAfterBroadcast ==
  ASSUME MovementTyped, PlanIsCurrent, Broadcast, NEW o \in Observer, o \in pending.recipients \cap Senders, ~dropped'[o],
         NEW shown \in Pose, Settled(o) => End(shown, queue[o]).crouching = crouching
  PROVE  End(shown, queue'[o]).crouching = crouching
<1>1. queue'[o] = queue[o] \o Packets(pending, Quantum[o]) /\ queue[o] \in Seq(ToClient)
  BY BroadcastTo DEF MovementTyped
<1>2. CASE Packets(pending, Quantum[o]) = <<>> /\ pending.kind # "metadata"
  <2>1. queue'[o] = queue[o]
    BY <1>1, <1>2
  <2> QED
    BY <1>2, <2>1 DEF Settled
<1>3. ASSUME NEW packet \in ToClient, Packets(pending, Quantum[o]) = <<packet>>,
             IF pending.kind = "metadata" THEN packet.kind = "crouch" /\ packet.value = pending.to
             ELSE packet.kind \in {"relative", "absolute"}
      PROVE  End(shown, queue'[o]).crouching = crouching
  <2>1. queue'[o] = Append(queue[o], packet)
    BY <1>1, <1>3
  <2>2. End(shown, queue'[o]) = Shown(End(shown, queue[o]), packet) /\ End(shown, queue[o]) \in Pose
    BY <1>1, <2>1, EndOf, EndOfMore
  <2>3. CASE pending.kind = "metadata"
    BY <1>3, <2>2, <2>3, ShownIs DEF PlanIsCurrent
  <2>4. CASE pending.kind # "metadata"
    BY <1>3, <2>2, <2>4, ShownIs DEF Settled
  <2> QED
    BY <2>3, <2>4
<1> QED
  BY <1>2, <1>3, PacketsOf

LEMMA PoseOnBroadcast ==
  ASSUME MovementTyped, PlanIsCurrent, PoseSettles, Broadcast
  PROVE  PoseSettles'
<1> SUFFICES ASSUME NEW o \in Observer PROVE PoseSettlesFor(o)'
  BY DEF PoseSettles
<1>1. /\ PoseSettlesFor(o)
      /\ UNCHANGED <<phase, spawn, view, crouching>>
  BY BroadcastTyped DEF PoseSettles
<1>2. phase[o] \in {"out", "registered"} => queue'[o] = <<>>
  <2>1. phase[o] \in {"out", "registered"} => o \notin Senders /\ queue[o] = <<>>
    BY <1>1 DEF Senders, PoseSettlesFor
  <2> QED
    BY <2>1, BroadcastTo
<1>3. CASE dropped'[o]
  BY <1>1, <1>2, <1>3 DEF PoseSettlesFor
<1>4. CASE ~dropped'[o] /\ o \in pending.recipients \cap Senders
  <2>1. ~dropped[o] /\ view[o] \in Pose
    BY <1>4, BroadcastTo DEF MovementTyped
  <2>2. \A shown \in Pose : (Settled(o) => End(shown, queue[o]).crouching = crouching) => End(shown, queue'[o]).crouching = crouching
    BY <1>4, PoseAfterBroadcast
  <2>3. phase[o] = "sending" => \A shown \in Pose : shown.crouching = crouching => End(shown, queue'[o]).crouching = crouching
    BY <1>1, <2>1, <2>2 DEF PoseSettlesFor, EndsWithPose
  <2>4. phase[o] = "planned" => \A shown \in Pose : shown.crouching = spawn[o].crouching => End(shown, queue'[o]).crouching = crouching
    BY <1>1, <2>1, <2>2 DEF PoseSettlesFor, EndsWithPose
  <2>5. phase[o] = "play" => End(view[o], queue'[o]).crouching = crouching
    BY <1>1, <2>1, <2>2 DEF PoseSettlesFor
  <2> QED
    BY <1>1, <1>2, <2>3, <2>4, <2>5 DEF PoseSettlesFor, EndsWithPose
<1>5. CASE ~dropped'[o] /\ o \notin pending.recipients \cap Senders
  <2>1. ~dropped[o] /\ queue'[o] = queue[o]
    BY <1>5, BroadcastTo
  <2>2. CASE Settled(o)
    BY <1>1, <2>1, <2>2 DEF PoseSettlesFor, EndsWithPose
  <2>3. CASE ~Settled(o)
    <3>1. o \notin Senders
      BY <1>5, <2>3 DEF Settled
    <3> QED
      BY <1>1, <1>2, <3>1 DEF PoseSettlesFor, Senders
  <2> QED
    BY <2>2, <2>3
<1> QED
  BY <1>3, <1>4, <1>5

LEMMA PoseOnObserver ==
  ASSUME MovementTyped, PoseSettles, NEW o \in Observer, ObserverStep(o),
         UNCHANGED <<pending, session, crouching, dropped>>, MovementTyped'
  PROVE  PoseSettles'
<1>1. ASSUME NEW p \in Observer \ {o} PROVE PoseSettlesFor(p)'
  <2>1. phase'[p] = phase[p] /\ spawn'[p] = spawn[p] /\ view'[p] = view[p] /\ queue'[p] = queue[p]
    BY OthersStay
  <2>2. PoseSettlesFor(p)
    BY DEF PoseSettles
  <2> QED
    BY <2>1, <2>2 DEF PoseSettlesFor, EndsWithPose, Settled
<1>2. PoseSettlesFor(o)'
  <2>0. PoseSettlesFor(o) /\ queue[o] \in Seq(ToClient) /\ view[o] \in Pose /\ spawn[o] \in Pose /\ view'[o] \in Pose
    BY DEF PoseSettles, MovementTyped
  <2>1. CASE Register(o)
    <3>1. phase[o] = "out" /\ phase'[o] = "registered" /\ queue'[o] = queue[o]
      BY <2>1 DEF Register, Goto, MovementTyped
    <3> QED
      BY <2>0, <3>1 DEF PoseSettlesFor
  <2>2. CASE SetSender(o)
    <3>1. phase[o] = "registered" /\ phase'[o] = "sending" /\ queue'[o] = queue[o]
      BY <2>2 DEF SetSender, Goto, MovementTyped
    <3>2. queue'[o] = <<>>
      BY <2>0, <3>1 DEF PoseSettlesFor
    <3>3. \A shown \in Pose : End(shown, queue'[o]) = shown
      BY <3>2, EndOfNone
    <3> QED
      BY <3>1, <3>2, <3>3 DEF PoseSettlesFor, EndsWithPose
  <2>3. CASE PlanJoin(o)
    <3>1. phase[o] = "sending" /\ phase'[o] = "planned" /\ queue'[o] = queue[o] /\ spawn'[o] = [y |-> session, crouching |-> crouching]
      BY <2>3 DEF PlanJoin, Goto, MovementTyped
    <3>2. spawn'[o].crouching = crouching
      BY <3>1
    <3> QED
      BY <2>0, <3>1, <3>2 DEF PoseSettlesFor, EndsWithPose, Settled
  <2>4. CASE WriteSpawn(o)
    <3>1. phase[o] = "planned" /\ phase'[o] = "play" /\ queue'[o] = queue[o] /\ view'[o].crouching = spawn[o].crouching
      BY <2>4 DEF WriteSpawn, Goto, MovementTyped, Pose
    <3> QED
      BY <2>0, <3>1 DEF PoseSettlesFor, EndsWithPose, Settled
  <2>5. CASE Receive(o)
    <3>1. /\ phase[o] = "play" /\ phase'[o] = "play" /\ queue[o] # <<>>
          /\ view'[o] = Shown(view[o], Head(queue[o])) /\ queue'[o] = Tail(queue[o])
      BY <2>5 DEF Receive, MovementTyped
    <3>2. End(view'[o], queue'[o]) = End(view[o], queue[o])
      BY <2>0, <3>1, EndOfRest
    <3> QED
      BY <2>0, <3>1, <3>2 DEF PoseSettlesFor, Settled
  <2> QED
    BY <2>1, <2>2, <2>3, <2>4, <2>5 DEF ObserverStep
<1> QED
  BY <1>1, <1>2 DEF PoseSettles

LEMMA PoseStays ==
  ASSUME MovementTyped, PlanIsCurrent, PoseSettles, Next
  PROVE  PoseSettles'
<1>1. NoPlan.kind = "none"
  BY DEF NoPlan
<1>2. CASE UNCHANGED <<pending, session, crouching, observers>>
  BY <1>2 DEF PoseSettles, PoseSettlesFor, EndsWithPose, Settled, observers
<1>3. CASE /\ pending = NoPlan /\ UNCHANGED <<crouching, observers>>
           /\ \E to \in Int : /\ session' = to
                              /\ pending' = [kind |-> "movement", from |-> session, to |-> to, recipients |-> Recipients]
  <2>1. \A o \in Observer : Settled(o)
    BY <1>1, <1>3 DEF Settled
  <2> QED
    BY <1>3, <2>1 DEF PoseSettles, PoseSettlesFor, EndsWithPose, observers
<1>4. CASE /\ pending = NoPlan /\ UNCHANGED <<session, observers>>
           /\ pending' = [kind |-> "metadata", from |-> crouching, to |-> crouching', recipients |-> Recipients]
  <2> SUFFICES ASSUME NEW o \in Observer PROVE PoseSettlesFor(o)'
    BY DEF PoseSettles
  <2>1. PoseSettlesFor(o) /\ phase'[o] = phase[o] /\ queue'[o] = queue[o]
    BY <1>4 DEF PoseSettles, observers
  <2>2. CASE phase[o] = "out"
    BY <2>1, <2>2 DEF PoseSettlesFor
  <2>3. CASE phase[o] # "out"
    <3>1. ~Settled(o)'
      BY <1>4, <2>3 DEF Settled, Recipients
    <3> QED
      BY <2>1, <3>1 DEF PoseSettlesFor
  <2> QED
    BY <2>2, <2>3
<1>5. CASE Broadcast
  BY <1>5, PoseOnBroadcast
<1>6. CASE UNCHANGED <<present, pending, session, crouching, dropped>> /\ \E o \in Observer : ObserverStep(o)
  BY <1>6, PoseOnObserver, StepsAre
<1> QED
  BY <1>2, <1>3, <1>4, <1>5, <1>6, StepsAre

-------------------------------------------------------------------------------
(* The position                                                            *)

(* Clients that show every unit take the steps that were planned.           *)
LEMMA FineSteps ==
  ASSUME NEW delta \in Int
  PROVE  Rounded(delta, 1) * 1 = delta /\ Floored(delta, 1) = delta
<1> DEFINE d == Distance(delta, 0)
<1>1. d = (IF delta < 0 THEN -delta ELSE delta) /\ d \in Int
  BY DEF Distance
<1>2. (2 * d + 1) \div (2 * 1) = d
  <2> HIDE DEF d
  <2> QED
    BY <1>1
<1>3. Rounded(delta, 1) = IF delta < 0 THEN -d ELSE d
  BY <1>2 DEF Rounded
<1>4. Floored(delta, 1) = delta
  BY DEF Floored
<1> QED
  BY <1>1, <1>3, <1>4

LEMMA BaseOnBroadcast ==
  ASSUME MovementTyped, PlanIsCurrent, Broadcast, NEW o \in present, Quantum[o] = 1, ~dropped'[o],
         ~dropped[o] => End(view[o], queue[o]).y = Base
  PROVE  End(view[o], queue'[o]).y = session
<1>1. o \in Observer /\ phase[o] = "play" /\ pending.kind # "none" /\ o \in pending.recipients \cap Senders
  BY DEF MovementTyped, PlanIsCurrent, Broadcast, Senders
<1>2. /\ queue'[o] = queue[o] \o Packets(pending, Quantum[o]) /\ End(view[o], queue[o]).y = Base
      /\ queue[o] \in Seq(ToClient) /\ view[o] \in Pose /\ End(view[o], queue[o]) \in Pose
  BY <1>1, BroadcastTo, EndOf DEF MovementTyped
<1>3. /\ pending.kind \in {"movement", "metadata"} /\ pending.from \in Int /\ pending.to \in Int
      /\ pending.kind = "movement" => pending.to = session /\ Base = pending.from
      /\ pending.kind = "metadata" => Base = session
  BY <1>1 DEF MovementTyped, PlanIsCurrent, Base
<1>4. CASE Packets(pending, Quantum[o]) = <<>> /\ pending.kind # "metadata" /\ pending.to = pending.from
  <2>1. queue'[o] = queue[o]
    BY <1>2, <1>4
  <2> QED
    BY <1>2, <1>3, <1>4, <2>1
<1>5. ASSUME NEW packet \in ToClient, Packets(pending, Quantum[o]) = <<packet>>,
             IF pending.kind = "metadata" THEN packet.kind = "crouch" /\ packet.value = pending.to
             ELSE /\ packet.kind \in {"relative", "absolute"}
                  /\ packet.kind = "relative" => packet.value = Rounded(pending.to - pending.from, Quantum[o]) * Quantum[o]
                  /\ packet.kind = "absolute" => packet.value = Floored(pending.to, Quantum[o])
      PROVE  End(view[o], queue'[o]).y = session
  <2>1. queue'[o] = Append(queue[o], packet)
    <3>1. queue'[o] = queue[o] \o <<packet>> /\ queue[o] \in Seq(ToClient)
      BY <1>2, <1>5
    <3> QED
      BY <3>1
  <2>2. End(view[o], queue'[o]) = Shown(End(view[o], queue[o]), packet)
    <3>1. view[o] \in Pose /\ queue[o] \in Seq(ToClient)
      BY <1>2
    <3> QED
      BY <2>1, <3>1, EndOfMore
  <2>3. CASE pending.kind = "metadata"
    BY <1>2, <1>3, <1>5, <2>2, <2>3, ShownIs
  <2>4. CASE pending.kind = "movement"
    <3>1. pending.to - pending.from \in Int /\ pending.from + (pending.to - pending.from) = pending.to
      BY <1>3
    <3>2. packet.kind \in {"relative", "absolute"}
      BY <1>5, <2>4
    <3>3. CASE packet.kind = "relative"
      <4>1. packet.value = pending.to - pending.from
        BY <1>5, <2>4, <3>1, <3>3, FineSteps
      <4>2. End(view[o], queue'[o]).y = pending.from + packet.value
        BY <1>2, <1>3, <2>2, <2>4, <3>3, ShownIs
      <4> QED
        BY <1>3, <2>4, <3>1, <4>1, <4>2
    <3>4. CASE packet.kind = "absolute"
      <4>1. packet.value = pending.to
        BY <1>3, <1>5, <2>4, <3>4, FineSteps
      <4> QED
        BY <1>2, <1>3, <2>2, <2>4, <3>4, <4>1, ShownIs
    <3> QED
      BY <3>2, <3>3, <3>4
  <2> QED
    BY <1>3, <2>3, <2>4
<1> QED
  BY <1>1, <1>4, <1>5, PacketsOf

LEMMA BaseStays ==
  ASSUME MovementTyped, PlanIsCurrent, BaseIsHeld, \A o \in Observer : Quantum[o] = 1, Next
  PROVE  BaseIsHeld'
<1> USE DEF BaseIsHeld
<1>1. NoPlan.kind = "none" /\ present \subseteq Observer
  BY DEF NoPlan, MovementTyped
<1>2. CASE UNCHANGED <<pending, session, crouching, observers>>
  BY <1>2 DEF Base, observers
<1>3. CASE /\ pending = NoPlan /\ UNCHANGED <<crouching, observers>>
           /\ \E to \in Int : /\ session' = to
                              /\ pending' = [kind |-> "movement", from |-> session, to |-> to, recipients |-> Recipients]
  <2>1. Base' = Base
    BY <1>1, <1>3 DEF Base
  <2> QED
    BY <1>3, <2>1 DEF observers
<1>4. CASE /\ pending = NoPlan /\ UNCHANGED <<session, observers>>
           /\ pending' = [kind |-> "metadata", from |-> crouching, to |-> crouching', recipients |-> Recipients]
  <2>1. Base' = Base
    BY <1>1, <1>4 DEF Base
  <2> QED
    BY <1>4, <2>1 DEF observers
<1>5. CASE Broadcast
  <2>1. Base' = session /\ UNCHANGED <<present, view>>
    BY <1>1, <1>5, BroadcastTyped DEF Base
  <2>2. \A o \in present : ~dropped'[o] => End(view[o], queue'[o]).y = session
    BY <1>1, <1>5, BaseOnBroadcast
  <2> QED
    BY <2>1, <2>2
<1>6. CASE UNCHANGED <<present, pending, session, crouching, dropped>> /\ \E o \in Observer : ObserverStep(o)
  <2>1. PICK o \in Observer : ObserverStep(o)
    BY <1>6
  <2>2. Base' = Base
    BY <1>6 DEF Base
  <2>3. ASSUME NEW p \in present PROVE End(view'[p], queue'[p]) = End(view[p], queue[p])
    <3>1. CASE p # o
      BY <1>1, <2>1, <3>1, OthersStay
    <3>2. CASE p = o
      <4>1. Receive(o) /\ view[o] \in Pose /\ queue[o] \in Seq(ToClient)
        BY <2>1, <2>3, <3>2, OthersStay DEF PlanIsCurrent, MovementTyped
      <4>2. queue[o] # <<>> /\ view'[o] = Shown(view[o], Head(queue[o])) /\ queue'[o] = Tail(queue[o])
        BY <4>1 DEF Receive, MovementTyped
      <4> QED
        BY <3>2, <4>1, <4>2, EndOfRest
    <3> QED
      BY <3>1, <3>2
  <2> QED
    BY <1>6, <2>2, <2>3
<1> QED
  BY <1>2, <1>3, <1>4, <1>5, <1>6, StepsAre

-------------------------------------------------------------------------------
(* All of it, from the start                                               *)

MovementInv == MovementTyped /\ PlanIsCurrent /\ PoseSettles

LEMMA MovementStarts ==
  ASSUME Init
  PROVE  MovementInv /\ BaseIsHeld
<1>1. [y |-> SpawnY, crouching |-> 0] \in Pose /\ SpawnY \in Int
  BY HeightsTyped DEF Pose
<1>2. MovementTyped
  <2>1. /\ y \in Int /\ position \in Int /\ session \in Int /\ crouching \in Int
        /\ up \in Seq(ToServer) /\ down \in Seq(Int) /\ present \in SUBSET Observer
    BY <1>1 DEF Init
  <2>2. pending \in [kind : {"none", "movement", "metadata"}, from : Int, to : Int, recipients : SUBSET Observer]
    BY DEF Init, NoPlan
  <2>3. /\ phase \in [Observer -> {"out", "registered", "sending", "planned", "play"}]
        /\ spawn \in [Observer -> Pose] /\ view \in [Observer -> Pose] /\ dropped \in [Observer -> BOOLEAN]
    BY <1>1 DEF Init
  <2>4. queue \in [Observer -> Seq(ToClient)]
    <3>1. <<>> \in Seq(ToClient)
      OBVIOUS
    <3> QED
      BY <3>1 DEF Init
  <2> QED
    BY <2>1, <2>2, <2>3, <2>4 DEF MovementTyped
<1>3. PlanIsCurrent
  BY DEF PlanIsCurrent, Init, NoPlan
<1>4. ASSUME NEW o \in Observer
      PROVE  /\ queue[o] = <<>> /\ phase[o] \in {"out", "play"}
             /\ End(view[o], queue[o]) = [y |-> SpawnY, crouching |-> 0]
  <2>1. queue[o] = <<>> /\ phase[o] \in {"out", "play"} /\ view[o] = [y |-> SpawnY, crouching |-> 0]
    BY DEF Init
  <2> QED
    BY <1>1, <2>1, EndOfNone
<1>5. PoseSettles
  <2>1. crouching = 0
    BY DEF Init
  <2> QED
    BY <1>4, <2>1 DEF PoseSettles, PoseSettlesFor
<1>6. BaseIsHeld
  <2>1. Base = SpawnY /\ present \subseteq Observer
    BY DEF Init, NoPlan, Base
  <2> QED
    BY <1>4, <2>1 DEF BaseIsHeld
<1> QED
  BY <1>2, <1>3, <1>5, <1>6 DEF MovementInv

LEMMA MovementStutters ==
  ASSUME UNCHANGED vars
  PROVE  (MovementInv => MovementInv') /\ (BaseIsHeld => BaseIsHeld')
BY DEF vars, player, task, lobby, observers, MovementInv, MovementTyped, PlanIsCurrent, PoseSettles, PoseSettlesFor, EndsWithPose,
       Settled, BaseIsHeld, Base

LEMMA AfterIs == \A o \in Observer : After(o) = End(view[o], queue[o])
BY DEF After, End

(* The values and packets have the types that the handlers give them.       *)
THEOREM MovementTypeCorrect == Spec => []MovementTyped
<1>1. MovementTyped /\ [Next]_vars => MovementTyped'
  BY StepsAre DEF vars, player, task, lobby, observers, MovementTyped
<1> QED
  BY <1>1, MovementStarts, PTL DEF Spec, MovementInv

(* The pose is never lost: once a client has shown what is in its queue, it *)
(* shows the player as it crouches, whenever it joined.                     *)
THEOREM PoseIsAlwaysShown == Spec => []PoseIsShown
<1>1. MovementInv /\ [Next]_vars => MovementInv'
  BY MovementStutters, StepsAre, PlansAreCurrent, PoseStays DEF MovementInv
<1>2. MovementInv => PoseIsShown
  <2> SUFFICES ASSUME MovementInv, pending = NoPlan, NEW o \in Observer, Hears(o)
               PROVE  After(o).crouching = crouching
    BY DEF PoseIsShown
  <2>1. Settled(o) /\ phase[o] = "play" /\ ~dropped[o]
    BY DEF Settled, NoPlan, Hears
  <2> QED
    BY <2>1, AfterIs DEF MovementInv, PoseSettles, PoseSettlesFor
<1> QED
  BY <1>1, <1>2, MovementStarts, PTL DEF Spec

(* Whoever was in play before the player moved shows it where it was last   *)
(* broadcast: relative movement packets never add up to another place, for  *)
(* clients that show every unit of a height.                                *)
THEOREM PresentAlwaysHoldBase ==
  ASSUME \A o \in Observer : Quantum[o] = 1
  PROVE  Spec => []PresentHoldBase
<1> DEFINE Inv == MovementInv /\ BaseIsHeld
<1>1. Inv /\ [Next]_vars => Inv'
  BY MovementStutters, StepsAre, PlansAreCurrent, PoseStays, BaseStays DEF MovementInv
<1>2. Inv => PresentHoldBase
  <2> SUFFICES ASSUME Inv, pending = NoPlan, NEW o \in present, Hears(o)
               PROVE  After(o).y = session
    BY DEF PresentHoldBase
  <2>1. Base = session /\ ~dropped[o] /\ o \in Observer
    BY DEF Base, NoPlan, Hears, MovementInv, MovementTyped
  <2> QED
    BY <2>1, AfterIs DEF BaseIsHeld
<1>3. Init => Inv
  BY MovementStarts
<1> HIDE DEF Inv
<1> QED
  BY <1>1, <1>2, <1>3, PTL DEF Spec
==============================================================================
