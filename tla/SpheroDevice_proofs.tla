------------------------ MODULE SpheroDevice_proofs ------------------------
(***************************************************************************)
(* What holds of Sphero.java's numbers for every angle, speed and length   *)
(* of run: Java's signed bytes and negative remainders first, then the     *)
(* inductive invariant of the device, then the checksums of its packets.   *)
(***************************************************************************)
EXTENDS SpheroDevice, FiniteSetTheorems, TLAPS

-----------------------------------------------------------------------------
(* Java's numbers *)

(* A cast yields a byte and keeps the number modulo 256. *)
LEMMA ByteCast ==
    ASSUME NEW n \in Int
    PROVE  Byte(n) \in -128..127 /\ Unsigned(Byte(n)) = n % 256
  BY DEF Byte, Unsigned

(* Two remainders with the 360 between them make degrees of any int. *)
LEMMA DegreesMod ==
    ASSUME NEW h \in Int
    PROVE  Degrees(h) = h % 360 /\ Degrees(h) \in 0..359
<1>1. CASE h >= 0
  BY <1>1 DEF Degrees, Rem
<1>2. CASE h < 0
  <2> DEFINE k == (-h) \div 360
             m == (-h) % 360
  <2>1. k \in Int /\ m \in 0..359 /\ -h = 360 * k + m
    BY <1>2
  <2>2. Degrees(h) = (IF -m + 360 >= 0 THEN (-m + 360) % 360
                                       ELSE -((m - 360) % 360))
    BY <1>2, <2>1 DEF Degrees, Rem
  <2> HIDE DEF k, m
  <2>3. h = 360 * (-k) + (-m)
    BY <2>1
  <2> QED
    BY <2>1, <2>2, <2>3
<1> QED
  BY <1>1, <1>2

(* Two bytes carry any number of degrees. *)
LEMMA DegreesOnWire ==
    ASSUME NEW h \in 0..359
    PROVE  Value16(Bytes16(h)) = h
<1>1. Bytes16(h)[1] = Byte(h \div 256) /\ Bytes16(h)[2] = Byte(h % 256)
  BY DEF Bytes16, Rem
<1>2. h \div 256 \in 0..1 /\ h % 256 \in 0..255 /\ h = 256 * (h \div 256) + (h % 256)
  OBVIOUS
<1>3. Unsigned(Byte(h \div 256)) = (h \div 256) % 256
  BY <1>2, ByteCast
<1>4. Unsigned(Byte(h % 256)) = (h % 256) % 256
  BY <1>2, ByteCast
<1> QED
  BY <1>1, <1>2, <1>3, <1>4 DEF Value16

(* The checksum of a sum makes the sum up to 255 modulo 256, also where    *)
(* the sum of signed bytes is negative.                                    *)
LEMMA ChecksumComplements ==
    ASSUME NEW s \in Int
    PROVE  (s + Checksum(s)) % 256 = 255 /\ Checksum(s) \in -128..127
<1>1. Rem(s, 256) \in Int /\ Rem(s, 256) % 256 = s % 256
  <2>1. CASE s >= 0
    BY <2>1 DEF Rem
  <2>2. CASE s < 0
    BY <2>2 DEF Rem
  <2> QED
    BY <2>1, <2>2
<1>2. Byte(Rem(s, 256)) \in -128..127 /\ Byte(Rem(s, 256)) % 256 = s % 256
  BY <1>1, ByteCast DEF Unsigned
<1> DEFINE b == Byte(Rem(s, 256))
<1> HIDE DEF b
<1>3. b \in -128..127 /\ b % 256 = s % 256
  BY <1>2 DEF b
<1>4. (s + (-b - 1)) % 256 = 255
  BY <1>3
<1> QED
  BY <1>3, <1>4 DEF Checksum, b

(* An int that does not overflow is itself. *)
LEMMA NoOverflow ==
    ASSUME NEW h \in 0..359, NEW d \in Directions
    PROVE  ToInt(h + d) = h + d
<1> DEFINE half == IntSize \div 2
<1>1. IntSize \in Nat /\ half \in Nat /\ IntSize = 2 * half /\ half > 0
  BY DeviceAssumption
<1>2. d \in Int /\ -half <= d /\ d + 359 < half
  BY DeviceAssumption
<1> HIDE DEF half
<1>3. h + d + half \in 0..(IntSize - 1)
  BY <1>1, <1>2
<1>4. (h + d + half) % IntSize = h + d + half
  BY <1>1, <1>2, <1>3
<1> QED
  BY <1>1, <1>2, <1>4 DEF ToInt, half

-----------------------------------------------------------------------------
(* The inductive invariant: the packet number is the count of packets cut  *)
(* to a byte, and heading and what the robot was told go together.         *)

Numbers == packet_number = Byte(count)

Ind == TypeOK /\ Numbers /\ FacingKnown /\ NumbersFollow /\ HeadingOnWire

WireOK(c) ==
    c.device = RollDevice /\ c.command = RollCommand
        => Value16(<<c.data[2], c.data[3]>>) \in 0..359

(* Building packets keeps the numbers in step, with a link or without. *)
LEMMA SendFollows ==
    ASSUME TypeOK, Numbers, NEW commands, Len(commands) \in Nat,
           Send(commands),
           \A i \in 1..Len(commands) : WireOK(commands[i])
    PROVE  /\ packet_number' \in -128..127 /\ count' \in 0..MaxPackets
           /\ Numbers' /\ NumbersFollow' /\ HeadingOnWire'
<1> DEFINE n == Len(commands)
<1> HIDE DEF n
<1>1. n \in Nat /\ count \in Nat /\ MaxPackets \in Nat
  BY DeviceAssumption DEF TypeOK, n
<1>2. /\ count' = count + n /\ count' <= MaxPackets
      /\ packet_number' = Byte(packet_number + n)
  BY DEF Send, Advance, n
<1>3. packet_number = Byte(count)
  BY DEF Numbers
<1>4. ASSUME NEW k \in Nat PROVE Byte(packet_number + k) = Byte(count + k)
  BY <1>1, <1>3 DEF Byte
<1>5. packet_number' = Byte(count') /\ packet_number' \in -128..127
  BY <1>1, <1>2, <1>4, ByteCast
<1>6. sent' = IF linked
              THEN [i \in 1..n |-> buildCommand(commands[i], Advance(packet_number, i - 1))]
              ELSE <<>>
  BY DEF Send, n
<1>7. NumbersFollow' /\ HeadingOnWire'
  <2>1. CASE ~linked
    <3>1. sent' = <<>>
      BY <1>6, <2>1
    <3> QED
      BY <3>1 DEF NumbersFollow, HeadingOnWire
  <2>2. CASE linked
    <3>1. sent' = [i \in 1..n |-> buildCommand(commands[i], Advance(packet_number, i - 1))]
      BY <1>6, <2>2
    <3>2. Len(sent') = n /\ DOMAIN sent' = 1..n
      BY <1>1, <3>1
    <3>3. ASSUME NEW i \in 1..n
          PROVE  /\ Unsigned(sent'[i].seq) = (count' - Len(sent') + i - 1) % 256
                 /\ sent'[i].device = commands[i].device
                 /\ sent'[i].command = commands[i].command
                 /\ sent'[i].data = commands[i].data
      <4>1. sent'[i] = buildCommand(commands[i], Advance(packet_number, i - 1))
        BY <3>1
      <4>2. i - 1 \in Nat
        BY <1>1
      <4>3. sent'[i].seq = Byte(count + (i - 1))
        BY <1>4, <4>1, <4>2 DEF buildCommand, Advance
      <4>4. Unsigned(sent'[i].seq) = (count + (i - 1)) % 256
        BY <1>1, <4>2, <4>3, ByteCast
      <4>5. count' - Len(sent') + i - 1 = count + (i - 1)
        BY <1>1, <1>2, <3>2, <4>2
      <4> QED
        BY <4>1, <4>4, <4>5 DEF buildCommand
    <3>4. NumbersFollow'
      BY <3>2, <3>3 DEF NumbersFollow
    <3>5. HeadingOnWire'
      <4>1. ASSUME NEW i \in 1..n PROVE WireOK(commands[i])
        BY <4>1 DEF n
      <4>2. ASSUME NEW i \in 1..n PROVE WireOK(sent'[i])
        <5>1. /\ sent'[i].device = commands[i].device
              /\ sent'[i].command = commands[i].command
              /\ sent'[i].data = commands[i].data
          BY <3>3
        <5> QED
          BY <4>1, <5>1 DEF WireOK
      <4> QED
        BY <3>2, <4>2 DEF HeadingOnWire, WireOK
    <3> QED
      BY <3>4, <3>5
  <2> QED
    BY <2>1, <2>2
<1> QED
  BY <1>1, <1>2, <1>5, <1>7 DEF Numbers

(* A roll packet with a number of degrees is read as that number. *)
LEMMA RollWire ==
    ASSUME NEW h \in 0..359, NEW speed \in Int
    PROVE  WireOK(RollPacket(h, speed)) /\ Len(<<RollPacket(h, speed)>>) = 1
<1>1. Value16(<<Bytes16(h)[1], Bytes16(h)[2]>>) = h
  BY DegreesOnWire DEF Value16
<1> QED
  BY <1>1 DEF WireOK, RollPacket, Command

(* Packets of other commands say nothing of it. *)
LEMMA OtherWire ==
    ASSUME NEW c, c.command # RollCommand
    PROVE  WireOK(c)
  BY DEF WireOK

-----------------------------------------------------------------------------

LEMMA InitInd == Init => Ind
<1> SUFFICES ASSUME Init PROVE Ind
  OBVIOUS
<1>1. TypeOK
  <2>1. MaxPackets \in Nat
    BY DeviceAssumption
  <2>2. heading = 0 /\ packet_number = 0 /\ count = 0 /\ facing = 0
    BY DEF Init
  <2>3. linked \in BOOLEAN /\ rolled \in BOOLEAN
    BY DEF Init
  <2>4. /\ heading \in 0..359 /\ packet_number \in -128..127 /\ count \in 0..MaxPackets
        /\ facing \in 0..359
    BY <2>1, <2>2
  <2> QED
    BY <2>3, <2>4 DEF TypeOK
<1>2. Numbers /\ FacingKnown /\ NumbersFollow /\ HeadingOnWire
  BY DEF Init, Numbers, Byte, FacingKnown, NumbersFollow, HeadingOnWire
<1> QED
  BY <1>1, <1>2 DEF Ind

(* Messages that give a speed clamp it first. *)
LEMMA ClampInt == ASSUME NEW s \in Int PROVE Clamp(s) \in Int
  BY DEF Clamp

Built == /\ packet_number' \in -128..127 /\ count' \in 0..MaxPackets
         /\ Numbers' /\ NumbersFollow' /\ HeadingOnWire'

LEMMA SendOne ==
    ASSUME TypeOK, Numbers, NEW c, WireOK(c), Send(<<c>>)
    PROVE  Built
<1> DEFINE cs == <<c>>
<1>1. Len(cs) = 1 /\ \A i \in 1..Len(cs) : WireOK(cs[i])
  OBVIOUS
<1>2. Len(cs) \in Nat
  BY <1>1
<1> HIDE DEF cs
<1>3. Send(cs)
  BY DEF cs
<1> QED
  BY <1>1, <1>2, <1>3, SendFollows DEF Built

(* What is left to show of a step that sends packets: one that tells the   *)
(* robot the server's heading, and a roll message.                         *)
LEMMA SentTold ==
    ASSUME TypeOK, Built, NEW h \in 0..359,
           heading' = h, linked' = linked, Told(h)
    PROVE  Ind'
<1>1. facing \in 0..359 /\ rolled \in BOOLEAN /\ linked \in BOOLEAN
  BY DEF TypeOK
<1>2. CASE ~linked
  <2>1. facing' = facing /\ rolled' = rolled
    BY <1>2 DEF Told
  <2>2. TypeOK'
    BY <1>1, <2>1 DEF Built, TypeOK
  <2> QED
    BY <1>2, <2>2 DEF Built, Ind, FacingKnown
<1>3. CASE linked
  <2>1. facing' = h /\ rolled' = FALSE
    BY <1>3, DegreesOnWire DEF Told
  <2>2. TypeOK'
    BY <1>1, <2>1 DEF Built, TypeOK
  <2> QED
    BY <2>1, <2>2 DEF Built, Ind, FacingKnown
<1> QED
  BY <1>2, <1>3

LEMMA SentRoll ==
    ASSUME TypeOK, Built, NEW h \in 0..359,
           heading' = heading, linked' = linked, ToldByRoll(h)
    PROVE  Ind'
<1>1. /\ facing \in 0..359 /\ rolled \in BOOLEAN /\ linked \in BOOLEAN
      /\ heading \in 0..359
  BY DEF TypeOK
<1>2. CASE ~linked
  <2>1. facing' = facing /\ rolled' = rolled
    BY <1>2 DEF ToldByRoll
  <2>2. TypeOK'
    BY <1>1, <2>1 DEF Built, TypeOK
  <2> QED
    BY <1>1, <1>2, <2>2 DEF Built, Ind, FacingKnown
<1>3. CASE linked
  <2>1. facing' = h /\ rolled' = TRUE
    BY <1>3, DegreesOnWire DEF ToldByRoll
  <2>2. TypeOK'
    BY <1>1, <2>1 DEF Built, TypeOK
  <2> QED
    BY <1>1, <2>1, <2>2 DEF Built, Ind, FacingKnown
<1> QED
  BY <1>2, <1>3

LEMMA Inputs ==
    /\ Directions \subseteq Int /\ RollHeadings \subseteq Int /\ Speeds \subseteq Int
    /\ NewHeadings \subseteq 0..359 /\ MaxPackets \in Nat
  BY DeviceAssumption

LEMMA NextInd == Ind /\ [Next]_vars => Ind'
<1> SUFFICES ASSUME Ind, [Next]_vars PROVE Ind'
  OBVIOUS
<1>t. TypeOK /\ Numbers /\ FacingKnown /\ NumbersFollow /\ HeadingOnWire
  BY DEF Ind
<1>h. heading \in 0..359 /\ heading \in Int
  BY <1>t DEF TypeOK
<1>d. Degrees(heading) = heading
  BY <1>h, DegreesMod
<1>1. ASSUME NEW h \in RollHeadings, NEW s \in Speeds, Roll(h, s) PROVE Ind'
  <2>1. Degrees(h) \in 0..359 /\ Clamp(s) \in Int
    BY Inputs, DegreesMod, ClampInt
  <2>2. /\ Send(<<RollPacket(Degrees(h), Clamp(s))>>)
        /\ ToldByRoll(Degrees(h))
        /\ heading' = heading /\ linked' = linked
    BY <1>1 DEF Roll
  <2>3. Built
    BY <1>t, <2>1, <2>2, SendOne, RollWire
  <2> QED
    BY <1>t, <2>1, <2>2, <2>3, SentRoll
<1>2. ASSUME NEW s \in Speeds, RollForward(s) PROVE Ind'
  <2>1. Clamp(s) \in Int
    BY Inputs, ClampInt
  <2>2. /\ Send(<<RollPacket(heading, Clamp(s))>>) /\ Told(heading)
        /\ heading' = heading /\ linked' = linked
    BY <1>2 DEF RollForward
  <2>3. Built
    BY <1>t, <1>h, <2>1, <2>2, SendOne, RollWire
  <2> QED
    BY <1>t, <1>h, <2>2, <2>3, SentTold
<1>3. ASSUME NEW d \in Directions, Turn(d) PROVE Ind'
  <2>1. d \in Int /\ ToInt(heading + d) = heading + d
    BY <1>h, Inputs, NoOverflow
  <2>2. /\ heading' = Degrees(heading + d)
        /\ Send(<<RollPacket(heading', 0)>>) /\ Told(heading')
        /\ linked' = linked
    BY <1>3, <1>h, <2>1 DEF Turn
  <2>3. heading' = (heading + d) % 360 /\ heading' \in 0..359
    BY <1>h, <2>1, <2>2, DegreesMod
  <2>4. Built
    BY <1>t, <2>2, <2>3, SendOne, RollWire
  <2> QED
    BY <1>t, <2>2, <2>3, <2>4, SentTold
<1>4. ASSUME Stop PROVE Ind'
  <2>1. /\ Send(<<RollPacket(heading, 0)>>) /\ Told(heading)
        /\ heading' = heading /\ linked' = linked
    BY <1>4, <1>d DEF Stop
  <2>2. Built
    BY <1>t, <1>h, <2>1, SendOne, RollWire
  <2> QED
    BY <1>t, <1>h, <2>1, <2>2, SentTold
<1>5. ASSUME NEW h \in NewHeadings, SetHeading(h) PROVE Ind'
  <2>1. WireOK(HeadingPacket(h)) /\ h \in 0..359
    BY OtherWire, Inputs DEF HeadingPacket, Command, RollCommand
  <2>2. /\ Send(<<HeadingPacket(h)>>) /\ Told(h)
        /\ heading' = h /\ linked' = linked
    BY <1>5 DEF SetHeading, Rename
  <2>3. Built
    BY <1>t, <2>1, <2>2, SendOne
  <2> QED
    BY <1>t, <2>1, <2>2, <2>3, SentTold
<1>6. ASSUME NEW on \in BOOLEAN, Calibrate(on) PROVE Ind'
  <2> DEFINE begin == <<RGBPacket(0, 0, 0), BackLEDPacket(127), HeadingPacket(0),
                        StabilizationPacket(FALSE)>>
             end == <<BackLEDPacket(0), RGBPacket(127, 127, 127), HeadingPacket(0),
                      StabilizationPacket(TRUE)>>
  <2>1. Len(begin) = 4 /\ \A i \in 1..4 : begin[i].command # RollCommand
    BY DEF RGBPacket, BackLEDPacket, HeadingPacket, StabilizationPacket, Command,
           RollCommand
  <2>2. Len(end) = 4 /\ \A i \in 1..4 : end[i].command # RollCommand
    BY DEF RGBPacket, BackLEDPacket, HeadingPacket, StabilizationPacket, Command,
           RollCommand
  <2>3. Send(begin) \/ Send(end)
    BY <1>6 DEF Calibrate
  <2>4. /\ Told(0) /\ heading' = 0 /\ linked' = linked
        /\ 0 \in 0..359
    BY <1>6 DEF Calibrate, Rename
  <2> HIDE DEF begin, end
  <2>5. CASE Send(begin)
    <3>1. Built
      BY <1>t, <2>1, <2>5, SendFollows, OtherWire DEF Built
    <3> QED
      BY <1>t, <2>4, <3>1, SentTold
  <2>6. CASE Send(end)
    <3>1. Built
      BY <1>t, <2>2, <2>6, SendFollows, OtherWire DEF Built
    <3> QED
      BY <1>t, <2>4, <3>1, SentTold
  <2> QED
    BY <2>3, <2>5, <2>6
<1>7. ASSUME Other PROVE Ind'
  <2>1. /\ heading' = heading /\ linked' = linked /\ facing' = facing
        /\ rolled' = rolled
    BY <1>7 DEF Other
  <2>2. \E c : c.command # RollCommand /\ Send(<<c>>)
    <3>1. /\ \A r, g, b : RGBPacket(r, g, b).command # RollCommand
          /\ \A v : BackLEDPacket(v).command # RollCommand
          /\ \A v : RotationRatePacket(v).command # RollCommand
          /\ \A f : StabilizationPacket(f).command # RollCommand
          /\ \A f : CollisionPacket(f).command # RollCommand
          /\ SleepPacket.command # RollCommand
      BY DEF RGBPacket, BackLEDPacket, RotationRatePacket, StabilizationPacket,
             CollisionPacket, SleepPacket, Command, RollCommand
    <3>2. CASE \E r, g, b \in Levels : Send(<<RGBPacket(r, g, b)>>)
      BY <3>1, <3>2
    <3>3. CASE \E v \in Levels : Send(<<BackLEDPacket(v)>>)
      BY <3>1, <3>3
    <3>4. CASE \E v \in Levels : Send(<<RotationRatePacket(v)>>)
      BY <3>1, <3>4
    <3>5. CASE \E f \in BOOLEAN : Send(<<StabilizationPacket(f)>>)
      BY <3>1, <3>5, Zenon
    <3>6. CASE \E f \in BOOLEAN : Send(<<CollisionPacket(f)>>)
      BY <3>1, <3>6, Zenon
    <3>7. CASE Send(<<SleepPacket>>)
      BY <3>1, <3>7
    <3> QED
      BY <1>7, <3>2, <3>3, <3>4, <3>5, <3>6, <3>7 DEF Other
  <2>3. Built
    BY <1>t, <2>2, SendOne, OtherWire
  <2>4. TypeOK'
    BY <1>t, <2>1, <2>3 DEF Built, TypeOK
  <2> QED
    BY <1>t, <2>1, <2>3, <2>4 DEF Built, Ind, FacingKnown
<1>8. ASSUME Clear PROVE Ind'
  <2>1. Numbers' /\ NumbersFollow' /\ HeadingOnWire'
    BY <1>8 DEF Clear, Numbers, Byte, NumbersFollow, HeadingOnWire
  <2>2. TypeOK'
    BY <1>8, <1>t, Inputs DEF Clear, TypeOK
  <2> QED
    BY <1>8, <1>t, <2>1, <2>2 DEF Clear, Ind, FacingKnown
<1>9. ASSUME Connect PROVE Ind'
  <2> DEFINE all == ConnectPackets
  <2>1. count \in Nat /\ count' = count + 3 /\ count' \in 0..MaxPackets
    BY <1>9, <1>t, Inputs DEF Connect, TypeOK
  <2>2. ASSUME NEW k \in Nat PROVE Advance(packet_number, k) = Byte(count + k)
    BY <1>t, <2>1 DEF Numbers, Advance, Byte
  <2>3. packet_number' = Byte(count') /\ packet_number' \in -128..127
    BY <1>9, <2>1, <2>2, ByteCast DEF Connect
  <2>4. /\ DOMAIN all = 1..3 /\ Len(all) = 3
        /\ all[1].command # RollCommand /\ all[2].command # RollCommand
        /\ all[3].command # RollCommand
    BY DEF ConnectPackets, buildCommand, PowerPacket, HeadingPacket, InactivityPacket,
           Command, RollCommand
  <2>5. ASSUME NEW i \in 1..3
        PROVE  Unsigned(all[i].seq) = (count + i - 1) % 256
    <3>1. all[i].seq = Advance(packet_number, i - 1)
      BY DEF ConnectPackets, buildCommand
    <3>2. all[i].seq = Byte(count + (i - 1)) /\ count + (i - 1) \in Int
      BY <2>1, <2>2, <3>1
    <3>3. Unsigned(all[i].seq) = (count + (i - 1)) % 256
      BY <3>2, ByteCast
    <3> QED
      BY <2>1, <3>3
  <2> DEFINE u == IF linked THEN 0 ELSE 1
  <2>6. u \in 0..1 /\ sent' = [i \in 1..(3 - u) |-> all[i + u]]
    BY <1>9 DEF Connect
  <2> HIDE DEF all, u
  <2>7. DOMAIN sent' = 1..(3 - u) /\ Len(sent') = 3 - u
    BY <2>6
  <2>8. NumbersFollow' /\ HeadingOnWire'
    <3>1. ASSUME NEW i \in 1..(3 - u)
          PROVE  /\ Unsigned(sent'[i].seq) = (count' - Len(sent') + i - 1) % 256
                 /\ sent'[i].command # RollCommand
      <4>1. sent'[i] = all[i + u] /\ i + u \in 1..3
        BY <2>6
      <4>2. Unsigned(sent'[i].seq) = (count + (i + u) - 1) % 256
        BY <2>5, <4>1
      <4>3. count + (i + u) - 1 = count' - Len(sent') + i - 1
        BY <2>1, <2>6, <2>7
      <4>4. i + u = 1 \/ i + u = 2 \/ i + u = 3
        BY <4>1
      <4>5. sent'[i].command # RollCommand
        BY <2>4, <4>1, <4>4
      <4> QED
        BY <4>2, <4>3, <4>5
    <3> QED
      BY <2>7, <3>1 DEF NumbersFollow, HeadingOnWire
  <2>9. linked' = TRUE /\ heading' = 0 /\ facing' = 0 /\ rolled' = FALSE
    BY <1>9 DEF Connect
  <2>10. TypeOK'
    <3>1. linked' \in BOOLEAN /\ rolled' \in BOOLEAN
      BY <2>9
    <3>2. heading' \in 0..359 /\ facing' \in 0..359
      BY <2>9
    <3> QED
      BY <2>1, <2>3, <3>1, <3>2 DEF TypeOK
  <2>11. FacingKnown'
    BY <2>9 DEF FacingKnown
  <2> QED
    BY <2>3, <2>8, <2>10, <2>11 DEF Ind, Numbers
<1>12. ASSUME ConnectFails PROVE Ind'
  <2>1. /\ heading' = heading /\ linked' = FALSE /\ facing' = facing
        /\ rolled' = rolled
    BY <1>12 DEF ConnectFails
  <2>2. WireOK(PowerPacket(TRUE))
    BY OtherWire DEF PowerPacket, Command, RollCommand
  <2>3. Built
    BY <1>12, <1>t, <2>2, SendOne DEF ConnectFails
  <2>4. TypeOK'
    BY <1>t, <2>1, <2>3 DEF Built, TypeOK
  <2> QED
    BY <1>t, <2>1, <2>3, <2>4 DEF Built, Ind, FacingKnown
<1>10. ASSUME Disconnect PROVE Ind'
  <2>1. NumbersFollow' /\ HeadingOnWire'
    BY <1>10 DEF Disconnect, NumbersFollow, HeadingOnWire
  <2>2. TypeOK'
    BY <1>10, <1>t DEF Disconnect, TypeOK
  <2> QED
    BY <1>10, <1>t, <2>1, <2>2 DEF Disconnect, Ind, FacingKnown, Numbers
<1>11. ASSUME UNCHANGED vars PROVE Ind'
  <2>1. TypeOK' /\ Numbers' /\ FacingKnown'
    BY <1>11, <1>t DEF vars, TypeOK, FacingKnown, Numbers
  <2>2. NumbersFollow' /\ HeadingOnWire'
    BY <1>11, <1>t DEF vars, NumbersFollow, HeadingOnWire
  <2> QED
    BY <2>1, <2>2 DEF Ind
<1> QED
  BY <1>1, <1>2, <1>3, <1>4, <1>5, <1>6, <1>7, <1>8, <1>9, <1>10, <1>11, <1>12 DEF Next

LEMMA SpecInd == Spec => []Ind
  BY InitInd, NextInd, PTL DEF Spec

(* Spec keeps every number in its range: no angle, however large or        *)
(* negative, makes heading leave 0..359.                                   *)
THEOREM DeviceTypes == Spec => []TypeOK
<1>1. Ind => TypeOK
  BY DEF Ind
<1> QED
  BY <1>1, SpecInd, PTL

(* A turn moves the robot by as much as its message says, from where it    *)
(* faces if no roll message was the last to turn it.                       *)
THEOREM Turns == Spec => TurnIsRelative
<1> DEFINE Relative == \A d \in Directions :
                          Turn(d) /\ linked /\ ~rolled => facing' = (facing + d) % 360
<1>1. Ind => Relative
  <2> SUFFICES ASSUME Ind, NEW d \in Directions, Turn(d), linked, ~rolled
               PROVE  facing' = (facing + d) % 360
    OBVIOUS
  <2>1. facing = heading /\ heading \in 0..359
    BY DEF Ind, TypeOK, FacingKnown
  <2>2. d \in Int /\ heading + d \in Int /\ ToInt(heading + d) = heading + d
    BY <2>1, Inputs, NoOverflow
  <2>3. heading' = (heading + d) % 360 /\ heading' \in 0..359
    BY <2>2, DegreesMod DEF Turn
  <2>4. facing' = heading'
    BY <2>3, DegreesOnWire DEF Turn, Told
  <2> QED
    BY <2>1, <2>3, <2>4
<1>2. Spec => [][Relative]_vars
  BY <1>1, SpecInd, PTL DEF Spec
<1> QED
  BY <1>2 DEF TurnIsRelative

(* The robot faces where the server thinks it does unless a roll message   *)
(* was the last to turn it.                                                *)
THEOREM Headings == Spec => []FacingKnown
<1>1. Ind => FacingKnown
  BY DEF Ind
<1> QED
  BY <1>1, SpecInd, PTL

(* The robot reads 0..359 degrees from every roll packet. *)
THEOREM WireHeadings == Spec => []HeadingOnWire
<1>1. Ind => HeadingOnWire
  BY DEF Ind
<1> QED
  BY <1>1, SpecInd, PTL

(* The packets are numbered one after the other, for runs of any length. *)
THEOREM PacketNumbers == Spec => []NumbersFollow
<1>1. Ind => NumbersFollow
  BY DEF Ind
<1> QED
  BY <1>1, SpecInd, PTL

-----------------------------------------------------------------------------
(* Checksums.  No packet has more than six bytes of data; what SumFunction *)
(* makes of them does not depend on the order in which it takes them.      *)

Term(f, s, i) == IF i \in s THEN f[i] ELSE 0

TermSum(f, s) == Term(f, s, 1) + Term(f, s, 2) + Term(f, s, 3)
                     + Term(f, s, 4) + Term(f, s, 5) + Term(f, s, 6)

Chosen(s) == CHOOSE x \in s : TRUE

LEMMA TermSumStep ==
    ASSUME NEW n \in 0..6, NEW f \in [1..n -> Int], NEW s \in SUBSET (1..n)
    PROVE  /\ s = {} => TermSum(f, s) = 0
           /\ \A x \in s : TermSum(f, s) = f[x] + TermSum(f, s \ {x})
<1>1. s = {} => TermSum(f, s) = 0
  BY DEF TermSum, Term
<1>2. ASSUME NEW x \in s PROVE TermSum(f, s) = f[x] + TermSum(f, s \ {x})
  <2>1. x \in 1..6 /\ f[x] \in Int /\ Term(f, s, x) = f[x] /\ Term(f, s \ {x}, x) = 0
    BY DEF Term
  <2>2. ASSUME NEW i \in 1..6
        PROVE  /\ Term(f, s, i) \in Int
               /\ i # x => Term(f, s \ {x}, i) = Term(f, s, i)
    BY DEF Term
  <2>3. /\ Term(f, s, 1) \in Int /\ Term(f, s, 2) \in Int /\ Term(f, s, 3) \in Int
        /\ Term(f, s, 4) \in Int /\ Term(f, s, 5) \in Int /\ Term(f, s, 6) \in Int
    BY <2>2
  <2> DEFINE a(i) == Term(f, s, i)
             b(i) == Term(f, s \ {x}, i)
  <2> HIDE DEF a, b
  <2>4. a(x) = f[x] /\ b(x) = 0 /\ \A i \in 1..6 : i # x => b(i) = a(i)
    BY <2>1, <2>2 DEF a, b
  <2>5. /\ a(1) \in Int /\ a(2) \in Int /\ a(3) \in Int
        /\ a(4) \in Int /\ a(5) \in Int /\ a(6) \in Int
    BY <2>3 DEF a
  <2>6. a(1) + a(2) + a(3) + a(4) + a(5) + a(6)
            = f[x] + (b(1) + b(2) + b(3) + b(4) + b(5) + b(6))
    <3>1. CASE x = 1
      BY <2>4, <2>5, <3>1
    <3>2. CASE x = 2
      BY <2>4, <2>5, <3>2
    <3>3. CASE x = 3
      BY <2>4, <2>5, <3>3
    <3>4. CASE x = 4
      BY <2>4, <2>5, <3>4
    <3>5. CASE x = 5
      BY <2>4, <2>5, <3>5
    <3>6. CASE x = 6
      BY <2>4, <2>5, <3>6
    <3> QED
      BY <2>1, <3>1, <3>2, <3>3, <3>4, <3>5, <3>6
  <2> QED
    BY <2>6 DEF TermSum, a, b
<1> QED
  BY <1>1, <1>2

LEMMA SumOfSix ==
    ASSUME NEW n \in 0..6, NEW f \in [1..n -> Int]
    PROVE  SumFunction(f) = TermSum(f, 1..n)
<1> DEFINE S == 1..n
           Sums(it) == it = [s \in SUBSET S |->
                                IF s = {} THEN 0 ELSE f[Chosen(s)] + it[s \ {Chosen(s)}]]
           g == [s \in SUBSET S |-> TermSum(f, s)]
           sum == CHOOSE it : Sums(it)
<1>0. IsFiniteSet(S) /\ Cardinality(S) <= 6
  <2>1. n \in Int /\ 1 \in Int /\ n <= 6
    OBVIOUS
  <2> QED
    BY <2>1, FS_Interval
<1>1. SumFunction(f) = sum[S]
  <2>1. DOMAIN f = S
    OBVIOUS
  <2>2. SumFunction(f) =
          (CHOOSE it : it = [s \in SUBSET DOMAIN f |->
              IF s = {} THEN 0 ELSE f[Chosen(s)] + it[s \ {Chosen(s)}]])[DOMAIN f]
    BY DEF SumFunction, SumFunctionOnSet, FoldFunctionOnSet, MapThenFoldSet, Chosen
  <2> QED
    BY <2>1, <2>2
<1>2. ASSUME NEW s \in SUBSET S, s # {} PROVE Chosen(s) \in s
  BY <1>2 DEF Chosen
<1>3. Sums(g)
  <2>1. ASSUME NEW s \in SUBSET S
        PROVE  g[s] = IF s = {} THEN 0 ELSE f[Chosen(s)] + g[s \ {Chosen(s)}]
    <3>1. s \ {Chosen(s)} \in SUBSET S
      OBVIOUS
    <3>2. g[s] = TermSum(f, s) /\ g[s \ {Chosen(s)}] = TermSum(f, s \ {Chosen(s)})
      BY <3>1
    <3>3. s = {} => TermSum(f, s) = 0
      BY TermSumStep
    <3>4. ASSUME s # {}
          PROVE  TermSum(f, s) = f[Chosen(s)] + TermSum(f, s \ {Chosen(s)})
      <4>1. Chosen(s) \in s
        BY <1>2, <3>4
      <4>2. \A x \in s : TermSum(f, s) = f[x] + TermSum(f, s \ {x})
        BY TermSumStep
      <4> QED
        BY <4>1, <4>2
    <3> HIDE DEF g
    <3> QED
      BY <3>2, <3>3, <3>4, Zenon
  <2> QED
    BY <2>1
<1>4. Sums(sum)
  BY <1>3, Zenon
<1>5. ASSUME NEW s \in SUBSET S
      PROVE  sum[s] = IF s = {} THEN 0 ELSE f[Chosen(s)] + sum[s \ {Chosen(s)}]
  <2> HIDE DEF sum
  <2>1. sum = [r \in SUBSET S |->
                  IF r = {} THEN 0 ELSE f[Chosen(r)] + sum[r \ {Chosen(r)}]]
    BY <1>4
  <2> QED
    BY <2>1
<1> DEFINE Level(k) == \A s \in SUBSET S : Cardinality(s) <= k => sum[s] = TermSum(f, s)
<1>6. ASSUME NEW s \in SUBSET S PROVE IsFiniteSet(s) /\ Cardinality(s) \in Nat
  BY <1>0, FS_Subset, FS_CardinalityType
<1> HIDE DEF sum
<1>7. Level(0)
  <2> SUFFICES ASSUME NEW s \in SUBSET S, Cardinality(s) <= 0
               PROVE  sum[s] = TermSum(f, s)
    OBVIOUS
  <2>1. s = {}
    BY <1>6, FS_EmptySet
  <2> QED
    BY <1>5, <2>1, TermSumStep
<1>8. ASSUME NEW k \in Nat, Level(k) PROVE Level(k + 1)
  <2> SUFFICES ASSUME NEW s \in SUBSET S, Cardinality(s) <= k + 1, s # {}
               PROVE  sum[s] = TermSum(f, s)
    BY <1>5, TermSumStep
  <2> DEFINE x == Chosen(s)
             r == s \ {x}
  <2>1. x \in s /\ r \in SUBSET S
    BY <1>2
  <2>2. Cardinality(r) <= k
    <3>1. Cardinality(r) = Cardinality(s) - 1
      BY <1>6, <2>1, FS_RemoveElement
    <3> QED
      BY <1>6, <3>1
  <2>3. sum[r] = TermSum(f, r)
    BY <1>8, <2>1, <2>2
  <2>4. sum[s] = f[x] + sum[r]
    BY <1>5
  <2>5. TermSum(f, s) = f[x] + TermSum(f, r)
    BY <2>1, TermSumStep
  <2> QED
    BY <2>3, <2>4, <2>5
<1>9. Level(6)
  <2> HIDE DEF Level
  <2>1. Level(1) /\ Level(2) /\ Level(3)
    BY <1>7, <1>8
  <2>2. Level(4) /\ Level(5) /\ Level(6)
    BY <1>8, <2>1
  <2> QED
    BY <2>2
<1> QED
  BY <1>0, <1>1, <1>9

LEMMA Congruent ==
    ASSUME NEW a \in Int, NEW b \in Int, a % 256 = b % 256
    PROVE  \E k \in Int : a = b + 256 * k
<1>0. ASSUME NEW x \in Int
      PROVE  /\ x = 256 * (x \div 256) + (x % 256)
             /\ x \div 256 \in Int /\ x % 256 \in Int
  OBVIOUS
<1> DEFINE q == a \div 256
           r == b \div 256
           m == b % 256
<1>1. a = 256 * q + m /\ b = 256 * r + m /\ q \in Int /\ r \in Int /\ m \in Int
  BY <1>0
<1> HIDE DEF q, r, m
<1>2. q - r \in Int /\ a = b + 256 * (q - r)
  BY <1>1
<1> QED
  BY <1>2

LEMMA SameSum ==
    ASSUME NEW x \in Int, NEW y \in Int, NEW k \in Int, x = y + 256 * k
    PROVE  x % 256 = y % 256
  OBVIOUS

(* Signed or unsigned, the data have the same sum modulo 256. *)
SameData(n, f, u) ==
    /\ n \in 0..6 /\ f \in [1..n -> Int] /\ u \in [1..n -> Int]
    /\ \A i \in 1..n : u[i] = Unsigned(f[i])

LEMMA SignedSum ==
    ASSUME NEW n, NEW f, NEW u, SameData(n, f, u)
    PROVE  /\ SumFunction(f) \in Int /\ SumFunction(u) \in Int
           /\ SumFunction(u) % 256 = SumFunction(f) % 256
<1> USE DEF SameData
<1> DEFINE a(i) == Term(f, 1..n, i)
           b(i) == Term(u, 1..n, i)
           a1 == a(1)
           a2 == a(2)
           a3 == a(3)
           a4 == a(4)
           a5 == a(5)
           a6 == a(6)
           b1 == b(1)
           b2 == b(2)
           b3 == b(3)
           b4 == b(4)
           b5 == b(5)
           b6 == b(6)
           x == SumFunction(u)
           y == SumFunction(f)
<1>1. ASSUME NEW i \in 1..6
      PROVE  a(i) \in Int /\ b(i) \in Int /\ b(i) % 256 = a(i) % 256
  <2>1. CASE i \in 1..n
    BY <2>1 DEF Term, Unsigned
  <2>2. CASE i \notin 1..n
    BY <2>2 DEF Term
  <2> QED
    BY <2>1, <2>2
<1>2. /\ y = a1 + a2 + a3 + a4 + a5 + a6
      /\ x = b1 + b2 + b3 + b4 + b5 + b6
  BY SumOfSix DEF TermSum
<1> HIDE DEF a, b, x, y
<1>3. /\ a1 \in Int /\ a2 \in Int /\ a3 \in Int /\ a4 \in Int /\ a5 \in Int /\ a6 \in Int
      /\ b1 \in Int /\ b2 \in Int /\ b3 \in Int /\ b4 \in Int /\ b5 \in Int /\ b6 \in Int
  BY <1>1
<1>c. ASSUME NEW i \in 1..6 PROVE \E k \in Int : b(i) = a(i) + 256 * k
  <2> DEFINE v == a(i)
             w == b(i)
  <2>1. v \in Int /\ w \in Int /\ w % 256 = v % 256
    BY <1>1
  <2> HIDE DEF v, w
  <2>2. \E k \in Int : w = v + 256 * k
    BY <2>1, Congruent
  <2> QED
    BY <2>2 DEF v, w
<1>4. /\ \E k \in Int : b1 = a1 + 256 * k
      /\ \E k \in Int : b2 = a2 + 256 * k
      /\ \E k \in Int : b3 = a3 + 256 * k
      /\ \E k \in Int : b4 = a4 + 256 * k
      /\ \E k \in Int : b5 = a5 + 256 * k
      /\ \E k \in Int : b6 = a6 + 256 * k
  BY <1>c
<1> HIDE DEF a1, a2, a3, a4, a5, a6, b1, b2, b3, b4, b5, b6
<1>7. PICK k1 \in Int : b1 = a1 + 256 * k1
  BY <1>4
<1>8. PICK k2 \in Int : b2 = a2 + 256 * k2
  BY <1>4
<1>9. PICK k3 \in Int : b3 = a3 + 256 * k3
  BY <1>4
<1>10. PICK k4 \in Int : b4 = a4 + 256 * k4
  BY <1>4
<1>11. PICK k5 \in Int : b5 = a5 + 256 * k5
  BY <1>4
<1>12. PICK k6 \in Int : b6 = a6 + 256 * k6
  BY <1>4
<1> DEFINE k == k1 + k2 + k3 + k4 + k5 + k6
<1>13. x \in Int /\ y \in Int
  BY <1>2, <1>3
<1>14. k \in Int /\ x = y + 256 * k
  BY <1>2, <1>3, <1>7, <1>8, <1>9, <1>10, <1>11, <1>12
<1> HIDE DEF k
<1>15. x % 256 = y % 256
  BY <1>13, <1>14, SameSum
<1> QED
  BY <1>13, <1>15 DEF x, y

ChecksumOK(p) ==
    LET unsigned == [j \in DOMAIN p.data |-> Unsigned(p.data[j])]
    IN  (Unsigned(p.device) + Unsigned(p.command) + Unsigned(p.seq)
            + Unsigned(p.dlen) + SumFunction(unsigned) + Unsigned(p.chk))
        % 256 = 255

IsCommand(c) ==
    /\ c.device \in Int /\ c.command \in Int
    /\ c.data \in Seq(Int) /\ Len(c.data) <= 6

LEMMA BuiltChecksum ==
    ASSUME NEW c, IsCommand(c), NEW seq \in Int
    PROVE  ChecksumOK(buildCommand(c, seq))
<1> DEFINE p == buildCommand(c, seq)
           n == Len(c.data)
           d == c.data
           u == [j \in DOMAIN d |-> Unsigned(d[j])]
           dlen == Byte(n + 1)
           data == Byte(SumFunction(d))
           s == c.device + c.command + seq + dlen + data
           e == c.device
           o == c.command
           U == SumFunction(u)
           S == SumFunction(d)
<1>1. /\ p.device = c.device /\ p.command = c.command /\ p.seq = seq
      /\ p.dlen = dlen /\ p.data = d /\ p.chk = Checksum(s)
  BY DEF buildCommand
<1>2. n \in 0..6 /\ d \in [1..n -> Int] /\ DOMAIN d = 1..n
  <2>1. d \in Seq(Int) /\ n <= 6
    BY DEF IsCommand
  <2>2. ASSUME NEW q \in Seq(Int)
        PROVE  Len(q) \in Nat /\ q \in [1..Len(q) -> Int] /\ DOMAIN q = 1..Len(q)
    OBVIOUS
  <2>3. n \in Nat /\ d \in [1..n -> Int] /\ DOMAIN d = 1..n
    BY <2>1, <2>2
  <2> HIDE DEF n, d
  <2>4. n \in 0..6
    BY <2>1, <2>3
  <2> QED
    BY <2>3, <2>4
<1>3. u \in [1..n -> Int] /\ \A i \in 1..n : u[i] = Unsigned(d[i])
  BY <1>2 DEF Unsigned
<1>4. S \in Int /\ U \in Int /\ U % 256 = S % 256
  <2> HIDE DEF u, n, d
  <2>1. SumFunction(d) \in Int /\ SumFunction(u) \in Int
        /\ SumFunction(u) % 256 = SumFunction(d) % 256
    BY <1>2, <1>3, SignedSum DEF SameData
  <2> QED
    BY <2>1
<1>5. e \in Int /\ o \in Int
  BY DEF IsCommand
<1> HIDE DEF u, n, d, e, o, U, S
<1>6. dlen \in Int /\ data \in Int /\ data % 256 = S % 256
  <2>1. n + 1 \in Int
    BY <1>2
  <2>2. ASSUME NEW x \in Int PROVE Byte(x) \in Int /\ Byte(x) % 256 = x % 256
    BY DEF Byte
  <2> QED
    BY <1>4, <2>1, <2>2, Zenon DEF S
<1>7. s \in Int
  BY <1>5, <1>6 DEF e, o
<1>8. /\ (s + Checksum(s)) % 256 = 255 /\ Checksum(s) \in Int
      /\ s = e + o + seq + dlen + data
  BY <1>7, ChecksumComplements DEF e, o
<1> HIDE DEF dlen, data
<1>9. ASSUME NEW x \in Int PROVE Unsigned(x) \in Int /\ Unsigned(x) % 256 = x % 256
  BY DEF Unsigned
<1> DEFINE chk == Checksum(s)
<1>14. chk \in Int
  BY <1>8
<1>15. s = e + o + seq + dlen + data /\ (s + chk) % 256 = 255 /\ s \in Int
  BY <1>7, <1>8
<1> HIDE DEF chk, s
<1>16. (Unsigned(e) + Unsigned(o) + Unsigned(seq) + Unsigned(dlen) + U + Unsigned(chk)) % 256
          = (s + chk) % 256
  <2>1. /\ U % 256 = data % 256 /\ U \in Int /\ data \in Int
        /\ e \in Int /\ o \in Int /\ seq \in Int /\ dlen \in Int /\ chk \in Int
    BY <1>4, <1>5, <1>6, <1>14
  <2>2. ASSUME NEW x \in Int PROVE \E k \in Int : Unsigned(x) = x + 256 * k
    BY <1>9, Congruent
  <2>3. PICK k1 \in Int : Unsigned(e) = e + 256 * k1
    BY <2>1, <2>2
  <2>4. PICK k2 \in Int : Unsigned(o) = o + 256 * k2
    BY <2>1, <2>2
  <2>5. PICK k3 \in Int : Unsigned(seq) = seq + 256 * k3
    BY <2>2
  <2>6. PICK k4 \in Int : Unsigned(dlen) = dlen + 256 * k4
    BY <2>1, <2>2
  <2>7. PICK k5 \in Int : U = data + 256 * k5
    BY <2>1, Congruent
  <2>8. PICK k6 \in Int : Unsigned(chk) = chk + 256 * k6
    BY <2>1, <2>2
  <2> DEFINE x == Unsigned(e) + Unsigned(o) + Unsigned(seq) + Unsigned(dlen) + U
                      + Unsigned(chk)
             y == s + chk
             k == k1 + k2 + k3 + k4 + k5 + k6
  <2>9. y \in Int /\ k \in Int /\ x = y + 256 * k
    BY <1>15, <2>1, <2>3, <2>4, <2>5, <2>6, <2>7, <2>8
  <2>10. x \in Int
    BY <2>9
  <2> HIDE DEF x, y, k
  <2>11. x % 256 = y % 256
    BY <2>9, <2>10, SameSum
  <2> QED
    BY <2>11 DEF x, y
<1>17. ChecksumOK(p) <=>
          (Unsigned(e) + Unsigned(o) + Unsigned(seq) + Unsigned(dlen) + U + Unsigned(chk))
          % 256 = 255
  BY <1>1 DEF ChecksumOK, e, o, U, u, chk
<1> QED
  BY <1>15, <1>16, <1>17


(* The packets that the operations build are of ints, and short. *)
LEMMA HeadingBytes ==
    ASSUME NEW h \in Int
    PROVE  /\ Bytes16(h)[1] \in Int /\ Bytes16(h)[2] \in Int
           /\ Bytes16(h) = <<Bytes16(h)[1], Bytes16(h)[2]>>
<1>1. h \div 256 \in Int /\ Rem(h, 256) \in Int
  BY DEF Rem
<1>2. Bytes16(h)[1] = Byte(h \div 256) /\ Bytes16(h)[2] = Byte(Rem(h, 256))
  BY DEF Bytes16
<1> QED
  BY <1>1, <1>2 DEF Bytes16, Byte

LEMMA RollIs ==
    ASSUME NEW h \in Int, NEW speed \in Int
    PROVE  IsCommand(RollPacket(h, speed))
<1> DEFINE s == Byte(speed)
           hi == Bytes16(h)[1]
           lo == Bytes16(h)[2]
<1>1. s \in Int /\ hi \in Int /\ lo \in Int
  BY HeadingBytes DEF Byte
<1>2. RollPacket(h, speed) = [device |-> 2, command |-> 48, data |-> <<s, hi, lo, 1>>]
  BY DEF RollPacket, Command, RollDevice, RollCommand
<1> HIDE DEF s, hi, lo
<1> QED
  BY <1>1, <1>2 DEF IsCommand

LEMMA HeadingIs ==
    ASSUME NEW h \in Int
    PROVE  IsCommand(HeadingPacket(h))
<1> DEFINE hi == Bytes16(h)[1]
           lo == Bytes16(h)[2]
<1>1. hi \in Int /\ lo \in Int /\ Bytes16(h) = <<hi, lo>>
  BY HeadingBytes
<1> HIDE DEF hi, lo
<1>2. HeadingPacket(h) = [device |-> 2, command |-> 1, data |-> <<hi, lo>>]
  BY <1>1, Zenon DEF HeadingPacket, Command
<1> QED
  BY <1>1, <1>2 DEF IsCommand

LEMMA RGBIs ==
    ASSUME NEW r \in Int, NEW g \in Int, NEW b \in Int
    PROVE  IsCommand(RGBPacket(r, g, b))
<1> DEFINE x == Byte(r)
           y == Byte(g)
           z == Byte(b)
<1>1. x \in Int /\ y \in Int /\ z \in Int
  BY DEF Byte
<1>2. RGBPacket(r, g, b) = [device |-> 2, command |-> 32, data |-> <<x, y, z, 0>>]
  BY DEF RGBPacket, Command
<1> HIDE DEF x, y, z
<1> QED
  BY <1>1, <1>2 DEF IsCommand

LEMMA ByteIs ==
    ASSUME NEW v \in Int
    PROVE  /\ IsCommand(BackLEDPacket(v)) /\ IsCommand(RotationRatePacket(v))
           /\ IsCommand(InactivityPacket(v))
<1> DEFINE x == Byte(v)
<1>1. x \in Int
  BY DEF Byte
<1>2. /\ BackLEDPacket(v) = [device |-> 2, command |-> 33, data |-> <<x>>]
      /\ RotationRatePacket(v) = [device |-> 2, command |-> 3, data |-> <<x>>]
      /\ InactivityPacket(v) = [device |-> 0, command |-> 37, data |-> <<x>>]
  BY DEF BackLEDPacket, RotationRatePacket, InactivityPacket, Command
<1> HIDE DEF x
<1> QED
  BY <1>1, <1>2 DEF IsCommand

LEMMA FlagIs ==
    ASSUME NEW f \in BOOLEAN
    PROVE  /\ IsCommand(StabilizationPacket(f)) /\ IsCommand(PowerPacket(f))
           /\ IsCommand(CollisionPacket(f))
<1> DEFINE x == IF f THEN 1 ELSE 0
<1>1. x \in Int
  OBVIOUS
<1>2. /\ StabilizationPacket(f) = [device |-> 2, command |-> 2, data |-> <<x>>]
      /\ PowerPacket(f) = [device |-> 0, command |-> 33, data |-> <<x>>]
      /\ CollisionPacket(f) =
            [device |-> 2, command |-> 18, data |-> <<x, 50, 100, 50, 100, 100>>]
  BY DEF StabilizationPacket, PowerPacket, CollisionPacket, Command
<1> HIDE DEF x
<1>3. IsCommand(StabilizationPacket(f))
  BY <1>1, <1>2 DEF IsCommand
<1>4. IsCommand(PowerPacket(f))
  BY <1>1, <1>2 DEF IsCommand
<1>5. IsCommand(CollisionPacket(f))
  BY <1>1, <1>2 DEF IsCommand
<1> QED
  BY <1>3, <1>4, <1>5

LEMMA SleepIs == IsCommand(SleepPacket)
  BY DEF IsCommand, SleepPacket, Command

LEMMA Valid == ChecksumsValid <=> \A i \in DOMAIN sent : ChecksumOK(sent[i])
  BY DEF ChecksumsValid, ChecksumOK

(* Building packets gives each of them its checksum. *)
LEMMA SendChecks ==
    ASSUME packet_number \in -128..127, NEW commands, Len(commands) \in Nat,
           Send(commands), \A i \in 1..Len(commands) : IsCommand(commands[i])
    PROVE  ChecksumsValid'
<1> DEFINE n == Len(commands)
           seq(i) == Advance(packet_number, i - 1)
<1>1. sent' = IF linked THEN [i \in 1..n |-> buildCommand(commands[i], seq(i))] ELSE <<>>
  BY DEF Send
<1>2. CASE ~linked
  <2>1. sent' = <<>>
    BY <1>1, <1>2
  <2> QED
    BY <2>1 DEF ChecksumsValid
<1>3. CASE linked
  <2>1. sent' = [i \in 1..n |-> buildCommand(commands[i], seq(i))]
    BY <1>1, <1>3
  <2>2. ASSUME NEW i \in 1..n PROVE seq(i) \in Int
    <3>1. i - 1 \in Int
      OBVIOUS
    <3> QED
      BY <3>1 DEF Advance, Byte
  <2>3. ASSUME NEW i \in 1..n PROVE ChecksumOK(buildCommand(commands[i], seq(i)))
    <3> DEFINE c == commands[i]
               q == seq(i)
    <3>1. IsCommand(c) /\ q \in Int
      BY <2>2
    <3> HIDE DEF c, q
    <3>2. ChecksumOK(buildCommand(c, q))
      BY <3>1, BuiltChecksum
    <3> QED
      BY <3>2 DEF c, q
  <2> HIDE DEF seq
  <2>4. \A i \in DOMAIN sent' : ChecksumOK(sent'[i])
    BY <2>1, <2>3
  <2> QED
    BY <2>4 DEF ChecksumsValid, ChecksumOK
<1> QED
  BY <1>2, <1>3

LEMMA SendOneChecks ==
    ASSUME packet_number \in -128..127, NEW c, IsCommand(c), Send(<<c>>)
    PROVE  ChecksumsValid'
<1> DEFINE cs == <<c>>
<1>1. Len(cs) \in Nat /\ \A i \in 1..Len(cs) : IsCommand(cs[i])
  OBVIOUS
<1>2. Send(cs)
  OBVIOUS
<1> HIDE DEF cs
<1> QED
  BY <1>1, <1>2, SendChecks

LEMMA NothingSent == ASSUME sent' = <<>> PROVE ChecksumsValid'
  BY DEF ChecksumsValid


LEMMA LevelInputs == Levels \subseteq Int
  BY DeviceAssumption

LEMMA NextChecks == TypeOK /\ Numbers /\ ChecksumsValid /\ [Next]_vars => ChecksumsValid'
<1> SUFFICES ASSUME TypeOK, Numbers, ChecksumsValid, [Next]_vars PROVE ChecksumsValid'
  OBVIOUS
<1>t. packet_number \in -128..127 /\ heading \in 0..359 /\ heading \in Int
  BY DEF TypeOK
<1>i. ASSUME NEW x \in Int PROVE Degrees(x) \in Int /\ Clamp(x) \in Int
  BY DegreesMod, ClampInt
<1>1. ASSUME NEW h \in RollHeadings, NEW s \in Speeds, Roll(h, s) PROVE ChecksumsValid'
  <2> DEFINE c == RollPacket(Degrees(h), Clamp(s))
  <2>1. IsCommand(c)
    BY <1>i, Inputs, RollIs
  <2>2. Send(<<c>>)
    BY <1>1 DEF Roll
  <2> HIDE DEF c
  <2> QED
    BY <1>t, <2>1, <2>2, SendOneChecks
<1>2. ASSUME NEW s \in Speeds, RollForward(s) PROVE ChecksumsValid'
  <2> DEFINE c == RollPacket(heading, Clamp(s))
  <2>1. IsCommand(c)
    BY <1>t, <1>i, Inputs, RollIs
  <2>2. Send(<<c>>)
    BY <1>2 DEF RollForward
  <2> HIDE DEF c
  <2> QED
    BY <1>t, <2>1, <2>2, SendOneChecks
<1>3. ASSUME NEW d \in Directions, Turn(d) PROVE ChecksumsValid'
  <2> DEFINE c == RollPacket(heading', 0)
  <2>1. heading + d \in Int /\ ToInt(heading + d) = heading + d
    BY <1>t, Inputs, NoOverflow
  <2>2. heading' \in Int
    BY <1>3, <1>i, <2>1 DEF Turn
  <2>3. IsCommand(c)
    BY <2>2, RollIs
  <2>4. Send(<<c>>)
    BY <1>3 DEF Turn
  <2> HIDE DEF c
  <2> QED
    BY <1>t, <2>3, <2>4, SendOneChecks
<1>4. ASSUME Stop PROVE ChecksumsValid'
  <2> DEFINE c == RollPacket(Degrees(heading), 0)
  <2>1. IsCommand(c)
    BY <1>t, <1>i, RollIs
  <2>2. Send(<<c>>)
    BY <1>4 DEF Stop
  <2> HIDE DEF c
  <2> QED
    BY <1>t, <2>1, <2>2, SendOneChecks
<1>5. ASSUME NEW h \in NewHeadings, SetHeading(h) PROVE ChecksumsValid'
  <2> DEFINE c == HeadingPacket(h)
  <2>1. IsCommand(c)
    BY Inputs, HeadingIs
  <2>2. Send(<<c>>)
    BY <1>5 DEF SetHeading
  <2> HIDE DEF c
  <2> QED
    BY <1>t, <2>1, <2>2, SendOneChecks
<1>6. ASSUME NEW on \in BOOLEAN, Calibrate(on) PROVE ChecksumsValid'
  <2> DEFINE begin == <<RGBPacket(0, 0, 0), BackLEDPacket(127), HeadingPacket(0),
                        StabilizationPacket(FALSE)>>
             end == <<BackLEDPacket(0), RGBPacket(127, 127, 127), HeadingPacket(0),
                      StabilizationPacket(TRUE)>>
  <2>1. /\ IsCommand(RGBPacket(0, 0, 0)) /\ IsCommand(RGBPacket(127, 127, 127))
        /\ IsCommand(BackLEDPacket(127)) /\ IsCommand(BackLEDPacket(0))
        /\ IsCommand(HeadingPacket(0))
        /\ IsCommand(StabilizationPacket(FALSE)) /\ IsCommand(StabilizationPacket(TRUE))
    <3>1. 0 \in Int /\ 127 \in Int /\ TRUE \in BOOLEAN /\ FALSE \in BOOLEAN
      OBVIOUS
    <3>2. IsCommand(RGBPacket(0, 0, 0)) /\ IsCommand(RGBPacket(127, 127, 127))
      BY <3>1, RGBIs, Zenon
    <3>3. IsCommand(BackLEDPacket(127)) /\ IsCommand(BackLEDPacket(0))
      BY <3>1, ByteIs, Zenon
    <3>4. IsCommand(HeadingPacket(0))
      BY <3>1, HeadingIs, Zenon
    <3>5. IsCommand(StabilizationPacket(FALSE)) /\ IsCommand(StabilizationPacket(TRUE))
      BY <3>1, FlagIs, Zenon
    <3> QED
      BY <3>2, <3>3, <3>4, <3>5
  <2>f. ASSUME NEW a, NEW b, NEW c, NEW d,
               IsCommand(a), IsCommand(b), IsCommand(c), IsCommand(d)
        PROVE  /\ Len(<<a, b, c, d>>) \in Nat
               /\ \A i \in 1..Len(<<a, b, c, d>>) : IsCommand(<<a, b, c, d>>[i])
    BY <2>f
  <2>2. Len(begin) \in Nat /\ \A i \in 1..Len(begin) : IsCommand(begin[i])
    BY <2>1, <2>f
  <2>3. Len(end) \in Nat /\ \A i \in 1..Len(end) : IsCommand(end[i])
    BY <2>1, <2>f
  <2>4. Send(begin) \/ Send(end)
    BY <1>6 DEF Calibrate
  <2> HIDE DEF begin, end
  <2> QED
    BY <1>t, <2>2, <2>3, <2>4, SendChecks
<1>7. ASSUME Other PROVE ChecksumsValid'
  <2>1. ASSUME NEW r \in Levels, NEW g \in Levels, NEW b \in Levels,
               Send(<<RGBPacket(r, g, b)>>)
        PROVE  ChecksumsValid'
    <3>1. IsCommand(RGBPacket(r, g, b))
      BY LevelInputs, RGBIs
    <3> QED
      BY <1>t, <2>1, <3>1, SendOneChecks
  <2>2. ASSUME NEW v \in Levels, Send(<<BackLEDPacket(v)>>) \/ Send(<<RotationRatePacket(v)>>)
        PROVE  ChecksumsValid'
    <3>1. IsCommand(BackLEDPacket(v)) /\ IsCommand(RotationRatePacket(v))
      BY LevelInputs, ByteIs
    <3> QED
      BY <1>t, <2>2, <3>1, SendOneChecks
  <2>3. ASSUME NEW f \in BOOLEAN,
               Send(<<StabilizationPacket(f)>>) \/ Send(<<CollisionPacket(f)>>)
        PROVE  ChecksumsValid'
    <3>1. IsCommand(StabilizationPacket(f)) /\ IsCommand(CollisionPacket(f))
      BY FlagIs
    <3> QED
      BY <1>t, <2>3, <3>1, SendOneChecks
  <2>4. ASSUME Send(<<SleepPacket>>) PROVE ChecksumsValid'
    BY <1>t, <2>4, SleepIs, SendOneChecks
  <2> QED
    BY <1>7, <2>1, <2>2, <2>3, <2>4, Zenon DEF Other
<1>8. ASSUME Connect PROVE ChecksumsValid'
  <2> DEFINE ps == ConnectPackets
             first == IF linked THEN 0 ELSE 1
  <2>1. /\ IsCommand(PowerPacket(TRUE)) /\ IsCommand(HeadingPacket(0))
        /\ IsCommand(InactivityPacket(InactivityTimeout))
    <3>1. 0 \in Int /\ InactivityTimeout \in Int /\ TRUE \in BOOLEAN
      BY DEF InactivityTimeout
    <3>2. IsCommand(PowerPacket(TRUE))
      BY <3>1, FlagIs, Zenon
    <3>3. IsCommand(HeadingPacket(0))
      BY <3>1, HeadingIs, Zenon
    <3>4. IsCommand(InactivityPacket(InactivityTimeout))
      BY <3>1, ByteIs, Zenon
    <3> QED
      BY <3>2, <3>3, <3>4
  <2>2. ASSUME NEW k \in Int PROVE Advance(packet_number, k) \in Int
    BY <1>t DEF Advance, Byte
  <2>3. /\ ChecksumOK(buildCommand(PowerPacket(TRUE), Advance(packet_number, 0)))
        /\ ChecksumOK(buildCommand(HeadingPacket(0), Advance(packet_number, 1)))
        /\ ChecksumOK(buildCommand(InactivityPacket(InactivityTimeout),
                                   Advance(packet_number, 2)))
    <3>1. /\ Advance(packet_number, 0) \in Int /\ Advance(packet_number, 1) \in Int
          /\ Advance(packet_number, 2) \in Int
      BY <2>2
    <3> QED
      BY <2>1, <3>1, BuiltChecksum, Zenon
  <2>4. /\ ps[1] = buildCommand(PowerPacket(TRUE), Advance(packet_number, 0))
        /\ ps[2] = buildCommand(HeadingPacket(0), Advance(packet_number, 1))
        /\ ps[3] = buildCommand(InactivityPacket(InactivityTimeout),
                                Advance(packet_number, 2))
    BY DEF ConnectPackets
  <2>5. ASSUME NEW i \in 1..3 PROVE ChecksumOK(ps[i])
    <3> HIDE DEF ps
    <3>1. i = 1 \/ i = 2 \/ i = 3
      OBVIOUS
    <3> QED
      BY <2>3, <2>4, <3>1
  <2>6. first \in 0..1 /\ sent' = [i \in 1..(3 - first) |-> ps[i + first]]
    BY <1>8 DEF Connect
  <2> HIDE DEF ps, first
  <2>7. \A i \in DOMAIN sent' : ChecksumOK(sent'[i])
    <3>1. DOMAIN sent' = 1..(3 - first)
      BY <2>6
    <3>2. ASSUME NEW i \in 1..(3 - first) PROVE ChecksumOK(sent'[i])
      <4>1. i + first \in 1..3 /\ sent'[i] = ps[i + first]
        BY <2>6
      <4> QED
        BY <2>5, <4>1
    <3> QED
      BY <3>1, <3>2
  <2> QED
    BY <2>7 DEF ChecksumsValid, ChecksumOK
<1>9. ASSUME ConnectFails PROVE ChecksumsValid'
  <2>1. IsCommand(PowerPacket(TRUE))
    BY FlagIs
  <2> QED
    BY <1>t, <1>9, <2>1, SendOneChecks DEF ConnectFails
<1>10. CASE Clear
  BY <1>10, NothingSent DEF Clear
<1>11. CASE Disconnect
  BY <1>11, NothingSent DEF Disconnect
<1>12. CASE UNCHANGED vars
  BY <1>12 DEF vars, ChecksumsValid
<1> QED
  BY <1>1, <1>2, <1>3, <1>4, <1>5, <1>6, <1>7, <1>8, <1>9, <1>10, <1>11, <1>12, Zenon DEF Next

(* Every packet that is written, of every operation and with every heading, *)
(* speed, level and packet number, has bytes that the robot adds up to 255  *)
(* modulo 256, so it takes none of them for a damaged one.                  *)
THEOREM Checksums == Spec => []ChecksumsValid
<1>1. Init => ChecksumsValid
  BY DEF Init, ChecksumsValid
<1>2. Ind => TypeOK /\ Numbers
  BY DEF Ind
<1> QED
  BY <1>1, <1>2, InitInd, NextInd, NextChecks, PTL DEF Spec
=============================================================================
