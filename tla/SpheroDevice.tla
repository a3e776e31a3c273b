---------------------------- MODULE SpheroDevice ----------------------------
(***************************************************************************)
(* The command side of SpherlyServer/src/Sphero.java, as onMessage and     *)
(* connectToDevice of SpherlyWebSocketServer.java call it: the heading     *)
(* that turns are added to, the packet numbers, and the packets, byte by   *)
(* byte where Java's signed bytes and remainders matter.                   *)
(*                                                                         *)
(* One operation is one action: two threads do not build packets at once.  *)
(* The threads of the server are the subject of SpherlyServer.             *)
(***************************************************************************)
EXTENDS Integers, Sequences, Functions

CONSTANTS
    Directions,     \* degrees of turn messages
    RollHeadings,   \* headings of roll messages
    NewHeadings,    \* headings of setHeading messages
    Speeds,         \* speeds of roll and rollForward messages
    Levels,         \* bytes of colours, brightness and rates
    IntSize,        \* the number of Java int values (2^32)
    MaxPackets      \* the bound on packets built since the last clear

(* Degrees are far from the ends of an int, and setHeading gets headings   *)
(* that the robot takes.                                                   *)
ASSUME DeviceAssumption ==
    /\ Directions \subseteq Int /\ RollHeadings \subseteq Int
    /\ NewHeadings \subseteq 0..359
    /\ Speeds \subseteq Int /\ Levels \subseteq 0..255
    /\ IntSize \in Nat /\ IntSize > 720 /\ IntSize % 2 = 0
    /\ \A d \in Directions :
          -(IntSize \div 2) <= d /\ d + 359 < IntSize \div 2
    /\ MaxPackets \in Nat

VARIABLES
    heading,
    packet_number,  \* a byte
    linked,         \* comm.isConnected()
    sent,           \* the packets that the last operation wrote
    count,          \* history: packets built since the last clear
    facing,         \* history: the heading that the robot was last told
    rolled          \* history: ... by a roll message, so not by heading

vars == <<heading, packet_number, linked, sent, count, facing, rolled>>

-----------------------------------------------------------------------------
(* Java's numbers *)

Byte(n) == ((n + 128) % 256) - 128      \* the cast (byte)
Unsigned(b) == b % 256                  \* what the robot reads from a byte
Rem(a, b) == IF a >= 0 THEN a % b ELSE -((-a) % b)   \* the operator %
ToInt(n) == ((n + IntSize \div 2) % IntSize) - IntSize \div 2

(* mutation: the second remainder is taken as enough *)
Degrees360(h) == Rem(h, 360)

Degrees(h) == Rem(Rem(h, 360) + 360, 360)

(* n is the packet number, and k packets are built. *)
(* mutation: the numbers 0..127 are used, as if a byte had no sign *)
Advance127(n, k) == (n + k) % 128
(* mutation: the number is an int, and is not cut to a byte *)
AdvanceInt(n, k) == (n + k) % 256

Advance(n, k) == Byte(n + k)

-----------------------------------------------------------------------------
(* Packets *)

(* mutation: the low byte goes first *)
Bytes16Swapped(h) == <<Byte(Rem(h, 256)), Byte(h \div 256)>>

Bytes16(h) == <<Byte(h \div 256), Byte(Rem(h, 256))>>

Value16(b) == 256 * Unsigned(b[1]) + Unsigned(b[2])

Command(device, command, data) ==
    [device |-> device, command |-> command, data |-> data]

(* mutation: the two's complement of the sum, not the one's *)
ChecksumOff(sum) == Byte(256 - Byte(Rem(sum, 256)))

Checksum(sum) == -Byte(Rem(sum, 256)) - 1       \* chk ^= 0xFF

buildCommand(c, seq) ==
    LET dlen == Byte(Len(c.data) + 1)
    IN  [device |-> c.device, command |-> c.command, seq |-> seq, dlen |-> dlen,
         data |-> c.data,
         chk |-> Checksum(c.device + c.command + seq + dlen + Byte(SumFunction(c.data)))]

RollDevice == 2
RollCommand == 48

RollPacket(h, speed) ==
    Command(RollDevice, RollCommand,
            <<Byte(speed), Bytes16(h)[1], Bytes16(h)[2], 1>>)

HeadingPacket(h) == Command(2, 1, Bytes16(h))
RGBPacket(r, g, b) == Command(2, 32, <<Byte(r), Byte(g), Byte(b), 0>>)
BackLEDPacket(v) == Command(2, 33, <<Byte(v)>>)
StabilizationPacket(flag) == Command(2, 2, <<IF flag THEN 1 ELSE 0>>)
RotationRatePacket(r) == Command(2, 3, <<Byte(r)>>)
InactivityPacket(t) == Command(0, 37, <<Byte(t)>>)
SleepPacket == Command(0, 34, <<0, 0, 0, 0, 0>>)
PowerPacket(on) == Command(0, 33, <<IF on THEN 1 ELSE 0>>)
CollisionPacket(on) == Command(2, 18, <<IF on THEN 1 ELSE 0, 50, 100, 50, 100, 100>>)

(* Packets are numbered whether or not there is a link to write them to.   *)
Send(commands) ==
    /\ count + Len(commands) <= MaxPackets
    /\ count' = count + Len(commands)
    /\ packet_number' = Advance(packet_number, Len(commands))
    /\ sent' = IF linked
               THEN [i \in 1..Len(commands) |->
                        buildCommand(commands[i], Advance(packet_number, i - 1))]
               ELSE <<>>

(* What the robot is told of its heading, if there is a link: by a packet  *)
(* with the server's own heading, or by a roll message.                    *)
Told(h) ==
    IF linked THEN facing' = Value16(Bytes16(h)) /\ rolled' = FALSE
              ELSE UNCHANGED <<facing, rolled>>

ToldByRoll(h) ==
    IF linked THEN facing' = Value16(Bytes16(h)) /\ rolled' = TRUE
              ELSE UNCHANGED <<facing, rolled>>

-----------------------------------------------------------------------------
(* Operations that move the robot *)

Clamp(speed) == IF speed < 0 THEN 0 ELSE IF speed > 255 THEN 255 ELSE speed

Roll(h, speed) ==
    /\ Send(<<RollPacket(Degrees(h), Clamp(speed))>>)
    /\ ToldByRoll(Degrees(h))
    /\ UNCHANGED <<heading, linked>>

RollForward(speed) ==
    /\ Send(<<RollPacket(heading, Clamp(speed))>>)
    /\ Told(heading)
    /\ UNCHANGED <<heading, linked>>

Turn(d) ==
    /\ heading' = Degrees(ToInt(heading + d))
    /\ Send(<<RollPacket(heading', 0)>>)
    /\ Told(heading')
    /\ UNCHANGED linked

Stop ==
    /\ Send(<<RollPacket(Degrees(heading), 0)>>)
    /\ Told(Degrees(heading))
    /\ UNCHANGED <<heading, linked>>

(* The robot takes h as the name of the direction it faces. *)
Rename(h) == heading' = h /\ Told(h) /\ UNCHANGED linked

SetHeading(h) == Rename(h) /\ Send(<<HeadingPacket(h)>>)

(* mutation: calibration does not reset the heading, only the robot's *)
CalibrateKeeping(on) ==
    /\ Told(0) /\ UNCHANGED <<heading, linked>>
    /\ Send(<<HeadingPacket(0), StabilizationPacket(~on)>>)

Calibrate(on) ==
    /\ Rename(0)
    /\ IF on
       THEN Send(<<RGBPacket(0, 0, 0), BackLEDPacket(127), HeadingPacket(0),
                   StabilizationPacket(FALSE)>>)
       ELSE Send(<<BackLEDPacket(0), RGBPacket(127, 127, 127), HeadingPacket(0),
                   StabilizationPacket(TRUE)>>)

(* The other commands *)

Other ==
    /\ \/ \E r, g, b \in Levels : Send(<<RGBPacket(r, g, b)>>)
       \/ \E v \in Levels : Send(<<BackLEDPacket(v)>>)
       \/ \E v \in Levels : Send(<<RotationRatePacket(v)>>)
       \/ \E f \in BOOLEAN : Send(<<StabilizationPacket(f)>>)
       \/ \E f \in BOOLEAN : Send(<<CollisionPacket(f)>>)
       \/ Send(<<SleepPacket>>)
    /\ UNCHANGED <<heading, linked, facing, rolled>>

-----------------------------------------------------------------------------
(* The message "clear": clearPacketNum *)
Clear ==
    /\ packet_number' = 0
    /\ count' = 0
    /\ sent' = <<>>
    /\ UNCHANGED <<heading, linked, facing, rolled>>

InactivityTimeout == 6000

(* connectToDevice asks for power notifications before it connects, so that *)
(* packet is numbered, and written only if an earlier link is still there.  *)
(* Cancelling does not stop a connection being made, so one may be.         *)
ConnectPackets ==
    [i \in 1..3 |->
        buildCommand(CASE i = 1 -> PowerPacket(TRUE)
                       [] i = 2 -> HeadingPacket(0)
                       [] i = 3 -> InactivityPacket(InactivityTimeout),
                     Advance(packet_number, i - 1))]

Connect ==
    /\ linked' = TRUE
    /\ heading' = 0
    /\ facing' = 0 /\ rolled' = FALSE
    /\ count + 3 <= MaxPackets
    /\ count' = count + 3
    /\ packet_number' = Advance(packet_number, 3)
    /\ LET unwritten == IF linked THEN 0 ELSE 1
       IN  sent' = [i \in 1..(3 - unwritten) |-> ConnectPackets[i + unwritten]]

(* The connection cannot be opened: comm.connection is null afterwards. *)
ConnectFails ==
    /\ Send(<<PowerPacket(TRUE)>>)
    /\ linked' = FALSE
    /\ UNCHANGED <<heading, facing, rolled>>

Disconnect ==
    /\ linked' = FALSE
    /\ sent' = <<>>
    /\ UNCHANGED <<heading, packet_number, count, facing, rolled>>

Init ==
    /\ heading = 0
    /\ packet_number = 0
    /\ linked = FALSE
    /\ sent = <<>>
    /\ count = 0
    /\ facing = 0
    /\ rolled = FALSE

Next ==
    \/ \E h \in RollHeadings, s \in Speeds : Roll(h, s)
    \/ \E s \in Speeds : RollForward(s)
    \/ \E d \in Directions : Turn(d)
    \/ Stop
    \/ \E h \in NewHeadings : SetHeading(h)
    \/ \E on \in BOOLEAN : Calibrate(on)
    \/ Other
    \/ Clear
    \/ Connect
    \/ ConnectFails
    \/ Disconnect

Spec == Init /\ [][Next]_vars

-----------------------------------------------------------------------------
(* Properties *)

(* packet_number stays a byte and heading a number of degrees, so Java's   *)
(* wrap-around and negative remainders never reach either.                 *)
TypeOK ==
    /\ heading \in 0..359
    /\ packet_number \in -128..127
    /\ linked \in BOOLEAN
    /\ count \in 0..MaxPackets
    /\ facing \in 0..359
    /\ rolled \in BOOLEAN

(* The robot faces where the server thinks it does, unless a roll message, *)
(* which has a heading of its own, was the last to turn it.                *)
FacingKnown == linked /\ ~rolled => facing = heading

(* A turn moves the robot by as much as its message says, over full        *)
(* circles and through negative angles, calibrations and reconnections:    *)
(* from where it faces if the last command to turn it was not a roll       *)
(* message, which the server's heading does not know of.                   *)
TurnIsRelative ==
    [][\A d \in Directions :
          Turn(d) /\ linked /\ ~rolled => facing' = (facing + d) % 360]_vars

(* The robot reads a heading of 0..359 degrees from the two signed bytes   *)
(* of every roll packet.                                                   *)
HeadingOnWire ==
    \A i \in DOMAIN sent :
        sent[i].device = RollDevice /\ sent[i].command = RollCommand
            => Value16(<<sent[i].data[2], sent[i].data[3]>>) \in 0..359

(* The bytes from the device to the checksum of every packet, as the robot *)
(* reads them, add up to 255 modulo 256.                                   *)
ChecksumsValid ==
    \A i \in DOMAIN sent :
        LET p == sent[i]
            unsigned == [j \in DOMAIN p.data |-> Unsigned(p.data[j])]
        IN  (Unsigned(p.device) + Unsigned(p.command) + Unsigned(p.seq)
                + Unsigned(p.dlen) + SumFunction(unsigned) + Unsigned(p.chk))
            % 256 = 255

(* The packets since the last clear are numbered 0, 1, 2, ... modulo 256,  *)
(* as the robot reads the number, also where the byte turns negative.      *)
NumbersFollow ==
    \A i \in DOMAIN sent :
        Unsigned(sent[i].seq) = (count - Len(sent) + i - 1) % 256
=============================================================================
