----------------------------- MODULE PtzCommands -----------------------------
(***************************************************************************)
(* The PTZ commands of /ptz and /preset: SipService prints each as a frame *)
(* of hexadecimal digits, and PtzParser takes frames apart again. A frame  *)
(* is the sequence of its digits, 0 to 15. The parser has no caller in the *)
(* repository; here it is the camera's. It zeroes what it does not assign. *)
(* Commands share no state: a behaviour is one of them.                    *)
(***************************************************************************)
EXTENDS Integers, Sequences

CONSTANTS
  Speeds,   \* the speeds that /ptz is asked for: any that stoi returns
  Presets,  \* the presets of /preset
  None

\* Twice a speed, and the rest of the checksum, is still an int.
ASSUME PtzAssumption ==
  /\ Speeds \subseteq -1073741000 .. 1073741000
  /\ Presets \subseteq -1073741000 .. 1073741000

VARIABLES
  asked,   \* the command: [api, command, value]
  frame,   \* the text of its PTZCmd
  control  \* what the camera has understood: control_cmd_t

vars == <<asked, frame, control>>

-----------------------------------------------------------------------------
(* Hexadecimal *)

Places == <<1, 16, 256, 4096, 65536, 1048576, 16777216, 268435456>>

\* The digit of v at a place; of a negative v, in two's complement.
Digit(v, k) == (v \div Places[k]) % 16

\* How many digits v is printed with: setw is a minimum, and an int has up to 8.
Width(v, least) ==
  CHOOSE n \in least .. 8 :
    /\ n = 8 \/ v \in 0 .. Places[n + 1] - 1
    /\ \A m \in least .. n - 1 : v \notin 0 .. Places[m + 1] - 1

Hex(v, least) ==
  [i \in 1 .. Width(v, least) |-> Digit(v, Width(v, least) + 1 - i)]

\* % of C++ takes the sign of the dividend.
Remainder(a) == IF a >= 0 THEN a % 256 ELSE -((-a) % 256)

-----------------------------------------------------------------------------
(* Frames *)

\* A direction is 0 (none), 1 or 2, and has two bits of the command's byte.
Bits(direction, one, two) ==
  IF direction = 1 THEN one ELSE IF direction = 2 THEN two ELSE 0

\* Plausible bug: left and right are swapped.
CommandByteMirrored(leftRight, upDown, inOut) ==
  Bits(leftRight, 1, 2) + Bits(upDown, 8, 4) + Bits(inOut, 32, 16)

CommandByte(leftRight, upDown, inOut) ==
  Bits(leftRight, 2, 1) + Bits(upDown, 8, 4) + Bits(inOut, 32, 16)

\* Plausible bug: the speed counts once, though it is in two bytes.
CheckCodeOnce(four, five, six, seven) == Remainder(165 + 15 + 1 + four + five + seven)

CheckCode(four, five, six, seven) ==
  Remainder(165 + 15 + 1 + four + five + six + seven)

\* A5 0F 01, the bytes 4 to 6, and byte 7, whose lower half is 0.
Frame(four, five, six, seven, check) ==
  <<10, 5, 0, 15, 0, 1>> \o Hex(four, 2) \o Hex(five, 2) \o Hex(six, 2)
    \o Hex(seven, 1) \o <<0>> \o Hex(check, 2)

cmdString(leftRight, upDown, inOut, moveSpeed, zoomSpeed) ==
  LET code == CommandByte(leftRight, upDown, inOut)
  IN  Frame(code, moveSpeed, moveSpeed, zoomSpeed,
            CheckCode(code, moveSpeed, moveSpeed, 16 * zoomSpeed))

\* The seventh byte is 0 in all calls.
cmdCode(fourthByte, fifthByte, sixthByte) ==
  Frame(fourthByte, fifthByte, sixthByte, 0,
        CheckCode(fourthByte, fifthByte, sixthByte, 0))

\* leftRight, upDown and inOut of a command of /ptz. Its inOut of zoomin is the one that
\* cmdString's comment calls zoom out (缩小).
Directions ==
  [left |-> <<1, 0, 0>>, right |-> <<2, 0, 0>>, up |-> <<0, 1, 0>>,
   down |-> <<0, 2, 0>>, upleft |-> <<1, 1, 0>>, upright |-> <<2, 1, 0>>,
   downleft |-> <<1, 2, 0>>, downright |-> <<2, 2, 0>>,
   zoomin |-> <<0, 0, 1>>, zoomout |-> <<0, 0, 2>>, stop |-> <<0, 0, 0>>]

PresetCodes == [set |-> 129, goto |-> 130, del |-> 131]

-----------------------------------------------------------------------------
(* PtzParser *)

Byte(f, i) == 16 * f[2 * i - 1] + f[2 * i]

\* Two bits of the command's byte, by the value of the lower one.
Meaning(f, unit, one, two) ==
  LET field == (Byte(f, 4) \div unit) % 4
  IN  IF field = 1 THEN one ELSE IF field = 2 THEN two ELSE "unknown"

parse_ptz(f) ==
  [type |-> "PTZ",
   pan  |-> Meaning(f, 1, "right", "left"), panSpeed  |-> Byte(f, 5),
   tilt |-> Meaning(f, 4, "down", "up"),    tiltSpeed |-> Byte(f, 6),
   zoom |-> Meaning(f, 16, "in", "out"),    zoomSpeed |-> Byte(f, 7) \div 16]

parse_preset(f) ==
  [type    |-> "preset",
   cmdtype |-> CHOOSE c \in DOMAIN PresetCodes : PresetCodes[c] = Byte(f, 4),
   index   |-> Byte(f, 6)]

\* SipService sends no iris, focus, patrol or scan commands: they are "other".
ParseControlCmd(f) ==
  CASE Byte(f, 4) < 64              -> parse_ptz(f)
    [] Byte(f, 4) \in {129, 130, 131} -> parse_preset(f)
    [] OTHER                        -> [type |-> "other"]

-----------------------------------------------------------------------------
Init ==
  /\ asked = None
  /\ frame = <<>>
  /\ control = None

\* /ptz: all commands but zoomin and zoomout have the speed 0 for the zoom.
Ptz(command, speed) ==
  LET d == Directions[command]
  IN  /\ asked = None
      /\ asked' = [api |-> "ptz", command |-> command, value |-> speed]
      /\ frame' = CASE d[3] # 0         -> cmdString(0, 0, d[3], 0, 1)
                    [] command = "stop" -> cmdString(0, 0, 0, 0, 0)
                    [] OTHER            -> cmdString(d[1], d[2], 0, speed, 0)
      /\ UNCHANGED control

Preset(command, preset) ==
  /\ asked = None
  /\ asked' = [api |-> "preset", command |-> command, value |-> preset]
  /\ frame' = cmdCode(PresetCodes[command], 0, preset)
  /\ UNCHANGED control

Understand ==
  /\ asked # None /\ control = None
  /\ control' = ParseControlCmd(frame)
  /\ UNCHANGED <<asked, frame>>

Next ==
  \/ \E c \in DOMAIN Directions, s \in Speeds : Ptz(c, s)
  \/ \E c \in DOMAIN PresetCodes, n \in Presets : Preset(c, n)
  \/ Understand

Spec == Init /\ [][Next]_vars

-----------------------------------------------------------------------------
(* Properties *)

Fits == asked # None /\ asked.value \in 0 .. 255

\* A frame with a speed or preset of one byte has 8 bytes, and the last is their sum:
\* PtzCmd.cpp:37, 字节8=(字节1+字节2+字节3+字节4+字节5+字节6+字节7)%256. Other values shift it.
FrameIsValid ==
  Fits =>
    /\ frame \in [1 .. 16 -> 0 .. 15]
    /\ Byte(frame, 8) = (Byte(frame, 1) + Byte(frame, 2) + Byte(frame, 3) + Byte(frame, 4)
                          + Byte(frame, 5) + Byte(frame, 6) + Byte(frame, 7)) % 256

Lefts  == {"left", "upleft", "downleft"}
Rights == {"right", "upright", "downright"}
Ups    == {"up", "upleft", "upright"}
Downs  == {"down", "downleft", "downright"}

\* The parser reads back the moves, the stop, the speed and the preset that /ptz or
\* /preset has been asked for. Of a zoom it reads back the direction and the speed that
\* /ptz has given cmdString, as cmdString's comments name them: 1 is out, 2 is in
\* (PtzCmd.cpp:20-25). That /ptz gives 1 for zoomin, and so asks the camera to zoom out,
\* is not a claim of this property.
Understood ==
  Fits /\ control # None =>
    \/ /\ asked.api = "ptz" /\ control.type = "PTZ"
       /\ control.pan = "left" <=> asked.command \in Lefts
       /\ control.pan = "right" <=> asked.command \in Rights
       /\ control.tilt = "up" <=> asked.command \in Ups
       /\ control.tilt = "down" <=> asked.command \in Downs
       /\ control.zoom = "out" <=> Directions[asked.command][3] = 1
       /\ control.zoom = "in" <=> Directions[asked.command][3] = 2
       /\ control.zoom # "unknown" => control.zoomSpeed = 1
       /\ control.pan # "unknown" => control.panSpeed = asked.value
       /\ control.tilt # "unknown" => control.tiltSpeed = asked.value
    \/ /\ asked.api = "preset" /\ control.type = "preset"
       /\ control.cmdtype = asked.command /\ control.index = asked.value
=============================================================================
