-------------------------- MODULE PtzCommands_proofs --------------------------
(***************************************************************************)
(* Every command with a speed or preset of one byte has a valid frame, and *)
(* the parser reads back what cmdString or cmdCode was given, whatever     *)
(* other speeds and presets are asked for.                                 *)
(***************************************************************************)
EXTENDS PtzCommands, SequenceTheorems, TLAPS

Bytes == 0 .. 255

High(v) == v \div 16
Low(v)  == v % 16

LEMMA HighLow ==
  ASSUME NEW v \in Bytes
  PROVE  High(v) \in 0 .. 15 /\ Low(v) \in 0 .. 15 /\ v = 16 * High(v) + Low(v)
<1>1. v \in Nat /\ v <= 255
  BY DEF Bytes
<1>2. v \div 16 \in 0 .. 15 /\ v % 16 \in 0 .. 15
  BY <1>1
<1>3. \A q, r \in Int : q = v \div 16 /\ r = v % 16 => v = 16 * q + r
  BY <1>1
<1>4. High(v) \in Int /\ Low(v) \in Int /\ High(v) = v \div 16 /\ Low(v) = v % 16
  BY <1>2 DEF High, Low
<1>5. v = 16 * High(v) + Low(v)
  BY <1>3, <1>4, Zenon
<1>6. QED
  BY <1>2, <1>4, <1>5

LEMMA HexTwo ==
  ASSUME NEW v \in Bytes
  PROVE  Hex(v, 2) = <<High(v), Low(v)>>
<1>1. /\ Places[1] = 1 /\ Places[2] = 16 /\ Places[3] = 256
  BY DEF Places
<1>2. Width(v, 2) = 2
  <2> DEFINE P(n) == /\ n = 8 \/ v \in 0 .. Places[n + 1] - 1
                     /\ \A m \in 2 .. n - 1 : v \notin 0 .. Places[m + 1] - 1
  <2>1. v \in 0 .. Places[2 + 1] - 1
    BY <1>1 DEF Bytes
  <2>2. 2 \in 2 .. 8 /\ P(2)
    BY <2>1
  <2>3. \A n \in 2 .. 8 : P(n) => n = 2
    BY <2>1
  <2>4. Width(v, 2) = CHOOSE n \in 2 .. 8 : P(n)
    BY DEF Width
  <2> HIDE DEF P
  <2>5. QED
    BY <2>2, <2>3, <2>4
<1>3. Digit(v, 2) = High(v) /\ Digit(v, 1) = Low(v)
  <2>1. v \div 16 \in 0 .. 15 /\ v \div 1 = v
    BY DEF Bytes
  <2>2. (v \div 16) % 16 = v \div 16
    BY <2>1
  <2>3. QED
    BY <1>1, <2>1, <2>2 DEF Digit, High, Low
<1>4. Hex(v, 2) = [i \in 1 .. 2 |-> Digit(v, 3 - i)]
  BY <1>2 DEF Hex
<1>5. [i \in 1 .. 2 |-> Digit(v, 3 - i)] = <<High(v), Low(v)>>
  BY <1>3
<1>6. QED
  BY <1>4, <1>5

LEMMA HexOne ==
  ASSUME NEW v \in 0 .. 15
  PROVE  Hex(v, 1) = <<v>>
<1>1. Places[1] = 1 /\ Places[2] = 16
  BY DEF Places
<1>2. Width(v, 1) = 1
  <2> DEFINE P(n) == /\ n = 8 \/ v \in 0 .. Places[n + 1] - 1
                     /\ \A m \in 1 .. n - 1 : v \notin 0 .. Places[m + 1] - 1
  <2>1. v \in 0 .. Places[1 + 1] - 1
    BY <1>1
  <2>2. 1 \in 1 .. 8 /\ P(1)
    BY <2>1
  <2>3. \A n \in 1 .. 8 : P(n) => n = 1
    BY <2>1
  <2>4. Width(v, 1) = CHOOSE n \in 1 .. 8 : P(n)
    BY DEF Width
  <2> HIDE DEF P
  <2>5. QED
    BY <2>2, <2>3, <2>4
<1>3. Digit(v, 1) = v
  BY <1>1 DEF Digit
<1>4. Hex(v, 1) = [i \in 1 .. 1 |-> Digit(v, 2 - i)]
  BY <1>2 DEF Hex
<1>5. [i \in 1 .. 1 |-> Digit(v, 2 - i)] = <<v>>
  BY <1>3
<1>6. QED
  BY <1>4, <1>5

\* t is s with u after it.
Joins(t, s, u) ==
  /\ t \in Seq(Int) /\ Len(t) = Len(s) + Len(u)
  /\ \A i \in 1 .. Len(s) : t[i] = s[i]
  /\ \A i \in 1 .. Len(u) : t[Len(s) + i] = u[i]

LEMMA Concatenation ==
  ASSUME NEW s \in Seq(Int), NEW u \in Seq(Int)
  PROVE  Joins(s \o u, s, u)
  BY ConcatProperties DEF Joins

\* f is the frame of four bytes and their checksum.
Holds(f, four, five, six, seven, check) ==
  /\ f \in [1 .. 16 -> 0 .. 15]
  /\ Byte(f, 1) = 165 /\ Byte(f, 2) = 15 /\ Byte(f, 3) = 1
  /\ Byte(f, 4) = four /\ Byte(f, 5) = five /\ Byte(f, 6) = six
  /\ Byte(f, 7) = 16 * seven /\ Byte(f, 8) = check

LEMMA FrameBytes ==
  ASSUME NEW four \in Bytes, NEW five \in Bytes, NEW six \in Bytes, NEW seven \in 0 .. 15,
         NEW check \in Bytes
  PROVE  Holds(Frame(four, five, six, seven, check), four, five, six, seven, check)
<1> DEFINE f == Frame(four, five, six, seven, check)
<1> DEFINE s0 == <<10, 5, 0, 15, 0, 1>>
           s1 == s0 \o <<High(four), Low(four)>>
           s2 == s1 \o <<High(five), Low(five)>>
           s3 == s2 \o <<High(six), Low(six)>>
           s4 == s3 \o <<seven>>
           s5 == s4 \o <<0>>
           s6 == s5 \o <<High(check), Low(check)>>
<1>1. \A v \in Bytes : High(v) \in 0 .. 15 /\ Low(v) \in 0 .. 15 /\ v = 16 * High(v) + Low(v)
  BY HighLow
<1>2. f = s6
  BY HexTwo, HexOne DEF Frame
<1> HIDE DEF f
<1>ints. /\ High(four) \in Int /\ Low(four) \in Int /\ High(five) \in Int /\ Low(five) \in Int
      /\ High(six) \in Int /\ Low(six) \in Int /\ High(check) \in Int /\ Low(check) \in Int
      /\ seven \in Int /\ 0 \in Int
  BY <1>1
<1>eqs. /\ s1 = s0 \o <<High(four), Low(four)>> /\ s2 = s1 \o <<High(five), Low(five)>>
      /\ s3 = s2 \o <<High(six), Low(six)>> /\ s4 = s3 \o <<seven>> /\ s5 = s4 \o <<0>>
      /\ s6 = s5 \o <<High(check), Low(check)>>
  OBVIOUS
<1>3. s0 \in Seq(Int) /\ Len(s0) = 6 /\ s0[1] = 10 /\ s0[2] = 5 /\ s0[3] = 0 /\ s0[4] = 15
      /\ s0[5] = 0 /\ s0[6] = 1
  OBVIOUS
<1> HIDE DEF s0, s1, s2, s3, s4, s5, s6
<1>4. /\ s1 \in Seq(Int) /\ Len(s1) = 8
      /\ \A i \in 1 .. 6 : s1[i] = s0[i]
      /\ s1[7] = High(four) /\ s1[8] = Low(four)
  <2> DEFINE u == <<High(four), Low(four)>>
  <2>1. u \in Seq(Int) /\ Len(u) = 2 /\ u[1] = High(four) /\ u[2] = Low(four)
    BY <1>ints
  <2>2. s1 = s0 \o u
    BY <1>eqs
  <2> HIDE DEF u
  <2>3. Joins(s1, s0, u)
    BY <1>3, <2>1, <2>2, Concatenation, Zenon
  <2>4. QED
    BY <1>3, <2>1, <2>3 DEF Joins
<1>5. /\ s2 \in Seq(Int) /\ Len(s2) = 10
      /\ \A i \in 1 .. 8 : s2[i] = s1[i]
      /\ s2[9] = High(five) /\ s2[10] = Low(five)
  <2> DEFINE u == <<High(five), Low(five)>>
  <2>1. u \in Seq(Int) /\ Len(u) = 2 /\ u[1] = High(five) /\ u[2] = Low(five)
    BY <1>ints
  <2>2. s2 = s1 \o u
    BY <1>eqs
  <2> HIDE DEF u
  <2>3. Joins(s2, s1, u)
    BY <1>4, <2>1, <2>2, Concatenation, Zenon
  <2>4. QED
    BY <1>4, <2>1, <2>3 DEF Joins
<1>6. /\ s3 \in Seq(Int) /\ Len(s3) = 12
      /\ \A i \in 1 .. 10 : s3[i] = s2[i]
      /\ s3[11] = High(six) /\ s3[12] = Low(six)
  <2> DEFINE u == <<High(six), Low(six)>>
  <2>1. u \in Seq(Int) /\ Len(u) = 2 /\ u[1] = High(six) /\ u[2] = Low(six)
    BY <1>ints
  <2>2. s3 = s2 \o u
    BY <1>eqs
  <2> HIDE DEF u
  <2>3. Joins(s3, s2, u)
    BY <1>5, <2>1, <2>2, Concatenation, Zenon
  <2>4. QED
    BY <1>5, <2>1, <2>3 DEF Joins
<1>7. /\ s4 \in Seq(Int) /\ Len(s4) = 13
      /\ \A i \in 1 .. 12 : s4[i] = s3[i]
      /\ s4[13] = seven
  <2> DEFINE u == <<seven>>
  <2>1. u \in Seq(Int) /\ Len(u) = 1 /\ u[1] = seven
    BY <1>ints
  <2>2. s4 = s3 \o u
    BY <1>eqs
  <2> HIDE DEF u
  <2>3. Joins(s4, s3, u)
    BY <1>6, <2>1, <2>2, Concatenation, Zenon
  <2>4. QED
    BY <1>6, <2>1, <2>3 DEF Joins
<1>8. /\ s5 \in Seq(Int) /\ Len(s5) = 14
      /\ \A i \in 1 .. 13 : s5[i] = s4[i]
      /\ s5[14] = 0
  <2> DEFINE u == <<0>>
  <2>1. u \in Seq(Int) /\ Len(u) = 1 /\ u[1] = 0
    BY <1>ints
  <2>2. s5 = s4 \o u
    BY <1>eqs
  <2> HIDE DEF u
  <2>3. Joins(s5, s4, u)
    BY <1>7, <2>1, <2>2, Concatenation, Zenon
  <2>4. QED
    BY <1>7, <2>1, <2>3 DEF Joins
<1>9. /\ s6 \in Seq(Int) /\ Len(s6) = 16
      /\ \A i \in 1 .. 14 : s6[i] = s5[i]
      /\ s6[15] = High(check) /\ s6[16] = Low(check)
  <2> DEFINE u == <<High(check), Low(check)>>
  <2>1. u \in Seq(Int) /\ Len(u) = 2 /\ u[1] = High(check) /\ u[2] = Low(check)
    BY <1>ints
  <2>2. s6 = s5 \o u
    BY <1>eqs
  <2> HIDE DEF u
  <2>3. Joins(s6, s5, u)
    BY <1>8, <2>1, <2>2, Concatenation, Zenon
  <2>4. QED
    BY <1>8, <2>1, <2>3 DEF Joins
<1>10. /\ f[1] = 10 /\ f[2] = 5 /\ f[3] = 0 /\ f[4] = 15 /\ f[5] = 0 /\ f[6] = 1
       /\ f[7] = High(four) /\ f[8] = Low(four) /\ f[9] = High(five) /\ f[10] = Low(five)
       /\ f[11] = High(six) /\ f[12] = Low(six) /\ f[13] = seven /\ f[14] = 0
       /\ f[15] = High(check) /\ f[16] = Low(check)
  BY <1>2, <1>3, <1>4, <1>5, <1>6, <1>7, <1>8, <1>9
<1>11. f \in [1 .. 16 -> 0 .. 15]
  <2>1. f \in [1 .. 16 -> Int]
    BY <1>2, <1>9, LenProperties, Zenon
  <2>2. \A i \in 1 .. 16 : f[i] \in 0 .. 15
    BY <1>1, <1>10
  <2>3. QED
    BY <2>1, <2>2
<1>12. Holds(f, four, five, six, seven, check)
  BY <1>1, <1>10, <1>11 DEF Holds, Byte
<1>13. QED
  BY <1>12 DEF f

-----------------------------------------------------------------------------
(* Commands *)

LEMMA CheckType ==
  ASSUME NEW four \in Bytes, NEW five \in Bytes, NEW six \in Bytes, NEW seven \in Bytes
  PROVE  /\ CheckCode(four, five, six, seven) \in Bytes
         /\ CheckCode(four, five, six, seven)
              = (165 + 15 + 1 + four + five + six + seven) % 256
  BY DEF CheckCode, Remainder, Bytes

\* A frame that says of itself that it is valid, with the bytes of a command.
Sent(f, four, five, six, seven) ==
  /\ f \in [1 .. 16 -> 0 .. 15]
  /\ Byte(f, 8) = (Byte(f, 1) + Byte(f, 2) + Byte(f, 3) + Byte(f, 4) + Byte(f, 5)
                   + Byte(f, 6) + Byte(f, 7)) % 256
  /\ Byte(f, 4) = four /\ Byte(f, 5) = five /\ Byte(f, 6) = six
  /\ Byte(f, 7) = 16 * seven

LEMMA SentBytes ==
  ASSUME NEW four \in Bytes, NEW five \in Bytes, NEW six \in Bytes, NEW seven \in 0 .. 15
  PROVE  Sent(Frame(four, five, six, seven, CheckCode(four, five, six, 16 * seven)),
              four, five, six, seven)
<1> DEFINE check == CheckCode(four, five, six, 16 * seven)
           f == Frame(four, five, six, seven, check)
<1>1. 16 * seven \in Bytes
  BY DEF Bytes
<1>2. check \in Bytes /\ check = (165 + 15 + 1 + four + five + six + 16 * seven) % 256
  BY <1>1, CheckType
<1> HIDE DEF check
<1>3. Holds(f, four, five, six, seven, check)
  BY <1>2, FrameBytes
<1> HIDE DEF f
<1>5. Sent(f, four, five, six, seven)
  BY <1>2, <1>3 DEF Sent, Holds
<1>6. QED
  BY <1>5 DEF f, check

Moves == {"left", "right", "up", "down", "upleft", "upright", "downleft", "downright"}
Zooms == {"zoomin", "zoomout"}

MoveByte(c) == CommandByte(Directions[c][1], Directions[c][2], 0)

\* The inductive invariant: the frame is that of the command, and was parsed.
IInv ==
  /\ asked # None =>
       \/ /\ asked.api = "ptz" /\ asked.command \in Moves
          /\ Fits => Sent(frame, MoveByte(asked.command), asked.value, asked.value, 0)
       \/ /\ asked.api = "ptz" /\ asked.command \in Zooms
          /\ Sent(frame, CommandByte(0, 0, Directions[asked.command][3]), 0, 0, 1)
       \/ /\ asked.api = "ptz" /\ asked.command = "stop"
          /\ Sent(frame, 0, 0, 0, 0)
       \/ /\ asked.api = "preset" /\ asked.command \in DOMAIN PresetCodes
          /\ Fits => Sent(frame, PresetCodes[asked.command], 0, asked.value, 0)
  /\ control # None => asked # None /\ control = ParseControlCmd(frame)

LEMMA InitIInv == Init => IInv
  BY DEF Init, IInv

LEMMA CommandBytes ==
  /\ \A c \in Moves : MoveByte(c) \in 1 .. 10
  /\ \A d \in 0 .. 2 : CommandByte(0, 0, d) \in Bytes
  BY DEF Moves, MoveByte, CommandByte, Bits, Directions, Bytes

\* The commands that do not fit: their frames are of no concern.
LEMMA PtzIInv ==
  ASSUME IInv, NEW c \in DOMAIN Directions, NEW n \in Speeds, Ptz(c, n)
  PROVE  IInv'
<1>1. /\ asked' = [api |-> "ptz", command |-> c, value |-> n]
      /\ control' = None /\ c \in Moves \cup Zooms \cup {"stop"}
  BY DEF Ptz, IInv, Directions, Moves, Zooms
<1>2. CASE c \in Zooms
  <2>1. Directions[c][3] \in 1 .. 2
    BY <1>2 DEF Zooms, Directions
  <2>2. frame' = cmdString(0, 0, Directions[c][3], 0, 1)
    BY <1>2, <2>1 DEF Ptz, Directions, Zooms
  <2>3. Sent(frame', CommandByte(0, 0, Directions[c][3]), 0, 0, 1)
    <3>1. CommandByte(0, 0, Directions[c][3]) \in Bytes /\ 0 \in Bytes
      BY <2>1, CommandBytes DEF Bytes
    <3>2. QED
      BY <2>2, <3>1, SentBytes DEF cmdString
  <2>4. QED
    BY <1>1, <1>2, <2>3 DEF IInv
<1>3. CASE c = "stop"
  <2>1. frame' = cmdString(0, 0, 0, 0, 0)
    BY <1>3 DEF Ptz, Directions
  <2>2. CommandByte(0, 0, 0) = 0 /\ 0 \in Bytes
    BY DEF CommandByte, Bits, Bytes
  <2>3. Sent(frame', 0, 0, 0, 0)
    BY <2>1, <2>2, SentBytes DEF cmdString
  <2>4. QED
    BY <1>1, <1>3, <2>3 DEF IInv
<1>4. CASE c \in Moves
  <2>1. frame' = cmdString(Directions[c][1], Directions[c][2], 0, n, 0)
    BY <1>4 DEF Ptz, Directions, Moves
  <2>2. ASSUME n \in Bytes PROVE Sent(frame', MoveByte(c), n, n, 0)
    <3>1. MoveByte(c) \in Bytes
      BY <1>4, CommandBytes DEF Bytes
    <3>2. QED
      BY <2>1, <2>2, <3>1, SentBytes DEF cmdString, MoveByte
  <2>3. asked'.value = n
    BY <1>1
  <2>4. QED
    BY <1>1, <1>4, <2>2, <2>3 DEF IInv, Fits, Bytes
<1>5. QED
  BY <1>1, <1>2, <1>3, <1>4

LEMMA PresetIInv ==
  ASSUME IInv, NEW c \in DOMAIN PresetCodes, NEW n \in Presets, Preset(c, n)
  PROVE  IInv'
<1>1. /\ asked' = [api |-> "preset", command |-> c, value |-> n]
      /\ frame' = cmdCode(PresetCodes[c], 0, n) /\ control' = None
  BY DEF Preset, IInv
<1>2. ASSUME n \in Bytes PROVE Sent(frame', PresetCodes[c], 0, n, 0)
  <2>1. PresetCodes[c] \in Bytes /\ 0 \in Bytes
    BY DEF PresetCodes, Bytes
  <2>2. QED
    BY <1>1, <1>2, <2>1, SentBytes DEF cmdCode
<1>3. QED
  BY <1>1, <1>2 DEF IInv, Fits, Bytes

LEMMA NextIInv == IInv /\ [Next]_vars => IInv'
<1> SUFFICES ASSUME IInv, [Next]_vars PROVE IInv'
  OBVIOUS
<1>1. CASE Understand \/ UNCHANGED vars
  BY <1>1 DEF Understand, vars, IInv, Fits
<1>2. QED
  BY <1>1, PtzIInv, PresetIInv DEF Next

LEMMA AlwaysIInv == Spec => []IInv
  BY InitIInv, NextIInv, PTL DEF Spec

-----------------------------------------------------------------------------
(* What the parser understands *)

LEMMA PresetParsed ==
  ASSUME NEW c \in DOMAIN PresetCodes, NEW n \in Bytes, NEW f, Sent(f, PresetCodes[c], 0, n, 0)
  PROVE  /\ ParseControlCmd(f).type = "preset"
         /\ ParseControlCmd(f).cmdtype = c /\ ParseControlCmd(f).index = n
<1>1. Byte(f, 4) = PresetCodes[c] /\ Byte(f, 6) = n
  BY DEF Sent
<1>2. /\ PresetCodes[c] \in {129, 130, 131}
      /\ \A d \in DOMAIN PresetCodes : PresetCodes[d] = PresetCodes[c] => d = c
  BY DEF PresetCodes
<1>3. ~(Byte(f, 4) < 64) /\ Byte(f, 4) \in {129, 130, 131}
  BY <1>1, <1>2
<1>4. (CHOOSE d \in DOMAIN PresetCodes : PresetCodes[d] = Byte(f, 4)) = c
  BY <1>1, <1>2, Zenon
<1>5. ParseControlCmd(f) = parse_preset(f)
  BY <1>3 DEF ParseControlCmd
<1>6. QED
  BY <1>1, <1>4, <1>5 DEF parse_preset

\* A frame of PTZ: the meaning of the bits of byte 4.
LEMMA PtzParsed ==
  ASSUME NEW d1 \in 0 .. 2, NEW d2 \in 0 .. 2, NEW d3 \in 0 .. 2,
         NEW f, Byte(f, 4) = CommandByte(d1, d2, d3)
  PROVE  /\ ParseControlCmd(f) = parse_ptz(f)
         /\ Meaning(f, 1, "right", "left") = <<"unknown", "left", "right">>[d1 + 1]
         /\ Meaning(f, 4, "down", "up") = <<"unknown", "up", "down">>[d2 + 1]
         /\ Meaning(f, 16, "in", "out") = <<"unknown", "out", "in">>[d3 + 1]
<1> DEFINE b == CommandByte(d1, d2, d3)
<1>1. /\ b \in 0 .. 63
      /\ (b \div 1) % 4 = <<0, 2, 1>>[d1 + 1]
      /\ (b \div 4) % 4 = <<0, 2, 1>>[d2 + 1]
      /\ (b \div 16) % 4 = <<0, 2, 1>>[d3 + 1]
  BY DEF CommandByte, Bits
<1> HIDE DEF b
<1>2. Byte(f, 4) = b
  BY DEF b
<1>3. ParseControlCmd(f) = parse_ptz(f)
  <2>1. Byte(f, 4) < 64 /\ Byte(f, 4) \notin {129, 130, 131}
    BY <1>1, <1>2
  <2>2. QED
    BY <2>1, Zenon DEF ParseControlCmd
<1>4. Meaning(f, 1, "right", "left") = <<"unknown", "left", "right">>[d1 + 1]
  BY <1>1, <1>2 DEF Meaning
<1>5. Meaning(f, 4, "down", "up") = <<"unknown", "up", "down">>[d2 + 1]
  BY <1>1, <1>2 DEF Meaning
<1>6. Meaning(f, 16, "in", "out") = <<"unknown", "out", "in">>[d3 + 1]
  BY <1>1, <1>2 DEF Meaning
<1>7. QED
  BY <1>3, <1>4, <1>5, <1>6

-----------------------------------------------------------------------------
(* The theorems *)

\* cmdString and cmdCode print a valid frame for every command whose speed or preset is
\* one byte, whatever Speeds and Presets are.
THEOREM FramesAreValid == Spec => []FrameIsValid
<1>1. IInv => FrameIsValid
  BY DEF IInv, FrameIsValid, Fits, Sent
<1>2. QED
  BY <1>1, AlwaysIInv, PTL

LEMMA MoveUnderstood ==
  ASSUME IInv, Fits, control # None, asked.api = "ptz", asked.command \in Moves
  PROVE  Understood
<1> DEFINE c == asked.command
           d == Directions[c]
<1>1. Sent(frame, MoveByte(c), asked.value, asked.value, 0) /\ control = ParseControlCmd(frame)
  BY DEF IInv, Fits, Moves, Zooms
<1>2. d[1] \in 0 .. 2 /\ d[2] \in 0 .. 2 /\ Byte(frame, 4) = CommandByte(d[1], d[2], 0)
      /\ Byte(frame, 5) = asked.value /\ Byte(frame, 6) = asked.value
  BY <1>1 DEF Sent, MoveByte, Directions, Moves
<1>3. /\ ParseControlCmd(frame) = parse_ptz(frame)
      /\ Meaning(frame, 1, "right", "left") = <<"unknown", "left", "right">>[d[1] + 1]
      /\ Meaning(frame, 4, "down", "up") = <<"unknown", "up", "down">>[d[2] + 1]
      /\ Meaning(frame, 16, "in", "out") = "unknown"
  BY <1>2, PtzParsed
<1>4. /\ control.type = "PTZ" /\ control.zoom = "unknown"
      /\ control.pan = <<"unknown", "left", "right">>[d[1] + 1]
      /\ control.tilt = <<"unknown", "up", "down">>[d[2] + 1]
      /\ control.panSpeed = asked.value /\ control.tiltSpeed = asked.value
  BY <1>1, <1>2, <1>3 DEF parse_ptz
<1>5. /\ control.pan = "left" <=> c \in Lefts
      /\ control.pan = "right" <=> c \in Rights
      /\ control.tilt = "up" <=> c \in Ups
      /\ control.tilt = "down" <=> c \in Downs
  BY <1>4 DEF Directions, Moves, Lefts, Rights, Ups, Downs
<1>6. d[3] = 0
  BY DEF Directions, Moves
<1>7. QED
  BY <1>4, <1>5, <1>6 DEF Understood

LEMMA StillUnderstood ==
  ASSUME IInv, Fits, control # None, asked.api = "ptz", asked.command \in Zooms \cup {"stop"}
  PROVE  Understood
<1> DEFINE d == IF asked.command = "stop" THEN 0 ELSE Directions[asked.command][3]
           z == IF asked.command = "stop" THEN 0 ELSE 1
<1>1. Sent(frame, CommandByte(0, 0, d), 0, 0, z) /\ control = ParseControlCmd(frame)
  <2>1. CommandByte(0, 0, 0) = 0
    BY DEF CommandByte, Bits
  <2>2. QED
    BY <2>1 DEF IInv, Fits, Moves, Zooms
<1>2. d \in 0 .. 2 /\ Directions[asked.command][3] = d /\ Byte(frame, 7) = 16 * z
      /\ Byte(frame, 4) = CommandByte(0, 0, d)
  BY <1>1 DEF Sent, Directions, Zooms
<1>3. /\ ParseControlCmd(frame) = parse_ptz(frame)
      /\ Meaning(frame, 1, "right", "left") = "unknown"
      /\ Meaning(frame, 4, "down", "up") = "unknown"
      /\ Meaning(frame, 16, "in", "out") = <<"unknown", "out", "in">>[d + 1]
  BY <1>2, PtzParsed
<1>4. /\ control.type = "PTZ" /\ control.pan = "unknown" /\ control.tilt = "unknown"
      /\ control.zoom = <<"unknown", "out", "in">>[d + 1] /\ control.zoomSpeed = z
  BY <1>1, <1>2, <1>3 DEF parse_ptz
<1>5. /\ asked.command \notin Lefts \cup Rights \cup Ups \cup Downs
      /\ control.zoom = "out" <=> d = 1
      /\ control.zoom = "in" <=> d = 2
      /\ control.zoom # "unknown" => z = 1
  BY <1>2, <1>4 DEF Lefts, Rights, Ups, Downs, Zooms, Directions
<1>6. QED
  BY <1>2, <1>4, <1>5 DEF Understood

\* PtzParser reads back each move, stop and preset of /ptz and /preset with a speed or
\* preset of one byte as it was asked for, whatever Speeds and Presets are; and each zoom
\* in the direction that cmdString was given: out for 1, which is /ptz zoomin, in for 2.
THEOREM CommandsAreUnderstood == Spec => []Understood
<1>1. IInv => Understood
  <2> SUFFICES ASSUME IInv, Fits, control # None PROVE Understood
    BY DEF Understood
  <2>1. CASE asked.api = "ptz" /\ asked.command \in Moves
    BY <2>1, MoveUnderstood
  <2>2. CASE asked.api = "ptz" /\ asked.command \in Zooms \cup {"stop"}
    BY <2>2, StillUnderstood
  <2>3. CASE asked.api = "preset" /\ asked.command \in DOMAIN PresetCodes
    <3>1. /\ Sent(frame, PresetCodes[asked.command], 0, asked.value, 0)
          /\ control = ParseControlCmd(frame) /\ asked.value \in Bytes
      BY <2>3 DEF IInv, Fits, Bytes
    <3>2. QED
      BY <2>3, <3>1, PresetParsed DEF Understood
  <2>4. QED
    BY <2>1, <2>2, <2>3 DEF IInv, Fits
<1>2. QED
  BY <1>1, AlwaysIInv, PTL
=============================================================================
