------------------------------ MODULE Channels ------------------------------
(* The channel numbers of the programs and drivers.  A viewer names a        *)
(* channel; recpt1 turns the name into the number of the character devices,  *)
(* the DVB tools hand over numbers of another plan, and every driver turns   *)
(* its number into a frequency and the registers of its tuner chip with      *)
(* tables and integer arithmetic of its own.                                 *)
EXTENDS Integers, Sequences

VARIABLE chan
chVars == <<chan>>

\* The channels of Japanese broadcasting: BS transponders, the right-hand
\* CS110 ones, the terrestrial channels and those of cable.
Channels ==
  [band : {"BS"}, num : 1..23] \cup [band : {"CS"}, num : {2 * i : i \in 1..12}]
    \cup [band : {"T"}, num : 1..62] \cup [band : {"C"}, num : 13..63]

Satellite(c) == c.band \in {"BS", "CS"}
\* The plan of the broadcasters: satellite in kHz at the tuner's input,
\* terrestrial in MHz, to which 1/7 MHz is added.
SatPlan(c) == IF c.band = "BS" THEN 1049480 + 19180 * (c.num - 1) ELSE 1613000 + 20000 * (c.num - 2)
TerPlan(c) ==
  CASE c.band = "T" /\ c.num <= 3  -> 93 + 6 * (c.num - 1)
    [] c.band = "T" /\ c.num \in 4..7  -> 173 + 6 * (c.num - 4)
    [] c.band = "T" /\ c.num \in 8..12 -> 195 + 6 * (c.num - 8)
    [] c.band = "T" /\ c.num >= 13 -> 473 + 6 * (c.num - 13)
    [] c.band = "C" /\ c.num <= 21 -> 111 + 6 * (c.num - 13)
    [] c.band = "C" /\ c.num = 22  -> 167
    [] c.band = "C" /\ c.num >= 23 -> 225 + 6 * (c.num - 23)
Seventh == 142857
Hz(mhz) == mhz * 1000000 + Seventh

Near(a, b, d) == a - b \in (-d)..d

(***************************************************************************)
(* recpt1: the name to the number of the character devices.                *)
(***************************************************************************)

\* The left-hand BS transponders are not in the plan of the devices.
Known(c) == c.band = "BS" => c.num % 2 = 1
\* A bug: rounded up.
BsNodeUp(n) == (n + 1) \div 2
BsNode(n) == n \div 2
TableFreq(c) ==
  CASE c.band = "CS" -> c.num \div 2 + 11
    [] c.band = "T" /\ c.num <= 3 -> c.num - 1
    [] c.band = "T" /\ c.num \in 4..12 -> c.num + 9
    [] c.band = "T" /\ c.num >= 13 -> c.num + 50
    [] c.band = "C" /\ c.num <= 22 -> c.num - 10
    [] c.band = "C" /\ c.num >= 23 -> c.num - 1
SearchRecOff(c) == IF c.band = "BS" THEN BsNode(c.num) ELSE TableFreq(c)

(***************************************************************************)
(* pt3_dtv.                                                                *)
(***************************************************************************)

\* In 10 kHz, with the number and the band shown to the user.
QmChannel(f) ==
  CASE f < 12 -> [bs |-> TRUE, number |-> 1 + 2 * f, freq |-> 104948 + 3836 * f]
    [] f \in 12..23 -> [bs |-> FALSE, number |-> 2 + 2 * (f - 12), freq |-> 161300 + 4000 * (f - 12)]
    [] f >= 24 -> [bs |-> FALSE, number |-> 1 + 2 * (f - 24), freq |-> 159300 + 4000 * (f - 24)]

\* Fraction (22 bits, signed) and dividers for each of the two tuners, which
\* stand half a MHz below and above the channel.
SdTable == <<
    <<<<\h38fae1, 13, 5>>, <<\h39fae1, 13, 5>>>>, <<<<\h3f570a, 14, 3>>, <<\h570a, 14, 3>>>>,
    <<<<\h5b333, 14, 5>>, <<\h6b333, 14, 5>>>>, <<<<\h3c0f5c, 15, 4>>, <<\h3d0f5c, 15, 4>>>>,
    <<<<\h26b85, 15, 6>>, <<\h36b85, 15, 6>>>>, <<<<\h38c7ae, 16, 5>>, <<\h39c7ae, 16, 5>>>>,
    <<<<\h3f23d7, 17, 3>>, <<\h23d7, 17, 3>>>>, <<<<\h58000, 17, 5>>, <<\h68000, 17, 5>>>>,
    <<<<\h3bdc28, 18, 4>>, <<\h3cdc28, 18, 4>>>>, <<<<\h23851, 18, 6>>, <<\h33851, 18, 6>>>>,
    <<<<\h38947a, 19, 5>>, <<\h39947a, 19, 5>>>>, <<<<\h3ef0a3, 20, 3>>, <<\h3ff0a3, 20, 3>>>>,
    <<<<\h3c8000, 22, 4>>, <<\h3d8000, 22, 4>>>>, <<<<\h48000, 22, 6>>, <<\h58000, 22, 6>>>>,
    <<<<\h3c8000, 23, 5>>, <<\h3d8000, 23, 5>>>>, <<<<\h48000, 24, 3>>, <<\h58000, 24, 3>>>>,
    <<<<\h3c8000, 24, 6>>, <<\h3d8000, 24, 6>>>>, <<<<\h48000, 25, 4>>, <<\h58000, 25, 4>>>>,
    <<<<\h3c8000, 26, 3>>, <<\h3d8000, 26, 3>>>>, <<<<\h48000, 26, 5>>, <<\h58000, 26, 5>>>>,
    <<<<\h3c8000, 27, 4>>, <<\h3d8000, 27, 4>>>>, <<<<\h48000, 27, 6>>, <<\h58000, 27, 6>>>>,
    <<<<\h3c8000, 28, 5>>, <<\h3d8000, 28, 5>>>>, <<<<\h48000, 29, 3>>, <<\h58000, 29, 3>>>>>>
\* What the chip makes of them, in kHz: 16 MHz times the dividers, and the
\* fraction in 2^-20 of 16 MHz.
Signed(sd) == IF sd >= 2^21 THEN sd - 2^22 ELSE sd
QmSynth(sd, n, a) == 16000 * (a + 4 * (n + 1) + 5) + ((Signed(sd) * 125) \div 8192)
QmTuning(f, index) ==
  LET row == SdTable[f + 1][index + 1] IN QmSynth(row[1], row[2], row[3])
\* The bands of the oscillator, upper edges in kHz, highest first.
QmBands == <<2151000, 1950000, 1800000, 1600000, 1450000, 1250000, 1200000, 975000, 950000>>
BandOf(khz) == {i \in 1..8 : QmBands[i + 1] <= khz /\ khz < QmBands[i]}

MxRows == <<<<2, FALSE, 3>>, <<12, TRUE, 22>>, <<21, FALSE, 12>>, <<62, TRUE, 63>>, <<112, FALSE, 62>>>>
MxChannel(f) ==
  LET i == CHOOSE j \in 1..5 : f <= MxRows[j][1] /\ \A k \in 1..(j - 1) : f > MxRows[k][1]
  IN [catv |-> MxRows[i][2], number |-> f + MxRows[i][3] - MxRows[i][1],
      freq |-> 93 + 6 * f + (IF f \in 12..16 \/ f >= 63 THEN 2 ELSE 0)]
RealTable == <<
    \h58d3f49, \h5e8ccc9, \h6445a49, \h69fe7c9, \h6fb7549, \h75702c9, \h7b29049, \h80e1dc9,
    \h869ab49, \h8c538c9, \h920c649, \h97c53c9, \h9f665c9, \ha51f349, \haad80c9, \hb090e49,
    \hb649bc9, \hba1a4c9, \hbfd3249, \hc58bfc9, \hcb44d49, \hd0fdac9, \hd6b6849, \hdc6f5c9,
    \he228349, \he7e10c9, \hed99e49, \hf352bc9, \hf90b949, \hfec46c9, \h1047d449, \h10a361c9,
    \h10feef49, \h115a7cc9, \h11b60a49, \h121197c9, \h126d2549, \h12c8b2c9, \h13244049, \h137fcdc9,
    \h13db5b49, \h1436e8c9, \h14927649, \h14ee03c9, \h15499149, \h15a51ec9, \h1600ac49, \h165c39c9,
    \h16b7c749, \h171354c9, \h176ee249, \h17ca6fc9, \h1825fd49, \h18818ac9, \h18dd1849, \h1938a5c9,
    \h19943349, \h19efc0c9, \h1a4b4e49, \h1aa6dbc9, \h1b026949, \h1b5df6c9, \h1bb98449, \h1c339649,
    \h1c8f23c9, \h1ceab149, \h1d463ec9, \h1da1cc49, \h1dfd59c9, \h1e58e749, \h1eb474c9, \h1f100249,
    \h1f6b8fc9, \h1fc71d49, \h2022aac9, \h207e3849, \h20d9c5c9, \h21355349, \h2190e0c9, \h21ec6e49,
    \h2247fbc9, \h22a38949, \h22ff16c9, \h235aa449, \h23b631c9, \h2411bf49, \h246d4cc9, \h24c8da49,
    \h252467c9, \h257ff549, \h25db82c9, \h26371049, \h26929dc9, \h26ee2b49, \h2749b8c9, \h27a54649,
    \h2800d3c9, \h285c6149, \h28b7eec9, \h29137c49, \h296f09c9, \h29ca9749, \h2a2624c9, \h2a81b249,
    \h2add3fc9, \h2b38cd49, \h2b945ac9, \h2befe849, \h2c4b75c9, \h2ca70349, \h2d0290c9, \h2d5e1e49>>
\* Channel 62 has the number 112, past the end of the table.
InRealTable(f) == f < Len(RealTable)
MxFreq(f) == RealTable[f + 1]

(***************************************************************************)
(* pxq3pe_dtv.                                                             *)
(***************************************************************************)

PxqSatFreq(f) == (IF f < 12 THEN 11727480 + f * 38360 ELSE 12291000 + (f - 12) * 40000) - 10678000
PxqTerFreq(f) ==
  Hz(IF f > 112 THEN 557
     ELSE 93 + 6 * f + (IF f < 12 THEN 0 ELSE IF f < 17 THEN 2 ELSE IF f < 63 THEN 0 ELSE 2))

(***************************************************************************)
(* tc90522 (DVB): the number, or a frequency, the tools hand over.         *)
(***************************************************************************)

Fno2kHz(f) ==
  CASE f < 12 -> 1049480 + 38360 * f
    [] f \in 12..22 -> 1068660 + 38360 * (f - 12)
    [] f \in 23..34 -> 1613000 + 40000 * (f - 23)
    [] f >= 35 -> 1553000 + 40000 * (f - 35)
SatkHz(v) ==
  CASE v > 3224000 -> Fno2kHz(14)
    [] v \in 1049480..3224000 -> v
    [] v \in 51..1049479 -> Fno2kHz(4)
    [] v <= 50 -> Fno2kHz(v - 1)
Fno2Hz(f) == PxqTerFreq(f)
TerHz(v) ==
  CASE v >= 90000000 -> v
    [] v \in 256..89999999 -> Fno2Hz(77)
    [] v \in 128..255 -> Fno2Hz(v - 128)
    [] v \in 64..127 -> LET w == v - 64 IN
         IF w > 22 THEN Fno2Hz(w - 1) ELSE IF w > 12 THEN Fno2Hz(w - 10) ELSE Fno2Hz(77)
    [] v = 63 -> Fno2Hz(77)
    [] v \in 13..62 -> Fno2Hz(v + 50)
    [] v \in 4..12 -> Fno2Hz(v + 9)
    [] v \in 1..3 -> Fno2Hz(v - 1)
    [] v = 0 -> Fno2Hz(77)
\* The numbers of the DVB tools.
DvbId(c) ==
  CASE c.band = "BS" /\ c.num % 2 = 1 -> (c.num + 1) \div 2
    [] c.band = "BS" /\ c.num % 2 = 0 -> c.num \div 2 + 12
    [] c.band = "CS" -> c.num \div 2 + 23
    [] c.band = "T" -> c.num
    [] c.band = "C" -> c.num + 64

(***************************************************************************)
(* The tuner chips of the DVB drivers.                                     *)
(***************************************************************************)

\* The difference to the multiple of 16 MHz is computed without sign; cut to
\* 22 bits that makes no difference.
Qm1d1c004xSynth(khz) ==
  LET f == khz - 500
      i == (f + 8000) \div 16000
      n == i \div 4 - 3
  IN QmSynth((65 * (f - 16000 * i)) % 2^22, n, i - 4 * (n + 1) - 5)

\* The frequency as 10 + 6 bits, by halving: digit k of the fraction.
RfDigits(hz) ==
  LET d[k \in 0..6] ==
        IF k = 0 THEN [rf |-> hz \div 1000000, rest |-> hz % 1000000]
        ELSE LET w == 1000000 \div 2^k IN
             IF d[k - 1].rest > w THEN [rf |-> 2 * d[k - 1].rf + 1, rest |-> d[k - 1].rest - w]
             ELSE [rf |-> 2 * d[k - 1].rf, rest |-> d[k - 1].rest]
  IN d[6].rf + (IF d[6].rest > 7812 THEN 1 ELSE 0)
\* Two registers of a byte each.
MxlRegs(hz) == <<RfDigits(hz) % 256, (RfDigits(hz) \div 256) % 256>>

\* The integer part of the divider and its prescaler; 0 when tune fails.
LoBand(khz) == IF khz <= 1075000 THEN 0 ELSE IF khz <= 1228000 THEN 1
               ELSE IF khz <= 1433000 THEN 2 ELSE IF khz <= 1720000 THEN 3 ELSE 4
TdaNint(khz) ==
  LET v == ((8 - LoBand(khz)) * khz) \div 27000
      In(n) == n \in 131..251
      Or0(n) == IF In(n) THEN n ELSE 0
  IN IF In(v \div 2) THEN v \div 2
     ELSE IF v \div 2 < 131 THEN
       IF In(v) THEN v ELSE IF v > 251 THEN Or0((v * 3) \div 4) ELSE Or0((v * 3) \div 2)
     ELSE IF v \div 4 > 251 THEN Or0((v * 3) \div 4) ELSE Or0(v \div 4)

(***************************************************************************)
(* Properties.                                                             *)
(***************************************************************************)

\* The character devices tune the channel recpt1 was asked for, and the PT3
\* driver shows its number: within 2 kHz of half a MHz beside the channel on
\* the satellite tuners, exactly on the terrestrial ones.
CharacterDevices(c) == LET f == SearchRecOff(c) IN
  IF Satellite(c)
  THEN /\ QmChannel(f) = [bs |-> c.band = "BS", number |-> c.num, freq |-> SatPlan(c) \div 10]
       /\ Near(QmTuning(f, 0), SatPlan(c) - 500, 2) /\ Near(QmTuning(f, 1), SatPlan(c) + 500, 2)
       /\ \A d \in {-500, 500} : BandOf(SatPlan(c) + d) # {}
       /\ PxqSatFreq(f) = SatPlan(c)
  ELSE /\ MxChannel(f) = [catv |-> c.band = "C", number |-> c.num, freq |-> TerPlan(c)]
       /\ InRealTable(f) => MxFreq(f) = Hz(TerPlan(c))
       /\ PxqTerFreq(f) = Hz(TerPlan(c))
\* The DVB drivers tune the channel whose number the tools hand over, and a
\* frequency as it is.
DvbDrivers(c) ==
  IF Satellite(c) THEN SatkHz(DvbId(c)) = SatPlan(c) /\ SatkHz(SatPlan(c)) = SatPlan(c)
  ELSE TerHz(DvbId(c)) = Hz(TerPlan(c)) /\ TerHz(Hz(TerPlan(c))) = Hz(TerPlan(c))
\* The registers of the chips stand for the frequency they were computed from:
\* to 70 kHz on satellite (PT3), to a 64th MHz on terrestrial tuners; the
\* synthesizer of the PX-Q3PE finds a divider.
Chips(c) ==
  IF Satellite(c)
  THEN /\ Near(Qm1d1c004xSynth(SatPlan(c)), SatPlan(c) - 500, 70)
       /\ TdaNint(SatPlan(c)) # 0
  ELSE LET r == MxlRegs(Hz(TerPlan(c))) IN
       Near((r[1] + 256 * r[2]) * 15625, Hz(TerPlan(c)), 15625)

\* Whoever computes it and by whatever table, a channel's name or number
\* ends at the frequency the channel is sent on.
ChannelsAgree == (Known(chan) => CharacterDevices(chan)) /\ DvbDrivers(chan) /\ Chips(chan)

(***************************************************************************)
(* Zapping through all channels.                                           *)
(***************************************************************************)

ChInit == chan \in Channels
Zap == chan' \in Channels
ChNext == Zap
=============================================================================
