------------------------------ MODULE Installation -----------------------------
(****************************************************************************)
(* An installed gateway, as the translations see it: the addresses that     *)
(* save_to_addr wrote to /config/addr.txt, and one frame of the Clowire     *)
(* bus, which also carries frames for the modules of other gateways.  A     *)
(* frame for a lamp carries some brightness of Levels.                      *)
(****************************************************************************)
EXTENDS Translation

CONSTANTS
  Dials,       (* values of the address dial                                *)
  DimmerCnts,  (* first line of /config/dev_num.txt                         *)
  PirCnts,     (* second line                                               *)
  Devices,     (* addresses that appear on the bus                          *)
  Levels       (* brightness values, in per cent                            *)

(* read_addr refuses a dial above 0xF0; circuits, sensor rows and addresses *)
(* are bytes.                                                               *)
ASSUME InstallationAssumption ==
  /\ Dials \subseteq 0 .. 240
  /\ DimmerCnts \subseteq 0 .. 63
  /\ PirCnts \subseteq 0 .. 31
  /\ Devices \subseteq 0 .. 255
  /\ Levels \subseteq 0 .. 100

VARIABLES
  dial,        (* first address of addr.txt                                 *)
  DIMMER_CNT,
  PIR_NUM,
  frame        (* the frame on the bus: device and subaddress               *)

addr_txt     == <<dial, DIMMER_CNT, PIR_NUM>>
installation == <<dial, DIMMER_CNT, PIR_NUM, frame>>

Frames == [dev : Devices, sub : LampSubs \cup SensorSubs]

(* The first address of each kind, as parse_addr_file and parse_pir_addr    *)
(* find it; without a line of the kind they return the file's first number. *)
dimmer_addr == dial
pir_addr    == IF PIR_NUM = 0 THEN dial ELSE dial + DIMMER_CNT

IsDimmer(dev) == match_addr(dev, dial, DIMMER_CNT)
IsPir(dev)    == match_addr(dev, dial + DIMMER_CNT, PIR_NUM)

--------------------------------------------------------------------------------

(* addr.txt after a start with dial value d; the addresses fit in a byte.   *)
Written(d, dimmers, pirs) ==
  /\ d + dimmers + pirs <= 256
  /\ dimmers + pirs > 0

InstallationInit ==
  /\ dial \in Dials /\ DIMMER_CNT \in DimmerCnts /\ PIR_NUM \in PirCnts
  /\ Written(dial, DIMMER_CNT, PIR_NUM)
  /\ frame \in Frames

(* The gateway is started with another dial value or other module counts.   *)
save_to_addr ==
  /\ dial' \in Dials /\ DIMMER_CNT' \in DimmerCnts /\ PIR_NUM' \in PirCnts
  /\ Written(dial', DIMMER_CNT', PIR_NUM')
  /\ UNCHANGED frame

(* Another frame passes on the bus.                                         *)
Receive ==
  /\ frame' \in Frames
  /\ UNCHANGED addr_txt

InstallationNext == save_to_addr \/ Receive

InstallationSpec == InstallationInit /\ [][InstallationNext]_installation

--------------------------------------------------------------------------------

OwnDimmers == dial .. dial + DIMMER_CNT - 1
OwnPirs    == dial + DIMMER_CNT .. dial + DIMMER_CNT + PIR_NUM - 1

InstallationTypeOK ==
  /\ dial \in 0 .. 240
  /\ DIMMER_CNT \in 0 .. 63
  /\ PIR_NUM \in 0 .. 31
  /\ Written(dial, DIMMER_CNT, PIR_NUM)
  /\ frame \in [dev : 0 .. 255, sub : LampSubs \cup SensorSubs]

(* A brightness that goes to a lamp and comes back as feedback loses at     *)
(* most one per cent; off stays off, full stays full, and a lamp that is on *)
(* is never reported as off.                                                *)
LevelRoundTrip ==
  frame.sub \in LampSubs => \A level \in Levels :
    LET back == qy_clo_trans(clo_qy_trans(level))
    IN  /\ back \in {level - 1, level}
        /\ level \in {0, 100} => back = level
        /\ level > 0 => back > 0

(* A brighter command never gives a darker lamp, in spite of the two        *)
(* roundings and the values that fall short of a half.                      *)
LevelOrder ==
  frame.sub \in LampSubs => \A lower, higher \in Levels :
    lower <= higher => clo_qy_trans(lower) <= clo_qy_trans(higher)

(* Address and application byte of a command to one of our lamps lead back  *)
(* to that very lamp: no two lamps share a circuit and an application.      *)
LampRoundTrip ==
  frame.dev \in OwnDimmers /\ frame.sub \in LampSubs =>
    addr_trans_qy(dimmer_addr, addr_trans(dimmer_addr, frame.dev, frame.sub), app(frame.sub))
      = [dev |-> frame.dev, sub |-> frame.sub]

(* Every sensor has a row of its own among the rows that remote_table_init  *)
(* makes, and never row 0, which ends the lists of remote_read_num.         *)
SensorRows ==
  frame.dev \in OwnPirs /\ frame.sub \in SensorSubs =>
    /\ pir_addr_trans(pir_addr, frame.dev, frame.sub) \in 1 .. PIR_NUM * CIRCUIT_MAX
    /\ \A dev \in OwnPirs, sub \in SensorSubs :
         pir_addr_trans(pir_addr, dev, sub) = pir_addr_trans(pir_addr, frame.dev, frame.sub)
           => dev = frame.dev /\ sub = frame.sub

(* In an installation of up to nine modules the filter never takes one of   *)
(* our dimmers for a sensor module or the other way round, although it      *)
(* compares beginnings of numbers.                                          *)
KindsApart ==
  DIMMER_CNT + PIR_NUM <= 9 =>
    /\ frame.dev \in OwnDimmers => IsDimmer(frame.dev) /\ ~ IsPir(frame.dev)
    /\ frame.dev \in OwnPirs    => IsPir(frame.dev) /\ ~ IsDimmer(frame.dev)

(* What the comment on match_addr says (addr_req.c:378): it matches the      *)
(* dimmer addresses stored in addr.txt, so a frame it accepts is for one of *)
(* our dimmers.                                                             *)
OnlyOwnAddresses == IsDimmer(frame.dev) => frame.dev \in OwnDimmers

================================================================================
