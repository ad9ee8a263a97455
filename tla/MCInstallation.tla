---------------------------- MODULE MCInstallation ----------------------------
(* Installations from the smallest to ten modules, at both ends of the dial  *)
(* and around the addresses whose decimal form gains a digit.                *)
EXTENDS Installation

MCPercent == 0 .. 100
MCDials   == {2, 16, 100, 240}
MCDevices == {0, 1, 2, 8, 9, 10, 11, 16, 17, 18, 24, 100, 101, 240, 241, 248, 249}
================================================================================
