------------------------------- MODULE MCLive -------------------------------
(* Instances of LiveState for TLC. *)
EXTENDS LiveState, TLC

CONSTANTS cloud, lan, b1, b2, b3, m1

\* The cloud's broker with two devices and a local printer's with one.
TwoBrokers == cloud :> <<b1, b2>> @@ lan :> <<b3>>

\* The cloud's broker with two devices.
OneBroker == cloud :> <<b1, b2>>
=============================================================================
