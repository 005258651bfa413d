------------------------------- MODULE MCVideo -------------------------------
(* Instances of VideoStreams for TLC. *)
EXTENDS VideoStreams

CONSTANTS b1, m1, v1, v2, w1, w2, e1, e2

OneEndpoint == <<e1>>
TwoEndpoints == <<e1, e2>>
=============================================================================
