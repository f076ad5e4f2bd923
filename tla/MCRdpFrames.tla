---------------------------- MODULE MCRdpFrames -----------------------------
(* Small instances of RdpFrames for TLC. *)
EXTENDS RdpFrames, TLC

CONSTANTS r1, r2

MCRegions == {r1, r2}
MCLarge == {MCRegions}
=============================================================================
