---------------------------- MODULE MCWormAudit ----------------------------
(* Bounds: a queue of one or two, and segments of two lines, so that      *)
(* drops, rotations and checkpoints meet crashes within a few events.      *)
EXTENDS WormAudit
=============================================================================
