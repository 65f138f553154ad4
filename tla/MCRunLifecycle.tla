--------------------------- MODULE MCRunLifecycle ---------------------------
(***************************************************************************)
(* Small instances of RunLifecycle for TLC.                                *)
(***************************************************************************)
EXTENDS RunLifecycle

AllKinds == {"sim", "webcam", "real"}
RealOnly == {"real"}
=============================================================================
