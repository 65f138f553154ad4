-------------------------- MODULE MCWebcamSession --------------------------
(***************************************************************************)
(* Small instances of WebcamSession for TLC.                               *)
(***************************************************************************)
EXTENDS WebcamSession

BothBuilds == {TRUE, FALSE}
WithoutOpenCv == {FALSE}
BothMethods == {"mmap", "read"}
OnlyMmap == {"mmap"}
TwoRequests == {[format |-> "a", fps |-> "a"], [format |-> "none", fps |-> "b"]}
=============================================================================
