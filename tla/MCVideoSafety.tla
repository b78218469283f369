--------------------------- MODULE MCVideoSafety ---------------------------
(***************************************************************************)
(* Finite instances of VideoSafety.                                        *)
(***************************************************************************)
EXTENDS VideoSafety, TLC

CONSTANT m1

OneMessage == {m1}
TwoVideos  == [m \in Messages |-> 2]
=============================================================================
