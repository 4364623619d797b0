--------------------------- MODULE MCMediaSource ---------------------------
(* The media source on small instances: limits of two or three, a ring of  *)
(* two or three chunks; the configurations differ in the orchestrator's    *)
(* calls and in what may fail.                                             *)
EXTENDS MediaSource

\* Every call the orchestrator can make.
AllCalls == {"PLAY_URI", "STOP", "PAUSE", "PLAY"}
=============================================================================
