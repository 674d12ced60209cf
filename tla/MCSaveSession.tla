---------------------------- MODULE MCSaveSession ----------------------------
(* Two sources, two changes between them, one foreign write to either.       *)
EXTENDS SaveSession

TwoSources == 1..2
===============================================================================
