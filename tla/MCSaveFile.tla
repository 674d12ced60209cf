------------------------------ MODULE MCSaveFile ------------------------------
(* Five versions of one file and two runs of harmos: two saves and two foreign *)
(* writes in either run, a crash or a power loss anywhere.                     *)
EXTENDS SaveFile
===============================================================================
