---------------------------- MODULE MCSonarClient ----------------------------
(* Small instances of SonarClient for TLC. *)
EXTENDS SonarClient

CONSTANTS s1, s2

MCSenders == {s1, s2}
MCOneSender == {s1}
===============================================================================
