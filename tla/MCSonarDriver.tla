---------------------------- MODULE MCSonarDriver ----------------------------
(* Small instances of SonarDriver for TLC. *)
EXTENDS SonarDriver, TLC

CONSTANTS u1, u2, normal, high, p0, p1, p2

MCUsers == {u1, u2}
MCOneUser == {u1}
MCRates == {normal, high}
MCOneRate == {normal}
MCParams == {p0, p1}
MCDriftingParams == {p0, p1, p2}

MCSame == {<<p, p>> : p \in Params}
(* p0 lies between p1 and p2, and passes for either.                       *)
MCNear == MCSame \union ({p0} \X {p1, p2}) \union ({p1, p2} \X {p0})
MCSymmetry == Permutations({p1, p2})
===============================================================================
