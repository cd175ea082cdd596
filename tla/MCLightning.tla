----------------------------- MODULE MCLightning -----------------------------
(* Small instances of Lightning: two ports, two risk levels.               *)
EXTENDS Lightning

CONSTANTS p1, p2

Settings(mults) ==
  [on : BOOLEAN, enabled : BOOLEAN, port : {p1}, minRisk : {1, 2}, mult : mults]

SomePolls == Settings({0, 2, 3})
=============================================================================
