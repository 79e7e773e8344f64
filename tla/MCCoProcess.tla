---------------------------- MODULE MCCoProcess -----------------------------
(***************************************************************************)
(* CoProcess for two programs with reports of one and of three lines, and  *)
(* pipes that hold fewer lines than the longer report has.                 *)
(***************************************************************************)
EXTENDS CoProcess

MCPrograms == {"rejects", "emits"}
MCLength   == [p \in MCPrograms |-> IF p = "rejects" THEN 1 ELSE 3]
=============================================================================
