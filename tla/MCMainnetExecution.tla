------------------------ MODULE MCMainnetExecution ------------------------
(* The instance of MainnetExecution that TLC checks.                       *)
EXTENDS MainnetExecution
=============================================================================
