-------------------------- MODULE MCPipelineGate ---------------------------
(* The instance of PipelineGate that TLC checks: its runs differ in what   *)
(* they check and in the bounds their configurations give.                 *)
EXTENDS PipelineGate, TLC
============================================================================
