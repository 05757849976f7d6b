---------------------------- MODULE MCLanePlans ----------------------------
(***************************************************************************)
(* The instances of MCResidentLanes, with the check that what the planner  *)
(* derives from each of their pipelines is a plan that the theorems about  *)
(* a lane's columns speak of.                                              *)
(***************************************************************************)
EXTENDS MCResidentLanes

ASSUME PlansAssumption ==
    \A n \in DOMAIN MCPipelines :
        ValuesPlanned(Plan!PlannedRegion(MCPipelines[n], 2, {}))
=============================================================================
