---------------------------- MODULE MCPlanInput ----------------------------
(***************************************************************************)
(* Small instances of PlanInput for TLC.                                   *)
(***************************************************************************)
EXTENDS PlanInput

MCVersions  == {83, 84}
MCNames     == {"opcache", "xdebug", "pcov", "redis"}
MCBundled   == [v \in MCVersions |-> {"opcache"}]
MCCatalog   == {"xdebug", "pcov", "redis"}
MCIniValues == {"memory"}
MCDigests   == {"core1"}
=============================================================================
