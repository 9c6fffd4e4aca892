---------------------------- MODULE MCSharedCells ----------------------------
(* The registry of breakers and the live configuration, side by side: both   *)
(* are shared by all requests and replaced while they run.                    *)
EXTENDS BreakerRegistry, ConfigReload

CellsInit == RegistryInit /\ ConfigInit

CellsNext ==
    \/ RegistryNext /\ UNCHANGED configVars
    \/ ConfigNext /\ UNCHANGED registryVars

CellsSpec == CellsInit /\ [][CellsNext]_<<registryVars, configVars>>
=============================================================================
