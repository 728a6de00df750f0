---------------------------- MODULE Configuration ----------------------------
(***************************************************************************)
(* The two generators, each with an output directory of its own: generator *)
(* says whose directory this is.                                           *)
(***************************************************************************)
EXTENDS ActionConfig

CONSTANT ServiceManifests  \* the manifests the service generator may be given

VARIABLE generator

Services == INSTANCE ServiceConfig WITH Manifests <- ServiceManifests

ConfigurationInit ==
  /\ ConfigInit
  /\ generator \in {"action", "service"}

ConfigurationNext ==
  /\ \/ generator = "action" /\ ActionConfigNext
     \/ generator = "service" /\ Services!ServiceConfigNext
  /\ UNCHANGED generator

ConfigurationSpec ==
  ConfigurationInit /\ [][ConfigurationNext]_<<configVars, generator>>

-----------------------------------------------------------------------------

(* In the service generator's directory: what service_config_generator.py   *)
(* accepts, validate_configs.py accepts, every client program is given the  *)
(* services that list it, and expected_clients of a server covers all the   *)
(* programs that may connect to it at once.                                 *)
ServicesUsable ==
  generator = "service" =>
    Services!ServiceConfigurationLoads /\ Services!RoomForEveryClient
=============================================================================
