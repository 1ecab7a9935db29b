----------------------- MODULE MCConfigurationStore -----------------------
(* A small instance of ConfigurationStore. *)
EXTENDS ConfigurationStore, TLC

CONSTANTS c1, c2, c3

MCConfigs == {c1, c2, c3}

MCSymmetry == Permutations({c2, c3})

============================================================================
