----------------------------- MODULE MCResidency -----------------------------
(***************************************************************************)
(* Instances of Residency from config/models.yaml, its sizes in tenths of  *)
(* a gigabyte: qwen3-8b under two names, the vision models, and qwen3-4b   *)
(* under the pinned name utility.small and the name reasoning.fast.        *)
(***************************************************************************)
EXTENDS Residency, TLC

CONSTANTS primary, longctx, vision, visionSmall, fast, utility, t1, t2

Two == {t1, t2}
One == {t1}

Manifest == [m \in {primary, longctx, vision, visionSmall, fast, utility} |->
    CASE m = primary     -> <<"qwen3-8b", "lmstudio", 60>>
      [] m = longctx     -> <<"qwen3-8b", "lmstudio", 75>>
      [] m = vision      -> <<"qwen3-vl:8b", "ollama", 70>>
      [] m = visionSmall -> <<"qwen3-vl:4b", "ollama", 40>>
      [] m = fast        -> <<"qwen3-4b", "lmstudio", 32>>
      [] m = utility     -> <<"qwen3-4b", "lmstudio", 32>>]

AllModels == DOMAIN Manifest
FourModels == {primary, vision, fast, utility}
OnePerWeights == {longctx, vision, utility}

MCWeights == [m \in Models |-> Manifest[m][1]]
MCBackend == [m \in Models |-> Manifest[m][2]]
MCSize == [m \in Models |-> Manifest[m][3]]
MCPinned == {utility}

\* What ResidencyProofs supposes of a manifest.
ASSUME ThisManifestFits == ManifestFits

TaskSymmetry == Permutations(Tasks)
=============================================================================
