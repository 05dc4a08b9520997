------------------------ MODULE MCGenerationRuntime ------------------------
(* Calls of submit that are alike but for their ids: all different, or all   *)
(* the same, so that an id is used again.                                    *)
EXTENDS GenerationRuntime, TLC

OwnIds == [j \in Jobs |-> j]
SameId == [j \in Jobs |-> Nobody]
Input == [j \in Jobs |-> 1]
Output == [j \in Jobs |-> MaxTokens]

Symmetry == Permutations(Jobs)

====
