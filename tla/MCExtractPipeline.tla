-------------------------- MODULE MCExtractPipeline ---------------------------
(* Instances of ExtractPipeline for TLC. *)
EXTENDS ExtractPipeline, TLC

CONSTANTS f1, f2, f3

ThreeFiles == {f1, f2, f3}

SomeLimits == {0, NoLimit}

Symmetry == Permutations(ThreeFiles)
===============================================================================
