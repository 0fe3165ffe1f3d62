-------------------------- MODULE MCGenerationJobs --------------------------
(* Instances of GenerationJobs for TLC. *)
EXTENDS GenerationJobs, TLC

\* Workers and requests are interchangeable.
JobSymmetry ==
    Permutations(Worker) \union Permutations(Review) \union Permutations(Filer)
=============================================================================
