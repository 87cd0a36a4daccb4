-------------------------- MODULE MCNextDnsPoller --------------------------
(* NextDnsPoller with the constants of the model-checking runs.             *)
EXTENDS NextDnsPoller, TLC

RequestSymmetry == Permutations(Requests)
RefusedOnly == {"refused"}
None == {}
=============================================================================
