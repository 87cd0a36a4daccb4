---------------------------- MODULE MCAgentJobs ----------------------------
(* AgentJobs with the constants of the model-checking runs.                 *)
EXTENDS AgentJobs, TLC

RequestSymmetry == Permutations(Requests)
Scan == {"scan"}
Capture == {"capture"}
CaptureAndLogs == {"capture", "logs"}
NoFault == {}
LostOnly == {"lost"}
=============================================================================
