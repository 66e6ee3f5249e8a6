-------------------------- MODULE MCDockerInstance --------------------------
(* Instances of DockerInstance for TLC. *)
EXTENDS DockerInstanceInv

\* The daemon keeps its state but for what the instance asks of it: two clients
\* that contend for the action slot are then few enough states for liveness.
SteadyNext == Next /\ dockerUp' = dockerUp /\ (container' # container => pc' # pc)
SteadySpec == Init /\ [][SteadyNext]_vars /\ Fairness
=============================================================================
