---------------------------- MODULE MCLifecycle ----------------------------
(* Lifecycle.tla on small instances for TLC. *)
EXTENDS Lifecycle, TLC

\* The processes are interchangeable: the state holds them only as indices.
CliSymmetry == Permutations(Clis)

Setup(backend, console, faults) ==
  [backend |-> backend, console |-> console, faults |-> faults]

\* One user: every backend, with each thing its commands can run into.
AloneSettings ==
  [backend : Backends, console : BOOLEAN, faults : {{}, {"crash"}, {"backend"}, {"probe"}}]

\* Two users of the backends whose names are unique.
SharedSettings ==
  {Setup("docker", TRUE, {"backend", "probe"}), Setup("tmux", TRUE, {"crash", "probe"})}

Subprocess == {Setup("subprocess", TRUE, {})}
=============================================================================
