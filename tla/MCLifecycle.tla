---------------------------- MODULE MCLifecycle ----------------------------
(* Bounds for the runs of ContainerLifecycle. *)
EXTENDS ContainerLifecycle, TLC

CONSTANTS main, other, waiter, worker

\* One client drives the container, another waits for it.
SerialAllowed ==
  (main :> {"start", "stop", "restart", "kill", "remove", "rmforce"}) @@ (waiter :> {"wait"})

\* Nobody waits; auto-remove acts beside the client.
LiveAllowed == [c \in {main} |-> {"start", "stop", "kill"}]

\* Two clients, a restart goroutine and the OOM watcher on one container.
ConcurrentAllowed ==
  (main :> {"start", "stop"}) @@ (other :> {"pause", "unpause", "kill", "rmforce"})

RestartAllowed == [c \in {main} |-> {"start", "stop", "kill"}]

OnFailureOnce == {[policy |-> "on-failure", max |-> 1, autoRemove |-> FALSE]}

\* For the counterexample
StartStop == [c \in {main} |-> {"start", "stop"}]

NoPolicy == {[policy |-> "no", max |-> 0, autoRemove |-> FALSE]}

Always == {[policy |-> "always", max |-> 0, autoRemove |-> FALSE]}

AutoRemove == {[policy |-> "no", max |-> 0, autoRemove |-> TRUE]}

LivePolicies == NoPolicy \cup AutoRemove
=============================================================================
