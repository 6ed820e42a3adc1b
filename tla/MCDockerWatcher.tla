-------------------------- MODULE MCDockerWatcher --------------------------
EXTENDS DockerWatcher

CONSTANTS c1, c2, c3

MCNames == {"App", "app", "web", "db"}
MCLower == [n \in MCNames |-> IF n = "App" THEN "app" ELSE n]

(* c1 has two hostnames, one of them spelled twice; c2 shares the other    *)
(* and has one of its own; c3 has no label.                                *)
MCHostnames ==
    [c \in Containers |-> CASE c = c1 -> {"App", "app", "web"} [] c = c2 -> {"web", "db"} [] c = c3 -> {}]

(* c1 and c2 share a hostname. *)
MCShared == [c \in Containers |-> IF c = c1 THEN {"App"} ELSE {"app"}]
============================================================================
