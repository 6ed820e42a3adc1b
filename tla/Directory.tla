----------------------------- MODULE Directory -----------------------------
(***************************************************************************)
(* What the cluster as a whole promises about containers with hostnames of *)
(* their own: a directory with one entry for each node and container.  The *)
(* entry at the container's own node follows the container.  Every other   *)
(* entry (and, until the container is started again, the entry at its own  *)
(* node after a crash) may lag behind and be updated in any order, but     *)
(* only ever holds the container's one address, appears only for a         *)
(* container that was started and, short of a crash of the node, vanishes  *)
(* only for one that was stopped.                                          *)
(***************************************************************************)
CONSTANTS
    Nodes, Containers,
    On,        \* the node each container runs on
    Address,   \* the address each container is served with
    None       \* no answer

VARIABLES
    up,        \* the containers their nodes know to run
    answer,    \* each node's answer for each container
    started, stopped,  \* the containers that have ever been started, stopped
    crashed    \* the nodes that have ever crashed

vars == <<up, answer, started, stopped, crashed>>

Init ==
    /\ up = {}
    /\ answer = [n \in Nodes |-> [c \in Containers |-> None]]
    /\ started = {} /\ stopped = {}
    /\ crashed = {}

Start(c) ==
    /\ c \notin up
    /\ up' = up \cup {c}
    /\ answer' = [answer EXCEPT ![On[c]][c] = Address[c]]
    /\ started' = started \cup {c}
    /\ UNCHANGED <<stopped, crashed>>

Stop(c) ==
    /\ c \in up
    /\ up' = up \ {c}
    /\ answer' = [answer EXCEPT ![On[c]][c] = None]
    /\ stopped' = stopped \cup {c}
    /\ UNCHANGED <<started, crashed>>

(* n has only hearsay of c: c runs elsewhere, or ran here before a crash. *)
Hearsay(n, c) == n # On[c] \/ (n \in crashed /\ c \notin up)

Learn(n, c) ==
    /\ Hearsay(n, c) /\ c \in started
    /\ answer' = [answer EXCEPT ![n][c] = Address[c]]
    /\ UNCHANGED <<up, started, stopped, crashed>>

Forget(n, c) ==
    /\ Hearsay(n, c) /\ c \in stopped
    /\ answer' = [answer EXCEPT ![n][c] = None]
    /\ UNCHANGED <<up, started, stopped, crashed>>

Crash(n) ==
    /\ crashed' = crashed \cup {n}
    /\ up' = {c \in up : On[c] # n}
    /\ answer' = [answer EXCEPT ![n] = [c \in Containers |-> None]]
    /\ UNCHANGED <<started, stopped>>

Next ==
    \/ \E c \in Containers : Start(c) \/ Stop(c)
    \/ \E n \in Nodes, c \in Containers : Learn(n, c) \/ Forget(n, c)
    \/ \E n \in Nodes : Crash(n)

Spec == Init /\ [][Next]_vars
============================================================================
