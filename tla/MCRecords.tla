----------------------------- MODULE MCRecords -----------------------------
(* Two spellings of one hostname and a second hostname; calls that race on *)
(* timestamps and tie on them, from two nodes.                             *)
EXTENDS Records, TLC

CONSTANTS ip1, ip2

At(t, n) == [ts |-> t, node |-> n]
MCNames == {"App", "app", "web"}
MCLower == [n \in MCNames |-> IF n = "App" THEN "app" ELSE n]

MCAdd(n, ip, m) == [action |-> "add", host |-> n, ip |-> ip, meta |-> m]
MCRemove(n, m) == [action |-> "remove", host |-> n, ip |-> NoIP, meta |-> m]

(* app only sees additions; web sees every kind of call. *)
MCOps ==
    { MCAdd("App", ip1, At(1, 1)), MCAdd("app", ip2, At(1, 2)), MCAdd("app", ip1, At(2, 1)),
      MCAdd("web", ip1, At(1, 1)), MCRemove("web", At(2, 1)),
      [action |-> "Add", host |-> "web", ip |-> ip1], [action |-> "Remove", host |-> "web"] }

MCSymmetry == Permutations(Writers)
============================================================================
