--------------------------- MODULE AtomicRecords ---------------------------
(***************************************************************************)
(* What Records promises its callers ("thread-safe storage"): both maps    *)
(* change together, one whole call at a time.                              *)
(***************************************************************************)
EXTENDS RecordStore

CONSTANT Ops   \* the write calls the goroutines may make

VARIABLES data, meta

Init == data = EmptyStore.data /\ meta = EmptyStore.meta

Do(op) ==
    LET s == Apply([data |-> data, meta |-> meta], op)
    IN  data' = s.data /\ meta' = s.meta

Next == \E op \in Ops : Do(op)
Spec == Init /\ [][Next]_<<data, meta>>
============================================================================
