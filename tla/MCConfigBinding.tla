--------------------------- MODULE MCConfigBinding ---------------------------
(* Callers, clients and foreign namespaces are interchangeable for a safety *)
(* property.                                                                *)
EXTENDS ConfigBinding, TLC

Symmetry == Permutations(Callers) \cup Permutations(Clients) \cup Permutations(Others)

(* What a step or a property of the main run can tell apart: of a call that *)
(* is over, no limit, and nothing at all if it failed.                      *)
Result(t) ==
  IF ~ At(t, "idle") THEN <<call[t]>>
  ELSE IF code[t] # "OK" THEN <<code[t]>>
  ELSE <<call[t].op, call[t].ns, call[t].dry, acted[t].ns, acted[t].backend,
         SetsLimit(t) /\ t \notin overwritten /\ acted[t].limit # call[t].max>>

View ==
  <<conf, pc, on, got, records, bound, since, {t \in overwritten : At(t, "act")},
    [t \in Callers |-> Result(t)]>>
=============================================================================
