---------------------------- MODULE Elimination -----------------------------
(***************************************************************************)
(* What every numeric factorization of the library promises about its      *)
(* supernode panels, whatever the schedule: a panel is gathered into only  *)
(* when all of its update sources are final, exactly once; no panel is in  *)
(* the works when factorize() returns; it reports success exactly when     *)
(* every panel is factored.  Another factorize() starts from panels that   *)
(* hold the new matrix, or is refused.                                     *)
(***************************************************************************)
EXTENDS AssemblyDag

VARIABLES sources,   \* m_updateSources: who updates each supernode
          bad,       \* the supernodes whose pivot block turns out singular
          panel,     \* "assembled", "active", "factored" or "failed"
          status     \* "running", then the outcome: "success", "singular" or "refused"

elVars == <<sources, bad, panel, status>>

Factored == {s \in Supernodes : panel[s] = "factored"}

Init == /\ sources \in AssemblyDags
        /\ bad \in SUBSET Supernodes
        /\ panel = [s \in Supernodes |-> "assembled"]
        /\ status = "running"

Begin(s) == /\ status = "running"
            /\ panel[s] = "assembled"
            /\ sources[s] \subseteq Factored
            /\ panel' = [panel EXCEPT ![s] = "active"]
            /\ UNCHANGED <<sources, bad, status>>

End(s) == /\ panel[s] = "active"
          /\ panel' = [panel EXCEPT ![s] = IF s \in bad THEN "failed" ELSE "factored"]
          /\ UNCHANGED <<sources, bad, status>>

Return == /\ status = "running"
          /\ \A s \in Supernodes : panel[s] # "active"
          /\ \/ Factored = Supernodes /\ status' = "success"
             \/ (\E s \in Supernodes : panel[s] = "failed") /\ status' = "singular"
          /\ UNCHANGED <<sources, bad, panel>>

Assembled == [s \in Supernodes |-> "assembled"]

Restart == /\ status # "running"
           /\ bad' \in SUBSET Supernodes
           /\ panel' = Assembled
           /\ status' = "running"
           /\ UNCHANGED sources

Refuse == /\ status # "running"
          /\ panel' \in {panel, Assembled}
          /\ status' = "refused"
          /\ UNCHANGED <<sources, bad>>

Next == \/ \E s \in Supernodes : Begin(s) \/ End(s)
        \/ Return \/ Restart \/ Refuse

Spec == Init /\ [][Next]_elVars
=============================================================================
