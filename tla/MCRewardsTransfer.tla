------------------------- MODULE MCRewardsTransfer -------------------------
\* Small instances of RewardsTransfer.
EXTENDS RewardsTransfer, TLC

CONSTANTS t1, t2

OneType == {t1 :> 1}
TwoTypes == {t1 :> 1, (t1 :> 1) @@ (t2 :> 1)}

\* Bounds: an administrator grants points to others, not to oneself; a third message
\* is sent only while nothing crashed, failed or was forgotten, and nothing does then.
Granted == UNION {{queue[u][n] : n \in DOMAIN queue[u]} : u \in User}
MCNext == /\ Next
          /\ (\A m \in Granted : m.kind = "grant" => m.to # Admin)'
          /\ Cardinality(accepted') <= 2 \/ crashes' + faults' + forgets' = 0
MCSpec == Init /\ [][MCNext]_vars /\ Fairness
=============================================================================
