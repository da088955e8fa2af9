---------------------------- MODULE PointsLedger ----------------------------
(***************************************************************************)
(* What the transfer of reward points promises, whatever the queue and the *)
(* Lambdas behind it do: a payment is made in one step, out of points its  *)
(* source has, and nothing else moves points.  It is not made again while  *)
(* its token is remembered, nor ever after it was closed.                  *)
(***************************************************************************)
EXTENDS Naturals

CONSTANTS User, Type,
          Payment   \* records with fields kind, from, to, points and type

VARIABLES tp,      \* TransferablePoints of each user and reward type
          rp,      \* RewardPoints
          paid,        \* the payments made
          remembered,  \* those whose token is remembered
          closed       \* those that nobody will ask for again

ledger == <<tp, rp, paid, remembered, closed>>

\* New points are not taken from anybody.
Covered(p) == p.kind = "inception" \/ tp[p.from][p.type] >= p.points

\* Kudos turn transferable points into reward points, the rest stays transferable.
Debit(p) == IF p.kind = "inception" THEN tp
            ELSE [tp EXCEPT ![p.from][p.type] = @ - p.points]

Credit(balance, p) == [balance EXCEPT ![p.to][p.type] = @ + p.points]

LedgerInit == paid = {} /\ remembered = {} /\ closed = {}

Pay(p) == /\ p \notin remembered /\ p \notin closed
          /\ p.points > 0
          /\ p.kind = "inception" \/ p.from # p.to
          /\ Covered(p)
          /\ tp' = IF p.kind = "kudos" THEN Debit(p) ELSE Credit(Debit(p), p)
          /\ rp' = IF p.kind = "kudos" THEN Credit(rp, p) ELSE rp
          /\ paid' = paid \cup {p}
          /\ remembered' = remembered \cup {p}
          /\ UNCHANGED closed

\* A payment made may be forgotten while somebody may still ask for it.
Forget(p) == /\ p \in remembered
             /\ remembered' = remembered \ {p}
             /\ UNCHANGED <<tp, rp, paid, closed>>

\* What is closed is not opened again, paid or not.
Close == /\ closed \subseteq closed' /\ closed' \subseteq Payment
         /\ UNCHANGED <<tp, rp, paid, remembered>>

LedgerNext == (\E p \in Payment : Pay(p) \/ Forget(p)) \/ Close

LedgerSpec == LedgerInit /\ [][LedgerNext]_ledger
=============================================================================
