------------------------------ MODULE MCLedger ------------------------------
\* CommissionLedger on one affiliate: the locks and the payouts are per
\* affiliate, so affiliates do not interact.
EXTENDS CommissionLedger, TLC

CONSTANT partner

OnePartner == [c \in Conversion |-> partner]

Symmetry == Permutations(Conversion) \cup Permutations(Payout)
            \cup Permutations(Adjustment) \cup Permutations(Request)

\* Bound of the serial run: the fraud engine flags at most one conversion.
OneFraudReview == Cardinality({c \in Conversion : fraudDecision[c] # "NONE"}) <= 1
=============================================================================
