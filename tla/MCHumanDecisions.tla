---- MODULE MCHumanDecisions ----
EXTENDS HumanDecisions, TLC

\* Payloads are only compared.
MCSymmetry == Permutations(Payloads)
====
