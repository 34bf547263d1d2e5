--------------------------- MODULE MCSessionTurns ---------------------------
EXTENDS SessionTurns, TLC

Symmetry == Permutations(Inputs) \cup Permutations(Mails \ TriggerMails)
                \cup Permutations(TriggerMails) \cup Permutations(Injections)
=============================================================================
