------------------------------- MODULE MCAicTx -------------------------------
EXTENDS AicTx, TLC

SenderSymmetry == Permutations(Senders)
=============================================================================
