----------------------------- MODULE MCSendFile -----------------------------
EXTENDS SendFile, TLC

\* Workers are interchangeable.
WorkerSymmetry == Permutations(Workers)
=============================================================================
