---------------------------- MODULE MCJobQueue ----------------------------
\* JobQueue on small instances, for TLC.
EXTENDS JobQueue, TLC

\* Sound for the safety runs: no definition names a key.
KeySymmetry == Permutations(Keys)
===========================================================================
