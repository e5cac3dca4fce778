------------------------------ MODULE MCUpdater ------------------------------
\* TLC instances of Updater.
EXTENDS Updater, TLC

\* Goroutines are interchangeable: sound for the safety runs.
WorkerSymmetry == Permutations(Workers)
=============================================================================
