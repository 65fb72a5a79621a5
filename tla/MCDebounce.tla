----------------------------- MODULE MCDebounce ------------------------------
\* Two keys, so that the flags they share are contended for; times of at most
\* three milliseconds against scans up to two apart (a counter runs down in one
\* scan, in several, exactly and with time to spare).
EXTENDS Debounce, TLC

\* The keys are alike.
KeySymmetry == Permutations(Keys)
=============================================================================
