---------------------------- MODULE MCGlobalData ----------------------------
\* An instance of GlobalData: words of three bits, where the smallest word
\* and -1 are a step away, and memory that holds the smallest word.
EXTENDS GlobalData

MCGarbage == {-4, 2}
=============================================================================
