---------------------------- MODULE MCCallFrames ----------------------------
\* An instance of CallFrames: Main, a function that saves more than its caller,
\* one that saves nothing, and one with a spilled register.
EXTENDS CallFrames

MCSaved == [main |-> {4}, f |-> {4, 5}, g |-> {}, h |-> {}]
MCLocals == [main |-> 0, f |-> 0, g |-> 2, h |-> 0]
MCSpills == [main |-> 0, f |-> 0, g |-> 0, h |-> 1]
=============================================================================
