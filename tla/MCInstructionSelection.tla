----------------------- MODULE MCInstructionSelection -----------------------
\* Instances of InstructionSelection: words of three bits, a shorter
\* register file and smaller immediates, so that the limits are reached.
EXTENDS InstructionSelection

MCConsts == {0, 2, 3}
MCInitial == {-4, 1}

=============================================================================
