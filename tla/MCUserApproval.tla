--------------------------- MODULE MCUserApproval ---------------------------
EXTENDS UserApproval
CONSTANTS a1, a2
MCRequest == {a1, a2}
=============================================================================
