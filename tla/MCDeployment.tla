---------------------------- MODULE MCDeployment ----------------------------
EXTENDS Release
CONSTANTS g1, g2, g3, o1, o2, o3
=============================================================================
