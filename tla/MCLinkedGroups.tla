--------------------------- MODULE MCLinkedGroups ---------------------------
(* TLC instances of LinkedGroups.                                          *)
EXTENDS LinkedGroups
============================================================================
