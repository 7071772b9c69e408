------------------------------ MODULE MCDXLock ------------------------------
(* A small instance of DXLock for TLC.  Two semaphores are as many as  *)
(* three processes can have in use.                                        *)
EXTENDS DXLock
MCSems == {1, 2}
=============================================================================
