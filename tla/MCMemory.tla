------------------------------ MODULE MCMemory ------------------------------
(* Two private pages to a process, one of which has the bootcode, and one   *)
(* shared page.                                                             *)
EXTENDS Memory
=============================================================================
