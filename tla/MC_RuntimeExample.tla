--------------------------- MODULE MC_RuntimeExample ---------------------------
(* Two cpu instances and three of the memory instances; "Lookups" is in   *)
(* memIndom (line 39) but lines 85-111 never set it.                      *)
EXTENDS RuntimeExample

MCCells == {"CGoCalls", "Goroutines", "Alloc", "Sys", "Lookups"}
MCUpdateOrder == <<"CGoCalls", "Goroutines", "Alloc", "Sys">>

=============================================================================
