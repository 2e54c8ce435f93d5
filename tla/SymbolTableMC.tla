--------------------------- MODULE SymbolTableMC ------------------------------
(* Three tables, so that a name can be exported twice and used elsewhere.      *)
EXTENDS SymbolTable, TLC

Alike == Permutations(Tables)
=============================================================================
