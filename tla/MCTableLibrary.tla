--------------------------- MODULE MCTableLibrary ---------------------------
(* Arrays of up to five elements, with three values, under sort.           *)
EXTENDS TableLibraryInv
MinIntValue == -6
=============================================================================
