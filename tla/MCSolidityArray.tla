--------------------------- MODULE MCSolidityArray ---------------------------
(***************************************************************************)
(* Model checking SolidityArray: two rows of up to two cells.  An array    *)
(* can lose its only row or the last of two, a row can be reassigned to a  *)
(* shorter, equal or longer one, and both can be popped to empty.          *)
(***************************************************************************)
EXTENDS SolidityArray
==============================================================================
