--------------------------- MODULE MCSolidityBytes ---------------------------
(***************************************************************************)
(* SolidityBytes on a two-byte word: values of 0..MaxLen bytes are         *)
(* packed up to length 1, fill one data word at 2 and need two from 3.     *)
(***************************************************************************)
EXTENDS SolidityBytes
=============================================================================
