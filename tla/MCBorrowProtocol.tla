--------------------------- MODULE MCBorrowProtocol ---------------------------
(* Small instances of BorrowProtocol.                                      *)
EXTENDS BorrowProtocol
===============================================================================
