------------------------------- MODULE MCTab -------------------------------
(* A check held several times on one terminal.                              *)
EXTENDS TabSaves
=============================================================================
