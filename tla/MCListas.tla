------------------------------ MODULE MCListas ------------------------------
(* A small instance of Listas: two conversations, so that an answer may    *)
(* have several rows and two answers may overlap, and two polls under way, *)
(* one for each runnable.                                                  *)
EXTENDS Listas
=============================================================================
