----------------------------- MODULE MCUsuarios -----------------------------
(* A small instance of Usuarios: two phones, so that one user can query    *)
(* the other; a profile beside the empty one, so that a change of profile  *)
(* shows; two seconds, so that a query can fall after a log-in.  The       *)
(* places of a check-in are computed over lists of up to three, with       *)
(* centres on a small grid, so that they overlap, contain one another, tie *)
(* and leave points out.                                                   *)
EXTENDS Usuarios, Localizacion, TLC

Simetria == Permutations(Telefonos)

(* With the list of places the server loaded when it started, a check-in   *)
(* finds a place exactly when one contains the point; with overlapping     *)
(* places it is one whose centre is nearest, and of those the last of the  *)
(* file.                                                                   *)
UbicacionCorrecta == InitUsuarios => UbicacionSegunLaLista
=============================================================================
