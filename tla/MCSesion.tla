------------------------------ MODULE MCSesion ------------------------------
(***************************************************************************)
(* Small instances of Sesion.  MCSesion.cfg: one account, a clock that     *)
(* advances once, one request served late.  MCUsuariosDelTelefono.cfg: two *)
(* users of the phone, one after the other, and no check-in.               *)
(***************************************************************************)
EXTENDS Sesion
=============================================================================
