----------------------------- MODULE MCServidor -----------------------------
(* A small instance of Servidor.  Two users are enough for the two orders  *)
(* of a pair and for a conversation of a user with itself; two messages    *)
(* let a cut store be followed by a complete one.  Of the accounts only    *)
(* what the handlers of messages read varies: registration, token (none or *)
(* one: the clock, on which tokens depend, varies in MCUsuarios) and       *)
(* connection state.                                                       *)
EXTENDS Servidor, Rutas, TLC

Simetria == Permutations(Telefonos)

(* From the start of the server, every request of the client reaches the   *)
(* service it is meant for, and that service reads the id the client put   *)
(* in the URI.                                                             *)
CadaPeticionASuServicio == InitServidor => RutasDelCliente
=============================================================================
