------------------------------- MODULE Buzon --------------------------------
(***************************************************************************)
(* What the chat promises to the owner of a phone about one conversation:  *)
(* the messages (their ids) arrive in the order in which the server        *)
(* accepted them, none is skipped, and none is taken back.                 *)
(***************************************************************************)
EXTENDS Secuencias

VARIABLES enviados, recibidos

varsBuzon == <<enviados, recibidos>>

Init == enviados = <<>> /\ recibidos = <<>>

(* The server accepts messages, after those it has.                        *)
Aceptar ==
    /\ EsPrefijo(enviados, enviados') /\ enviados # enviados'
    /\ UNCHANGED recibidos

(* The phone gets the next ones, as many as there are or fewer.            *)
Recibir ==
    /\ EsPrefijo(recibidos, recibidos') /\ recibidos # recibidos'
    /\ EsPrefijo(recibidos', enviados)
    /\ UNCHANGED enviados

Next == Aceptar \/ Recibir

Spec == Init /\ [][Next]_varsBuzon
=============================================================================
