------------------------------ MODULE Almacen -------------------------------
(***************************************************************************)
(* What BaseDeDatos asks of the store below it: a map from keys to values  *)
(* that one client writes, one operation at a time.  An operation takes    *)
(* effect at one instant or not at all, one that was answered with success *)
(* has taken effect, one that failed never does, and the end of the        *)
(* process undoes nothing (it may fall before or after the effect of the   *)
(* operation in progress, whose answer is then lost).                      *)
(***************************************************************************)

CONSTANTS
    Claves,     \* the keys
    Valores,    \* the values
    Ausente     \* the value of a key that is not there

VARIABLES
    dato,       \* the map
    operacion   \* the write in progress: a set with at most one
                \* [key, valor, hecha], hecha when it has taken effect

varsAlmacen == <<dato, operacion>>

Init == dato = [k \in Claves |-> Ausente] /\ operacion = {}

Pedir(k, v) ==
    /\ operacion = {}
    /\ operacion' = {[key |-> k, valor |-> v, hecha |-> FALSE]}
    /\ UNCHANGED dato

Aplicar(o) ==
    /\ ~o.hecha
    /\ dato' = [dato EXCEPT ![o.key] = o.valor]
    /\ operacion' = {[o EXCEPT !.hecha = TRUE]}

Confirmar(o) == o.hecha /\ operacion' = {} /\ UNCHANGED dato

Rechazar(o) == ~o.hecha /\ operacion' = {} /\ UNCHANGED dato

Next ==
    \/ \E k \in Claves, v \in Valores \cup {Ausente} : Pedir(k, v)
    \/ \E o \in operacion : Aplicar(o) \/ Confirmar(o) \/ Rechazar(o)

Spec == Init /\ [][Next]_varsAlmacen
=============================================================================
