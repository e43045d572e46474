------------------------------ MODULE Usuarios ------------------------------
(***************************************************************************)
(* The accounts kept by the server: class Usuario, stored by BaseDeDatos   *)
(* under "usuario_" + md5(telefono), and the four REST services that       *)
(* change them (registrarUsuario, administrarPerfil,                       *)
(* consultarUsuarioOnline and checkIn of class Servicio).                  *)
(*                                                                         *)
(* Abstractions.  A phone number stands for the user and for its md5.      *)
(* nombre, fotoDePerfil and password are always written together and are   *)
(* never inspected by the server: they are one value, perfil.  A location  *)
(* string ("place dd/mm/yy, hh:mm") is one opaque value.  Vacio is the     *)
(* empty string, which is also what a missing parameter reads as.          *)
(*                                                                         *)
(* BaseDeDatos::setDato only logs a Put that fails, so a service goes on   *)
(* and answers as if it had been written.  RocksDB remembers the error and *)
(* refuses every later write until the process is started again.           *)
(***************************************************************************)
EXTENDS Naturals

CONSTANTS
    Telefonos,      \* the phone numbers that appear in requests
    Perfiles,       \* values of (nombre, fotoDePerfil, password)
    Lugares,        \* location strings computed by a check-in
    Desconocida,    \* the default location, "desconocida"
    Vacio,          \* the empty string
    MaxReloj,       \* bound of the clock (seconds)
    Fallas          \* whether a write of the store may fail

ASSUME MaxRelojNat == MaxReloj \in Nat

ASSUME FallasBooleano == Fallas \in BOOLEAN

ASSUME VacioNoEsDato == Vacio \notin Telefonos \X Nat

VARIABLES
    usuarios,       \* the stored accounts: a function on the registered phones
    reloj,          \* time(0) of the server, in seconds
    respuesta,      \* the last reply of the server
    disco,          \* whether the store accepts writes
    sesion,         \* history: the token handed out by the last log-in
                    \* (renovarToken=true) of each phone
    perdidas        \* history: the phones whose last log-in was not written

varsCuentas == <<usuarios, reloj, respuesta, sesion, perdidas>>

varsUsuarios == <<usuarios, reloj, respuesta, disco, sesion, perdidas>>

Localizaciones == Lugares \cup {Desconocida, Vacio}

Tokens == {Vacio} \cup (Telefonos \X Nat)

Usuario ==
    [perfil : Perfiles \cup {Vacio}, conectado : BOOLEAN,
     localizacion : Localizaciones, ultimaConexion : Nat, token : Tokens]

(* A write of the key-value store.                                         *)
setDato(base, clave, valor) ==
    [k \in DOMAIN base \cup {clave} |-> IF k = clave THEN valor ELSE base[k]]

(* Seeded fault: a store that failed a write takes the next one.           *)
PutTrasFalla == disco' \in {d \in BOOLEAN : d \/ Fallas}

(* The outcome of a Put: whether the store has taken the write.  After a   *)
(* failed one (bg_error_) it takes no other.                               *)
Put == disco' \in {d \in BOOLEAN : (d => disco) /\ (d \/ ~disco \/ Fallas)}

(* setDato of an account, whatever the outcome.                            *)
GuardarCuentas(cuentas) ==
    /\ Put
    /\ usuarios' = IF disco' THEN cuentas ELSE usuarios

(* Usuario::obtenerPorTelefono(t) finds an account.                        *)
Registrado(t) == t \in DOMAIN usuarios

(* md5(telefono + ultimaConexion): ctime has a resolution of one second,   *)
(* so the token is a function of the phone and the second.                 *)
calcularTokenDeSesion(t, hora) == <<t, hora>>

Responder(servicio, exito, payload) ==
    respuesta' = [servicio |-> servicio, success |-> exito, payload |-> payload]

InitUsuarios ==
    /\ usuarios = [t \in {} |-> Vacio]
    /\ reloj = 0
    /\ respuesta = [servicio |-> "ninguno", success |-> FALSE, payload |-> Vacio]
    /\ disco = TRUE
    /\ sesion = [t \in Telefonos |-> Vacio]
    /\ perdidas = {}

-----------------------------------------------------------------------------
(* Seeded fault: the check for an existing account is lost.                *)
RegistrarUsuarioPisa(t, perfil) ==
    /\ GuardarCuentas(setDato(usuarios, t,
           [perfil |-> perfil, conectado |-> TRUE, localizacion |-> Desconocida,
            ultimaConexion |-> reloj, token |-> Vacio]))
    /\ Responder("registrar", TRUE, Vacio)
    /\ UNCHANGED <<reloj, sesion, perdidas>>

(* POST /usuario/                                                          *)
registrarUsuario(t, perfil) ==
    /\ IF Registrado(t)
       THEN /\ Responder("registrar", FALSE, Vacio)
            /\ UNCHANGED <<usuarios, disco>>
       ELSE /\ GuardarCuentas(setDato(usuarios, t,
                   [perfil |-> perfil, conectado |-> TRUE,
                    localizacion |-> Desconocida,
                    ultimaConexion |-> reloj, token |-> Vacio]))
            /\ Responder("registrar", TRUE, Vacio)
    /\ UNCHANGED <<reloj, sesion, perdidas>>

(* Seeded fault: two fields of the request are read in the wrong order.    *)
AdministrarPerfilCruzado(t, token, perfil, conectado, localizacion) ==
    /\ Registrado(t) /\ usuarios[t].token = token
    /\ GuardarCuentas([usuarios EXCEPT ![t].perfil = perfil,
                                       ![t].conectado = localizacion,
                                       ![t].localizacion = conectado])
    /\ Responder("perfil", TRUE, token)
    /\ UNCHANGED <<reloj, sesion, perdidas>>

(* PUT /usuario/: every field of the profile is replaced by the request's, *)
(* a missing one by the empty string (and conectado by FALSE).             *)
administrarPerfil(t, token, perfil, conectado, localizacion) ==
    /\ IF Registrado(t) /\ usuarios[t].token = token
       THEN /\ GuardarCuentas([usuarios EXCEPT
                   ![t].perfil = perfil,
                   ![t].conectado = conectado,
                   ![t].localizacion = localizacion])
            /\ Responder("perfil", TRUE, token)
       ELSE /\ Responder("perfil", FALSE, Vacio)
            /\ UNCHANGED <<usuarios, disco>>
    /\ UNCHANGED <<reloj, sesion, perdidas>>

(* Seeded fault: the token is recalculated on every query.                 *)
consultarUsuarioOnlineRenueva(t, renovar) ==
    /\ Registrado(t)
    /\ GuardarCuentas([usuarios EXCEPT ![t].ultimaConexion = reloj,
                                       ![t].token = calcularTokenDeSesion(t, reloj)])
    /\ sesion' = IF renovar
                 THEN [sesion EXCEPT ![t] = calcularTokenDeSesion(t, reloj)]
                 ELSE sesion
    /\ Responder("consulta", TRUE, calcularTokenDeSesion(t, reloj))
    /\ UNCHANGED <<reloj, perdidas>>

(* GET /usuario/<t>: stamps ultimaConexion whoever asks; a log-in asks     *)
(* with renovarToken=true and gets a new token, written or not.            *)
consultarUsuarioOnline(t, renovar) ==
    LET token == IF renovar THEN calcularTokenDeSesion(t, reloj)
                            ELSE usuarios[t].token
    IN  /\ IF Registrado(t)
           THEN /\ GuardarCuentas([usuarios EXCEPT ![t].ultimaConexion = reloj,
                                                   ![t].token = token])
                /\ sesion' = IF renovar THEN [sesion EXCEPT ![t] = token] ELSE sesion
                /\ perdidas' = IF ~renovar THEN perdidas
                               ELSE IF disco' THEN perdidas \ {t}
                               ELSE perdidas \cup {t}
                /\ Responder("consulta", TRUE, token)
           ELSE /\ Responder("consulta", FALSE, Vacio)
                /\ UNCHANGED <<usuarios, disco, sesion, perdidas>>
        /\ UNCHANGED reloj

(* PUT /usuario/checkIn: no token is asked for.                            *)
checkIn(t, lugar) ==
    /\ IF Registrado(t)
       THEN /\ GuardarCuentas([usuarios EXCEPT ![t].localizacion = lugar])
            /\ Responder("checkIn", TRUE, lugar)
       ELSE /\ Responder("checkIn", FALSE, Vacio)
            /\ UNCHANGED <<usuarios, disco>>
    /\ UNCHANGED <<reloj, sesion, perdidas>>

(* The process that serves a store that failed is started again.           *)
Reiniciar ==
    /\ ~disco
    /\ disco' = TRUE
    /\ UNCHANGED varsCuentas

(* The clock of the machine.                                               *)
Segundo ==
    /\ reloj < MaxReloj
    /\ reloj' = reloj + 1
    /\ UNCHANGED <<usuarios, respuesta, disco, sesion, perdidas>>

(* The tokens a client may present: the empty one or one ever handed out.  *)
TokensPosibles == {Vacio} \cup (Telefonos \X (0 .. MaxReloj))

ServicioDeCuentas(t) ==
    \/ \E p \in Perfiles \cup {Vacio} : registrarUsuario(t, p)
    \/ \E k \in TokensPosibles, p \in Perfiles \cup {Vacio}, c \in BOOLEAN,
          l \in Localizaciones : administrarPerfil(t, k, p, c, l)
    \/ \E r \in BOOLEAN : consultarUsuarioOnline(t, r)
    \/ \E l \in Lugares : checkIn(t, l)

NextUsuarios == Segundo \/ Reiniciar \/ \E t \in Telefonos : ServicioDeCuentas(t)

SpecUsuarios == InitUsuarios /\ [][NextUsuarios]_varsUsuarios

-----------------------------------------------------------------------------
(* The stored accounts, the reply and the history have the shape of class  *)
(* Usuario and of Servicio::responder.                                     *)
TypeOKUsuarios ==
    /\ DOMAIN usuarios \subseteq Telefonos
    /\ usuarios \in [DOMAIN usuarios -> Usuario]
    /\ reloj \in Nat
    /\ respuesta.success \in BOOLEAN
    /\ disco \in BOOLEAN
    /\ sesion \in [Telefonos -> Tokens]
    /\ perdidas \subseteq Telefonos

(* The token stored for an account is the one handed out by its last       *)
(* log-in, whatever happened since: other users' queries (which move       *)
(* ultimaConexion, from which tokens are computed), profile updates,       *)
(* check-ins, repeated registrations, failed writes and restarts never end *)
(* a session.  The exception is a log-in whose own write failed: it was    *)
(* answered with a token that the account does not have.                   *)
SesionVigente ==
    \A t \in Telefonos :
        Registrado(t) /\ t \notin perdidas => usuarios[t].token = sesion[t]

(* The step kept the account of t, or it was an administrarPerfil that     *)
(* presented the token the account had.                                    *)
CambioAutorizado(t) ==
    /\ t \in DOMAIN usuarios'
    /\ \/ /\ usuarios'[t].perfil = usuarios[t].perfil
          /\ usuarios'[t].conectado = usuarios[t].conectado
       \/ /\ respuesta'.servicio = "perfil"
          /\ respuesta'.success
          /\ respuesta'.payload = usuarios[t].token

(* Once registered, an account keeps its name, picture, password and       *)
(* connection state except in an administrarPerfil that presented the      *)
(* token the account had; it is never removed nor created again.           *)
CuentaSoloPorSuToken ==
    [][\A t \in Telefonos : Registrado(t) => CambioAutorizado(t)]_varsUsuarios

=============================================================================
