------------------------------- MODULE Sesion -------------------------------
(***************************************************************************)
(* The session of one phone against the accounts of module Usuarios: the   *)
(* screens that register, log in, log out, change the profile and check    *)
(* in, and the User table of DbHelper.  Other phones use the same accounts.*)
(*                                                                         *)
(* The four requests show a progress dialog that cannot be cancelled, so   *)
(* the phone has one of them under way at a time.  Requests and answers    *)
(* may be lost, and a request the phone has given up may still be served   *)
(* (huerfanos).                                                            *)
(***************************************************************************)
EXTENDS Usuarios, FiniteSets

CONSTANTS
    MaxHuerfanos,   \* bound on the requests given up and not yet served
    MaxSondeos      \* bound on the users whose list is being asked for

ASSUME CotasNat == MaxHuerfanos \in Nat /\ MaxSondeos \in Nat

ASSUME VacioNoEsTelefono == Vacio \notin Telefonos

\* The store of the server takes every write: module Servidor has the faults.
ASSUME SinFallas == Fallas = FALSE

VARIABLES
    filas,          \* the User table: a function on phones
    pantalla,       \* "cerrada", "entrada", "salida" (the log-in screen over
                    \* the main one, after a log-out) or "principal" (the
                    \* lists, the settings and the profile)
    espera,         \* the progress dialog is shown
    enRed,          \* the request under way
    huerfanos,      \* requests given up that the server may still get
    sondeos,        \* whose conversations were asked for and not yet answered
    datos,          \* whose conversations and messages the local tables have
    enVuelo,        \* history: the polls under way at the last log-in
    divergentes     \* history: accounts changed without an answer to this phone

varsTablas == <<filas, datos, enVuelo>>

varsTelefono == <<filas, pantalla, espera, enRed, huerfanos, sondeos, datos,
                  enVuelo, divergentes>>

varsSesion == <<varsUsuarios, varsTelefono>>

Nada == [tipo |-> "nada"]

(* new User()                                                              *)
UsuarioNuevo == [perfil |-> Vacio, conectado |-> TRUE, localizacion |-> Desconocida,
                 token |-> Vacio, logueado |-> FALSE]

Logueados == {t \in DOMAIN filas : filas[t].logueado}

(* DbHelper.getUser: the phone of the row with IS_LOGGED = 1, or that of   *)
(* new User().                                                             *)
getUser == IF Logueados = {} THEN Vacio ELSE CHOOSE t \in Logueados : TRUE

FilaDe(t) == IF t \in Logueados THEN filas[t] ELSE UsuarioNuevo

(* clearSessionData, on the rows.                                          *)
SinSesion(tabla) == [t \in DOMAIN tabla |-> [tabla[t] EXCEPT !.logueado = FALSE]]

(* DbHelper.getUserByPhone.                                                *)
getUserByPhone(t) == IF t \in DOMAIN filas THEN filas[t] ELSE UsuarioNuevo

(* The row of a phone is updated, or inserted if there was none.           *)
updateUser(tabla, t, fila) == setDato(tabla, t, fila)

(* Seeded fault: the row of a known user is updated without clearing the   *)
(* data of the former session.                                             *)
InsertUserSinLimpiar(t, fila) ==
    LET inicia == fila.logueado /\ t \notin DOMAIN filas
    IN  /\ filas' = updateUser(IF inicia THEN SinSesion(filas) ELSE filas, t, fila)
        /\ datos' = IF inicia THEN {} ELSE datos
        /\ enVuelo' = IF inicia THEN sondeos ELSE enVuelo

(* DbHelper.insertUser: a row that becomes the logged one ends the former  *)
(* session and deletes the conversations and messages.                     *)
insertUser(t, fila) ==
    LET inicia == fila.logueado /\ ~getUserByPhone(t).logueado
    IN  /\ filas' = updateUser(IF inicia THEN SinSesion(filas) ELSE filas, t, fila)
        /\ datos' = IF inicia THEN {} ELSE datos
        /\ enVuelo' = IF inicia THEN sondeos ELSE enVuelo

InitSesion ==
    /\ InitUsuarios
    /\ filas = [t \in {} |-> UsuarioNuevo]
    /\ pantalla = "cerrada"
    /\ espera = FALSE
    /\ enRed = Nada
    /\ huerfanos = {}
    /\ sondeos = {}
    /\ datos = {}
    /\ enVuelo = {}
    /\ divergentes = {}

-----------------------------------------------------------------------------
(* AuthenticationActivity.onCreate: a logged user goes to the main screen. *)
Abrir ==
    /\ pantalla = "cerrada"
    /\ pantalla' = IF Logueados = {} THEN "entrada" ELSE "principal"
    /\ UNCHANGED <<varsUsuarios, varsTablas, sondeos, espera, enRed, huerfanos, divergentes>>

(* Service shows the dialog and starts the task of a request: its kind,    *)
(* the phone, the password typed is right, the row it sends.               *)
Pedir(tipo, t, acierta, fila) ==
    /\ ~espera
    /\ enRed' = [tipo |-> tipo, tel |-> t, acierta |-> acierta, datos |-> fila,
                 servido |-> FALSE, exito |-> FALSE, fila |-> UsuarioNuevo]
    /\ espera' = TRUE
    /\ UNCHANGED <<varsUsuarios, varsTablas, sondeos, pantalla, huerfanos, divergentes>>

(* RegisterActivity: neither the name nor the password is empty.           *)
registerUser(t, perfil) ==
    /\ pantalla \in {"entrada", "salida"}
    /\ Pedir("registrar", t, FALSE, [UsuarioNuevo EXCEPT !.perfil = perfil])

(* AuthenticationActivity: acierta, the password typed is the user's.      *)
authenticate(t, acierta) ==
    /\ pantalla \in {"entrada", "salida"}
    /\ Pedir("entrar", t, acierta, UsuarioNuevo)

(* ProfileActivity: everything the row has is sent, with the new profile   *)
(* and connection state.                                                   *)
saveProfile(perfil, conectado) ==
    /\ pantalla = "principal"
    /\ Pedir("perfil", getUser, FALSE,
             [FilaDe(getUser) EXCEPT !.perfil = perfil, !.conectado = conectado])

(* The check-in button of ConversationsListActivity.                       *)
checkInUser ==
    /\ pantalla = "principal"
    /\ Pedir("checkIn", getUser, FALSE, FilaDe(getUser))

-----------------------------------------------------------------------------
(* The server serves a request of this phone, with what the task sent.     *)
AtenderRegistro(p) ==
    /\ p.tipo = "registrar"
    /\ registrarUsuario(p.tel, p.datos.perfil)

AtenderEntrada(p) ==
    /\ p.tipo = "entrar"
    /\ consultarUsuarioOnline(p.tel, TRUE)

AtenderPerfil(p) ==
    /\ p.tipo = "perfil"
    /\ administrarPerfil(p.tel, p.datos.token, p.datos.perfil, p.datos.conectado,
                         p.datos.localizacion)

AtenderCheckIn(p) ==
    /\ p.tipo = "checkIn"
    /\ \E l \in Lugares : checkIn(p.tel, l)

Atender(p) ==
    AtenderRegistro(p) \/ AtenderEntrada(p) \/ AtenderPerfil(p) \/ AtenderCheckIn(p)

(* Seeded fault: two fields of the answer are read in the wrong order.     *)
CopiaCruzada(u, logueado) == [perfil |-> u.localizacion, conectado |-> u.conectado,
                              localizacion |-> u.perfil, token |-> u.token,
                              logueado |-> logueado]

(* What a row copies of an account.                                        *)
Copia(u, logueado) == [perfil |-> u.perfil, conectado |-> u.conectado,
                       localizacion |-> u.localizacion, token |-> u.token,
                       logueado |-> logueado]

(* The accounts a step of the server changed as far as a row shows.        *)
Cambiadas == {t \in DOMAIN usuarios : Copia(usuarios'[t], TRUE) # Copia(usuarios[t], TRUE)}

(* What the callback gets: the account, for a log-in; the location, for a  *)
(* check-in; only the success, for the others.                             *)
FilaRespondida(p) ==
    IF ~respuesta'.success THEN UsuarioNuevo
    ELSE IF p.tipo = "entrar" THEN Copia(usuarios'[p.tel], TRUE)
    ELSE IF p.tipo = "checkIn" THEN [UsuarioNuevo EXCEPT !.localizacion = respuesta'.payload]
    ELSE UsuarioNuevo

Servir ==
    /\ enRed # Nada /\ ~enRed.servido
    /\ Atender(enRed)
    /\ enRed' = [enRed EXCEPT !.servido = TRUE, !.exito = respuesta'.success,
                              !.fila = FilaRespondida(enRed)]
    /\ divergentes' = IF enRed.tipo = "entrar" THEN divergentes \ {enRed.tel}
                      ELSE divergentes
    /\ UNCHANGED <<varsTablas, sondeos, pantalla, espera, huerfanos>>

(* The server gets a request after the phone has given it up.              *)
ServirTarde ==
    /\ \E p \in huerfanos : Atender(p) /\ huerfanos' = huerfanos \ {p}
    /\ divergentes' = divergentes \cup Cambiadas
    /\ UNCHANGED <<varsTablas, sondeos, pantalla, espera, enRed>>

(* After a log-in with the right password, the account is saved.           *)
logUserIn ==
    /\ enRed.tipo = "entrar" /\ enRed.acierta
    /\ insertUser(enRed.tel, enRed.fila)

(* After a profile is accepted, the row is saved as it was sent.           *)
GuardarPerfil ==
    /\ enRed.tipo = "perfil"
    /\ insertUser(enRed.tel, enRed.datos)

(* Seeded fault: the callback of the check-in does not save the location.  *)
CheckInSinGuardar ==
    /\ enRed.tipo = "checkIn"
    /\ UNCHANGED varsTablas

(* After a check-in, the location is saved in the row of the user then     *)
(* logged in.                                                              *)
GuardarCheckIn ==
    /\ enRed.tipo = "checkIn"
    /\ insertUser(getUser,
          [FilaDe(getUser) EXCEPT !.localizacion = enRed.fila.localizacion])

(* The callbacks that only show a message: a failure, a wrong password, or *)
(* an account created.                                                     *)
SoloMensaje ==
    \/ ~enRed.exito
    \/ enRed.tipo = "registrar"
    \/ enRed.tipo = "entrar" /\ ~enRed.acierta

(* The answer arrives: the callback of the screen that made the request.   *)
Entregar ==
    /\ enRed # Nada /\ enRed.servido
    /\ \/ SoloMensaje /\ UNCHANGED <<varsTablas, pantalla>>
       \/ /\ enRed.exito
          /\ logUserIn \/ GuardarPerfil \/ GuardarCheckIn
          /\ pantalla' = "principal"
    /\ enRed' = Nada /\ espera' = FALSE
    /\ UNCHANGED <<varsUsuarios, sondeos, huerfanos, divergentes>>

(* The phone gives its request up: one not served may still be.            *)
Abandonar ==
    /\ enRed' = Nada
    /\ divergentes' = IF enRed # Nada /\ enRed.exito /\ enRed.tipo \in {"perfil", "checkIn"}
                      THEN divergentes \cup {enRed.tel} ELSE divergentes
    /\ \/ UNCHANGED huerfanos
       \/ /\ enRed # Nada /\ ~enRed.servido
          /\ Cardinality(huerfanos) < MaxHuerfanos
          /\ huerfanos' = huerfanos \cup {enRed}

(* No answer: the callback shows that the connection failed.               *)
Perder ==
    /\ enRed # Nada
    /\ Abandonar
    /\ espera' = FALSE
    /\ UNCHANGED <<varsUsuarios, varsTablas, sondeos, pantalla>>

(* ConversationsListActivity.onPause cancels the check-in; a cancelled     *)
(* task has no onPostExecute, so the dialog stays.                         *)
Cancelar ==
    /\ enRed # Nada /\ enRed.tipo = "checkIn"
    /\ Abandonar
    /\ sondeos' = {}
    /\ UNCHANGED <<varsUsuarios, varsTablas, pantalla, espera>>

(* The process ends: the tables are left.                                  *)
MatarProceso ==
    /\ pantalla # "cerrada"
    /\ pantalla' = "cerrada" /\ espera' = FALSE
    /\ Abandonar
    /\ sondeos' = {}
    /\ UNCHANGED <<varsUsuarios, varsTablas>>

-----------------------------------------------------------------------------
(* Seeded fault: the row is not saved.                                     *)
LogoutSinGuardar ==
    /\ pantalla = "principal" /\ ~espera
    /\ pantalla' = "salida"
    /\ UNCHANGED <<varsUsuarios, varsTablas, sondeos, espera, enRed, huerfanos, divergentes>>

(* SettingsActivity.logout.  The server is not told.                       *)
logout ==
    /\ pantalla = "principal" /\ ~espera
    /\ insertUser(getUser, [FilaDe(getUser) EXCEPT !.logueado = FALSE])
    /\ pantalla' = "salida"
    /\ UNCHANGED <<varsUsuarios, sondeos, espera, enRed, huerfanos, divergentes>>

(* The back key on the log-in screen shows the main screen below it.       *)
Volver ==
    /\ pantalla = "salida" /\ ~espera
    /\ pantalla' = "principal"
    /\ UNCHANGED <<varsUsuarios, varsTablas, sondeos, espera, enRed, huerfanos, divergentes>>

(* The list screen asks for the conversations of the user.  onPause        *)
(* cancels the tasks, but a runnable posted to a Handler that onResume     *)
(* replaced is not removed and goes on posting itself, so a poll may also  *)
(* start below the settings, after onPause and before a log-out.           *)
getConversationsFromService ==
    /\ pantalla = "principal" /\ Logueados # {}
    /\ Cardinality(sondeos) < MaxSondeos
    /\ sondeos' = sondeos \cup {getUser}
    /\ UNCHANGED <<varsUsuarios, varsTablas, pantalla, espera, enRed, huerfanos, divergentes>>

(* Its answer arrives and is saved, whoever is logged in by then.          *)
RecibirConversaciones ==
    /\ \E t \in sondeos : sondeos' = sondeos \ {t} /\ datos' = datos \cup {t}
    /\ UNCHANGED <<varsUsuarios, filas, enVuelo, pantalla, espera, enRed, huerfanos,
                   divergentes>>

(* Its answer is lost, or the task is cancelled by onPause.                *)
PerderConversaciones ==
    /\ \E t \in sondeos : sondeos' = sondeos \ {t}
    /\ UNCHANGED <<varsUsuarios, varsTablas, pantalla, espera, enRed, huerfanos, divergentes>>

(* Another phone uses an account: it registers it, logs in, opens a chat   *)
(* with its user, changes the profile within the session or checks in.     *)
ServicioAOtro(t) ==
    \/ \E p \in Perfiles : registrarUsuario(t, p)
    \/ \E renovar \in BOOLEAN : consultarUsuarioOnline(t, renovar)
    \/ /\ sesion[t] # Vacio
       /\ \E p \in Perfiles, c \in BOOLEAN, l \in Lugares \cup {Desconocida} :
              administrarPerfil(t, sesion[t], p, c, l)
    \/ \E l \in Lugares : checkIn(t, l)

OtroTelefono ==
    /\ \E t \in Telefonos : ServicioAOtro(t)
    /\ divergentes' = divergentes \cup Cambiadas
    /\ UNCHANGED <<varsTablas, sondeos, pantalla, espera, enRed, huerfanos>>

PasaSegundo == Segundo /\ UNCHANGED varsTelefono

NextSesion ==
    \/ Abrir \/ MatarProceso \/ logout \/ Volver
    \/ getConversationsFromService \/ RecibirConversaciones \/ PerderConversaciones
    \/ \E t \in Telefonos, p \in Perfiles : registerUser(t, p)
    \/ \E t \in Telefonos, a \in BOOLEAN : authenticate(t, a)
    \/ \E p \in Perfiles, c \in BOOLEAN : saveProfile(p, c)
    \/ checkInUser
    \/ Servir \/ ServirTarde \/ Entregar \/ Perder \/ Cancelar
    \/ OtroTelefono \/ PasaSegundo

SpecSesion == InitSesion /\ [][NextSesion]_varsSesion

-----------------------------------------------------------------------------
Fila == [perfil : Perfiles \cup {Vacio}, conectado : BOOLEAN,
         localizacion : Localizaciones, token : Tokens, logueado : BOOLEAN]

(* The User table has a row for each phone that logged in here, and one    *)
(* for the empty phone if nobody was logged in at a log-out.               *)
TypeOKSesion ==
    /\ TypeOKUsuarios
    /\ DOMAIN filas \subseteq Telefonos \cup {Vacio}
    /\ filas \in [DOMAIN filas -> Fila]
    /\ pantalla \in {"cerrada", "entrada", "salida", "principal"}
    /\ espera \in BOOLEAN
    /\ enRed # Nada => espera /\ enRed.fila \in Fila /\ enRed.datos \in Fila
    /\ datos \cup sondeos \cup enVuelo \subseteq Telefonos
    /\ divergentes \subseteq Telefonos

(* At most one row is the logged one, it is never the row of the empty     *)
(* phone, and nobody is logged in while the log-in screen is shown,        *)
(* whatever was lost, cancelled or killed: getUser takes the first row.    *)
UnSoloUsuario ==
    /\ \A a, b \in Logueados : a = b
    /\ Vacio \notin Logueados
    /\ pantalla \in {"entrada", "salida"} => Logueados = {}

(* The conversations kept in the phone are those of the user logged in,    *)
(* also after another user of the phone logged out, except for answers     *)
(* that were under way when that user logged in.                           *)
DatosDeLaSesion == Logueados # {} => datos \subseteq Logueados \cup enVuelo

(* What the comment of TabLayoutActivity says: the main screen shows the   *)
(* conversations of the user.                                              *)
ConversacionesDelUsuario == Logueados # {} => datos \subseteq Logueados

(* The row of the user logged in shows the account as the server has it,   *)
(* its session token too, unless the account was changed by another phone, *)
(* by a request served late, or by one whose answer was lost, since the    *)
(* log-in.                                                                 *)
FilaActualizada ==
    \A t \in Logueados : enRed = Nada /\ t \notin divergentes =>
        Registrado(t) /\ filas[t] = Copia(usuarios[t], TRUE)
=============================================================================
