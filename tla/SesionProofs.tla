---------------------------- MODULE SesionProofs ----------------------------
(***************************************************************************)
(* Theorems about the session of a phone (module Sesion), for any set of   *)
(* phones, profiles and places and any number of polls and of requests     *)
(* given up.                                                               *)
(***************************************************************************)
EXTENDS Sesion, UsuariosProofs

-----------------------------------------------------------------------------
(* The accounts stay well typed, whoever the request is for.               *)
LEMMA SinEfectoTipo ==
    ASSUME TypeOKUsuarios, NEW t \in Telefonos, SinEfecto(t), disco' \in BOOLEAN
    PROVE  TypeOKUsuarios'
BY DEF TypeOKUsuarios, SinEfecto

LEMMA NadieTipo ==
    ASSUME TypeOKUsuarios, UNCHANGED <<usuarios, reloj, sesion, perdidas>>,
           respuesta'.success \in BOOLEAN, disco' \in BOOLEAN
    PROVE  TypeOKUsuarios'
BY DEF TypeOKUsuarios

LEMMA RegistrarTipo ==
    ASSUME TypeOKUsuarios, NEW t \in Telefonos, NEW p \in Perfiles \cup {Vacio},
           registrarUsuario(t, p)
    PROVE  TypeOKUsuarios'
<1>1. disco \in BOOLEAN
  BY DEF TypeOKUsuarios
<1>2. disco' \in BOOLEAN
  BY <1>1, GuardarCasos, Zenon DEF registrarUsuario
<1>3. CASE ~Registrado(t) /\ disco'
  BY <1>2, <1>3, RegistrarEfecto DEF TypeOKUsuarios
<1>4. CASE ~(~Registrado(t) /\ disco')
  <2>1. SinEfecto(t)
    BY <1>4, RegistrarSinEfecto
  <2> QED BY <1>2, <2>1, SinEfectoTipo
<1> QED BY <1>3, <1>4

LEMMA ConsultaTipo ==
    ASSUME TypeOKUsuarios, NEW t \in Telefonos, NEW r \in BOOLEAN,
           consultarUsuarioOnline(t, r)
    PROVE  TypeOKUsuarios'
<1>1. disco \in BOOLEAN
  BY DEF TypeOKUsuarios
<1>2. disco' \in BOOLEAN
  BY <1>1, GuardarCasos, Zenon DEF consultarUsuarioOnline
<1>3. CASE Registrado(t) /\ disco'
  <2>1. /\ DOMAIN usuarios' = DOMAIN usuarios
        /\ usuarios' \in [DOMAIN usuarios' -> Usuario]
        /\ sesion' \in [Telefonos -> Tokens]
        /\ perdidas' = IF r THEN perdidas \ {t} ELSE perdidas
        /\ reloj' = reloj
        /\ respuesta'.success \in BOOLEAN
    BY <1>3, ConsultaEfecto, Zenon
  <2>2. perdidas' \subseteq Telefonos
    BY <2>1 DEF TypeOKUsuarios
  <2> QED BY <1>2, <2>1, <2>2 DEF TypeOKUsuarios
<1>4. CASE ~(Registrado(t) /\ disco')
  <2>1. SinEfecto(t)
    BY <1>4, ConsultaSinEfecto
  <2> QED BY <1>2, <2>1, SinEfectoTipo
<1> QED BY <1>3, <1>4

LEMMA PerfilTipo ==
    ASSUME TypeOKUsuarios, NEW t, NEW k, NEW p \in Perfiles \cup {Vacio},
           NEW c \in BOOLEAN, NEW l \in Localizaciones, administrarPerfil(t, k, p, c, l)
    PROVE  TypeOKUsuarios'
<1>1. disco \in BOOLEAN
  BY DEF TypeOKUsuarios
<1>2. disco' \in BOOLEAN
  BY <1>1, GuardarCasos, Zenon DEF administrarPerfil
<1>3. CASE Registrado(t) /\ usuarios[t].token = k /\ disco'
  <2>1. t \in Telefonos
    BY <1>3 DEF TypeOKUsuarios, Registrado
  <2>2. /\ DOMAIN usuarios' = DOMAIN usuarios
        /\ usuarios' \in [DOMAIN usuarios' -> Usuario]
        /\ UNCHANGED <<reloj, sesion, perdidas>>
        /\ respuesta'.success \in BOOLEAN
    BY <1>3, <2>1, PerfilEfecto, Zenon
  <2> QED BY <1>2, <2>2 DEF TypeOKUsuarios
<1>4. CASE ~(Registrado(t) /\ usuarios[t].token = k /\ disco')
  <2>1. UNCHANGED <<usuarios, reloj, sesion, perdidas>>
    BY <1>4, GuardarCasos DEF administrarPerfil
  <2>2. respuesta'.success \in BOOLEAN
    BY RespuestaTipo, Zenon DEF administrarPerfil
  <2> QED BY <1>2, <2>1, <2>2, NadieTipo
<1> QED BY <1>3, <1>4

LEMMA CheckInTipo ==
    ASSUME TypeOKUsuarios, NEW t, NEW l \in Lugares, checkIn(t, l)
    PROVE  TypeOKUsuarios'
<1>1. disco \in BOOLEAN
  BY DEF TypeOKUsuarios
<1>2. disco' \in BOOLEAN
  BY <1>1, GuardarCasos, Zenon DEF checkIn
<1>3. CASE Registrado(t) /\ disco'
  <2>1. t \in Telefonos
    BY <1>3 DEF TypeOKUsuarios, Registrado
  <2>2. /\ DOMAIN usuarios' = DOMAIN usuarios
        /\ usuarios' \in [DOMAIN usuarios' -> Usuario]
        /\ UNCHANGED <<reloj, sesion, perdidas>>
        /\ respuesta'.success \in BOOLEAN
    BY <1>3, <2>1, CheckInEfecto, Zenon
  <2> QED BY <1>2, <2>2 DEF TypeOKUsuarios
<1>4. CASE ~(Registrado(t) /\ disco')
  <2>1. UNCHANGED <<usuarios, reloj, sesion, perdidas>>
    BY <1>4, GuardarCasos DEF checkIn
  <2>2. respuesta'.success \in BOOLEAN
    BY RespuestaTipo, Zenon DEF checkIn
  <2> QED BY <1>2, <2>1, <2>2, NadieTipo
<1> QED BY <1>3, <1>4

-----------------------------------------------------------------------------
(* The requests of the four screens.                                       *)
Pedidos == [tipo : {"registrar", "entrar", "perfil", "checkIn"},
            tel : Telefonos \cup {Vacio}, acierta : BOOLEAN, datos : Fila,
            servido : BOOLEAN, exito : BOOLEAN, fila : Fila]

LEMMA FilaNueva == UsuarioNuevo \in Fila /\ UsuarioNuevo.logueado = FALSE
BY DEF Fila, UsuarioNuevo, Localizaciones, Tokens

LEMMA CambiosDeFila ==
    ASSUME NEW r \in Fila, NEW p \in Perfiles \cup {Vacio}, NEW c \in BOOLEAN,
           NEW l \in Localizaciones
    PROVE  /\ [r EXCEPT !.logueado = FALSE] \in Fila
           /\ [r EXCEPT !.logueado = FALSE].logueado = FALSE
           /\ [r EXCEPT !.perfil = p, !.conectado = c] \in Fila
           /\ [r EXCEPT !.perfil = p, !.conectado = c].logueado = r.logueado
           /\ [r EXCEPT !.localizacion = l] \in Fila
           /\ [r EXCEPT !.localizacion = l].logueado = r.logueado
BY DEF Fila

LEMMA CopiaEsFila ==
    ASSUME NEW u \in Usuario
    PROVE  Copia(u, TRUE) \in Fila /\ Copia(u, TRUE).logueado = TRUE
BY DEF Copia, Usuario, Fila

-----------------------------------------------------------------------------
(* The rows of the table.                                                  *)
FilasTipo ==
    /\ DOMAIN filas \subseteq Telefonos \cup {Vacio}
    /\ filas \in [DOMAIN filas -> Fila]

(* A row that becomes the logged one, with nobody logged in: the tables of *)
(* the former session are emptied.                                         *)
LEMMA InsertarSesion ==
    ASSUME FilasTipo, NEW t \in Telefonos \cup {Vacio}, NEW fila \in Fila,
           fila.logueado, Logueados = {}, insertUser(t, fila)
    PROVE  /\ FilasTipo' /\ Logueados' = {t} /\ datos' = {} /\ enVuelo' = sondeos
           /\ DOMAIN filas' = DOMAIN filas \cup {t} /\ filas'[t] = fila
<1>1. ~getUserByPhone(t).logueado
  <2>1. CASE t \in DOMAIN filas
    BY <2>1 DEF getUserByPhone, Logueados
  <2>2. CASE t \notin DOMAIN filas
    BY <2>2, FilaNueva DEF getUserByPhone
  <2> QED BY <2>1, <2>2
<1> DEFINE tabla == SinSesion(filas)
<1>2. /\ filas' = setDato(tabla, t, fila)
      /\ datos' = {} /\ enVuelo' = sondeos
  BY <1>1, Zenon DEF insertUser, updateUser
<1>3. /\ DOMAIN tabla = DOMAIN filas
      /\ \A s \in DOMAIN filas : tabla[s] \in Fila /\ tabla[s].logueado = FALSE
  <2>1. ASSUME NEW s \in DOMAIN filas
        PROVE  tabla[s] = [filas[s] EXCEPT !.logueado = FALSE] /\ filas[s] \in Fila
    BY <2>1 DEF SinSesion, FilasTipo
  <2> QED BY <2>1, CambiosDeFila DEF SinSesion, Fila
<1> HIDE DEF tabla
<1>4. /\ DOMAIN filas' = DOMAIN filas \cup {t}
      /\ filas'[t] = fila
      /\ \A s \in DOMAIN filas : s # t => filas'[s] = tabla[s]
      /\ filas' = [s \in DOMAIN filas' |-> filas'[s]]
  BY <1>2, <1>3 DEF setDato
<1>5. FilasTipo'
  BY <1>3, <1>4 DEF FilasTipo
<1>6. Logueados' = {t}
  BY <1>3, <1>4 DEF Logueados
<1> QED BY <1>2, <1>4, <1>5, <1>6

(* A row that does not: the others and the tables are kept.                *)
LEMMA InsertarFila ==
    ASSUME FilasTipo, NEW t \in Telefonos \cup {Vacio}, NEW fila \in Fila,
           fila.logueado => t \in Logueados, insertUser(t, fila)
    PROVE  /\ FilasTipo' /\ UNCHANGED <<datos, enVuelo>>
           /\ Logueados' = IF fila.logueado THEN Logueados ELSE Logueados \ {t}
           /\ DOMAIN filas' = DOMAIN filas \cup {t} /\ filas'[t] = fila
<1>1. fila.logueado => getUserByPhone(t).logueado
  BY DEF getUserByPhone, Logueados
<1>2. /\ filas' = setDato(filas, t, fila)
      /\ UNCHANGED <<datos, enVuelo>>
  BY <1>1 DEF insertUser, updateUser
<1>4. /\ DOMAIN filas' = DOMAIN filas \cup {t}
      /\ filas'[t] = fila
      /\ \A s \in DOMAIN filas : s # t => filas'[s] = filas[s]
      /\ filas' = [s \in DOMAIN filas' |-> filas'[s]]
  BY <1>2 DEF setDato
<1>5. FilasTipo'
  BY <1>4 DEF FilasTipo
<1>6. Logueados' = IF fila.logueado THEN Logueados ELSE Logueados \ {t}
  BY <1>4 DEF Logueados
<1> QED BY <1>2, <1>4, <1>5, <1>6

-----------------------------------------------------------------------------
(* The two invariants hold because a request is made and answered on the   *)
(* same screen: its dialog keeps the user from logging out, or back in, in *)
(* between.  And what a poll under way may still bring is of the user      *)
(* logged in or was under way at the log-in.                               *)
PedidoTipo(q) ==
    /\ q \in Pedidos
    /\ q.tipo \in {"registrar", "entrar"} => q.tel \in Telefonos

PedidoInv ==
    /\ espera
    /\ PedidoTipo(enRed)
    /\ enRed.tipo \in {"registrar", "entrar"} => pantalla \in {"entrada", "salida"}
    /\ enRed.tipo \in {"perfil", "checkIn"} => pantalla = "principal"
    /\ enRed.tipo = "perfil" /\ enRed.datos.logueado => enRed.tel \in Logueados
    /\ enRed.tipo = "entrar" /\ enRed.exito => enRed.fila.logueado

TablasInv ==
    /\ FilasTipo
    /\ UnSoloUsuario
    /\ Logueados # {} => datos \cup sondeos \subseteq Logueados \cup enVuelo

TelefonoInv ==
    /\ TypeOKUsuarios
    /\ TablasInv
    /\ enRed = Nada \/ PedidoInv
    /\ \A q \in huerfanos : PedidoTipo(q)

LEMMA UsuarioActual ==
    ASSUME TablasInv
    PROVE  /\ Logueados = {} => getUser = Vacio
           /\ Logueados # {} => getUser \in Logueados /\ Logueados = {getUser}
<1>1. CASE Logueados # {}
  <2>1. getUser \in Logueados
    BY <1>1 DEF getUser
  <2> QED BY <1>1, <2>1 DEF TablasInv, UnSoloUsuario
<1> QED BY <1>1 DEF getUser

LEMMA FilaActual ==
    ASSUME TablasInv
    PROVE  /\ FilaDe(getUser) \in Fila
           /\ FilaDe(getUser).logueado => getUser \in Logueados
<1>1. CASE getUser \in Logueados
  BY <1>1 DEF FilaDe, Logueados, TablasInv, FilasTipo
<1>2. CASE getUser \notin Logueados
  BY <1>2, FilaNueva DEF FilaDe
<1> QED BY <1>1, <1>2

(* The server serves a request of the phone.                               *)
LEMMA AtenderTipo ==
    ASSUME TypeOKUsuarios, NEW q, PedidoTipo(q), Atender(q)
    PROVE  /\ TypeOKUsuarios'
           /\ FilaRespondida(q) \in Fila
           /\ q.tipo = "entrar" /\ respuesta'.success => FilaRespondida(q).logueado
<1>0. q.datos \in Fila
  BY DEF PedidoTipo, Pedidos
<1>1. CASE AtenderRegistro(q)
  <2>1. q.tipo = "registrar" /\ q.tel \in Telefonos /\ registrarUsuario(q.tel, q.datos.perfil)
    BY <1>1 DEF AtenderRegistro, PedidoTipo
  <2>2. q.datos.perfil \in Perfiles \cup {Vacio}
    BY <1>0 DEF Fila
  <2>3. TypeOKUsuarios'
    BY <2>1, <2>2, RegistrarTipo
  <2> QED BY <2>1, <2>3, FilaNueva DEF FilaRespondida
<1>2. CASE AtenderEntrada(q)
  <2>1. q.tipo = "entrar" /\ q.tel \in Telefonos /\ consultarUsuarioOnline(q.tel, TRUE)
    BY <1>2 DEF AtenderEntrada, PedidoTipo
  <2>2. TypeOKUsuarios'
    BY <2>1, ConsultaTipo
  <2>3. CASE respuesta'.success
    <3>1. Registrado(q.tel)
      <4>1. CASE ~Registrado(q.tel)
        <5>1. respuesta' = [servicio |-> "consulta", success |-> FALSE, payload |-> Vacio]
          BY <2>1, <4>1, Zenon DEF consultarUsuarioOnline, Responder
        <5>2. respuesta'.success = FALSE
          BY <5>1
        <5> QED BY <2>3, <5>2
      <4> QED BY <4>1
    <3>2. q.tel \in DOMAIN usuarios'
      <4>1. CASE disco'
        BY <2>1, <3>1, <4>1, ConsultaEfecto DEF Registrado
      <4>2. CASE ~disco'
        <5>1. SinEfecto(q.tel)
          BY <2>1, <4>2, ConsultaSinEfecto
        <5> QED BY <3>1, <5>1 DEF SinEfecto, Registrado
      <4> QED BY <4>1, <4>2
    <3>3. usuarios'[q.tel] \in Usuario
      BY <2>2, <3>2 DEF TypeOKUsuarios
    <3>4. FilaRespondida(q) = Copia(usuarios'[q.tel], TRUE)
      BY <2>1, <2>3 DEF FilaRespondida
    <3> QED BY <2>2, <3>3, <3>4, CopiaEsFila
  <2>4. CASE ~respuesta'.success
    BY <2>2, <2>4, FilaNueva DEF FilaRespondida
  <2> QED BY <2>3, <2>4
<1>3. CASE AtenderPerfil(q)
  <2>1. q.tipo = "perfil"
    BY <1>3 DEF AtenderPerfil
  <2>2. TypeOKUsuarios'
    BY <1>0, <1>3, PerfilTipo DEF AtenderPerfil, Fila
  <2> QED BY <2>1, <2>2, FilaNueva DEF FilaRespondida
<1>4. CASE AtenderCheckIn(q)
  <2>1. q.tipo = "checkIn"
    BY <1>4 DEF AtenderCheckIn
  <2>2. PICK l \in Lugares : checkIn(q.tel, l)
    BY <1>4 DEF AtenderCheckIn
  <2>3. TypeOKUsuarios'
    BY <2>2, CheckInTipo
  <2>4. CASE respuesta'.success
    <3>1. CASE Registrado(q.tel)
      <4>1. respuesta' = [servicio |-> "checkIn", success |-> TRUE, payload |-> l]
        BY <2>2, <3>1, Zenon DEF checkIn, Responder
      <4>2. respuesta'.payload = l /\ l \in Localizaciones
        BY <4>1 DEF Localizaciones
      <4>3. FilaRespondida(q) = [UsuarioNuevo EXCEPT !.localizacion = respuesta'.payload]
        BY <2>1, <2>4 DEF FilaRespondida
      <4>4. FilaRespondida(q) \in Fila
        BY <4>2, <4>3, FilaNueva DEF Fila
      <4> QED BY <2>1, <2>3, <4>4
    <3>2. CASE ~Registrado(q.tel)
      <4>1. respuesta' = [servicio |-> "checkIn", success |-> FALSE, payload |-> Vacio]
        BY <2>2, <3>2, Zenon DEF checkIn, Responder
      <4>2. respuesta'.success = FALSE
        BY <4>1
      <4> QED BY <2>4, <4>2
    <3> QED BY <3>1, <3>2
  <2>5. CASE ~respuesta'.success
    BY <2>1, <2>3, <2>5, FilaNueva DEF FilaRespondida
  <2> QED BY <2>4, <2>5
<1> QED BY <1>1, <1>2, <1>3, <1>4 DEF Atender

-----------------------------------------------------------------------------
LEMMA TelefonoInicio == InitSesion => TelefonoInv
<1> SUFFICES ASSUME InitSesion PROVE TelefonoInv
  OBVIOUS
<1>1. TypeOKUsuarios
  BY InicioUsuarios DEF InitSesion
<1>2. Logueados = {}
  BY DEF InitSesion, Logueados
<1>3. FilasTipo
  BY DEF InitSesion, FilasTipo
<1> QED BY <1>1, <1>2, <1>3 DEF InitSesion, TelefonoInv, TablasInv, UnSoloUsuario

(* The steps that leave the rows, the screen and the request as they are.  *)
LEMMA TablasQuietas ==
    ASSUME TablasInv, UNCHANGED <<filas, datos, enVuelo, sondeos, pantalla>>
    PROVE  TablasInv'
BY DEF TablasInv, FilasTipo, UnSoloUsuario, Logueados

LEMMA PedidoQuieto ==
    ASSUME enRed = Nada \/ PedidoInv, UNCHANGED <<filas, pantalla, espera, enRed>>
    PROVE  enRed' = Nada \/ PedidoInv'
BY DEF PedidoInv, PedidoTipo, Logueados

LEMMA CuentasQuietas ==
    ASSUME TypeOKUsuarios, UNCHANGED varsUsuarios PROVE TypeOKUsuarios'
BY DEF TypeOKUsuarios, varsUsuarios

(* A request given up leaves none under way.                               *)
LEMMA AbandonarInv ==
    ASSUME TelefonoInv, Abandonar
    PROVE  enRed' = Nada /\ \A q \in huerfanos' : PedidoTipo(q)
<1>1. CASE UNCHANGED huerfanos
  BY <1>1 DEF TelefonoInv, Abandonar
<1>2. CASE enRed # Nada /\ huerfanos' = huerfanos \cup {enRed}
  BY <1>2 DEF TelefonoInv, PedidoInv, Abandonar
<1> QED BY <1>1, <1>2 DEF Abandonar

(* A request of a screen, with a row of the right type.                    *)
LEMMA PedirInv ==
    ASSUME TelefonoInv, NEW tipo \in {"registrar", "entrar", "perfil", "checkIn"},
           NEW t \in Telefonos \cup {Vacio}, NEW a \in BOOLEAN, NEW f \in Fila,
           Pedir(tipo, t, a, f),
           tipo \in {"registrar", "entrar"} =>
               t \in Telefonos /\ pantalla \in {"entrada", "salida"},
           tipo \in {"perfil", "checkIn"} => pantalla = "principal",
           tipo = "perfil" /\ f.logueado => t \in Logueados
    PROVE  TelefonoInv'
<1>1. TypeOKUsuarios' /\ TablasInv'
  BY CuentasQuietas, TablasQuietas DEF TelefonoInv, Pedir, varsTablas
<1>2. \A q \in huerfanos' : PedidoTipo(q)
  BY DEF TelefonoInv, Pedir
<1>3. enRed' = [tipo |-> tipo, tel |-> t, acierta |-> a, datos |-> f,
                servido |-> FALSE, exito |-> FALSE, fila |-> UsuarioNuevo]
  BY DEF Pedir
<1>4. /\ enRed' \in Pedidos
      /\ enRed'.tipo = tipo /\ enRed'.tel = t /\ enRed'.datos = f
  BY <1>3, FilaNueva DEF Pedidos
<1>5. enRed'.exito = FALSE
  BY <1>3
<1>6. espera' /\ pantalla' = pantalla /\ filas' = filas
  BY DEF Pedir, varsTablas
<1>7. Logueados' = Logueados
  BY <1>6 DEF Logueados
<1>8. PedidoInv'
  BY <1>4, <1>5, <1>6, <1>7 DEF PedidoInv, PedidoTipo
<1> QED BY <1>1, <1>2, <1>8 DEF TelefonoInv

LEMMA PedidosDeEntrada ==
    ASSUME TelefonoInv, NEW t \in Telefonos,
           \/ \E p \in Perfiles : registerUser(t, p)
           \/ \E a \in BOOLEAN : authenticate(t, a)
    PROVE  TelefonoInv'
<1>1. ASSUME NEW p \in Perfiles, registerUser(t, p) PROVE TelefonoInv'
  <2>1. [UsuarioNuevo EXCEPT !.perfil = p] \in Fila
    BY FilaNueva DEF Fila
  <2> QED BY <1>1, <2>1, PedirInv DEF registerUser
<1>2. ASSUME NEW a \in BOOLEAN, authenticate(t, a) PROVE TelefonoInv'
  BY <1>2, FilaNueva, PedirInv DEF authenticate
<1> QED BY <1>1, <1>2

LEMMA TelefonoActual ==
    ASSUME TablasInv PROVE getUser \in Telefonos \cup {Vacio}
BY UsuarioActual DEF TablasInv, FilasTipo, Logueados

LEMMA PedidosDelUsuario ==
    ASSUME TelefonoInv, checkInUser \/ \E p \in Perfiles, c \in BOOLEAN : saveProfile(p, c)
    PROVE  TelefonoInv'
<1>1. getUser \in Telefonos \cup {Vacio}
  BY TelefonoActual DEF TelefonoInv
<1>2. /\ FilaDe(getUser) \in Fila
      /\ FilaDe(getUser).logueado => getUser \in Logueados
  BY FilaActual DEF TelefonoInv
<1>3. CASE checkInUser
  BY <1>1, <1>2, <1>3, PedirInv DEF checkInUser
<1>4. ASSUME NEW p \in Perfiles, NEW c \in BOOLEAN, saveProfile(p, c) PROVE TelefonoInv'
  <2> DEFINE f == [FilaDe(getUser) EXCEPT !.perfil = p, !.conectado = c]
  <2>1. f \in Fila /\ f.logueado = FilaDe(getUser).logueado
    BY <1>2 DEF Fila
  <2>2. pantalla = "principal" /\ Pedir("perfil", getUser, FALSE, f)
    BY <1>4 DEF saveProfile
  <2> HIDE DEF f
  <2> QED BY <1>1, <1>2, <2>1, <2>2, PedirInv
<1> QED BY <1>3, <1>4

LEMMA ServirInv ==
    ASSUME TelefonoInv, Servir PROVE TelefonoInv'
<1>1. enRed # Nada /\ PedidoInv /\ Atender(enRed)
  BY DEF TelefonoInv, Servir
<1>2. /\ TypeOKUsuarios'
      /\ FilaRespondida(enRed) \in Fila
      /\ enRed.tipo = "entrar" /\ respuesta'.success => FilaRespondida(enRed).logueado
  BY <1>1, AtenderTipo DEF TelefonoInv, PedidoInv
<1>3. respuesta'.success \in BOOLEAN /\ enRed \in Pedidos
  BY <1>1, <1>2 DEF TypeOKUsuarios, PedidoInv, PedidoTipo
<1>4. PICK e \in BOOLEAN, f \in Fila : e = respuesta'.success /\ f = FilaRespondida(enRed)
  BY <1>2, <1>3
<1>5. /\ enRed' \in Pedidos
      /\ enRed'.tipo = enRed.tipo /\ enRed'.tel = enRed.tel
      /\ enRed'.datos = enRed.datos
      /\ enRed'.exito = e /\ enRed'.fila = f
  <2>1. enRed' = [enRed EXCEPT !.servido = TRUE, !.exito = e, !.fila = f]
    BY <1>4, Zenon DEF Servir
  <2> QED BY <1>3, <2>1 DEF Pedidos
<1>6. UNCHANGED <<filas, datos, enVuelo, sondeos, pantalla, espera, huerfanos>>
  BY DEF Servir, varsTablas
<1>7. Logueados' = Logueados
  BY <1>6 DEF Logueados
<1>8. TablasInv'
  BY <1>6, TablasQuietas DEF TelefonoInv
<1>9. PedidoInv'
  <2>1. espera' = espera /\ pantalla' = pantalla
    BY <1>6
  <2>2. PedidoTipo(enRed')
    BY <1>1, <1>5 DEF PedidoInv, PedidoTipo
  <2>3. enRed'.tipo = "entrar" /\ enRed'.exito => enRed'.fila.logueado
    BY <1>2, <1>4, <1>5
  <2> QED BY <1>1, <1>5, <1>7, <2>1, <2>2, <2>3 DEF PedidoInv
<1> QED BY <1>2, <1>6, <1>8, <1>9 DEF TelefonoInv

(* Another phone, or a request served late, only changes the accounts.     *)
LEMMA CuentasInv ==
    ASSUME TelefonoInv, TypeOKUsuarios', huerfanos' \subseteq huerfanos,
           UNCHANGED <<varsTablas, sondeos, pantalla, espera, enRed>>
    PROVE  TelefonoInv'
<1>1. TablasInv'
  BY TablasQuietas DEF TelefonoInv, varsTablas
<1>2. enRed' = Nada \/ PedidoInv'
  BY PedidoQuieto DEF TelefonoInv, varsTablas
<1> QED BY <1>1, <1>2 DEF TelefonoInv

LEMMA ServirTardeInv ==
    ASSUME TelefonoInv, ServirTarde PROVE TelefonoInv'
<1>1. PICK q \in huerfanos : Atender(q) /\ huerfanos' = huerfanos \ {q}
  BY DEF ServirTarde
<1>2. TypeOKUsuarios'
  BY <1>1, AtenderTipo DEF TelefonoInv
<1> QED BY <1>1, <1>2, CuentasInv DEF ServirTarde

LEMMA OtroTelefonoInv ==
    ASSUME TelefonoInv, OtroTelefono PROVE TelefonoInv'
<1>1. PICK t \in Telefonos : ServicioAOtro(t)
  BY DEF OtroTelefono
<1>2. TypeOKUsuarios
  BY DEF TelefonoInv
<1>3. ASSUME NEW p \in Perfiles, registrarUsuario(t, p) PROVE TypeOKUsuarios'
  BY <1>2, <1>3, RegistrarTipo
<1>4. ASSUME NEW r \in BOOLEAN, consultarUsuarioOnline(t, r) PROVE TypeOKUsuarios'
  BY <1>2, <1>4, ConsultaTipo
<1>5. ASSUME NEW p \in Perfiles, NEW c \in BOOLEAN, NEW l \in Lugares \cup {Desconocida},
             administrarPerfil(t, sesion[t], p, c, l)
      PROVE  TypeOKUsuarios'
  <2>1. l \in Localizaciones
    BY DEF Localizaciones
  <2> QED BY <1>2, <1>5, <2>1, PerfilTipo
<1>6. ASSUME NEW l \in Lugares, checkIn(t, l) PROVE TypeOKUsuarios'
  BY <1>2, <1>6, CheckInTipo
<1>7. TypeOKUsuarios'
  BY <1>1, <1>3, <1>4, <1>5, <1>6, Zenon DEF ServicioAOtro
<1> QED BY <1>7, CuentasInv DEF OtroTelefono

(* The answer of a log-in comes to a log-in screen, where nobody is logged *)
(* in, and starts a session; the others keep the one there is.             *)
LEMMA EntregarInv ==
    ASSUME TelefonoInv, Entregar PROVE TelefonoInv'
<1>0. /\ TablasInv /\ FilasTipo /\ PedidoInv
      /\ enRed.tel \in Telefonos \cup {Vacio} /\ enRed.datos \in Fila /\ enRed.fila \in Fila
  BY DEF TelefonoInv, TablasInv, Entregar, PedidoInv, PedidoTipo, Pedidos
<1>1. /\ TypeOKUsuarios' /\ enRed' = Nada /\ \A q \in huerfanos' : PedidoTipo(q)
      /\ sondeos' = sondeos
  BY CuentasQuietas DEF TelefonoInv, Entregar
<1>2. CASE UNCHANGED <<varsTablas, pantalla>>
  BY <1>0, <1>1, <1>2, TablasQuietas DEF TelefonoInv, varsTablas
<1>3. CASE enRed.exito /\ logUserIn /\ pantalla' = "principal"
  <2>1. enRed.tipo = "entrar" /\ enRed.fila.logueado /\ insertUser(enRed.tel, enRed.fila)
    BY <1>0, <1>3 DEF logUserIn, PedidoInv
  <2>2. Logueados = {} /\ enRed.tel \in Telefonos
    BY <1>0, <2>1 DEF TablasInv, UnSoloUsuario, PedidoInv, PedidoTipo
  <2>3. FilasTipo' /\ Logueados' = {enRed.tel} /\ datos' = {} /\ enVuelo' = sondeos
    BY <1>0, <2>1, <2>2, InsertarSesion
  <2>4. UnSoloUsuario'
    BY <1>3, <2>2, <2>3, VacioNoEsTelefono DEF UnSoloUsuario
  <2>5. TablasInv'
    BY <1>1, <2>3, <2>4 DEF TablasInv
  <2> QED BY <1>1, <2>5 DEF TelefonoInv
<1>4. ASSUME NEW t \in Telefonos \cup {Vacio}, NEW f \in Fila, f.logueado => t \in Logueados,
             insertUser(t, f), pantalla' = "principal"
      PROVE  TelefonoInv'
  <2>1. /\ FilasTipo' /\ UNCHANGED <<datos, enVuelo>>
        /\ Logueados' = IF f.logueado THEN Logueados ELSE Logueados \ {t}
    BY <1>0, <1>4, InsertarFila
  <2>2. Logueados' \subseteq Logueados
    BY <2>1
  <2>3. Logueados' # {} => Logueados' = Logueados
    BY <1>0, <2>2 DEF TablasInv, UnSoloUsuario
  <2>4. UnSoloUsuario'
    BY <1>0, <1>4, <2>2 DEF TablasInv, UnSoloUsuario
  <2>5. TablasInv'
    BY <1>0, <1>1, <2>1, <2>3, <2>4 DEF TablasInv
  <2> QED BY <1>1, <2>5 DEF TelefonoInv
<1>5. CASE GuardarPerfil /\ pantalla' = "principal"
  BY <1>0, <1>4, <1>5 DEF GuardarPerfil, PedidoInv
<1>6. CASE GuardarCheckIn /\ pantalla' = "principal"
  <2> DEFINE f == [FilaDe(getUser) EXCEPT !.localizacion = enRed.fila.localizacion]
  <2>1. /\ FilaDe(getUser) \in Fila
        /\ FilaDe(getUser).logueado => getUser \in Logueados
        /\ getUser \in Telefonos \cup {Vacio}
    BY <1>0, FilaActual, TelefonoActual
  <2>2. f \in Fila /\ f.logueado = FilaDe(getUser).logueado
    BY <1>0, <2>1 DEF Fila
  <2>3. insertUser(getUser, f)
    BY <1>6 DEF GuardarCheckIn
  <2> HIDE DEF f
  <2> QED BY <1>4, <1>6, <2>1, <2>2, <2>3
<1> QED BY <1>2, <1>3, <1>5, <1>6 DEF Entregar

LEMMA LogoutInv ==
    ASSUME TelefonoInv, logout PROVE TelefonoInv'
<1>0. TablasInv /\ FilasTipo /\ enRed = Nada
  BY DEF TelefonoInv, TablasInv, PedidoInv, logout
<1>1. /\ TypeOKUsuarios' /\ enRed' = Nada /\ \A q \in huerfanos' : PedidoTipo(q)
  BY <1>0, CuentasQuietas DEF TelefonoInv, logout
<1> DEFINE f == [FilaDe(getUser) EXCEPT !.logueado = FALSE]
<1>2. FilaDe(getUser) \in Fila /\ getUser \in Telefonos \cup {Vacio}
  BY <1>0, FilaActual, TelefonoActual
<1>3. f \in Fila /\ f.logueado = FALSE
  BY <1>2 DEF Fila
<1>4. insertUser(getUser, f)
  BY DEF logout
<1> HIDE DEF f
<1>5. FilasTipo' /\ Logueados' = Logueados \ {getUser}
  BY <1>0, <1>2, <1>3, <1>4, InsertarFila
<1>6. Logueados' = {}
  BY <1>0, <1>5, UsuarioActual
<1>7. TablasInv'
  BY <1>5, <1>6 DEF TablasInv, UnSoloUsuario
<1> QED BY <1>1, <1>7 DEF TelefonoInv

(* The polls of the list.                                                  *)
LEMMA SondeosInv ==
    ASSUME TelefonoInv,
           getConversationsFromService \/ RecibirConversaciones \/ PerderConversaciones
    PROVE  TelefonoInv'
<1>1. /\ UNCHANGED <<varsUsuarios, filas, enVuelo, pantalla, espera, enRed, huerfanos>>
  BY DEF getConversationsFromService, RecibirConversaciones, PerderConversaciones, varsTablas
<1>2. /\ TypeOKUsuarios' /\ \A q \in huerfanos' : PedidoTipo(q)
      /\ enRed' = Nada \/ PedidoInv'
  BY <1>1, CuentasQuietas, PedidoQuieto DEF TelefonoInv
<1>3. Logueados' = Logueados /\ FilasTipo' /\ UnSoloUsuario'
  BY <1>1 DEF TelefonoInv, TablasInv, FilasTipo, UnSoloUsuario, Logueados
<1>4. Logueados # {} => datos' \cup sondeos' \subseteq Logueados \cup enVuelo
  <2>1. CASE getConversationsFromService
    BY <2>1, UsuarioActual DEF TelefonoInv, TablasInv, getConversationsFromService, varsTablas
  <2>2. CASE RecibirConversaciones
    BY <2>2 DEF TelefonoInv, TablasInv, RecibirConversaciones
  <2>3. CASE PerderConversaciones
    BY <2>3 DEF TelefonoInv, TablasInv, PerderConversaciones, varsTablas
  <2> QED BY <2>1, <2>2, <2>3
<1>5. TablasInv'
  BY <1>1, <1>3, <1>4 DEF TablasInv
<1> QED BY <1>2, <1>5 DEF TelefonoInv

(* The steps after which no request is under way.                          *)
LEMMA SinPedidoInv ==
    ASSUME TelefonoInv, Abrir \/ Volver \/ MatarProceso \/ Perder \/ Cancelar
    PROVE  TelefonoInv'
<1>1. UNCHANGED <<varsUsuarios, varsTablas>> /\ sondeos' \subseteq sondeos
  BY DEF Abrir, Volver, MatarProceso, Perder, Cancelar
<1>2. TypeOKUsuarios'
  BY <1>1, CuentasQuietas DEF TelefonoInv
<1>3. enRed' = Nada /\ \A q \in huerfanos' : PedidoTipo(q)
  <2>1. CASE Abrir \/ Volver
    <3>1. enRed = Nada
      BY <2>1 DEF TelefonoInv, PedidoInv, PedidoTipo, Pedidos, Abrir, Volver
    <3> QED BY <2>1, <3>1 DEF TelefonoInv, Abrir, Volver
  <2>2. CASE MatarProceso \/ Perder \/ Cancelar
    BY <2>2, AbandonarInv DEF MatarProceso, Perder, Cancelar
  <2> QED BY <2>1, <2>2
<1>4. pantalla' \in {"entrada", "salida"} => Logueados = {}
  BY DEF TelefonoInv, TablasInv, UnSoloUsuario, Abrir, Volver, MatarProceso, Perder, Cancelar
<1>5. Logueados' = Logueados /\ FilasTipo'
  BY <1>1 DEF TelefonoInv, TablasInv, FilasTipo, Logueados, varsTablas
<1>6. TablasInv'
  BY <1>1, <1>4, <1>5 DEF TelefonoInv, TablasInv, UnSoloUsuario, varsTablas
<1> QED BY <1>2, <1>3, <1>6 DEF TelefonoInv

LEMMA TelefonoPaso == TelefonoInv /\ [NextSesion]_varsSesion => TelefonoInv'
<1> SUFFICES ASSUME TelefonoInv, [NextSesion]_varsSesion PROVE TelefonoInv'
  OBVIOUS
<1>1. CASE PasaSegundo
  <2>1. TypeOKUsuarios'
    <3>1. TypeOKUsuarios /\ UNCHANGED <<usuarios, respuesta, disco, sesion, perdidas>>
      BY <1>1 DEF TelefonoInv, PasaSegundo, Segundo
    <3>2. reloj' \in Nat
      BY <1>1, <3>1 DEF TypeOKUsuarios, PasaSegundo, Segundo
    <3> QED BY <3>1, <3>2 DEF TypeOKUsuarios
  <2> QED BY <1>1, <2>1, CuentasInv DEF PasaSegundo, varsTelefono, varsTablas
<1>2. CASE UNCHANGED varsSesion
  <2>1. TypeOKUsuarios'
    BY <1>2, CuentasQuietas DEF TelefonoInv, varsSesion
  <2> QED BY <1>2, <2>1, CuentasInv DEF varsSesion, varsTelefono, varsTablas
<1> QED
  BY <1>1, <1>2, SinPedidoInv, LogoutInv, SondeosInv, PedidosDeEntrada, PedidosDelUsuario,
     ServirInv, ServirTardeInv, EntregarInv, OtroTelefonoInv DEF NextSesion

(* DbHelper.getUser takes the first row marked as logged: there is at most *)
(* one, never that of the empty phone, and none at the log-in screen.      *)
THEOREM UnaSesionPorTelefono == SpecSesion => []UnSoloUsuario
<1>1. TelefonoInv => UnSoloUsuario
  BY DEF TelefonoInv, TablasInv
<1> QED BY <1>1, TelefonoInicio, TelefonoPaso, PTL DEF SpecSesion

(* The conversations kept in the phone are of the user logged in, but for  *)
(* answers that were under way when that user logged in.                   *)
THEOREM DatosPropios == SpecSesion => []DatosDeLaSesion
<1>1. TelefonoInv => DatosDeLaSesion
  BY DEF TelefonoInv, TablasInv, DatosDeLaSesion
<1> QED BY <1>1, TelefonoInicio, TelefonoPaso, PTL DEF SpecSesion

-----------------------------------------------------------------------------
(* The row of the user logged in.  While the answer to a profile or to a   *)
(* check-in is on its way, the account is ahead of the row by just what    *)
(* that answer will save.                                                  *)
AlDia(t, fila) ==
    t \notin divergentes => Registrado(t) /\ fila = Copia(usuarios[t], TRUE)

Respondida(tipo) ==
    enRed # Nada /\ enRed.servido /\ enRed.exito /\ enRed.tipo = tipo

FilaInv ==
    /\ disco = TRUE
    /\ ~Respondida("perfil") /\ ~Respondida("checkIn") =>
           \A t \in Logueados : AlDia(t, filas[t])
    /\ enRed # Nada /\ enRed.tipo \in {"perfil", "checkIn"} => enRed.tel = getUser
    /\ enRed # Nada /\ enRed.tipo = "perfil" /\ enRed.tel \in Logueados =>
           enRed.datos.logueado = TRUE
    /\ Respondida("perfil") /\ enRed.tel \in Logueados => AlDia(enRed.tel, enRed.datos)
    /\ Respondida("checkIn") /\ enRed.tel \in Logueados =>
           AlDia(enRed.tel,
                 [filas[enRed.tel] EXCEPT !.localizacion = enRed.fila.localizacion])
    /\ Respondida("entrar") => AlDia(enRed.tel, enRed.fila)

LEMMA FilasIguales ==
    ASSUME NEW a \in Fila, NEW b \in Fila, a.perfil = b.perfil,
           a.conectado = b.conectado, a.localizacion = b.localizacion,
           a.token = b.token, a.logueado = b.logueado
    PROVE  a = b
BY DEF Fila

LEMMA CamposDeCopia ==
    ASSUME NEW u
    PROVE  /\ Copia(u, TRUE).perfil = u.perfil
           /\ Copia(u, TRUE).conectado = u.conectado
           /\ Copia(u, TRUE).localizacion = u.localizacion
           /\ Copia(u, TRUE).token = u.token
           /\ Copia(u, TRUE).logueado = TRUE
BY DEF Copia

(* The store of this module takes every write.                             *)
LEMMA PutFunciona ==
    ASSUME disco = TRUE, NEW c, GuardarCuentas(c)
    PROVE  disco' = TRUE /\ usuarios' = c
<1>1. disco' = TRUE
  BY SinFallas DEF GuardarCuentas, Put
<1> QED BY <1>1 DEF GuardarCuentas

(* No service removes an account.                                          *)
LEMMA CuentasCrecen ==
    ASSUME disco = TRUE, NEW t, NEW p, NEW k, NEW c, NEW l, NEW r,
           \/ registrarUsuario(t, p) \/ consultarUsuarioOnline(t, r)
           \/ administrarPerfil(t, k, p, c, l) \/ checkIn(t, l)
    PROVE  disco' = TRUE /\ DOMAIN usuarios \subseteq DOMAIN usuarios'
<1>1. CASE registrarUsuario(t, p)
  <2>1. CASE Registrado(t)
    BY <1>1, <2>1 DEF registrarUsuario
  <2>2. CASE ~Registrado(t)
    <3>1. PICK u : disco' = TRUE /\ usuarios' = setDato(usuarios, t, u)
      BY <1>1, <2>2, PutFunciona DEF registrarUsuario
    <3> QED BY <3>1 DEF setDato
  <2> QED BY <2>1, <2>2
<1>2. CASE consultarUsuarioOnline(t, r)
  <2>1. CASE ~Registrado(t)
    BY <1>2, <2>1 DEF consultarUsuarioOnline
  <2>2. CASE Registrado(t)
    <3>1. PICK k1 : /\ disco' = TRUE
                    /\ usuarios' = [usuarios EXCEPT ![t].ultimaConexion = reloj,
                                                    ![t].token = k1]
      BY <1>2, <2>2, PutFunciona DEF consultarUsuarioOnline
    <3> QED BY <3>1
  <2> QED BY <2>1, <2>2
<1>3. CASE administrarPerfil(t, k, p, c, l)
  <2>1. CASE ~(Registrado(t) /\ usuarios[t].token = k)
    BY <1>3, <2>1 DEF administrarPerfil
  <2>2. CASE Registrado(t) /\ usuarios[t].token = k
    <3>1. /\ disco' = TRUE
          /\ usuarios' = [usuarios EXCEPT ![t].perfil = p, ![t].conectado = c,
                                          ![t].localizacion = l]
      BY <1>3, <2>2, PutFunciona DEF administrarPerfil
    <3> QED BY <3>1
  <2> QED BY <2>1, <2>2
<1>4. CASE checkIn(t, l)
  <2>1. CASE ~Registrado(t)
    BY <1>4, <2>1 DEF checkIn
  <2>2. CASE Registrado(t)
    <3>1. disco' = TRUE /\ usuarios' = [usuarios EXCEPT ![t].localizacion = l]
      BY <1>4, <2>2, PutFunciona DEF checkIn
    <3> QED BY <3>1
  <2> QED BY <2>1, <2>2
<1> QED BY <1>1, <1>2, <1>3, <1>4

LEMMA AtenderCrece ==
    ASSUME disco = TRUE, NEW q, Atender(q)
    PROVE  disco' = TRUE /\ DOMAIN usuarios \subseteq DOMAIN usuarios'
BY CuentasCrecen
   DEF Atender, AtenderRegistro, AtenderEntrada, AtenderPerfil, AtenderCheckIn

(* A profile that is accepted is stored as it was sent.                    *)
LEMMA PerfilGuardado ==
    ASSUME TypeOKUsuarios, TypeOKUsuarios', disco = TRUE, NEW q, PedidoTipo(q), AtenderPerfil(q)
    PROVE  /\ respuesta'.success /\ q.datos.logueado = TRUE =>
                  Registrado(q.tel)' /\ q.datos = Copia(usuarios'[q.tel], TRUE)
           /\ ~respuesta'.success => usuarios' = usuarios
<1>1. administrarPerfil(q.tel, q.datos.token, q.datos.perfil, q.datos.conectado,
                        q.datos.localizacion)
  BY DEF AtenderPerfil
<1>2. q.datos \in Fila
  BY DEF PedidoTipo, Pedidos
<1>3. CASE Registrado(q.tel) /\ usuarios[q.tel].token = q.datos.token
  <2>1. usuarios' = [usuarios EXCEPT ![q.tel].perfil = q.datos.perfil,
                                     ![q.tel].conectado = q.datos.conectado,
                                     ![q.tel].localizacion = q.datos.localizacion]
    BY <1>1, <1>3, PutFunciona DEF administrarPerfil
  <2>2. respuesta' = [servicio |-> "perfil", success |-> TRUE, payload |-> q.datos.token]
    BY <1>1, <1>3, Zenon DEF administrarPerfil, Responder
  <2>3. respuesta'.success = TRUE
    BY <2>2
  <2>4. q.tel \in DOMAIN usuarios /\ usuarios \in [DOMAIN usuarios -> Usuario]
    BY <1>3 DEF Registrado, TypeOKUsuarios
  <2>5. /\ q.tel \in DOMAIN usuarios'
        /\ usuarios'[q.tel].perfil = q.datos.perfil
        /\ usuarios'[q.tel].conectado = q.datos.conectado
        /\ usuarios'[q.tel].localizacion = q.datos.localizacion
        /\ usuarios'[q.tel].token = q.datos.token
    BY <1>3, <2>1, <2>4 DEF Usuario
  <2>6. PICK u \in Usuario : u = usuarios'[q.tel]
    BY <2>5 DEF TypeOKUsuarios
  <2>7. ASSUME q.datos.logueado = TRUE PROVE q.datos = Copia(u, TRUE)
    <3>1. PICK f \in Fila : f = Copia(u, TRUE)
      BY CopiaEsFila
    <3>2. /\ f.perfil = q.datos.perfil /\ f.conectado = q.datos.conectado
          /\ f.localizacion = q.datos.localizacion /\ f.token = q.datos.token
          /\ f.logueado = q.datos.logueado
      BY <2>5, <2>6, <2>7, <3>1, CamposDeCopia
    <3> QED BY <1>2, <3>1, <3>2, FilasIguales
  <2> QED BY <2>3, <2>5, <2>6, <2>7 DEF Registrado
<1>4. CASE ~(Registrado(q.tel) /\ usuarios[q.tel].token = q.datos.token)
  <2>1. usuarios' = usuarios
    BY <1>1, <1>4 DEF administrarPerfil
  <2>2. respuesta' = [servicio |-> "perfil", success |-> FALSE, payload |-> Vacio]
    BY <1>1, <1>4, Zenon DEF administrarPerfil, Responder
  <2>3. respuesta'.success = FALSE
    BY <2>2
  <2> QED BY <2>1, <2>3
<1> QED BY <1>3, <1>4

(* A check-in changes the location of the account to the one answered.     *)
LEMMA CheckInGuardado ==
    ASSUME TypeOKUsuarios, TypeOKUsuarios', disco = TRUE, NEW q, PedidoTipo(q),
           AtenderCheckIn(q)
    PROVE  /\ ~respuesta'.success => usuarios' = usuarios
           /\ respuesta'.success =>
                  /\ Registrado(q.tel) /\ Registrado(q.tel)'
                  /\ [Copia(usuarios[q.tel], TRUE) EXCEPT
                          !.localizacion = FilaRespondida(q).localizacion]
                        = Copia(usuarios'[q.tel], TRUE)
<1>1. PICK l \in Lugares : checkIn(q.tel, l)
  BY DEF AtenderCheckIn
<1>2. CASE ~Registrado(q.tel)
  <2>1. respuesta' = [servicio |-> "checkIn", success |-> FALSE, payload |-> Vacio]
    BY <1>1, <1>2, Zenon DEF checkIn, Responder
  <2>2. respuesta'.success = FALSE
    BY <2>1
  <2> QED BY <1>1, <1>2, <2>2 DEF checkIn
<1>3. CASE Registrado(q.tel)
  <2>1. respuesta' = [servicio |-> "checkIn", success |-> TRUE, payload |-> l]
    BY <1>1, <1>3, Zenon DEF checkIn, Responder
  <2>2. respuesta'.success = TRUE /\ respuesta'.payload = l
    BY <2>1
  <2>3. usuarios' = [usuarios EXCEPT ![q.tel].localizacion = l]
    BY <1>1, <1>3, PutFunciona DEF checkIn
  <2>4. PICK u \in Usuario : u = usuarios[q.tel]
    BY <1>3 DEF Registrado, TypeOKUsuarios
  <2>5. /\ q.tel \in DOMAIN usuarios'
        /\ usuarios'[q.tel] = [u EXCEPT !.localizacion = l]
    BY <1>3, <2>3, <2>4 DEF Registrado
  <2>6. l \in Localizaciones
    BY DEF Localizaciones
  <2>7. FilaRespondida(q) = [UsuarioNuevo EXCEPT !.localizacion = l]
    BY <2>2 DEF FilaRespondida, AtenderCheckIn
  <2>8. FilaRespondida(q).localizacion = l
    BY <2>6, <2>7, FilaNueva DEF Fila
  <2>9. [Copia(u, TRUE) EXCEPT !.localizacion = l] = Copia([u EXCEPT !.localizacion = l], TRUE)
    <3>1. PICK v \in Usuario : v = [u EXCEPT !.localizacion = l]
      BY <2>6 DEF Usuario
    <3>2. /\ v.perfil = u.perfil /\ v.conectado = u.conectado
          /\ v.localizacion = l /\ v.token = u.token
      BY <2>6, <3>1 DEF Usuario
    <3>3. PICK a \in Fila, b \in Fila : a = Copia(u, TRUE) /\ b = Copia(v, TRUE)
      BY CopiaEsFila
    <3>4. PICK c \in Fila : c = [a EXCEPT !.localizacion = l]
      BY <2>6, <3>3 DEF Fila
    <3>5. /\ c.perfil = a.perfil /\ c.conectado = a.conectado
          /\ c.localizacion = l /\ c.token = a.token /\ c.logueado = a.logueado
      BY <2>6, <3>3, <3>4 DEF Fila
    <3>6. /\ c.perfil = b.perfil /\ c.conectado = b.conectado
          /\ c.localizacion = b.localizacion /\ c.token = b.token
          /\ c.logueado = b.logueado
      BY <3>2, <3>3, <3>5, CamposDeCopia
    <3>7. c = b
      BY <3>6, FilasIguales
    <3> QED BY <3>1, <3>3, <3>4, <3>7
  <2> QED BY <1>3, <2>2, <2>4, <2>5, <2>8, <2>9 DEF Registrado
<1> QED BY <1>2, <1>3

(* A log-in answers the account as it is stored.                           *)
LEMMA EntradaGuardada ==
    ASSUME disco = TRUE, NEW q, AtenderEntrada(q), respuesta'.success
    PROVE  Registrado(q.tel)' /\ FilaRespondida(q) = Copia(usuarios'[q.tel], TRUE)
<1>1. q.tipo = "entrar" /\ consultarUsuarioOnline(q.tel, TRUE)
  BY DEF AtenderEntrada
<1>2. Registrado(q.tel)
  <2>1. CASE ~Registrado(q.tel)
    <3>1. respuesta' = [servicio |-> "consulta", success |-> FALSE, payload |-> Vacio]
      BY <1>1, <2>1, Zenon DEF consultarUsuarioOnline, Responder
    <3>2. respuesta'.success = FALSE
      BY <3>1
    <3> QED BY <3>2
  <2> QED BY <2>1
<1>3. DOMAIN usuarios \subseteq DOMAIN usuarios'
  BY <1>1, CuentasCrecen
<1> QED BY <1>1, <1>2, <1>3 DEF Registrado, FilaRespondida

(* A change of the accounts that is recorded in divergentes.               *)
LEMMA AlDiaPersiste ==
    ASSUME NEW t, NEW f, t \notin divergentes => Registrado(t) /\ f = Copia(usuarios[t], TRUE),
           divergentes' = divergentes \cup Cambiadas, DOMAIN usuarios \subseteq DOMAIN usuarios'
    PROVE  t \notin divergentes' => Registrado(t)' /\ f = Copia(usuarios'[t], TRUE)
BY DEF Cambiadas, Registrado

LEMMA CuentasFila ==
    ASSUME FilaInv, disco' = TRUE, DOMAIN usuarios \subseteq DOMAIN usuarios',
           divergentes' = divergentes \cup Cambiadas, UNCHANGED <<filas, enRed>>
    PROVE  FilaInv'
<1>1. Logueados' = Logueados /\ getUser' = getUser
  BY DEF Logueados, getUser
<1>2. \A tipo : Respondida(tipo)' <=> Respondida(tipo)
  BY DEF Respondida
<1>3. ASSUME ~Respondida("perfil")', ~Respondida("checkIn")', NEW t \in Logueados'
      PROVE  AlDia(t, filas[t])'
  <2>1. t \notin divergentes => Registrado(t) /\ filas[t] = Copia(usuarios[t], TRUE)
    BY <1>1, <1>2, <1>3 DEF FilaInv, AlDia
  <2> QED BY <2>1, AlDiaPersiste DEF AlDia, Registrado
<1>4. ASSUME Respondida("perfil")', (enRed.tel \in Logueados)' PROVE AlDia(enRed.tel, enRed.datos)'
  <2>1. enRed.tel \notin divergentes =>
            Registrado(enRed.tel) /\ enRed.datos = Copia(usuarios[enRed.tel], TRUE)
    BY <1>1, <1>2, <1>4 DEF FilaInv, AlDia
  <2> QED BY <2>1, AlDiaPersiste DEF AlDia, Registrado
<1> DEFINE g == [filas[enRed.tel] EXCEPT !.localizacion = enRed.fila.localizacion]
<1>5. ASSUME Respondida("checkIn")', (enRed.tel \in Logueados)' PROVE AlDia(enRed.tel, g)'
  <2>1. enRed.tel \notin divergentes =>
            Registrado(enRed.tel) /\ g = Copia(usuarios[enRed.tel], TRUE)
    BY <1>1, <1>2, <1>5 DEF FilaInv, AlDia
  <2>2. g' = g
    OBVIOUS
  <2> HIDE DEF g
  <2> QED BY <2>1, <2>2, AlDiaPersiste DEF AlDia, Registrado
<1>6. ASSUME Respondida("entrar")' PROVE AlDia(enRed.tel, enRed.fila)'
  <2>1. enRed.tel \notin divergentes =>
            Registrado(enRed.tel) /\ enRed.fila = Copia(usuarios[enRed.tel], TRUE)
    BY <1>1, <1>2, <1>6 DEF FilaInv, AlDia
  <2> QED BY <2>1, AlDiaPersiste DEF AlDia, Registrado
<1> QED BY <1>1, <1>3, <1>4, <1>5, <1>6 DEF FilaInv

-----------------------------------------------------------------------------
(* The server answers the request under way.                               *)
LEMMA ServirFila ==
    ASSUME TelefonoInv, TelefonoInv', FilaInv, Servir PROVE FilaInv'
<1>1. /\ enRed # Nada /\ PedidoInv /\ Atender(enRed) /\ PedidoTipo(enRed)
      /\ TypeOKUsuarios /\ TypeOKUsuarios' /\ TablasInv /\ disco = TRUE /\ ~enRed.servido
  BY DEF TelefonoInv, Servir, PedidoInv, FilaInv
<1>2. disco' = TRUE /\ DOMAIN usuarios \subseteq DOMAIN usuarios'
  BY <1>1, AtenderCrece
<1>3. FilaRespondida(enRed) \in Fila /\ respuesta'.success \in BOOLEAN
  BY <1>1, AtenderTipo DEF TypeOKUsuarios
<1>4. PICK e \in BOOLEAN, f \in Fila : e = respuesta'.success /\ f = FilaRespondida(enRed)
  BY <1>3
<1>5. /\ enRed'.tipo = enRed.tipo /\ enRed'.tel = enRed.tel
      /\ enRed'.datos = enRed.datos
      /\ enRed'.exito = e /\ enRed'.fila = f
  <2>1. enRed' = [enRed EXCEPT !.servido = TRUE, !.exito = e, !.fila = f]
    BY <1>4, Zenon DEF Servir
  <2>2. enRed \in Pedidos
    BY <1>1 DEF PedidoTipo
  <2> QED BY <2>1, <2>2 DEF Pedidos
<1>6. filas' = filas /\ Logueados' = Logueados /\ getUser' = getUser
  BY DEF Servir, varsTablas, Logueados, getUser
<1>7. \A t \in Logueados : AlDia(t, filas[t])
  BY <1>1 DEF FilaInv, Respondida
<1>8. \A tipo : Respondida(tipo)' => enRed.tipo = tipo /\ e
  BY <1>5 DEF Respondida
<1>9. /\ enRed.tipo \in {"perfil", "checkIn"} => enRed.tel = getUser
      /\ enRed.tipo = "perfil" /\ enRed.tel \in Logueados => enRed.datos.logueado = TRUE
  BY <1>1 DEF FilaInv
<1>10. CASE AtenderRegistro(enRed) \/ AtenderEntrada(enRed)
  <2>1. enRed.tipo \in {"registrar", "entrar"}
    BY <1>10 DEF AtenderRegistro, AtenderEntrada
  <2>2. Logueados = {}
    BY <1>1, <2>1 DEF PedidoInv, TablasInv, UnSoloUsuario
  <2>3. ASSUME Respondida("entrar")' PROVE AlDia(enRed.tel, enRed.fila)'
    <3>1. AtenderEntrada(enRed) /\ respuesta'.success
      BY <1>4, <1>8, <1>10, <2>3 DEF AtenderRegistro
    <3>2. Registrado(enRed.tel)' /\ f = Copia(usuarios'[enRed.tel], TRUE)
      <4>1. enRed.tel \in DOMAIN usuarios' /\ FilaRespondida(enRed) = Copia(usuarios'[enRed.tel], TRUE)
        BY <1>1, <3>1, EntradaGuardada DEF Registrado
      <4> QED BY <1>4, <1>5, <4>1 DEF Registrado
    <3> QED BY <1>5, <3>2 DEF AlDia, Registrado
  <2> QED BY <1>2, <1>5, <1>6, <1>8, <2>1, <2>2, <2>3 DEF FilaInv
<1>11. CASE AtenderPerfil(enRed)
  <2>1. enRed.tipo = "perfil"
    BY <1>11 DEF AtenderPerfil
  <2>2. divergentes' = divergentes
    BY <2>1 DEF Servir
  <2>3. CASE e
    <3>1. ASSUME enRed.tel \in Logueados PROVE AlDia(enRed.tel, enRed.datos)'
      <4>1. enRed.tel \in DOMAIN usuarios' /\ enRed.datos = Copia(usuarios'[enRed.tel], TRUE)
        BY <1>1, <1>4, <1>9, <1>11, <2>1, <2>3, <3>1, PerfilGuardado DEF Registrado
      <4> QED BY <1>5, <4>1 DEF AlDia, Registrado
    <3>2. Respondida("perfil")'
      <4>1. enRed' # Nada /\ enRed'.servido
        BY <1>1, <1>4, <1>5, <2>1 DEF Servir, Pedidos, PedidoTipo, Nada
      <4> QED BY <1>5, <2>1, <2>3, <4>1 DEF Respondida
    <3> QED BY <1>2, <1>5, <1>6, <1>8, <1>9, <2>1, <3>1, <3>2 DEF FilaInv
  <2>4. CASE ~e
    <3>1. usuarios' = usuarios
      BY <1>1, <1>4, <1>11, <2>4, PerfilGuardado
    <3>2. \A t \in Logueados : AlDia(t, filas[t])'
      BY <1>6, <1>7, <2>2, <3>1 DEF AlDia, Registrado
    <3> QED BY <1>2, <1>5, <1>6, <1>8, <1>9, <2>1, <2>4, <3>2 DEF FilaInv
  <2> QED BY <2>3, <2>4
<1>12. CASE AtenderCheckIn(enRed)
  <2>1. enRed.tipo = "checkIn"
    BY <1>12 DEF AtenderCheckIn
  <2>2. divergentes' = divergentes
    BY <2>1 DEF Servir
  <2>3. CASE e
    <3> DEFINE g == [filas[enRed.tel] EXCEPT !.localizacion = enRed.fila.localizacion]
    <3>1. ASSUME enRed.tel \in Logueados PROVE AlDia(enRed.tel, g)'
      <4>1. /\ enRed.tel \in DOMAIN usuarios'
            /\ [Copia(usuarios[enRed.tel], TRUE) EXCEPT !.localizacion = f.localizacion]
                   = Copia(usuarios'[enRed.tel], TRUE)
        BY <1>1, <1>4, <1>12, <2>3, CheckInGuardado DEF Registrado
      <4>2. g' = [filas[enRed.tel] EXCEPT !.localizacion = f.localizacion]
        BY <1>5, <1>6
      <4>3. enRed.tel \notin divergentes => filas[enRed.tel] = Copia(usuarios[enRed.tel], TRUE)
        BY <1>7, <3>1 DEF AlDia
      <4> HIDE DEF g
      <4> QED BY <1>5, <2>2, <4>1, <4>2, <4>3 DEF AlDia, Registrado
    <3>2. Respondida("checkIn")'
      <4>1. enRed' # Nada /\ enRed'.servido
        BY <1>1, <1>4, <1>5, <2>1 DEF Servir, Pedidos, PedidoTipo, Nada
      <4> QED BY <1>5, <2>1, <2>3, <4>1 DEF Respondida
    <3> QED BY <1>2, <1>5, <1>6, <1>8, <1>9, <2>1, <3>1, <3>2 DEF FilaInv
  <2>4. CASE ~e
    <3>1. usuarios' = usuarios
      BY <1>1, <1>4, <1>12, <2>4, CheckInGuardado
    <3>2. \A t \in Logueados : AlDia(t, filas[t])'
      BY <1>6, <1>7, <2>2, <3>1 DEF AlDia, Registrado
    <3> QED BY <1>2, <1>5, <1>6, <1>8, <1>9, <2>1, <2>4, <3>2 DEF FilaInv
  <2> QED BY <2>3, <2>4
<1> QED BY <1>1, <1>10, <1>11, <1>12 DEF Atender

(* With no request under way only the rows are left to look at.            *)
LEMMA SinPedidoFila ==
    ASSUME disco' = TRUE, enRed' = Nada, \A t \in Logueados' : AlDia(t, filas[t])'
    PROVE  FilaInv'
BY DEF FilaInv, Respondida

(* An answer saves in the row what the account already has.                *)
LEMMA EntregarFila ==
    ASSUME TelefonoInv, FilaInv, Entregar PROVE FilaInv'
<1>1. /\ enRed # Nada /\ enRed.servido /\ PedidoInv /\ TablasInv /\ FilasTipo
      /\ enRed.tel \in Telefonos \cup {Vacio} /\ enRed.datos \in Fila /\ enRed.fila \in Fila
      /\ enRed.exito \in BOOLEAN
  BY DEF TelefonoInv, TablasInv, Entregar, PedidoInv, PedidoTipo, Pedidos
<1>2. enRed' = Nada /\ disco' = TRUE /\ UNCHANGED <<usuarios, divergentes>>
  BY DEF Entregar, FilaInv, varsUsuarios
<1>3. Logueados # {} => Logueados = {getUser}
  BY <1>1, UsuarioActual
<1>4. CASE SoloMensaje /\ UNCHANGED varsTablas
  <2>1. ~Respondida("perfil") /\ ~Respondida("checkIn")
    BY <1>4 DEF SoloMensaje, Respondida
  <2>2. filas' = filas /\ Logueados' = Logueados
    BY <1>4 DEF varsTablas, Logueados
  <2>3. \A t \in Logueados' : AlDia(t, filas[t])'
    BY <1>2, <2>1, <2>2 DEF FilaInv, AlDia, Registrado
  <2> QED BY <1>2, <2>3, SinPedidoFila
<1>5. CASE enRed.exito /\ logUserIn
  <2>1. enRed.tipo = "entrar" /\ enRed.fila.logueado /\ insertUser(enRed.tel, enRed.fila)
    BY <1>1, <1>5 DEF logUserIn, PedidoInv
  <2>2. Logueados = {}
    BY <1>1, <2>1 DEF TablasInv, UnSoloUsuario, PedidoInv
  <2>3. Logueados' = {enRed.tel} /\ filas'[enRed.tel] = enRed.fila
    BY <1>1, <2>1, <2>2, InsertarSesion
  <2>4. AlDia(enRed.tel, enRed.fila)
    BY <1>1, <1>5, <2>1 DEF FilaInv, Respondida
  <2>5. \A t \in Logueados' : AlDia(t, filas[t])'
    BY <1>2, <2>3, <2>4 DEF AlDia, Registrado
  <2> QED BY <1>2, <2>5, SinPedidoFila
<1>6. CASE enRed.exito /\ GuardarPerfil
  <2>1. enRed.tipo = "perfil" /\ insertUser(enRed.tel, enRed.datos)
    BY <1>6 DEF GuardarPerfil
  <2>2. enRed.datos.logueado => enRed.tel \in Logueados
    BY <1>1, <2>1 DEF PedidoInv
  <2>3. Logueados' \subseteq Logueados /\ filas'[enRed.tel] = enRed.datos
    BY <1>1, <2>1, <2>2, InsertarFila
  <2>4. enRed.tel = getUser
    BY <1>1, <2>1 DEF FilaInv
  <2>5. enRed.tel \in Logueados => AlDia(enRed.tel, enRed.datos)
    BY <1>1, <1>6, <2>1 DEF FilaInv, Respondida
  <2>6. \A t \in Logueados' : AlDia(t, filas[t])'
    BY <1>2, <1>3, <2>3, <2>4, <2>5 DEF AlDia, Registrado
  <2> QED BY <1>2, <2>6, SinPedidoFila
<1>7. CASE enRed.exito /\ GuardarCheckIn
  <2> DEFINE g == [FilaDe(getUser) EXCEPT !.localizacion = enRed.fila.localizacion]
  <2>1. /\ FilaDe(getUser) \in Fila
        /\ FilaDe(getUser).logueado => getUser \in Logueados
        /\ getUser \in Telefonos \cup {Vacio}
    BY <1>1, FilaActual, TelefonoActual
  <2>2. g \in Fila /\ g.logueado = FilaDe(getUser).logueado
    BY <1>1, <2>1 DEF Fila
  <2>3. insertUser(getUser, g) /\ enRed.tipo = "checkIn"
    BY <1>7 DEF GuardarCheckIn
  <2>4. enRed.tel = getUser
    BY <1>1, <2>3 DEF FilaInv
  <2>5. getUser \in Logueados => AlDia(getUser, g)
    BY <1>1, <1>7, <2>3, <2>4 DEF FilaInv, Respondida, FilaDe
  <2> HIDE DEF g
  <2>6. Logueados' \subseteq Logueados /\ filas'[getUser] = g
    BY <1>1, <2>1, <2>2, <2>3, InsertarFila
  <2>7. \A t \in Logueados' : AlDia(t, filas[t])'
    BY <1>2, <1>3, <2>5, <2>6 DEF AlDia, Registrado
  <2> QED BY <1>2, <2>7, SinPedidoFila
<1> QED BY <1>4, <1>5, <1>6, <1>7 DEF Entregar

(* An answer given up leaves the row behind the account: it is recorded.   *)
LEMMA AbandonarFila ==
    ASSUME TelefonoInv, FilaInv, Abandonar, UNCHANGED <<varsUsuarios, varsTablas>>
    PROVE  FilaInv'
<1>1. /\ enRed' = Nada /\ disco' = TRUE /\ UNCHANGED <<usuarios, filas>>
      /\ divergentes \subseteq divergentes' /\ Logueados' = Logueados
  BY DEF Abandonar, FilaInv, varsUsuarios, varsTablas, Logueados
<1>2. CASE Respondida("perfil") \/ Respondida("checkIn")
  <2>1. enRed.tel \in divergentes' /\ enRed.tel = getUser
    BY <1>2 DEF Abandonar, Respondida, FilaInv
  <2>2. Logueados # {} => Logueados = {getUser}
    BY UsuarioActual DEF TelefonoInv
  <2>3. \A t \in Logueados' : AlDia(t, filas[t])'
    BY <1>1, <2>1, <2>2 DEF AlDia
  <2> QED BY <1>1, <2>3, SinPedidoFila
<1>3. CASE ~Respondida("perfil") /\ ~Respondida("checkIn")
  <2>1. \A t \in Logueados' : AlDia(t, filas[t])'
    BY <1>1, <1>3 DEF FilaInv, AlDia, Registrado
  <2> QED BY <1>1, <2>1, SinPedidoFila
<1> QED BY <1>2, <1>3

(* A request just made has no answer.                                      *)
LEMMA PedirFila ==
    ASSUME TelefonoInv, FilaInv, NEW tipo, NEW t, NEW a, NEW f, Pedir(tipo, t, a, f),
           tipo \in {"perfil", "checkIn"} => t = getUser,
           tipo = "perfil" /\ t \in Logueados => f.logueado = TRUE
    PROVE  FilaInv'
<1>1. enRed = Nada
  BY DEF TelefonoInv, PedidoInv, Pedir
<1>2. /\ disco' = TRUE /\ UNCHANGED <<usuarios, filas, divergentes>>
      /\ Logueados' = Logueados /\ getUser' = getUser
  BY DEF Pedir, FilaInv, varsUsuarios, varsTablas, Logueados, getUser
<1>3. /\ enRed'.tipo = tipo /\ enRed'.tel = t /\ enRed'.datos = f
      /\ enRed'.servido = FALSE
  BY DEF Pedir
<1>4. \A k : ~Respondida(k)'
  BY <1>3 DEF Respondida
<1>5. \A s \in Logueados' : AlDia(s, filas[s])'
  BY <1>1, <1>2 DEF FilaInv, Respondida, AlDia, Registrado
<1> QED BY <1>2, <1>3, <1>4, <1>5 DEF FilaInv

LEMMA PedidosFila ==
    ASSUME TelefonoInv, FilaInv,
           \/ \E t \in Telefonos, p \in Perfiles : registerUser(t, p)
           \/ \E t \in Telefonos, a \in BOOLEAN : authenticate(t, a)
           \/ \E p \in Perfiles, c \in BOOLEAN : saveProfile(p, c)
           \/ checkInUser
    PROVE  FilaInv'
<1>1. ASSUME NEW t \in Telefonos, NEW p \in Perfiles, registerUser(t, p) PROVE FilaInv'
  BY <1>1, PedirFila DEF registerUser
<1>2. ASSUME NEW t \in Telefonos, NEW a \in BOOLEAN, authenticate(t, a) PROVE FilaInv'
  BY <1>2, PedirFila DEF authenticate
<1>3. ASSUME NEW p \in Perfiles, NEW c \in BOOLEAN, saveProfile(p, c) PROVE FilaInv'
  <2> DEFINE f == [FilaDe(getUser) EXCEPT !.perfil = p, !.conectado = c]
  <2>1. FilaDe(getUser) \in Fila
    BY FilaActual DEF TelefonoInv
  <2>2. f.logueado = FilaDe(getUser).logueado /\ f \in Fila
    BY <2>1 DEF Fila
  <2>3. getUser \in Logueados => FilaDe(getUser).logueado
    BY DEF FilaDe, Logueados
  <2>4. FilaDe(getUser).logueado \in BOOLEAN
    BY <2>1 DEF Fila
  <2>5. getUser \in Logueados => f.logueado = TRUE
    BY <2>2, <2>3, <2>4
  <2>6. Pedir("perfil", getUser, FALSE, f)
    BY <1>3 DEF saveProfile
  <2> HIDE DEF f
  <2> QED BY <2>5, <2>6, PedirFila
<1>4. CASE checkInUser
  BY <1>4, PedirFila DEF checkInUser
<1> QED BY <1>1, <1>2, <1>3, <1>4

LEMMA FilaQuieta ==
    ASSUME FilaInv, UNCHANGED <<usuarios, disco, filas, enRed, divergentes>>
    PROVE  FilaInv'
<1>1. Logueados' = Logueados /\ getUser' = getUser
  BY DEF Logueados, getUser
<1>2. \A k : Respondida(k)' <=> Respondida(k)
  BY DEF Respondida
<1> QED BY <1>1, <1>2 DEF FilaInv, AlDia, Registrado

LEMMA OtrosFila ==
    ASSUME FilaInv, ServirTarde \/ OtroTelefono PROVE FilaInv'
<1>1. disco = TRUE
  BY DEF FilaInv
<1>2. disco' = TRUE /\ DOMAIN usuarios \subseteq DOMAIN usuarios'
  <2>1. CASE ServirTarde
    BY <1>1, <2>1, AtenderCrece DEF ServirTarde
  <2>2. CASE OtroTelefono
    <3>1. PICK t \in Telefonos : ServicioAOtro(t)
      BY <2>2 DEF OtroTelefono
    <3> QED BY <1>1, <3>1, CuentasCrecen DEF ServicioAOtro
  <2> QED BY <2>1, <2>2
<1>3. divergentes' = divergentes \cup Cambiadas /\ UNCHANGED <<filas, enRed>>
  BY DEF ServirTarde, OtroTelefono, varsTablas
<1> QED BY <1>2, <1>3, CuentasFila

LEMMA LogoutFila ==
    ASSUME TelefonoInv, FilaInv, logout PROVE FilaInv'
<1>0. TablasInv /\ FilasTipo /\ enRed = Nada
  BY DEF TelefonoInv, TablasInv, PedidoInv, logout
<1> DEFINE f == [FilaDe(getUser) EXCEPT !.logueado = FALSE]
<1>2. FilaDe(getUser) \in Fila /\ getUser \in Telefonos \cup {Vacio}
  BY <1>0, FilaActual, TelefonoActual
<1>3. f \in Fila /\ f.logueado = FALSE
  BY <1>2 DEF Fila
<1>4. insertUser(getUser, f)
  BY DEF logout
<1> HIDE DEF f
<1>5. Logueados' = Logueados \ {getUser}
  BY <1>0, <1>2, <1>3, <1>4, InsertarFila
<1>6. Logueados' = {}
  BY <1>0, <1>5, UsuarioActual
<1>7. enRed' = Nada /\ disco' = TRUE
  BY <1>0 DEF logout, FilaInv, varsUsuarios
<1> QED BY <1>6, <1>7, SinPedidoFila

LEMMA FilaPaso == TelefonoInv /\ FilaInv /\ [NextSesion]_varsSesion => FilaInv'
<1> SUFFICES ASSUME TelefonoInv, FilaInv, [NextSesion]_varsSesion PROVE FilaInv'
  OBVIOUS
<1>1. CASE Abrir \/ Volver
  BY <1>1, FilaQuieta DEF Abrir, Volver, varsTablas, varsUsuarios
<1>2. CASE getConversationsFromService \/ RecibirConversaciones \/ PerderConversaciones
  BY <1>2, FilaQuieta DEF getConversationsFromService, RecibirConversaciones,
     PerderConversaciones, varsTablas, varsUsuarios
<1>3. CASE PasaSegundo \/ UNCHANGED varsSesion
  BY <1>3, FilaQuieta DEF PasaSegundo, Segundo, varsSesion, varsTelefono, varsUsuarios
<1>4. CASE MatarProceso \/ Perder \/ Cancelar
  BY <1>4, AbandonarFila DEF MatarProceso, Perder, Cancelar
<1>5. CASE Servir
  BY <1>5, TelefonoPaso, ServirFila
<1> QED
  BY <1>1, <1>2, <1>3, <1>4, <1>5, PedidosFila, OtrosFila, LogoutFila, EntregarFila
  DEF NextSesion

LEMMA FilaInicio == InitSesion => FilaInv
<1> SUFFICES ASSUME InitSesion PROVE FilaInv
  OBVIOUS
<1>1. Logueados = {}
  BY DEF InitSesion, Logueados
<1> QED BY <1>1 DEF InitSesion, InitUsuarios, FilaInv, Respondida

(* The row of the user logged in shows the account the server has, its     *)
(* session token too, unless another phone, a request served late or a     *)
(* lost answer changed the account since the log-in.                       *)
THEOREM FilaSiempreActualizada == SpecSesion => []FilaActualizada
<1>1. FilaInv => FilaActualizada
  BY DEF FilaInv, Respondida, AlDia, FilaActualizada
<1>2. InitSesion => TelefonoInv /\ FilaInv
  BY TelefonoInicio, FilaInicio
<1>3. TelefonoInv /\ FilaInv /\ [NextSesion]_varsSesion => TelefonoInv' /\ FilaInv'
  BY TelefonoPaso, FilaPaso
<1> QED BY <1>1, <1>2, <1>3, PTL DEF SpecSesion

-----------------------------------------------------------------------------
(* The types.  The phone that an answered profile or check-in names is     *)
(* registered, so it is never the empty one.                               *)
TipoInv ==
    /\ pantalla \in {"cerrada", "entrada", "salida", "principal"}
    /\ espera \in BOOLEAN
    /\ datos \cup sondeos \cup enVuelo \subseteq Telefonos
    /\ divergentes \subseteq Telefonos
    /\ enRed # Nada /\ enRed.exito /\ enRed.tipo \in {"perfil", "checkIn"} =>
           enRed.tel \in Telefonos

LEMMA LogueadosTelefonos ==
    ASSUME TablasInv PROVE Logueados \subseteq Telefonos
BY DEF TablasInv, FilasTipo, Logueados, UnSoloUsuario

LEMMA CambiadasTelefonos ==
    ASSUME TypeOKUsuarios PROVE Cambiadas \subseteq Telefonos
BY DEF TypeOKUsuarios, Cambiadas

LEMMA ServirTipoInv ==
    ASSUME TelefonoInv, TelefonoInv', TipoInv, Servir PROVE TipoInv'
<1>1. /\ PedidoTipo(enRed) /\ Atender(enRed) /\ TypeOKUsuarios /\ TypeOKUsuarios'
  BY DEF TelefonoInv, Servir, PedidoInv
<1>2. FilaRespondida(enRed) \in Fila /\ respuesta'.success \in BOOLEAN
  BY <1>1, AtenderTipo DEF TypeOKUsuarios
<1>3. PICK e \in BOOLEAN, f \in Fila : e = respuesta'.success /\ f = FilaRespondida(enRed)
  BY <1>2
<1>4. /\ enRed'.tipo = enRed.tipo /\ enRed'.tel = enRed.tel /\ enRed'.exito = e
  <2>1. enRed' = [enRed EXCEPT !.servido = TRUE, !.exito = e, !.fila = f]
    BY <1>3, Zenon DEF Servir
  <2>2. enRed \in Pedidos
    BY <1>1 DEF PedidoTipo
  <2> QED BY <2>1, <2>2 DEF Pedidos
<1>5. enRed.tipo \in {"perfil", "checkIn"} /\ ~Registrado(enRed.tel) => ~respuesta'.success
  <2> SUFFICES ASSUME enRed.tipo \in {"perfil", "checkIn"}, ~Registrado(enRed.tel)
               PROVE  ~respuesta'.success
    OBVIOUS
  <2>1. CASE AtenderPerfil(enRed)
    <3>1. respuesta' = [servicio |-> "perfil", success |-> FALSE, payload |-> Vacio]
      BY <2>1, Zenon DEF AtenderPerfil, administrarPerfil, Responder
    <3> QED BY <3>1
  <2>2. CASE AtenderCheckIn(enRed)
    <3>1. respuesta' = [servicio |-> "checkIn", success |-> FALSE, payload |-> Vacio]
      BY <2>2, Zenon DEF AtenderCheckIn, checkIn, Responder
    <3> QED BY <3>1
  <2> QED BY <1>1, <2>1, <2>2 DEF Atender, AtenderRegistro, AtenderEntrada
<1>6. Registrado(enRed.tel) => enRed.tel \in Telefonos
  BY <1>1 DEF Registrado, TypeOKUsuarios
<1>7. /\ UNCHANGED <<pantalla, espera, datos, sondeos, enVuelo>>
      /\ divergentes' \subseteq divergentes
  BY DEF Servir, varsTablas
<1>8. enRed'.exito /\ enRed'.tipo \in {"perfil", "checkIn"} => enRed'.tel \in Telefonos
  BY <1>3, <1>4, <1>5, <1>6
<1> QED BY <1>7, <1>8 DEF TipoInv

LEMMA TipoPaso ==
    TelefonoInv /\ TipoInv /\ [NextSesion]_varsSesion => TipoInv'
<1> SUFFICES ASSUME TelefonoInv, TipoInv, [NextSesion]_varsSesion PROVE TipoInv'
  OBVIOUS
<1>0. TypeOKUsuarios /\ TablasInv /\ TelefonoInv'
  BY TelefonoPaso DEF TelefonoInv
<1>1. CASE Abrir \/ Volver
  BY <1>1 DEF TipoInv, Abrir, Volver, varsTablas
<1>2. CASE getConversationsFromService \/ RecibirConversaciones \/ PerderConversaciones
  <2>1. Logueados # {} => getUser \in Telefonos
    BY <1>0, UsuarioActual, LogueadosTelefonos
  <2> QED BY <1>2, <2>1 DEF TipoInv, getConversationsFromService, RecibirConversaciones,
             PerderConversaciones, varsTablas
<1>3. CASE PasaSegundo \/ UNCHANGED varsSesion
  BY <1>3 DEF TipoInv, PasaSegundo, varsSesion, varsTelefono
<1>4. CASE MatarProceso \/ Perder \/ Cancelar
  BY <1>4 DEF TipoInv, MatarProceso, Perder, Cancelar, Abandonar, varsTablas
<1>5. CASE Servir
  BY <1>0, <1>5, ServirTipoInv
<1>6. CASE ServirTarde \/ OtroTelefono
  BY <1>0, <1>6, CambiadasTelefonos DEF TipoInv, ServirTarde, OtroTelefono, varsTablas
<1>7. CASE logout
  BY <1>7 DEF TipoInv, logout, insertUser
<1>8. CASE Entregar
  BY <1>8 DEF TipoInv, Entregar, SoloMensaje, logUserIn, GuardarPerfil, GuardarCheckIn,
     insertUser, varsTablas
<1>9. ASSUME NEW tipo, NEW t, NEW a, NEW f, Pedir(tipo, t, a, f) PROVE TipoInv'
  BY <1>9 DEF TipoInv, Pedir, varsTablas
<1>10. ASSUME NEW t, NEW p, registerUser(t, p) PROVE TipoInv'
  BY <1>9, <1>10 DEF registerUser
<1>11. ASSUME NEW t, NEW a, authenticate(t, a) PROVE TipoInv'
  BY <1>9, <1>11 DEF authenticate
<1>12. ASSUME NEW p, NEW c, saveProfile(p, c) PROVE TipoInv'
  BY <1>9, <1>12 DEF saveProfile
<1>13. CASE checkInUser
  BY <1>9, <1>13 DEF checkInUser
<1> QED
  BY <1>1, <1>2, <1>3, <1>4, <1>5, <1>6, <1>7, <1>8, <1>10, <1>11, <1>12, <1>13
  DEF NextSesion

(* The types of the phone's state: a row for each phone that logged in, or *)
(* for the empty one, and only real phones in what is kept and polled.     *)
THEOREM TiposDeSesion == SpecSesion => []TypeOKSesion
<1>1. TelefonoInv /\ TipoInv => TypeOKSesion
  BY DEF TelefonoInv, TablasInv, FilasTipo, PedidoInv, PedidoTipo, Pedidos, TipoInv, TypeOKSesion
<1>2. InitSesion => TelefonoInv /\ TipoInv
  BY TelefonoInicio DEF InitSesion, TipoInv
<1>3. TelefonoInv /\ TipoInv /\ [NextSesion]_varsSesion => TelefonoInv' /\ TipoInv'
  BY TelefonoPaso, TipoPaso
<1> QED BY <1>1, <1>2, <1>3, PTL DEF SpecSesion

=============================================================================
