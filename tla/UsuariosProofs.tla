--------------------------- MODULE UsuariosProofs ---------------------------
(***************************************************************************)
(* Proofs about the accounts of the server, for every set of phones,       *)
(* profiles and places, with no bound on the number of requests, and with  *)
(* writes that fail.                                                       *)
(***************************************************************************)
EXTENDS Usuarios, TLAPS

(* Servicio::responder always sends a truth value.                         *)
LEMMA RespuestaTipo ==
    ASSUME NEW servicio, NEW exito \in BOOLEAN, NEW payload,
           Responder(servicio, exito, payload)
    PROVE  respuesta'.success \in BOOLEAN
BY Zenon DEF Responder

(* A write of the accounts works or leaves them as they were.              *)
LEMMA GuardarCasos ==
    ASSUME NEW c, GuardarCuentas(c)
    PROVE  /\ disco' \in BOOLEAN
           /\ disco' => usuarios' = c
           /\ ~disco' => usuarios' = usuarios
BY DEF GuardarCuentas, Put

(* Writing a well-formed account keeps the store well formed.              *)
LEMMA EscribirCuenta ==
    ASSUME TypeOKUsuarios, NEW t \in Telefonos, NEW u \in Usuario,
           usuarios' = setDato(usuarios, t, u)
    PROVE  /\ DOMAIN usuarios' = DOMAIN usuarios \cup {t}
           /\ DOMAIN usuarios' \subseteq Telefonos
           /\ usuarios' \in [DOMAIN usuarios' -> Usuario]
           /\ usuarios'[t] = u
           /\ \A s \in DOMAIN usuarios : s # t => usuarios'[s] = usuarios[s]
BY DEF TypeOKUsuarios, setDato

(* The fields of a stored account after a query or a check-in.             *)
LEMMA CambiarSesion ==
    ASSUME TypeOKUsuarios, NEW t \in DOMAIN usuarios, NEW h \in Nat, NEW k \in Tokens,
           usuarios' = [usuarios EXCEPT ![t].ultimaConexion = h, ![t].token = k]
    PROVE  /\ DOMAIN usuarios' = DOMAIN usuarios
           /\ usuarios' \in [DOMAIN usuarios' -> Usuario]
           /\ usuarios'[t].token = k
           /\ usuarios'[t].perfil = usuarios[t].perfil
           /\ usuarios'[t].conectado = usuarios[t].conectado
           /\ \A s \in DOMAIN usuarios : s # t => usuarios'[s] = usuarios[s]
BY DEF TypeOKUsuarios, Usuario

LEMMA CambiarLugar ==
    ASSUME TypeOKUsuarios, NEW t \in DOMAIN usuarios, NEW l \in Localizaciones,
           usuarios' = [usuarios EXCEPT ![t].localizacion = l]
    PROVE  /\ DOMAIN usuarios' = DOMAIN usuarios
           /\ usuarios' \in [DOMAIN usuarios' -> Usuario]
           /\ usuarios'[t].token = usuarios[t].token
           /\ usuarios'[t].perfil = usuarios[t].perfil
           /\ usuarios'[t].conectado = usuarios[t].conectado
           /\ \A s \in DOMAIN usuarios : s # t => usuarios'[s] = usuarios[s]
BY DEF TypeOKUsuarios, Usuario

-----------------------------------------------------------------------------
(* What a service does when it succeeds and its write works.               *)
LEMMA RegistrarEfecto ==
    ASSUME TypeOKUsuarios, NEW t \in Telefonos, NEW p \in Perfiles \cup {Vacio},
           registrarUsuario(t, p), ~Registrado(t), disco'
    PROVE  /\ DOMAIN usuarios' = DOMAIN usuarios \cup {t}
           /\ usuarios' \in [DOMAIN usuarios' -> Usuario]
           /\ usuarios'[t].token = Vacio
           /\ \A s \in DOMAIN usuarios : s # t => usuarios'[s] = usuarios[s]
           /\ UNCHANGED <<reloj, sesion, perdidas>>
           /\ respuesta'.success \in BOOLEAN
<1> DEFINE u == [perfil |-> p, conectado |-> TRUE, localizacion |-> Desconocida,
                 ultimaConexion |-> reloj, token |-> Vacio]
<1>1. u \in Usuario
  BY DEF Usuario, Localizaciones, Tokens, TypeOKUsuarios
<1>2. usuarios' = setDato(usuarios, t, u) /\ UNCHANGED <<reloj, sesion, perdidas>>
  BY GuardarCasos DEF registrarUsuario
<1>3. /\ DOMAIN usuarios' = DOMAIN usuarios \cup {t}
      /\ usuarios' \in [DOMAIN usuarios' -> Usuario]
      /\ usuarios'[t] = u
      /\ \A s \in DOMAIN usuarios : s # t => usuarios'[s] = usuarios[s]
  BY <1>1, <1>2, EscribirCuenta
<1>4. respuesta'.success \in BOOLEAN
  BY RespuestaTipo, Zenon DEF registrarUsuario
<1>5. u.token = Vacio
  OBVIOUS
<1> HIDE DEF u
<1> QED BY <1>2, <1>3, <1>4, <1>5

LEMMA PerfilEfecto ==
    ASSUME TypeOKUsuarios, NEW t \in Telefonos, NEW k,
           NEW p \in Perfiles \cup {Vacio}, NEW c \in BOOLEAN, NEW l \in Localizaciones,
           administrarPerfil(t, k, p, c, l), Registrado(t), usuarios[t].token = k,
           disco'
    PROVE  /\ DOMAIN usuarios' = DOMAIN usuarios
           /\ usuarios' \in [DOMAIN usuarios' -> Usuario]
           /\ usuarios'[t].token = usuarios[t].token
           /\ \A s \in DOMAIN usuarios : s # t => usuarios'[s] = usuarios[s]
           /\ UNCHANGED <<reloj, sesion, perdidas>>
           /\ respuesta' = [servicio |-> "perfil", success |-> TRUE, payload |-> k]
           /\ respuesta'.success \in BOOLEAN
<1>1. usuarios' = [usuarios EXCEPT ![t].perfil = p, ![t].conectado = c,
                                   ![t].localizacion = l]
  BY GuardarCasos, Zenon DEF administrarPerfil
<1>2. respuesta' = [servicio |-> "perfil", success |-> TRUE, payload |-> k]
  BY Zenon DEF administrarPerfil, Responder
<1>3. UNCHANGED <<reloj, sesion, perdidas>>
  BY DEF administrarPerfil
<1>4. t \in DOMAIN usuarios
  BY DEF Registrado
<1>5. /\ DOMAIN usuarios' = DOMAIN usuarios
      /\ usuarios' \in [DOMAIN usuarios' -> Usuario]
      /\ usuarios'[t].token = usuarios[t].token
      /\ \A s \in DOMAIN usuarios : s # t => usuarios'[s] = usuarios[s]
  BY ONLY TypeOKUsuarios, c \in BOOLEAN, p \in Perfiles \cup {Vacio},
          l \in Localizaciones, <1>1, <1>4 DEF TypeOKUsuarios, Usuario
<1>6. respuesta'.success \in BOOLEAN
  BY RespuestaTipo, Zenon DEF administrarPerfil
<1> QED BY <1>2, <1>3, <1>5, <1>6

LEMMA ConsultaEfecto ==
    ASSUME TypeOKUsuarios, NEW t \in Telefonos, NEW r \in BOOLEAN,
           consultarUsuarioOnline(t, r), Registrado(t), disco'
    PROVE  /\ DOMAIN usuarios' = DOMAIN usuarios
           /\ usuarios' \in [DOMAIN usuarios' -> Usuario]
           /\ usuarios'[t].perfil = usuarios[t].perfil
           /\ usuarios'[t].conectado = usuarios[t].conectado
           /\ \A s \in DOMAIN usuarios : s # t => usuarios'[s] = usuarios[s]
           /\ usuarios'[t].token =
                 IF r THEN calcularTokenDeSesion(t, reloj) ELSE usuarios[t].token
           /\ sesion' = IF r THEN [sesion EXCEPT ![t] = calcularTokenDeSesion(t, reloj)]
                             ELSE sesion
           /\ sesion' \in [Telefonos -> Tokens]
           /\ perdidas' = IF r THEN perdidas \ {t} ELSE perdidas
           /\ reloj' = reloj
           /\ respuesta'.success \in BOOLEAN
<1> DEFINE k == IF r THEN calcularTokenDeSesion(t, reloj) ELSE usuarios[t].token
<1>1. k \in Tokens /\ reloj \in Nat
  BY DEF calcularTokenDeSesion, Tokens, TypeOKUsuarios, Usuario, Registrado
<1>2. /\ usuarios' = [usuarios EXCEPT ![t].ultimaConexion = reloj, ![t].token = k]
      /\ sesion' = IF r THEN [sesion EXCEPT ![t] = k] ELSE sesion
      /\ reloj' = reloj
      /\ perdidas' = IF r THEN perdidas \ {t} ELSE perdidas
  BY GuardarCasos DEF consultarUsuarioOnline
<1>3. respuesta'.success \in BOOLEAN
  BY RespuestaTipo, Zenon DEF consultarUsuarioOnline
<1>4. r => k = calcularTokenDeSesion(t, reloj)
  OBVIOUS
<1>5. ~r => k = usuarios[t].token
  OBVIOUS
<1> HIDE DEF k
<1>6. /\ DOMAIN usuarios' = DOMAIN usuarios
      /\ usuarios' \in [DOMAIN usuarios' -> Usuario]
      /\ usuarios'[t].token = k
      /\ usuarios'[t].perfil = usuarios[t].perfil
      /\ usuarios'[t].conectado = usuarios[t].conectado
      /\ \A s \in DOMAIN usuarios : s # t => usuarios'[s] = usuarios[s]
  BY <1>1, <1>2, CambiarSesion DEF Registrado
<1>7. sesion' \in [Telefonos -> Tokens]
  BY <1>1, <1>2 DEF TypeOKUsuarios
<1> QED BY <1>2, <1>3, <1>4, <1>5, <1>6, <1>7

LEMMA CheckInEfecto ==
    ASSUME TypeOKUsuarios, NEW t \in Telefonos, NEW l \in Lugares,
           checkIn(t, l), Registrado(t), disco'
    PROVE  /\ DOMAIN usuarios' = DOMAIN usuarios
           /\ usuarios' \in [DOMAIN usuarios' -> Usuario]
           /\ usuarios'[t].token = usuarios[t].token
           /\ usuarios'[t].perfil = usuarios[t].perfil
           /\ usuarios'[t].conectado = usuarios[t].conectado
           /\ \A s \in DOMAIN usuarios : s # t => usuarios'[s] = usuarios[s]
           /\ UNCHANGED <<reloj, sesion, perdidas>>
           /\ respuesta'.success \in BOOLEAN
<1>1. /\ usuarios' = [usuarios EXCEPT ![t].localizacion = l]
      /\ UNCHANGED <<reloj, sesion, perdidas>>
  BY GuardarCasos DEF checkIn
<1>2. l \in Localizaciones
  BY DEF Localizaciones
<1>3. respuesta'.success \in BOOLEAN
  BY RespuestaTipo, Zenon DEF checkIn
<1> QED BY <1>1, <1>2, <1>3, CambiarLugar DEF Registrado

-----------------------------------------------------------------------------
(* A service that refuses, or whose write fails, leaves the accounts; a    *)
(* log-in whose write fails is recorded as lost.                           *)
SinEfecto(t) ==
    /\ UNCHANGED <<usuarios, reloj>>
    /\ respuesta'.success \in BOOLEAN
    /\ \/ UNCHANGED <<sesion, perdidas>>
       \/ /\ perdidas' = perdidas \cup {t}
          /\ \E k \in Tokens : sesion' = [sesion EXCEPT ![t] = k]

LEMMA RegistrarSinEfecto ==
    ASSUME NEW t \in Telefonos, NEW p \in Perfiles \cup {Vacio},
           registrarUsuario(t, p), Registrado(t) \/ ~disco'
    PROVE  SinEfecto(t)
<1>1. UNCHANGED <<usuarios, reloj, sesion, perdidas>>
  BY GuardarCasos DEF registrarUsuario
<1>2. respuesta'.success \in BOOLEAN
  BY RespuestaTipo, Zenon DEF registrarUsuario
<1> QED BY <1>1, <1>2 DEF SinEfecto

LEMMA PerfilSinEfecto ==
    ASSUME NEW t, NEW k, NEW p, NEW c, NEW l,
           administrarPerfil(t, k, p, c, l),
           ~(Registrado(t) /\ usuarios[t].token = k) \/ ~disco'
    PROVE  SinEfecto(t)
<1>1. UNCHANGED <<usuarios, reloj, sesion, perdidas>>
  BY GuardarCasos DEF administrarPerfil
<1>2. respuesta'.success \in BOOLEAN
  BY RespuestaTipo, Zenon DEF administrarPerfil
<1> QED BY <1>1, <1>2 DEF SinEfecto

LEMMA ConsultaSinEfecto ==
    ASSUME TypeOKUsuarios, NEW t \in Telefonos, NEW r \in BOOLEAN,
           consultarUsuarioOnline(t, r), ~Registrado(t) \/ ~disco'
    PROVE  SinEfecto(t)
<1>1. UNCHANGED <<usuarios, reloj>>
  BY GuardarCasos DEF consultarUsuarioOnline
<1>2. respuesta'.success \in BOOLEAN
  BY RespuestaTipo, Zenon DEF consultarUsuarioOnline
<1>3. CASE Registrado(t) /\ r
  <2>1. perdidas' = perdidas \cup {t}
    BY <1>3 DEF consultarUsuarioOnline
  <2>2. sesion' = [sesion EXCEPT ![t] = calcularTokenDeSesion(t, reloj)]
    BY <1>3 DEF consultarUsuarioOnline
  <2>3. calcularTokenDeSesion(t, reloj) \in Tokens
    BY DEF calcularTokenDeSesion, Tokens, TypeOKUsuarios
  <2> QED BY <1>1, <1>2, <2>1, <2>2, <2>3 DEF SinEfecto
<1>4. CASE ~(Registrado(t) /\ r)
  <2>1. UNCHANGED <<sesion, perdidas>>
    BY <1>4 DEF consultarUsuarioOnline
  <2> QED BY <1>1, <1>2, <2>1 DEF SinEfecto
<1> QED BY <1>3, <1>4

LEMMA CheckInSinEfecto ==
    ASSUME NEW t, NEW l, checkIn(t, l), ~Registrado(t) \/ ~disco'
    PROVE  SinEfecto(t)
<1>1. UNCHANGED <<usuarios, reloj, sesion, perdidas>>
  BY GuardarCasos DEF checkIn
<1>2. respuesta'.success \in BOOLEAN
  BY RespuestaTipo, Zenon DEF checkIn
<1> QED BY <1>1, <1>2 DEF SinEfecto

(* Every service says whether the store takes writes.                      *)
LEMMA DiscoTipo ==
    ASSUME TypeOKUsuarios, NEW t \in Telefonos, ServicioDeCuentas(t)
    PROVE  disco' \in BOOLEAN
<1>1. disco \in BOOLEAN
  BY DEF TypeOKUsuarios
<1>2. ASSUME NEW p \in Perfiles \cup {Vacio}, registrarUsuario(t, p)
      PROVE  disco' \in BOOLEAN
  BY <1>1, <1>2, GuardarCasos, Zenon DEF registrarUsuario
<1>3. ASSUME NEW k \in TokensPosibles, NEW p \in Perfiles \cup {Vacio}, NEW c \in BOOLEAN,
             NEW l \in Localizaciones, administrarPerfil(t, k, p, c, l)
      PROVE  disco' \in BOOLEAN
  BY <1>1, <1>3, GuardarCasos, Zenon DEF administrarPerfil
<1>4. ASSUME NEW r \in BOOLEAN, consultarUsuarioOnline(t, r)
      PROVE  disco' \in BOOLEAN
  BY <1>1, <1>4, GuardarCasos, Zenon DEF consultarUsuarioOnline
<1>5. ASSUME NEW l \in Lugares, checkIn(t, l)
      PROVE  disco' \in BOOLEAN
  BY <1>1, <1>5, GuardarCasos, Zenon DEF checkIn
<1> QED BY <1>2, <1>3, <1>4, <1>5, Zenon DEF ServicioDeCuentas

(* The four services, when they have an effect, and when they have none.   *)
LEMMA CasosDeServicio ==
    ASSUME TypeOKUsuarios, NEW t \in Telefonos, ServicioDeCuentas(t)
    PROVE  \/ \E p \in Perfiles \cup {Vacio} :
                 registrarUsuario(t, p) /\ ~Registrado(t) /\ disco'
           \/ \E k \in TokensPosibles, p \in Perfiles \cup {Vacio}, c \in BOOLEAN,
                 l \in Localizaciones :
                 /\ administrarPerfil(t, k, p, c, l)
                 /\ Registrado(t) /\ usuarios[t].token = k /\ disco'
           \/ \E r \in BOOLEAN : consultarUsuarioOnline(t, r) /\ Registrado(t) /\ disco'
           \/ \E l \in Lugares : checkIn(t, l) /\ Registrado(t) /\ disco'
           \/ SinEfecto(t)
<1>1. ASSUME NEW p \in Perfiles \cup {Vacio}, registrarUsuario(t, p),
             ~(~Registrado(t) /\ disco')
      PROVE  SinEfecto(t)
  BY <1>1, RegistrarSinEfecto
<1>2. ASSUME NEW k \in TokensPosibles, NEW p \in Perfiles \cup {Vacio}, NEW c \in BOOLEAN,
             NEW l \in Localizaciones, administrarPerfil(t, k, p, c, l),
             ~(Registrado(t) /\ usuarios[t].token = k /\ disco')
      PROVE  SinEfecto(t)
  BY <1>2, PerfilSinEfecto
<1>3. ASSUME NEW r \in BOOLEAN, consultarUsuarioOnline(t, r),
             ~(Registrado(t) /\ disco')
      PROVE  SinEfecto(t)
  BY <1>3, ConsultaSinEfecto
<1>4. ASSUME NEW l \in Lugares, checkIn(t, l), ~(Registrado(t) /\ disco')
      PROVE  SinEfecto(t)
  BY <1>4, CheckInSinEfecto
<1> QED BY <1>1, <1>2, <1>3, <1>4, Zenon DEF ServicioDeCuentas

(* The history variable follows the stored token but for lost log-ins,     *)
(* also before the account exists: the strengthening that makes            *)
(* SesionVigente inductive.                                                *)
SesionInv ==
    \A t \in Telefonos : t \notin perdidas =>
        sesion[t] = IF Registrado(t) THEN usuarios[t].token ELSE Vacio

(* Every service keeps the accounts well typed and the sessions alive, and *)
(* changes an account only for a caller that knows its token.              *)
LEMMA ServicioPreserva ==
    ASSUME TypeOKUsuarios, SesionInv, NEW t \in Telefonos, ServicioDeCuentas(t)
    PROVE  /\ TypeOKUsuarios'
           /\ SesionInv'
           /\ \A s \in Telefonos : Registrado(s) => CambioAutorizado(s)
<1>d. disco' \in BOOLEAN
  BY DiscoTipo
<1>1. ASSUME NEW p \in Perfiles \cup {Vacio}, registrarUsuario(t, p), ~Registrado(t),
             disco'
      PROVE  /\ TypeOKUsuarios' /\ SesionInv'
             /\ \A s \in Telefonos : Registrado(s) => CambioAutorizado(s)
  <2>1. /\ DOMAIN usuarios' = DOMAIN usuarios \cup {t}
        /\ usuarios' \in [DOMAIN usuarios' -> Usuario]
        /\ usuarios'[t].token = Vacio
        /\ \A s \in DOMAIN usuarios : s # t => usuarios'[s] = usuarios[s]
        /\ UNCHANGED <<reloj, sesion, perdidas>>
        /\ respuesta'.success \in BOOLEAN
    BY <1>1, RegistrarEfecto, Zenon
  <2>2. TypeOKUsuarios'
    BY <1>d, <2>1 DEF TypeOKUsuarios
  <2>3. ASSUME NEW s \in Telefonos, s \notin perdidas'
        PROVE  sesion'[s] = IF s \in DOMAIN usuarios' THEN usuarios'[s].token ELSE Vacio
    <3>1. CASE s = t
      BY <1>1, <2>1, <2>3, <3>1 DEF SesionInv, Registrado
    <3>2. CASE s # t
      BY <2>1, <2>3, <3>2 DEF SesionInv, Registrado
    <3> QED BY <3>1, <3>2
  <2>4. SesionInv'
    BY <2>3, Zenon DEF SesionInv, Registrado
  <2>5. ASSUME NEW s \in Telefonos, Registrado(s)
        PROVE  CambioAutorizado(s)
    <3>1. s # t /\ s \in DOMAIN usuarios
      BY <1>1, <2>5 DEF Registrado
    <3>2. s \in DOMAIN usuarios' /\ usuarios'[s] = usuarios[s]
      BY <2>1, <3>1
    <3> QED BY <3>2 DEF CambioAutorizado
  <2> QED BY <2>2, <2>4, <2>5
<1>2. ASSUME NEW k \in TokensPosibles, NEW p \in Perfiles \cup {Vacio}, NEW c \in BOOLEAN,
             NEW l \in Localizaciones, administrarPerfil(t, k, p, c, l),
             Registrado(t), usuarios[t].token = k, disco'
      PROVE  /\ TypeOKUsuarios' /\ SesionInv'
             /\ \A s \in Telefonos : Registrado(s) => CambioAutorizado(s)
  <2>1. /\ DOMAIN usuarios' = DOMAIN usuarios
        /\ usuarios' \in [DOMAIN usuarios' -> Usuario]
        /\ usuarios'[t].token = usuarios[t].token
        /\ \A s \in DOMAIN usuarios : s # t => usuarios'[s] = usuarios[s]
        /\ UNCHANGED <<reloj, sesion, perdidas>>
        /\ respuesta' = [servicio |-> "perfil", success |-> TRUE, payload |-> k]
        /\ respuesta'.success \in BOOLEAN
    BY <1>2, PerfilEfecto, Zenon
  <2>2. TypeOKUsuarios'
    BY <1>d, <2>1 DEF TypeOKUsuarios
  <2>3. SesionInv'
    BY <2>1 DEF SesionInv, Registrado
  <2>4. ASSUME NEW s \in Telefonos, Registrado(s)
        PROVE  CambioAutorizado(s)
    <3>1. CASE s = t
      BY <1>2, <2>1, <3>1 DEF CambioAutorizado, Registrado
    <3>2. CASE s # t
      BY <2>1, <2>4, <3>2 DEF CambioAutorizado, Registrado
    <3> QED BY <3>1, <3>2
  <2> QED BY <2>2, <2>3, <2>4
<1>3. ASSUME NEW r \in BOOLEAN, consultarUsuarioOnline(t, r), Registrado(t), disco'
      PROVE  /\ TypeOKUsuarios' /\ SesionInv'
             /\ \A s \in Telefonos : Registrado(s) => CambioAutorizado(s)
  <2>1. /\ DOMAIN usuarios' = DOMAIN usuarios
        /\ usuarios' \in [DOMAIN usuarios' -> Usuario]
        /\ usuarios'[t].perfil = usuarios[t].perfil
        /\ usuarios'[t].conectado = usuarios[t].conectado
        /\ \A s \in DOMAIN usuarios : s # t => usuarios'[s] = usuarios[s]
        /\ usuarios'[t].token =
              IF r THEN calcularTokenDeSesion(t, reloj) ELSE usuarios[t].token
        /\ sesion' = IF r THEN [sesion EXCEPT ![t] = calcularTokenDeSesion(t, reloj)]
                          ELSE sesion
        /\ sesion' \in [Telefonos -> Tokens]
        /\ perdidas' = IF r THEN perdidas \ {t} ELSE perdidas
        /\ reloj' = reloj
        /\ respuesta'.success \in BOOLEAN
    BY <1>3, ConsultaEfecto
  <2>2. TypeOKUsuarios'
    BY <1>d, <2>1 DEF TypeOKUsuarios
  <2>3. SesionInv'
    BY <1>3, <2>1 DEF SesionInv, Registrado, TypeOKUsuarios
  <2>4. ASSUME NEW s \in Telefonos, Registrado(s)
        PROVE  CambioAutorizado(s)
    BY <2>1, <2>4 DEF CambioAutorizado, Registrado
  <2> QED BY <2>2, <2>3, <2>4
<1>4. ASSUME NEW l \in Lugares, checkIn(t, l), Registrado(t), disco'
      PROVE  /\ TypeOKUsuarios' /\ SesionInv'
             /\ \A s \in Telefonos : Registrado(s) => CambioAutorizado(s)
  <2>1. /\ DOMAIN usuarios' = DOMAIN usuarios
        /\ usuarios' \in [DOMAIN usuarios' -> Usuario]
        /\ usuarios'[t].token = usuarios[t].token
        /\ usuarios'[t].perfil = usuarios[t].perfil
        /\ usuarios'[t].conectado = usuarios[t].conectado
        /\ \A s \in DOMAIN usuarios : s # t => usuarios'[s] = usuarios[s]
        /\ UNCHANGED <<reloj, sesion, perdidas>>
        /\ respuesta'.success \in BOOLEAN
    BY <1>4, CheckInEfecto
  <2>2. TypeOKUsuarios'
    BY <1>d, <2>1 DEF TypeOKUsuarios
  <2>3. SesionInv'
    BY <2>1 DEF SesionInv, Registrado
  <2>4. ASSUME NEW s \in Telefonos, Registrado(s)
        PROVE  CambioAutorizado(s)
    BY <2>1, <2>4 DEF CambioAutorizado, Registrado
  <2> QED BY <2>2, <2>3, <2>4
<1>5. ASSUME SinEfecto(t)
      PROVE  /\ TypeOKUsuarios' /\ SesionInv'
             /\ \A s \in Telefonos : Registrado(s) => CambioAutorizado(s)
  <2>1. UNCHANGED <<usuarios, reloj>> /\ respuesta'.success \in BOOLEAN
    BY <1>5 DEF SinEfecto
  <2>2. /\ perdidas' \subseteq Telefonos
        /\ sesion' \in [Telefonos -> Tokens]
        /\ \A s \in Telefonos : s \notin perdidas' =>
              s \notin perdidas /\ sesion'[s] = sesion[s]
    BY <1>5 DEF SinEfecto, TypeOKUsuarios
  <2>3. TypeOKUsuarios'
    BY <1>d, <2>1, <2>2 DEF TypeOKUsuarios
  <2>4. SesionInv'
    BY <2>1, <2>2 DEF SesionInv, Registrado
  <2>5. ASSUME NEW s \in Telefonos, Registrado(s)
        PROVE  CambioAutorizado(s)
    BY <2>1, <2>5 DEF CambioAutorizado, Registrado
  <2> QED BY <2>3, <2>4, <2>5
<1> QED BY <1>1, <1>2, <1>3, <1>4, <1>5, CasosDeServicio, Zenon

(* A second of the clock or a restart disturbs nothing.                    *)
LEMMA SegundoPreserva ==
    ASSUME TypeOKUsuarios, SesionInv, Segundo \/ Reiniciar
    PROVE  /\ TypeOKUsuarios'
           /\ SesionInv'
           /\ \A s \in Telefonos : Registrado(s) => CambioAutorizado(s)
<1>1. UNCHANGED <<usuarios, respuesta, sesion, perdidas>> /\ reloj' \in Nat
  BY DEF TypeOKUsuarios, Segundo, Reiniciar, varsCuentas
<1>2. disco' \in BOOLEAN
  BY Zenon DEF TypeOKUsuarios, Segundo, Reiniciar
<1>3. TypeOKUsuarios'
  BY <1>1, <1>2 DEF TypeOKUsuarios
<1> QED BY <1>1, <1>3 DEF SesionInv, Registrado, CambioAutorizado

LEMMA InicioUsuarios == InitUsuarios => TypeOKUsuarios /\ SesionInv
BY DEF InitUsuarios, TypeOKUsuarios, SesionInv, Registrado, Tokens

LEMMA PasoUsuarios ==
    TypeOKUsuarios /\ SesionInv /\ [NextUsuarios]_varsUsuarios
        => TypeOKUsuarios' /\ SesionInv'
<1>1. CASE UNCHANGED varsUsuarios
  BY <1>1 DEF varsUsuarios, TypeOKUsuarios, SesionInv, Registrado
<1> QED BY <1>1, ServicioPreserva, SegundoPreserva DEF NextUsuarios

(* The store of accounts is well typed in every reachable state.           *)
THEOREM TipoUsuarios == SpecUsuarios => []TypeOKUsuarios
BY InicioUsuarios, PasoUsuarios, PTL DEF SpecUsuarios

(* No request but a log-in of the user changes the session token.          *)
THEOREM SesionSiempreVigente == SpecUsuarios => []SesionVigente
<1>1. SesionInv => SesionVigente
  BY DEF SesionInv, SesionVigente
<1> QED BY <1>1, InicioUsuarios, PasoUsuarios, PTL DEF SpecUsuarios

(* An account changes only in an administrarPerfil with its token.         *)
THEOREM CuentaProtegida == SpecUsuarios => CuentaSoloPorSuToken
<1>1. TypeOKUsuarios /\ SesionInv /\ [NextUsuarios]_varsUsuarios
         => [\A t \in Telefonos : Registrado(t) => CambioAutorizado(t)]_varsUsuarios
  BY ServicioPreserva, SegundoPreserva DEF NextUsuarios
<1> QED BY <1>1, InicioUsuarios, PasoUsuarios, PTL DEF SpecUsuarios, CuentaSoloPorSuToken

=============================================================================
