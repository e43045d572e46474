--------------------------- MODULE ServidorProofs ---------------------------
(***************************************************************************)
(* Proofs about the conversations of the server and their index, for every *)
(* set of users, bodies and dates, any number of messages and contacts,    *)
(* crashes between any two writes and writes that fail.                    *)
(***************************************************************************)
EXTENDS Servidor, UsuariosProofs, SecuenciasProofs

(* Two users never have two conversations, one opened by each.             *)
UnaPorPar == \A a, b \in Telefonos : Existe(<<a, b>>) /\ Existe(<<b, a>>) => a = b

(* Between the writes of setConversacion, if they have worked so far, the  *)
(* conversation is stored and the users no longer in porIndexar have it in *)
(* their index.                                                            *)
IndexadoHastaAhora ==
    paso = "indexar" =>
        /\ disco => Existe(conv)
        /\ \/ porIndexar = conv
           \/ /\ porIndexar = <<conv[2]>>
              /\ disco => vectorContiene(indice[conv[1]], conv)

(* The inductive invariant.                                                *)
Inv ==
    /\ TypeOK
    /\ SesionInv
    /\ UnaPorPar
    /\ IndexadoHastaAhora
    /\ IndiceExacto

-----------------------------------------------------------------------------
(* What the first write of setConversacion does to the conversations.      *)
LEMMA TrozosTipo ==
    ASSUME NEW m \in Mensajes
    PROVE  TrozosDe(m) \in Seq(Mensajes \cup {Ilegible})
<1> DEFINE S == Mensajes \cup {Ilegible}
<1>1. m \in S /\ Ilegible \in S
  OBVIOUS
<1> HIDE DEF S
<1>2. <<m>> \in Seq(S) /\ <<Ilegible, Ilegible>> \in Seq(S)
  BY <1>1
<1>3. TrozosDe(m) \in Seq(S)
  BY <1>2 DEF TrozosDe
<1> QED BY <1>3 DEF S

LEMMA ConversacionDeTipo ==
    ASSUME NEW e \in Telefonos, NEW r \in Telefonos
    PROVE  ConversacionDe(e, r) \in IdsConversacion
BY DEF ConversacionDe, IdsConversacion

LEMMA GuardarEfecto ==
    ASSUME TypeOK, NEW c \in IdsConversacion, NEW m \in Mensajes,
           GuardarConversacion(c, m)
    PROVE  /\ disco' \in BOOLEAN /\ (disco' => disco)
           /\ disco' => DOMAIN conversaciones' = DOMAIN conversaciones \cup {c}
           /\ ~disco' => conversaciones' = conversaciones
           /\ conversaciones' \in
                 [DOMAIN conversaciones' -> Seq(Mensajes \cup {Ilegible})]
           /\ \A d \in DOMAIN conversaciones :
                 /\ d \in DOMAIN conversaciones'
                 /\ Len(conversaciones[d]) <= Len(conversaciones'[d])
                 /\ \A i \in DOMAIN conversaciones[d] :
                       conversaciones'[d][i] = conversaciones[d][i]
<1>p. disco' \in BOOLEAN /\ (disco' => disco)
  BY DEF GuardarConversacion, Put
<1>n. ASSUME ~disco'
      PROVE  /\ conversaciones' = conversaciones
             /\ conversaciones' \in
                   [DOMAIN conversaciones' -> Seq(Mensajes \cup {Ilegible})]
             /\ \A d \in DOMAIN conversaciones :
                   /\ d \in DOMAIN conversaciones'
                   /\ Len(conversaciones[d]) <= Len(conversaciones'[d])
                   /\ \A i \in DOMAIN conversaciones[d] :
                         conversaciones'[d][i] = conversaciones[d][i]
  <2>1. conversaciones' = conversaciones
    BY <1>n DEF GuardarConversacion
  <2>2. \A d \in DOMAIN conversaciones : Len(conversaciones[d]) \in Nat
    BY DEF TypeOK
  <2>3. conversaciones \in [DOMAIN conversaciones -> Seq(Mensajes \cup {Ilegible})]
    BY DEF TypeOK
  <2> QED BY <2>1, <2>2, <2>3
<1>s. SUFFICES ASSUME disco'
               PROVE  /\ DOMAIN conversaciones' = DOMAIN conversaciones \cup {c}
                      /\ conversaciones' \in
                            [DOMAIN conversaciones' -> Seq(Mensajes \cup {Ilegible})]
                      /\ \A d \in DOMAIN conversaciones :
                            /\ d \in DOMAIN conversaciones'
                            /\ Len(conversaciones[d]) <= Len(conversaciones'[d])
                            /\ \A i \in DOMAIN conversaciones[d] :
                                  conversaciones'[d][i] = conversaciones[d][i]
  BY <1>p, <1>n
<1> DEFINE antes == IF Existe(c) THEN conversaciones[c] ELSE <<>>
           S == Mensajes \cup {Ilegible}
           trozos == TrozosDe(m)
           despues == antes \o trozos
<1>1. antes \in Seq(S)
  BY DEF TypeOK, Existe
<1>2. trozos \in Seq(S)
  BY TrozosTipo
<1>3. /\ despues \in Seq(S)
      /\ Len(antes) <= Len(despues)
      /\ \A i \in DOMAIN antes : despues[i] = antes[i]
  <2> HIDE DEF antes, trozos, S
  <2> QED BY <1>1, <1>2
<1>4. Existe(c) => antes = conversaciones[c]
  OBVIOUS
<1>5. conversaciones' = setDato(conversaciones, c, despues)
  BY <1>s DEF GuardarConversacion
<1>6. conversaciones \in [DOMAIN conversaciones -> Seq(S)]
  BY DEF TypeOK
<1> HIDE DEF despues, antes, S
<1>7. /\ DOMAIN conversaciones' = DOMAIN conversaciones \cup {c}
      /\ conversaciones' \in [DOMAIN conversaciones' -> Seq(S)]
      /\ conversaciones'[c] = despues
      /\ \A d \in DOMAIN conversaciones : d # c => conversaciones'[d] = conversaciones[d]
  BY <1>3, <1>5, <1>6 DEF setDato
<1>8. ASSUME NEW d \in DOMAIN conversaciones
      PROVE  /\ Len(conversaciones[d]) <= Len(conversaciones'[d])
             /\ \A i \in DOMAIN conversaciones[d] :
                   conversaciones'[d][i] = conversaciones[d][i]
  <2>1. CASE d = c
    BY <2>1, <1>3, <1>4, <1>7 DEF Existe
  <2>2. CASE d # c
    <3>1. conversaciones'[d] = conversaciones[d]
      BY <2>2, <1>7
    <3>2. Len(conversaciones[d]) \in Nat
      BY <1>6
    <3> QED BY <3>1, <3>2
  <2> QED BY <2>1, <2>2
<1> QED BY <1>7, <1>8 DEF S

-----------------------------------------------------------------------------
(* The steps that leave the conversations, their index and the marks of a  *)
(* store in progress as they are.                                          *)
LEMMA SinEscribir ==
    ASSUME Inv,
           UNCHANGED <<disco, conversaciones, indice, paso, conv, porIndexar, cortadas>>
    PROVE  UnaPorPar' /\ IndexadoHastaAhora' /\ IndiceExacto'
BY DEF Inv, UnaPorPar, IndexadoHastaAhora, IndiceExacto, Existe, vectorContiene,
       UsuariosDe, EnCurso

(* Starting to store a message: the conversation is written, its index is  *)
(* still to be written.                                                    *)
LEMMA PersistirPreserva ==
    ASSUME Inv, paso # "indexar", NEW e \in Telefonos, NEW r \in Telefonos,
           NEW m \in Mensajes, PersistirConversacion(e, r, m)
    PROVE  /\ UnaPorPar' /\ IndexadoHastaAhora' /\ IndiceExacto'
           /\ DOMAIN conversaciones' \subseteq IdsConversacion
           /\ conversaciones' \in
                 [DOMAIN conversaciones' -> Seq(Mensajes \cup {Ilegible})]
           /\ paso' = "indexar"
           /\ conv' \in IdsConversacion
           /\ porIndexar' \in Seq(Telefonos)
           /\ UNCHANGED <<indice, cortadas>>
           /\ disco' \in BOOLEAN
<1> DEFINE c == ConversacionDe(e, r)
<1>1. c \in IdsConversacion
  BY ConversacionDeTipo
<1>2. /\ GuardarConversacion(c, m)
      /\ conv' = c /\ porIndexar' = c /\ paso' = "indexar"
      /\ UNCHANGED <<indice, cortadas>>
  BY DEF PersistirConversacion
<1>3. /\ disco' \in BOOLEAN
      /\ disco' => DOMAIN conversaciones' = DOMAIN conversaciones \cup {c}
      /\ ~disco' => conversaciones' = conversaciones
      /\ conversaciones' \in
            [DOMAIN conversaciones' -> Seq(Mensajes \cup {Ilegible})]
  BY <1>1, <1>2, GuardarEfecto DEF Inv
<1>4. UnaPorPar'
  BY <1>3 DEF ConversacionDe, Inv, UnaPorPar, Existe
<1> HIDE DEF c
<1>5. IndexadoHastaAhora'
  BY <1>2, <1>3 DEF IndexadoHastaAhora, Existe
<1>6. IndiceExacto'
  BY <1>2, <1>3 DEF Inv, IndiceExacto, Existe, vectorContiene, UsuariosDe, EnCurso
<1>7. c \in Seq(Telefonos)
  <2>1. PICK a \in Telefonos, b \in Telefonos : c = <<a, b>>
    BY <1>1 DEF IdsConversacion
  <2> QED BY <2>1
<1>8. DOMAIN conversaciones' \subseteq IdsConversacion
  BY <1>1, <1>3 DEF Inv, TypeOK
<1> QED BY <1>1, <1>2, <1>3, <1>4, <1>5, <1>6, <1>7, <1>8

(* An index is extended with an id it does not have.                       *)
LEMMA AgregarEfecto ==
    ASSUME NEW S, NEW ids \in Seq(S), NEW c \in S
    PROVE  /\ AgregarAlIndice(ids, c) \in Seq(S)
           /\ vectorContiene(AgregarAlIndice(ids, c), c)
           /\ \A d \in S : vectorContiene(ids, d) => vectorContiene(AgregarAlIndice(ids, c), d)
           /\ \A i \in DOMAIN AgregarAlIndice(ids, c) :
                 AgregarAlIndice(ids, c)[i] = c
                 \/ (i \in DOMAIN ids /\ AgregarAlIndice(ids, c)[i] = ids[i])
           /\ (\A i, j \in DOMAIN ids : ids[i] = ids[j] => i = j)
                 => \A i, j \in DOMAIN AgregarAlIndice(ids, c) :
                       AgregarAlIndice(ids, c)[i] = AgregarAlIndice(ids, c)[j] => i = j
<1>1. CASE vectorContiene(ids, c)
  <2>1. AgregarAlIndice(ids, c) = ids
    BY <1>1 DEF AgregarAlIndice
  <2> QED BY <1>1, <2>1
<1>2. CASE ~vectorContiene(ids, c)
  <2>1. AgregarAlIndice(ids, c) = Append(ids, c)
    BY <1>2 DEF AgregarAlIndice
  <2>2. /\ Append(ids, c) \in Seq(S)
        /\ DOMAIN Append(ids, c) = DOMAIN ids \cup {Len(ids) + 1}
        /\ Append(ids, c)[Len(ids) + 1] = c
        /\ \A i \in DOMAIN ids : Append(ids, c)[i] = ids[i]
    OBVIOUS
  <2>3. \A i \in DOMAIN ids : ids[i] # c
    BY <1>2 DEF vectorContiene
  <2> DEFINE nuevo == Append(ids, c)
             n == Len(ids) + 1
  <2>4. n \notin DOMAIN ids
    OBVIOUS
  <2> HIDE DEF nuevo, n
  <2>5. /\ nuevo \in Seq(S)
        /\ DOMAIN nuevo = DOMAIN ids \cup {n}
        /\ nuevo[n] = c
        /\ \A i \in DOMAIN ids : nuevo[i] = ids[i]
    BY <2>2 DEF nuevo, n
  <2>6. /\ vectorContiene(nuevo, c)
        /\ \A d \in S : vectorContiene(ids, d) => vectorContiene(nuevo, d)
        /\ \A i \in DOMAIN nuevo : nuevo[i] = c \/ (i \in DOMAIN ids /\ nuevo[i] = ids[i])
    BY <2>5 DEF vectorContiene
  <2>7. (\A i, j \in DOMAIN ids : ids[i] = ids[j] => i = j)
           => \A i, j \in DOMAIN nuevo : nuevo[i] = nuevo[j] => i = j
    BY <2>3, <2>4, <2>5
  <2> QED BY <2>1, <2>5, <2>6, <2>7 DEF nuevo
<1> QED BY <1>1, <1>2

(* Writing the index of one user, u, of the conversation being stored.     *)
LEMMA IndexarEfecto ==
    ASSUME Inv, paso = "indexar", disco, NEW u \in UsuariosDe(conv),
           indice' = [indice EXCEPT ![u] = AgregarAlIndice(@, conv)],
           UNCHANGED conversaciones
    PROVE  /\ indice' \in [Telefonos -> Seq(IdsConversacion \cup {DatoNoEncontrado})]
           /\ vectorContiene(indice'[u], conv)
           /\ \A t \in Telefonos :
                 /\ \A i, j \in DOMAIN indice'[t] : indice'[t][i] = indice'[t][j] => i = j
                 /\ \A i \in DOMAIN indice'[t] : indice'[t][i] # DatoNoEncontrado =>
                       Existe(indice'[t][i]) /\ t \in UsuariosDe(indice'[t][i])
                 /\ \A c \in IdsConversacion :
                       vectorContiene(indice[t], c) => vectorContiene(indice'[t], c)
<1> DEFINE S == IdsConversacion \cup {DatoNoEncontrado}
           ids == indice[u]
           nuevo == AgregarAlIndice(ids, conv)
<1>1. /\ conv \in IdsConversacion /\ Existe(conv)
      /\ indice \in [Telefonos -> Seq(S)]
  BY DEF Inv, TypeOK, IndexadoHastaAhora
<1>2. u \in Telefonos
  BY <1>1 DEF UsuariosDe, IdsConversacion
<1>3. ids \in Seq(S) /\ conv \in S
  BY <1>1, <1>2
<1>4. /\ nuevo \in Seq(S)
      /\ vectorContiene(nuevo, conv)
      /\ \A d \in S : vectorContiene(ids, d) => vectorContiene(nuevo, d)
      /\ \A i \in DOMAIN nuevo :
            nuevo[i] = conv \/ (i \in DOMAIN ids /\ nuevo[i] = ids[i])
      /\ (\A i, j \in DOMAIN ids : ids[i] = ids[j] => i = j)
            => \A i, j \in DOMAIN nuevo : nuevo[i] = nuevo[j] => i = j
  <2> HIDE DEF S, ids
  <2> QED BY <1>3, AgregarEfecto
<1>5. indice'[u] = nuevo /\ \A t \in Telefonos : t # u => indice'[t] = indice[t]
  BY <1>1, <1>2
<1>6. indice' \in [Telefonos -> Seq(S)]
  <2> HIDE DEF nuevo, S
  <2> QED BY <1>1, <1>2, <1>4 DEF nuevo
<1>7. ASSUME NEW t \in Telefonos
      PROVE  /\ \A i, j \in DOMAIN indice'[t] : indice'[t][i] = indice'[t][j] => i = j
             /\ \A i \in DOMAIN indice'[t] : indice'[t][i] # DatoNoEncontrado =>
                   Existe(indice'[t][i]) /\ t \in UsuariosDe(indice'[t][i])
             /\ \A c \in IdsConversacion :
                   vectorContiene(indice[t], c) => vectorContiene(indice'[t], c)
  <2>1. /\ \A i, j \in DOMAIN indice[t] : indice[t][i] = indice[t][j] => i = j
        /\ \A i \in DOMAIN indice[t] : indice[t][i] # DatoNoEncontrado =>
              Existe(indice[t][i]) /\ t \in UsuariosDe(indice[t][i])
    BY DEF Inv, IndiceExacto
  <2>2. CASE t # u
    BY <1>5, <2>1, <2>2
  <2>3. CASE t = u
    <3> HIDE DEF nuevo
    <3> QED BY <1>1, <1>4, <1>5, <2>1, <2>3
  <2> QED BY <2>2, <2>3
<1> QED BY <1>4, <1>5, <1>6, <1>7

LEMMA IndexarPreserva ==
    ASSUME Inv, IndexarUsuario
    PROVE  Inv'
<1>1. PICK a \in Telefonos, b \in Telefonos : conv = <<a, b>>
  BY DEF Inv, TypeOK, IndexarUsuario, IdsConversacion
<1>2. /\ paso = "indexar"
      /\ UNCHANGED <<usuarios, reloj, respuesta, sesion, perdidas, conversaciones, pedido,
                     contactos>>
  BY DEF IndexarUsuario, varsCuentas
<1>d. disco' \in BOOLEAN /\ (disco' => disco)
  BY DEF IndexarUsuario, Put
<1>x. disco => Existe(conv)
  BY <1>2 DEF Inv, IndexadoHastaAhora
<1>3. /\ TypeOKUsuarios' /\ SesionInv' /\ UnaPorPar'
  BY <1>2, <1>d DEF Inv, TypeOK, TypeOKUsuarios, SesionInv, Registrado, UnaPorPar, Existe
<1>4. \/ porIndexar = <<a, b>>
      \/ porIndexar = <<b>> /\ (disco => vectorContiene(indice[a], conv))
  BY <1>1, <1>2 DEF Inv, IndexadoHastaAhora
<1>n. CASE ~disco'
  <2>1. /\ indice' = indice
        /\ cortadas' = IF disco THEN cortadas \cup {conv} ELSE cortadas
        /\ porIndexar' = Tail(porIndexar)
        /\ \/ Tail(porIndexar) = <<>> /\ paso' = "recorrer"
           \/ Tail(porIndexar) # <<>> /\ UNCHANGED <<paso, conv>>
    BY <1>n DEF IndexarUsuario
  <2>t. /\ Tail(<<a, b>>) = <<b>> /\ <<b>> # <<>> /\ Tail(<<b>>) = <<>>
        /\ <<b>> \in Seq(Telefonos) /\ <<>> \in Seq(Telefonos)
    OBVIOUS
  <2>2. \/ porIndexar = <<a, b>> /\ Tail(porIndexar) = <<b>> /\ <<b>> # <<>>
        \/ porIndexar = <<b>> /\ Tail(porIndexar) = <<>>
    BY <1>4, <2>t, Zenon
  <2>3. IndexadoHastaAhora'
    BY <1>1, <1>n, <2>1, <2>2 DEF IndexadoHastaAhora
  <2>4. Tail(porIndexar) \in Seq(Telefonos)
    BY <2>2, <2>t, Zenon
  <2>5. conv \in IdsConversacion
    BY <1>1 DEF IdsConversacion
  <2>6. TypeOK'
    BY <1>2, <1>3, <2>1, <2>4, <2>5 DEF Inv, TypeOK
  <2>7. IndiceExacto'
    BY <1>2, <1>n, <2>1 DEF Inv, IndiceExacto, Existe, UsuariosDe, vectorContiene, EnCurso
  <2> QED BY <1>3, <2>3, <2>6, <2>7 DEF Inv
<1>5. CASE porIndexar = <<a, b>> /\ disco'
  <2>1. /\ Head(porIndexar) = a /\ Tail(porIndexar) = <<b>> /\ <<b>> # <<>>
        /\ <<b>> \in Seq(Telefonos)
    BY <1>5
  <2>2. /\ indice' = [indice EXCEPT ![a] = AgregarAlIndice(@, conv)]
        /\ porIndexar' = <<b>> /\ UNCHANGED <<paso, conv, cortadas>>
    BY <1>5, <1>d, <2>1 DEF IndexarUsuario
  <2>3. a \in UsuariosDe(conv)
    BY <1>1 DEF UsuariosDe
  <2>4. /\ indice' \in [Telefonos -> Seq(IdsConversacion \cup {DatoNoEncontrado})]
        /\ vectorContiene(indice'[a], conv)
        /\ \A t \in Telefonos :
              /\ \A i, j \in DOMAIN indice'[t] : indice'[t][i] = indice'[t][j] => i = j
              /\ \A i \in DOMAIN indice'[t] : indice'[t][i] # DatoNoEncontrado =>
                    Existe(indice'[t][i]) /\ t \in UsuariosDe(indice'[t][i])
              /\ \A c \in IdsConversacion :
                    vectorContiene(indice[t], c) => vectorContiene(indice'[t], c)
    BY <1>2, <1>5, <1>d, <2>2, <2>3, IndexarEfecto
  <2>5. TypeOK'
    BY <1>2, <1>3, <2>1, <2>2, <2>4 DEF Inv, TypeOK
  <2>6. IndexadoHastaAhora'
    BY <1>1, <1>2, <1>5, <1>d, <1>x, <2>2, <2>4 DEF IndexadoHastaAhora, Existe
  <2>7. ASSUME NEW t \in Telefonos, NEW c \in DOMAIN conversaciones,
               t \in UsuariosDe(c), c \notin cortadas, ~EnCurso(c)
        PROVE  vectorContiene(indice'[t], c)
    BY <2>4, <2>7 DEF Inv, TypeOK, IndiceExacto
  <2>8. IndiceExacto'
    BY <1>2, <1>5, <1>d, <2>2, <2>4, <2>7
       DEF IndiceExacto, Existe, UsuariosDe, vectorContiene, EnCurso
  <2> QED BY <1>3, <2>5, <2>6, <2>8 DEF Inv
<1>6. CASE porIndexar = <<b>> /\ vectorContiene(indice[a], conv) /\ disco'
  <2>1. /\ Head(porIndexar) = b /\ Tail(porIndexar) = <<>>
        /\ <<>> \in Seq(Telefonos)
    BY <1>6
  <2>2. /\ indice' = [indice EXCEPT ![b] = AgregarAlIndice(@, conv)]
        /\ porIndexar' = <<>> /\ paso' = "recorrer" /\ cortadas' = cortadas \ {conv}
    BY <1>6, <1>d, <2>1 DEF IndexarUsuario
  <2>3. b \in UsuariosDe(conv)
    BY <1>1 DEF UsuariosDe
  <2>4. /\ indice' \in [Telefonos -> Seq(IdsConversacion \cup {DatoNoEncontrado})]
        /\ vectorContiene(indice'[b], conv)
        /\ \A t \in Telefonos :
              /\ \A i, j \in DOMAIN indice'[t] : indice'[t][i] = indice'[t][j] => i = j
              /\ \A i \in DOMAIN indice'[t] : indice'[t][i] # DatoNoEncontrado =>
                    Existe(indice'[t][i]) /\ t \in UsuariosDe(indice'[t][i])
              /\ \A c \in IdsConversacion :
                    vectorContiene(indice[t], c) => vectorContiene(indice'[t], c)
    BY <1>2, <1>6, <1>d, <2>2, <2>3, IndexarEfecto
  <2>5. TypeOK'
    BY <1>2, <1>3, <2>1, <2>2, <2>4 DEF Inv, TypeOK
  <2>6. IndexadoHastaAhora'
    BY <2>2 DEF IndexadoHastaAhora
  <2>7. vectorContiene(indice'[a], conv)
    BY <1>1, <1>6, <2>4 DEF IdsConversacion
  <2>8. ASSUME NEW t \in Telefonos, NEW c \in DOMAIN conversaciones,
               t \in UsuariosDe(c), c \notin cortadas'
        PROVE  vectorContiene(indice'[t], c)
    <3>1. CASE c = conv
      BY <1>1, <2>4, <2>7, <2>8, <3>1 DEF UsuariosDe
    <3>2. CASE c # conv
      BY <2>2, <2>4, <2>8, <3>2 DEF Inv, TypeOK, IndiceExacto, EnCurso
    <3> QED BY <3>1, <3>2
  <2>9. IndiceExacto'
    BY <1>2, <2>4, <2>8 DEF IndiceExacto, Existe, UsuariosDe, vectorContiene
  <2> QED BY <1>3, <2>5, <2>6, <2>9 DEF Inv
<1> QED BY <1>4, <1>5, <1>6, <1>n, <1>d

-----------------------------------------------------------------------------
(* The index, with nothing being stored, when the handler ends or waits.   *)
LEMMA SinEnCurso ==
    ASSUME Inv, paso # "indexar", paso' # "indexar",
           UNCHANGED <<conversaciones, indice, cortadas>>
    PROVE  UnaPorPar' /\ IndexadoHastaAhora' /\ IndiceExacto'
BY DEF Inv, UnaPorPar, IndexadoHastaAhora, IndiceExacto, Existe, vectorContiene,
       UsuariosDe, EnCurso

(* The accounts are as they were.                                          *)
LEMMA CuentasIguales ==
    ASSUME Inv, UNCHANGED <<usuarios, reloj, sesion, perdidas>>,
           respuesta'.success \in BOOLEAN, disco' \in BOOLEAN
    PROVE  TypeOKUsuarios' /\ SesionInv'
BY DEF Inv, TypeOK, TypeOKUsuarios, SesionInv, Registrado

LEMMA RechazarPreserva ==
    ASSUME Inv, NEW servicio, Rechazar(servicio)
    PROVE  Inv'
<1>1. UNCHANGED <<usuarios, reloj, sesion, perdidas>> /\ respuesta'.success \in BOOLEAN
  BY RespuestaTipo, Zenon DEF Rechazar
<1>d. disco' = disco /\ disco' \in BOOLEAN
  BY Zenon DEF Rechazar, Inv, TypeOK, TypeOKUsuarios
<1>2. UNCHANGED <<conversaciones, indice, paso, pedido, contactos, conv, porIndexar,
                  cortadas>>
  BY DEF Rechazar, varsConversaciones
<1>3. TypeOKUsuarios' /\ SesionInv'
  BY <1>1, <1>d, CuentasIguales
<1>4. UnaPorPar' /\ IndexadoHastaAhora' /\ IndiceExacto'
  BY <1>2, <1>d, SinEscribir
<1> QED BY <1>2, <1>3, <1>4 DEF Inv, TypeOK

LEMMA MensajePreserva ==
    ASSUME Inv, EnviarMensaje
    PROVE  Inv'
<1>1. PICK e \in Telefonos, r \in Telefonos, k \in TokensPosibles, c \in Cuerpos,
           f \in Fechas : almacenarConversacion(e, r, k, c, f)
  BY DEF EnviarMensaje
<1>2. CASE Registrado(e) /\ Registrado(r) /\ usuarios[e].token = k
  <2> DEFINE m == Mensaje(c, e, f)
  <2>1. /\ paso = "libre"
        /\ PersistirConversacion(e, r, m)
        /\ pedido' = [servicio |-> "mensaje", emisor |-> e, mensaje |-> m,
                      destinos |-> <<r>>]
        /\ UNCHANGED <<usuarios, reloj, respuesta, sesion, perdidas, contactos>>
    BY <1>1, <1>2 DEF almacenarConversacion, varsCuentas
  <2>2. m \in Mensajes
    BY DEF Mensajes
  <2> HIDE DEF m
  <2>3. /\ UnaPorPar' /\ IndexadoHastaAhora' /\ IndiceExacto'
        /\ DOMAIN conversaciones' \subseteq IdsConversacion
        /\ conversaciones' \in
              [DOMAIN conversaciones' -> Seq(Mensajes \cup {Ilegible})]
        /\ paso' = "indexar" /\ conv' \in IdsConversacion
        /\ porIndexar' \in Seq(Telefonos) /\ UNCHANGED <<indice, cortadas>>
        /\ disco' \in BOOLEAN
    BY <2>1, <2>2, PersistirPreserva
  <2>4. TypeOKUsuarios' /\ SesionInv'
    BY <2>1, <2>3, CuentasIguales DEF Inv, TypeOK, TypeOKUsuarios
  <2>5. pedido'.emisor \in Telefonos /\ pedido'.mensaje \in Mensajes
    BY <2>1, <2>2
  <2> QED BY <2>1, <2>3, <2>4, <2>5 DEF Inv, TypeOK
<1>3. CASE ~(Registrado(e) /\ Registrado(r) /\ usuarios[e].token = k)
  BY <1>1, <1>3, RechazarPreserva DEF almacenarConversacion
<1> QED BY <1>2, <1>3

LEMMA DifusionPreserva ==
    ASSUME Inv, EnviarDifusion
    PROVE  Inv'
<1>1. PICK e \in Telefonos, k \in TokensPosibles, l \in ListasDeContactos, c \in Cuerpos,
           f \in Fechas : almacenarListaDifusion(e, k, l, c, f)
  BY DEF EnviarDifusion
<1>2. CASE Registrado(e) /\ usuarios[e].token = k
  <2> DEFINE m == Mensaje(c, e, f)
  <2>1. /\ paso = "libre" /\ paso' = "recorrer" /\ contactos' = l
        /\ pedido' = [servicio |-> "difusion", emisor |-> e, mensaje |-> m,
                      destinos |-> l]
        /\ UNCHANGED <<usuarios, reloj, respuesta, disco, sesion, perdidas, conversaciones,
                       indice, conv, porIndexar, cortadas>>
    BY <1>1, <1>2 DEF almacenarListaDifusion, varsUsuarios
  <2>2. m \in Mensajes
    BY DEF Mensajes
  <2> HIDE DEF m
  <2>3. UnaPorPar' /\ IndexadoHastaAhora' /\ IndiceExacto'
    BY <2>1, SinEnCurso
  <2>4. TypeOKUsuarios' /\ SesionInv'
    BY <2>1, CuentasIguales DEF Inv, TypeOK, TypeOKUsuarios
  <2>5. pedido'.emisor \in Telefonos /\ pedido'.mensaje \in Mensajes
    BY <2>1, <2>2
  <2>6. l \in Seq(Telefonos)
    <3>1. PICK n \in 0 .. MaxContactos : l \in [1 .. n -> Telefonos]
      BY DEF ListasDeContactos
    <3> QED BY <3>1, CotasNat
  <2> QED BY <2>1, <2>3, <2>4, <2>5, <2>6 DEF Inv, TypeOK
<1>3. CASE ~(Registrado(e) /\ usuarios[e].token = k)
  BY <1>1, <1>3, RechazarPreserva DEF almacenarListaDifusion
<1> QED BY <1>2, <1>3

LEMMA RecorrerPreserva ==
    ASSUME Inv, RecorrerContacto
    PROVE  Inv'
<1> DEFINE t == Head(contactos)
<1>1. /\ paso = "recorrer" /\ contactos # <<>> /\ contactos' = Tail(contactos)
      /\ UNCHANGED <<usuarios, reloj, respuesta, sesion, perdidas, pedido>>
  BY DEF RecorrerContacto, varsCuentas
<1>2. /\ t \in Telefonos /\ contactos' \in Seq(Telefonos)
      /\ pedido.emisor \in Telefonos /\ pedido.mensaje \in Mensajes
  BY <1>1 DEF Inv, TypeOK
<1>3. respuesta'.success \in BOOLEAN
  BY <1>1 DEF Inv, TypeOK, TypeOKUsuarios
<1>4. CASE Registrado(t) /\ usuarios[t].conectado
  <2>1. PersistirConversacion(pedido.emisor, t, pedido.mensaje)
    BY <1>4 DEF RecorrerContacto
  <2> HIDE DEF t
  <2>2. /\ UnaPorPar' /\ IndexadoHastaAhora' /\ IndiceExacto'
        /\ DOMAIN conversaciones' \subseteq IdsConversacion
        /\ conversaciones' \in
              [DOMAIN conversaciones' -> Seq(Mensajes \cup {Ilegible})]
        /\ paso' = "indexar" /\ conv' \in IdsConversacion
        /\ porIndexar' \in Seq(Telefonos) /\ UNCHANGED <<indice, cortadas>>
        /\ disco' \in BOOLEAN
    BY <1>1, <1>2, <2>1, PersistirPreserva
  <2>3. TypeOKUsuarios' /\ SesionInv'
    BY <1>1, <1>3, <2>2, CuentasIguales
  <2> QED BY <1>1, <1>2, <2>2, <2>3 DEF Inv, TypeOK
<1>5. CASE ~(Registrado(t) /\ usuarios[t].conectado)
  <2>1. UNCHANGED <<disco, conversaciones, indice, paso, conv, porIndexar, cortadas>>
    BY <1>5 DEF RecorrerContacto
  <2>2. UnaPorPar' /\ IndexadoHastaAhora' /\ IndiceExacto'
    BY <2>1, SinEscribir
  <2>3. disco' \in BOOLEAN
    BY <2>1, Zenon DEF Inv, TypeOK, TypeOKUsuarios
  <2>4. TypeOKUsuarios' /\ SesionInv'
    BY <1>1, <1>3, <2>3, CuentasIguales
  <2> QED BY <1>1, <1>2, <2>1, <2>2, <2>4 DEF Inv, TypeOK
<1> QED BY <1>4, <1>5

LEMMA ResponderPreserva ==
    ASSUME Inv, ResponderPedido
    PROVE  Inv'
<1>1. /\ paso = "recorrer" /\ paso' = "libre" /\ contactos' = <<>> /\ porIndexar' = <<>>
      /\ UNCHANGED <<usuarios, reloj, sesion, perdidas, conversaciones, indice, cortadas>>
  BY DEF ResponderPedido, Terminar
<1>2. respuesta'.success \in BOOLEAN
  BY RespuestaTipo, Zenon DEF ResponderPedido
<1>d. disco' \in BOOLEAN
  BY Zenon DEF ResponderPedido, Inv, TypeOK, TypeOKUsuarios
<1>3. TypeOKUsuarios' /\ SesionInv'
  BY <1>1, <1>2, <1>d, CuentasIguales
<1>4. UnaPorPar' /\ IndexadoHastaAhora' /\ IndiceExacto'
  BY <1>1, SinEnCurso
<1> QED BY <1>1, <1>3, <1>4 DEF Inv, TypeOK

(* A crash in the middle of a store leaves the conversation among the      *)
(* interrupted ones.                                                       *)
LEMMA CaidaPreserva ==
    ASSUME Inv, Caida
    PROVE  Inv'
<1>1. /\ paso' = "libre" /\ contactos' = <<>> /\ porIndexar' = <<>>
      /\ cortadas' = IF paso = "indexar" /\ disco THEN cortadas \cup {conv} ELSE cortadas
      /\ UNCHANGED <<usuarios, reloj, sesion, perdidas, conversaciones, indice>>
  BY DEF Caida, Terminar
<1>2. respuesta'.success \in BOOLEAN
  BY RespuestaTipo, Zenon DEF Caida
<1>d. disco' \in BOOLEAN
  BY Zenon DEF Caida
<1>3. TypeOKUsuarios' /\ SesionInv'
  BY <1>1, <1>2, <1>d, CuentasIguales
<1>4. UnaPorPar' /\ IndexadoHastaAhora'
  BY <1>1 DEF Inv, UnaPorPar, IndexadoHastaAhora, Existe
<1>5. IndiceExacto'
  BY <1>1 DEF Inv, IndiceExacto, Existe, vectorContiene, UsuariosDe, EnCurso
<1>6. TypeOK'
  BY <1>1, <1>3 DEF Inv, TypeOK
<1> QED BY <1>3, <1>4, <1>5, <1>6 DEF Inv

(* The services of the accounts, the clock, a restart.                     *)
LEMMA CuentasPreserva ==
    ASSUME Inv, AdministrarCuentas
    PROVE  Inv'
<1>1. /\ paso = "libre"
      /\ UNCHANGED <<conversaciones, indice, paso, pedido, contactos, conv, porIndexar,
                     cortadas>>
  BY DEF AdministrarCuentas, varsConversaciones
<1>2. TypeOKUsuarios' /\ SesionInv'
  BY ServicioPreserva, SegundoPreserva DEF AdministrarCuentas, NextUsuarios, Inv, TypeOK
<1>3. UnaPorPar' /\ IndexadoHastaAhora' /\ IndiceExacto'
  BY <1>1, SinEnCurso
<1> QED BY <1>1, <1>2, <1>3 DEF Inv, TypeOK

LEMMA NadaPreserva ==
    ASSUME Inv, UNCHANGED vars
    PROVE  Inv'
<1>1. UNCHANGED <<disco, conversaciones, indice, paso, pedido, contactos, conv, porIndexar,
                  cortadas>>
  BY DEF vars, varsUsuarios, varsConversaciones
<1>2. TypeOKUsuarios' /\ SesionInv'
  BY DEF vars, varsUsuarios, Inv, TypeOK, TypeOKUsuarios, SesionInv, Registrado
<1>3. UnaPorPar' /\ IndexadoHastaAhora' /\ IndiceExacto'
  BY <1>1, SinEscribir
<1> QED BY <1>1, <1>2, <1>3 DEF Inv, TypeOK

LEMMA InicioServidor == InitServidor => Inv
<1> SUFFICES ASSUME InitServidor PROVE Inv
  OBVIOUS
<1>1. TypeOKUsuarios /\ SesionInv
  BY InicioUsuarios DEF InitServidor
<1>2. TypeOK
  BY <1>1 DEF InitServidor, TypeOK
<1>3. UnaPorPar /\ IndexadoHastaAhora
  BY DEF InitServidor, UnaPorPar, IndexadoHastaAhora, Existe
<1>4. IndiceExacto
  <2>1. \A t \in Telefonos : \A i \in DOMAIN indice[t] :
            i = 1 /\ indice[t][i] = DatoNoEncontrado
    <3>1. \A t \in Telefonos : indice[t] = <<DatoNoEncontrado>>
      BY DEF InitServidor
    <3>2. \A i \in DOMAIN <<DatoNoEncontrado>> :
              i = 1 /\ <<DatoNoEncontrado>>[i] = DatoNoEncontrado
      OBVIOUS
    <3> QED BY <3>1, <3>2, Zenon
  <2>2. DOMAIN conversaciones = {}
    BY DEF InitServidor
  <2> QED BY <2>1, <2>2 DEF IndiceExacto
<1> QED BY <1>1, <1>2, <1>3, <1>4 DEF Inv

LEMMA PasoServidor == Inv /\ [NextServidor]_vars => Inv'
BY MensajePreserva, DifusionPreserva, RecorrerPreserva, IndexarPreserva,
   ResponderPreserva, CaidaPreserva, CuentasPreserva, NadaPreserva
   DEF NextServidor, Manejador

LEMMA InvSiempre == SpecServidor => []Inv
BY InicioServidor, PasoServidor, PTL DEF SpecServidor

-----------------------------------------------------------------------------
(* The store of the server is well typed in every reachable state.         *)
THEOREM TipoServidor == SpecServidor => []TypeOK
<1>1. Inv => TypeOK
  BY DEF Inv
<1> QED BY <1>1, InvSiempre, PTL

(* Two users get the same conversation id whichever of them asks.          *)
THEOREM MismaConversacionSiempre == SpecServidor => []MismaConversacion
<1>1. Inv => MismaConversacion
  BY DEF Inv, UnaPorPar, MismaConversacion, obtenerIdConversacion
<1> QED BY <1>1, InvSiempre, PTL

(* The index of every user is exact but for stores cut by a crash or by a  *)
(* failed write, and the next message of such a conversation repairs it.   *)
THEOREM IndiceSiempreExacto == SpecServidor => []IndiceExacto
<1>1. Inv => IndiceExacto
  BY DEF Inv
<1> QED BY <1>1, InvSiempre, PTL

(* The sessions survive every service of the server, crashes included.     *)
THEOREM SesionVigenteEnServidor == SpecServidor => []SesionVigente
<1>1. Inv => SesionVigente
  BY DEF Inv, SesionInv, SesionVigente
<1> QED BY <1>1, InvSiempre, PTL

(* A step keeps the messages of every stored conversation in their places. *)
LEMMA PasoHistorial ==
    Inv /\ [NextServidor]_vars => [\A c \in DOMAIN conversaciones : SoloCrece(c)]_vars
<1> SUFFICES ASSUME Inv, NextServidor
             PROVE  \A c \in DOMAIN conversaciones : SoloCrece(c)
  OBVIOUS
<1>1. ASSUME UNCHANGED conversaciones
      PROVE  \A c \in DOMAIN conversaciones : SoloCrece(c)
  <2>1. \A c \in DOMAIN conversaciones : Len(conversaciones[c]) \in Nat
    BY DEF Inv, TypeOK
  <2> QED BY <1>1, <2>1 DEF SoloCrece
<1>2. ASSUME NEW e \in Telefonos, NEW r \in Telefonos, NEW m \in Mensajes,
             PersistirConversacion(e, r, m)
      PROVE  \A c \in DOMAIN conversaciones : SoloCrece(c)
  BY <1>2, ConversacionDeTipo, GuardarEfecto DEF Inv, PersistirConversacion, SoloCrece
<1>3. CASE EnviarMensaje
  <2>1. PICK e \in Telefonos, r \in Telefonos, k \in TokensPosibles, c \in Cuerpos,
             f \in Fechas : almacenarConversacion(e, r, k, c, f)
    BY <1>3 DEF EnviarMensaje
  <2>2. Mensaje(c, e, f) \in Mensajes
    BY DEF Mensajes
  <2> QED BY <1>1, <1>2, <2>1, <2>2
          DEF almacenarConversacion, Rechazar, varsConversaciones
<1>4. CASE EnviarDifusion
  BY <1>1, <1>4 DEF EnviarDifusion, almacenarListaDifusion, Rechazar, varsConversaciones
<1>5. CASE RecorrerContacto
  <2>1. /\ Head(contactos) \in Telefonos
        /\ pedido.emisor \in Telefonos /\ pedido.mensaje \in Mensajes
    BY <1>5 DEF Inv, TypeOK, RecorrerContacto
  <2> QED BY <1>1, <1>2, <1>5, <2>1 DEF RecorrerContacto
<1>6. CASE IndexarUsuario \/ ResponderPedido \/ Caida
  BY <1>1, <1>6 DEF IndexarUsuario, ResponderPedido, Caida
<1>7. CASE AdministrarCuentas
  BY <1>1, <1>7 DEF AdministrarCuentas, varsConversaciones
<1> QED BY <1>3, <1>4, <1>5, <1>6, <1>7 DEF NextServidor, Manejador

(* No message that was stored is ever lost, changed or moved.              *)
THEOREM HistorialSiempreCrece == SpecServidor => HistorialSoloCrece
BY InvSiempre, PasoHistorial, PTL DEF SpecServidor, HistorialSoloCrece

-----------------------------------------------------------------------------
(* What is needed further for the listing and for the replies.             *)
(* No conversation is stored without messages.                             *)
SinVacias == \A c \in DOMAIN conversaciones : conversaciones[c] # <<>>

(* Of the contacts of a request only a broadcast leaves some for later.    *)
ContactosDelPedido ==
    /\ paso = "libre" \/ pedido.servicio = "mensaje" => contactos = <<>>
    /\ paso # "libre" => pedido.destinos \in Seq(Telefonos)

Corresponde(t) == pedido.servicio = "mensaje" \/ (Registrado(t) /\ usuarios[t].conectado)

Ultimo(c) == conversaciones[c][Len(conversaciones[c])]

(* The message of the request is the last one of conversation c, and the   *)
(* index of t and of the sender have c or are about to.                    *)
Puesto(c, t) ==
    /\ Existe(c) /\ Ultimo(c) = pedido.mensaje
    /\ \/ vectorContiene(indice[t], c) /\ vectorContiene(indice[pedido.emisor], c)
       \/ paso = "indexar" /\ c = conv

(* While the writes work, whoever is to get the message of the request has *)
(* it unless it is among the contacts still to be served.                  *)
Repartido ==
    paso # "libre" /\ disco /\ pedido.mensaje.cuerpo \notin ConSeparador =>
        \A t \in Telefonos : Contiene(pedido.destinos, t) /\ Corresponde(t) =>
            Contiene(contactos, t) \/ Puesto(ConversacionDe(pedido.emisor, t), t)

Entrega == SinVacias /\ ContactosDelPedido /\ Repartido

LEMMA ConcatUltimo ==
    ASSUME NEW S, NEW s \in Seq(S), NEW t \in Seq(S), t # <<>>
    PROVE  s \o t # <<>> /\ (s \o t)[Len(s \o t)] = t[Len(t)]
<1>1. Len(s) \in Nat /\ Len(t) \in Nat /\ Len(t) # 0
  BY EmptySeq, LenProperties
<1>2. s \o t \in Seq(S) /\ Len(s \o t) = Len(s) + Len(t)
  BY ConcatProperties
<1>3. (s \o t)[Len(s) + Len(t)] = t[Len(t)]
  BY <1>1, ConcatProperties
<1>4. s \o t # <<>>
  BY <1>1, <1>2, EmptySeq
<1> QED BY <1>2, <1>3, <1>4

(* The first write of setConversacion leaves the message at the end of the *)
(* conversation, and the others as they were.                              *)
LEMMA GuardarUltimo ==
    ASSUME TypeOK, NEW c \in IdsConversacion, NEW m \in Mensajes,
           GuardarConversacion(c, m), disco'
    PROVE  /\ DOMAIN conversaciones' = DOMAIN conversaciones \cup {c}
           /\ conversaciones'[c] # <<>>
           /\ m.cuerpo \notin ConSeparador => Ultimo(c)' = m
           /\ \A d \in DOMAIN conversaciones : d # c => conversaciones'[d] = conversaciones[d]
<1> DEFINE antes == IF Existe(c) THEN conversaciones[c] ELSE <<>>
           S == Mensajes \cup {Ilegible}
           trozos == TrozosDe(m)
           despues == antes \o trozos
<1>1. antes \in Seq(S)
  BY DEF TypeOK, Existe
<1>2. trozos \in Seq(S)
  BY TrozosTipo
<1>3. trozos # <<>>
  BY DEF TrozosDe
<1>4. m.cuerpo \notin ConSeparador => trozos[Len(trozos)] = m
  BY DEF TrozosDe
<1>5. conversaciones' = setDato(conversaciones, c, despues)
  BY DEF GuardarConversacion
<1> HIDE DEF antes, S, trozos
<1>6. despues # <<>> /\ despues[Len(despues)] = trozos[Len(trozos)]
  BY <1>1, <1>2, <1>3, ConcatUltimo
<1> HIDE DEF despues
<1>7. /\ DOMAIN conversaciones' = DOMAIN conversaciones \cup {c}
      /\ conversaciones'[c] = despues
      /\ \A d \in DOMAIN conversaciones : d # c => conversaciones'[d] = conversaciones[d]
  BY <1>5 DEF setDato
<1> QED BY <1>4, <1>6, <1>7, Zenon DEF Ultimo

(* A message stored does not change where those of the same sender go.     *)
LEMMA ConversacionEstable ==
    ASSUME NEW e \in Telefonos, NEW r \in Telefonos, NEW t \in Telefonos,
           DOMAIN conversaciones' = DOMAIN conversaciones \cup {ConversacionDe(e, r)}
    PROVE  /\ Existe(ConversacionDe(e, t)) => ConversacionDe(e, t)' = ConversacionDe(e, t)
           /\ ConversacionDe(e, r)' = ConversacionDe(e, r)
BY DEF ConversacionDe, Existe

(* Storing the message of a request keeps those it stored before.          *)
LEMMA PersistirReparte ==
    ASSUME Inv, SinVacias, NEW e \in Telefonos, NEW r \in Telefonos, NEW m \in Mensajes,
           PersistirConversacion(e, r, m), pedido'.emisor = e, pedido'.mensaje = m
    PROVE  /\ SinVacias'
           /\ disco' /\ m.cuerpo \notin ConSeparador =>
                 /\ Puesto(ConversacionDe(pedido.emisor, r), r)'
                 /\ \A t \in Telefonos :
                       pedido' = pedido /\ paso # "indexar"
                           /\ Puesto(ConversacionDe(pedido.emisor, t), t)
                       => Puesto(ConversacionDe(pedido.emisor, t), t)'
<1>1. PICK c \in IdsConversacion : c = ConversacionDe(e, r)
  BY ConversacionDeTipo, Zenon
<1>2. /\ GuardarConversacion(c, m) /\ conv' = c /\ paso' = "indexar" /\ indice' = indice
  BY <1>1, Zenon DEF PersistirConversacion
<1>3. disco' \in BOOLEAN /\ (~disco' => conversaciones' = conversaciones)
  BY <1>2 DEF GuardarConversacion, Put
<1>4. CASE ~disco'
  BY <1>3, <1>4, Zenon DEF SinVacias
<1>5. CASE disco'
  <2>1. /\ DOMAIN conversaciones' = DOMAIN conversaciones \cup {c}
        /\ conversaciones'[c] # <<>>
        /\ m.cuerpo \notin ConSeparador => Ultimo(c)' = m
        /\ \A d \in DOMAIN conversaciones : d # c => conversaciones'[d] = conversaciones[d]
    BY <1>1, <1>2, <1>5, GuardarUltimo, Zenon DEF Inv
  <2>2. SinVacias'
    BY <2>1, Zenon DEF SinVacias
  <2>3. ConversacionDe(e, r)' = c
    BY <1>1, <2>1, ConversacionEstable
  <2>4. ASSUME m.cuerpo \notin ConSeparador PROVE Puesto(ConversacionDe(pedido.emisor, r), r)'
    <3>1. ConversacionDe(pedido.emisor, r)' = c
      BY <2>3 DEF ConversacionDe
    <3>2. Existe(c)' /\ Ultimo(c)' = m
      BY <2>1, <2>4 DEF Existe
    <3> QED BY <1>2, <3>1, <3>2 DEF Puesto, Existe, Ultimo
  <2>5. ASSUME m.cuerpo \notin ConSeparador, NEW t \in Telefonos, pedido' = pedido, paso # "indexar",
               Puesto(ConversacionDe(pedido.emisor, t), t)
        PROVE  Puesto(ConversacionDe(pedido.emisor, t), t)'
    <3>1. PICK d : d = ConversacionDe(e, t)
      BY Zenon
    <3>2. pedido.emisor = e /\ pedido.mensaje = m
      BY <2>5, Zenon
    <3>3. /\ d \in DOMAIN conversaciones /\ Ultimo(d) = m
          /\ vectorContiene(indice[t], d) /\ vectorContiene(indice[e], d)
      BY <2>5, <3>1, <3>2, Zenon DEF Puesto, Existe
    <3>4. ConversacionDe(e, t)' = d
      BY <1>1, <2>1, <3>1, <3>3, ConversacionEstable DEF Existe
    <3>5. ConversacionDe(pedido.emisor, t)' = d
      BY <3>4 DEF ConversacionDe
    <3>6. Ultimo(d)' = m
      BY <2>1, <2>5, <3>3, Zenon DEF Ultimo
    <3>7. Existe(d)'
      BY <2>1, <3>3, Zenon DEF Existe
    <3> QED BY <1>2, <3>3, <3>5, <3>6, <3>7 DEF Puesto, Existe, Ultimo, vectorContiene
  <2> QED BY <2>2, <2>4, <2>5
<1> QED BY <1>3, <1>4, <1>5

(* With no request being served there is nothing to hand out.              *)
LEMMA EntregaLibre ==
    ASSUME Entrega, paso' = "libre", contactos' = <<>>, conversaciones' = conversaciones
    PROVE  Entrega'
BY Zenon DEF Entrega, SinVacias, ContactosDelPedido, Repartido

LEMMA RechazarEntrega ==
    ASSUME Entrega, paso = "libre", NEW servicio, Rechazar(servicio)
    PROVE  Entrega'
<1>1. UNCHANGED <<paso, contactos, conversaciones>>
  BY DEF Rechazar, varsConversaciones
<1>2. contactos = <<>>
  BY Zenon DEF Entrega, ContactosDelPedido
<1> QED BY <1>1, <1>2, EntregaLibre

LEMMA MensajeEntrega ==
    ASSUME Inv, Entrega, EnviarMensaje
    PROVE  Entrega'
<1>1. PICK e \in Telefonos, r \in Telefonos, k \in TokensPosibles, c \in Cuerpos,
           f \in Fechas : almacenarConversacion(e, r, k, c, f)
  BY DEF EnviarMensaje
<1>2. CASE Registrado(e) /\ Registrado(r) /\ usuarios[e].token = k
  <2>1. PICK m \in Mensajes : m = Mensaje(c, e, f)
    BY DEF Mensajes
  <2>2. /\ paso = "libre" /\ PersistirConversacion(e, r, m) /\ contactos' = contactos
        /\ pedido' = [servicio |-> "mensaje", emisor |-> e, mensaje |-> m, destinos |-> <<r>>]
    BY <1>1, <1>2, <2>1 DEF almacenarConversacion
  <2>3. /\ pedido'.emisor = e /\ pedido'.mensaje = m /\ pedido'.destinos = <<r>>
        /\ pedido'.servicio = "mensaje"
    BY <2>2
  <2>4. /\ SinVacias'
        /\ disco' /\ m.cuerpo \notin ConSeparador => Puesto(ConversacionDe(pedido.emisor, r), r)'
    BY <2>2, <2>3, PersistirReparte DEF Entrega
  <2>5. paso' = "indexar"
    BY <2>2 DEF PersistirConversacion
  <2>6. <<r>> \in Seq(Telefonos) /\ \A t : Contiene(<<r>>, t) => t = r
    BY DEF Contiene
  <2>7. ContactosDelPedido'
    BY <2>2, <2>3, <2>5, <2>6 DEF Entrega, ContactosDelPedido
  <2>8. Repartido'
    BY <2>3, <2>4, <2>6, Zenon DEF Repartido
  <2> QED BY <2>4, <2>7, <2>8 DEF Entrega
<1>3. CASE ~(Registrado(e) /\ Registrado(r) /\ usuarios[e].token = k)
  BY <1>1, <1>3, RechazarEntrega DEF almacenarConversacion
<1> QED BY <1>2, <1>3

LEMMA DifusionEntrega ==
    ASSUME Entrega, EnviarDifusion
    PROVE  Entrega'
<1>1. PICK e \in Telefonos, k \in TokensPosibles, l \in ListasDeContactos, c \in Cuerpos,
           f \in Fechas : almacenarListaDifusion(e, k, l, c, f)
  BY DEF EnviarDifusion
<1>2. CASE Registrado(e) /\ usuarios[e].token = k
  <2>1. /\ paso' = "recorrer" /\ contactos' = l /\ pedido'.destinos = l
        /\ pedido'.servicio = "difusion" /\ conversaciones' = conversaciones
    BY <1>1, <1>2 DEF almacenarListaDifusion
  <2>2. l \in Seq(Telefonos)
    <3>1. PICK n \in 0 .. MaxContactos : l \in [1 .. n -> Telefonos]
      BY DEF ListasDeContactos
    <3> QED BY <3>1, CotasNat
  <2>3. ContactosDelPedido' /\ SinVacias'
    BY <2>1, <2>2 DEF Entrega, ContactosDelPedido, SinVacias
  <2>4. Repartido'
    BY <2>1, Zenon DEF Repartido
  <2> QED BY <2>3, <2>4 DEF Entrega
<1>3. CASE ~(Registrado(e) /\ usuarios[e].token = k)
  BY <1>1, <1>3, RechazarEntrega DEF almacenarListaDifusion
<1> QED BY <1>2, <1>3

LEMMA PrimeroOResto ==
    ASSUME NEW S, NEW s \in Seq(S), s # <<>>, NEW x, Contiene(s, x)
    PROVE  x = Head(s) \/ Contiene(Tail(s), x)
<1>1. PICK i \in 1 .. Len(s) : s[i] = x
  BY DEF Contiene
<1>2. CASE i = 1
  BY <1>1, <1>2
<1>3. CASE i # 1
  <2>1. i - 1 \in 1 .. Len(Tail(s)) /\ Tail(s)[i - 1] = s[i]
    BY <1>1, <1>3
  <2>2. DOMAIN Tail(s) = 1 .. Len(Tail(s))
    BY HeadTailProperties, LenProperties
  <2> QED BY <1>1, <2>1, <2>2, Zenon DEF Contiene
<1> QED BY <1>2, <1>3

LEMMA RecorrerEntrega ==
    ASSUME Inv, Entrega, RecorrerContacto
    PROVE  Entrega'
<1>1. /\ paso = "recorrer" /\ contactos # <<>> /\ contactos' = Tail(contactos)
      /\ UNCHANGED <<usuarios, pedido>>
  BY DEF RecorrerContacto, varsCuentas
<1>2. PICK r \in Telefonos : r = Head(contactos)
  BY <1>1 DEF Inv, TypeOK
<1>3. /\ contactos \in Seq(Telefonos)
      /\ pedido.emisor \in Telefonos /\ pedido.mensaje \in Mensajes
  BY <1>1 DEF Inv, TypeOK
<1>4. \A t : Contiene(contactos, t) => t = r \/ Contiene(contactos', t)
  BY <1>1, <1>2, <1>3, PrimeroOResto
<1>5. pedido.servicio # "mensaje" /\ pedido.destinos \in Seq(Telefonos)
  BY <1>1 DEF Entrega, ContactosDelPedido
<1>6. \A t : Corresponde(t)' <=> Corresponde(t)
  BY <1>1 DEF Corresponde, Registrado
<1>7. CASE Registrado(r) /\ usuarios[r].conectado
  <2>1. PersistirConversacion(pedido.emisor, r, pedido.mensaje)
    BY <1>2, <1>7 DEF RecorrerContacto
  <2>2. PICK e \in Telefonos, m \in Mensajes : e = pedido.emisor /\ m = pedido.mensaje
    BY <1>3, Zenon
  <2>3. PersistirConversacion(e, r, m) /\ pedido'.emisor = e /\ pedido'.mensaje = m
    BY <1>1, <2>1, <2>2, Zenon
  <2>4. /\ SinVacias'
        /\ disco' /\ m.cuerpo \notin ConSeparador =>
              /\ Puesto(ConversacionDe(pedido.emisor, r), r)'
              /\ \A t \in Telefonos : Puesto(ConversacionDe(pedido.emisor, t), t)
                    => Puesto(ConversacionDe(pedido.emisor, t), t)'
    BY <1>1, <2>3, PersistirReparte DEF Entrega
  <2>5. paso' = "indexar" /\ (disco' => disco)
    BY <2>1 DEF PersistirConversacion, GuardarConversacion, Put
  <2>6. ContactosDelPedido'
    BY <1>1, <1>5, <2>5 DEF ContactosDelPedido
  <2>7. Repartido'
    <3>1. SUFFICES ASSUME disco', m.cuerpo \notin ConSeparador, NEW t \in Telefonos,
                          Contiene(pedido.destinos, t), Corresponde(t)
                   PROVE  Contiene(contactos', t) \/ Puesto(ConversacionDe(pedido.emisor, t), t)'
      BY <1>1, <1>6, <2>3, Zenon DEF Repartido
    <3>2. Contiene(contactos, t) \/ Puesto(ConversacionDe(pedido.emisor, t), t)
      BY <1>1, <2>2, <2>5, <3>1 DEF Entrega, Repartido
    <3> QED BY <1>4, <2>4, <3>1, <3>2, Zenon
  <2> QED BY <2>4, <2>6, <2>7 DEF Entrega
<1>8. CASE ~(Registrado(r) /\ usuarios[r].conectado)
  <2>1. UNCHANGED <<disco, conversaciones, indice, paso, conv>>
    BY <1>2, <1>8 DEF RecorrerContacto
  <2>2. ~Corresponde(r)
    BY <1>5, <1>8 DEF Corresponde
  <2>3. SinVacias' /\ ContactosDelPedido'
    BY <1>1, <1>5, <2>1 DEF Entrega, ContactosDelPedido, SinVacias
  <2>4. \A t : Puesto(ConversacionDe(pedido.emisor, t), t)
                  => Puesto(ConversacionDe(pedido.emisor, t), t)'
    BY <1>1, <2>1 DEF Puesto, ConversacionDe, Existe, Ultimo, vectorContiene
  <2>5. Repartido'
    BY <1>1, <1>4, <1>6, <2>1, <2>2, <2>4, Zenon DEF Entrega, Repartido
  <2> QED BY <2>3, <2>5 DEF Entrega
<1> QED BY <1>7, <1>8

(* What one turn of the loop over the users of a conversation leaves: the  *)
(* conversation in course or both indexes with it.                         *)
LEMMA IndexarAlcanza ==
    ASSUME Inv, IndexarUsuario, disco'
    PROVE  /\ \A t \in Telefonos, c \in IdsConversacion :
                  vectorContiene(indice[t], c) => vectorContiene(indice'[t], c)
           /\ \/ paso' = "indexar" /\ conv' = conv
              \/ \A t \in UsuariosDe(conv) : vectorContiene(indice'[t], conv)
<1>1. PICK a \in Telefonos, b \in Telefonos : conv = <<a, b>>
  BY DEF Inv, TypeOK, IndexarUsuario, IdsConversacion
<1>2. /\ paso = "indexar" /\ disco /\ conversaciones' = conversaciones
      /\ indice' = [indice EXCEPT ![Head(porIndexar)] = AgregarAlIndice(@, conv)]
      /\ IF Tail(porIndexar) = <<>> THEN TRUE ELSE UNCHANGED <<paso, conv>>
  BY DEF IndexarUsuario, Put
<1>3. \/ porIndexar = <<a, b>>
      \/ porIndexar = <<b>> /\ vectorContiene(indice[a], conv)
  BY <1>1, <1>2 DEF Inv, IndexadoHastaAhora
<1>4. PICK u \in UsuariosDe(conv) : u = Head(porIndexar)
  BY <1>1, <1>3 DEF UsuariosDe
<1>5. /\ vectorContiene(indice'[u], conv)
      /\ \A t \in Telefonos : \A c \in IdsConversacion :
            vectorContiene(indice[t], c) => vectorContiene(indice'[t], c)
  BY <1>2, <1>4, IndexarEfecto
<1>6. CASE porIndexar = <<a, b>>
  <2>1. Tail(porIndexar) # <<>>
    BY <1>6
  <2> QED BY <1>2, <1>5, <2>1
<1>7. CASE porIndexar = <<b>> /\ vectorContiene(indice[a], conv)
  <2>1. u = b
    BY <1>4, <1>7
  <2>2. conv \in IdsConversacion
    BY <1>1 DEF IdsConversacion
  <2>3. \A t \in UsuariosDe(conv) : t = a \/ t = b
    BY <1>1 DEF UsuariosDe
  <2> QED BY <1>5, <1>7, <2>1, <2>2, <2>3, Zenon
<1> QED BY <1>3, <1>6, <1>7

LEMMA IndexarEntrega ==
    ASSUME Inv, Entrega, IndexarUsuario
    PROVE  Entrega'
<1>1. /\ paso = "indexar" /\ paso' \in {"indexar", "recorrer"}
      /\ UNCHANGED <<usuarios, conversaciones, pedido, contactos>>
      /\ disco' => disco
  BY DEF IndexarUsuario, varsCuentas, Put
<1>2. SinVacias' /\ ContactosDelPedido'
  BY <1>1 DEF Entrega, SinVacias, ContactosDelPedido
<1>3. \A t : Corresponde(t)' <=> Corresponde(t)
  BY <1>1 DEF Corresponde, Registrado
<1>4. ASSUME disco', NEW t \in Telefonos, Puesto(ConversacionDe(pedido.emisor, t), t)
      PROVE  Puesto(ConversacionDe(pedido.emisor, t), t)'
  <2>1. PICK e \in Telefonos : e = pedido.emisor
    BY <1>1 DEF Inv, TypeOK
  <2>2. PICK c \in IdsConversacion : c = ConversacionDe(e, t) /\ UsuariosDe(c) = {e, t}
    <3>1. ConversacionDe(e, t) \in IdsConversacion
      BY ConversacionDeTipo
    <3>2. UsuariosDe(ConversacionDe(e, t)) = {e, t}
      BY DEF UsuariosDe, ConversacionDe
    <3> QED BY <3>1, <3>2, Zenon
  <2>3. /\ Existe(c) /\ Ultimo(c) = pedido.mensaje
        /\ \/ vectorContiene(indice[t], c) /\ vectorContiene(indice[e], c)
           \/ c = conv
    BY <1>4, <2>1, <2>2, Zenon DEF Puesto
  <2>4. /\ ConversacionDe(pedido.emisor, t)' = c /\ Existe(c)' /\ Ultimo(c)' = pedido'.mensaje
        /\ pedido'.emisor = e
    BY <1>1, <2>1, <2>2, <2>3 DEF ConversacionDe, Existe, Ultimo
  <2>5. \/ vectorContiene(indice'[t], c) /\ vectorContiene(indice'[e], c)
        \/ paso' = "indexar" /\ c = conv'
    BY <1>4, <2>2, <2>3, IndexarAlcanza, Zenon
  <2> QED BY <2>4, <2>5 DEF Puesto, Existe, Ultimo, vectorContiene
<1>5. Repartido'
  BY <1>1, <1>3, <1>4, Zenon DEF Entrega, Repartido
<1> QED BY <1>2, <1>5 DEF Entrega

LEMMA InicioEntrega == InitServidor => Entrega
BY DEF InitServidor, Entrega, SinVacias, ContactosDelPedido, Repartido

LEMMA PasoEntrega == Inv /\ Entrega /\ [NextServidor]_vars => Entrega'
<1> SUFFICES ASSUME Inv, Entrega, [NextServidor]_vars PROVE Entrega'
  OBVIOUS
<1>1. CASE ResponderPedido \/ Caida
  BY <1>1, EntregaLibre DEF ResponderPedido, Caida, Terminar
<1>2. CASE AdministrarCuentas
  <2>1. paso = "libre" /\ UNCHANGED <<paso, contactos, conversaciones>>
    BY <1>2 DEF AdministrarCuentas, varsConversaciones
  <2>2. contactos = <<>>
    BY <2>1, Zenon DEF Entrega, ContactosDelPedido
  <2> QED BY <2>1, <2>2, EntregaLibre
<1>3. CASE UNCHANGED vars
  BY <1>3 DEF vars, varsUsuarios, varsConversaciones, Entrega, SinVacias, ContactosDelPedido,
              Repartido, Corresponde, Puesto, ConversacionDe, Existe, Ultimo, vectorContiene,
              Registrado
<1> QED BY <1>1, <1>2, <1>3, MensajeEntrega, DifusionEntrega, RecorrerEntrega, IndexarEntrega
        DEF NextServidor, Manejador

LEMMA EntregaSiempre == SpecServidor => []Entrega
BY InvSiempre, InicioEntrega, PasoEntrega, PTL DEF SpecServidor

(* Between two requests, a client that asks for its conversations gets all *)
(* it does not have but those cut short, only its own, and none without a  *)
(* last message.                                                           *)
THEOREM ListadoSiempreCompleto == SpecServidor => []ListadoCompleto
<1>1. Inv /\ Entrega => ListadoCompleto
  <2> SUFFICES ASSUME Inv, Entrega, paso = "libre",
                      NEW t \in Telefonos, NEW ya \in SUBSET DOMAIN conversaciones
               PROVE  LET lista == obtenerConversaciones(t, ya)
                          suyas == {c \in DOMAIN conversaciones : t \in UsuariosDe(c)}
                          vistas == {lista[i] : i \in DOMAIN lista}
                      IN  /\ suyas \ (ya \cup cortadas) \subseteq vistas
                          /\ vistas \subseteq suyas \ ya
                          /\ \A c \in vistas : conversaciones[c] # <<>>
    BY DEF ListadoCompleto
  <2> DEFINE lista == obtenerConversaciones(t, ya)
             suyas == {c \in DOMAIN conversaciones : t \in UsuariosDe(c)}
             vistas == {lista[i] : i \in DOMAIN lista}
             S == IdsConversacion \cup {DatoNoEncontrado}
  <2>1. indice[t] \in Seq(S)
    BY DEF Inv, TypeOK
  <2>2. \A c : c \in vistas <=> Contiene(lista, c)
    BY Zenon DEF Contiene
  <2> HIDE DEF S
  <2>3. \A c : c \in vistas <=>
            Contiene(indice[t], c) /\ c \in DOMAIN conversaciones \ ya
    BY <2>1, <2>2, ElegirContiene, Zenon DEF obtenerConversaciones
  <2> HIDE DEF lista, vistas
  <2>4. \A c \in suyas : c \notin cortadas => Contiene(indice[t], c)
    BY DEF Inv, IndiceExacto, EnCurso, vectorContiene, Contiene
  <2>5. \A c : Contiene(indice[t], c) /\ c # DatoNoEncontrado => t \in UsuariosDe(c)
    BY Zenon DEF Inv, IndiceExacto, Contiene
  <2>6. DatoNoEncontrado \notin DOMAIN conversaciones
    BY NoEncontradoNoEsConversacion DEF Inv, TypeOK, IdsConversacion
  <2>7. vistas \subseteq suyas \ ya
    BY <2>3, <2>5, <2>6
  <2>8. suyas \ (ya \cup cortadas) \subseteq vistas
    BY <2>3, <2>4
  <2>9. \A c \in vistas : conversaciones[c] # <<>>
    BY <2>3 DEF Entrega, SinVacias
  <2> QED BY <2>7, <2>8, <2>9 DEF lista, vistas
<1> QED BY <1>1, InvSiempre, EntregaSiempre, PTL

(* A request answered with success was carried out for every receiver,     *)
(* whatever the order of the contacts, their repetitions and the requests  *)
(* cut short before, as long as the writes worked.                         *)
THEOREM ConfirmadoSiempreVisible == SpecServidor => ConfirmadoEsVisible
<1>1. ASSUME Inv, Entrega, NextServidor, paso # "libre", paso' = "libre", respuesta'.success,
             disco, pedido.mensaje.cuerpo \notin ConSeparador,
             NEW i \in DOMAIN DestinatariosDe(pedido)
      PROVE  Recibido(pedido, DestinatariosDe(pedido)[i])
  <2>1. ResponderPedido
    <3>1. ~EnviarMensaje /\ ~EnviarDifusion /\ ~AdministrarCuentas
      BY <1>1 DEF EnviarMensaje, EnviarDifusion, AdministrarCuentas, almacenarConversacion,
                  almacenarListaDifusion
    <3>2. ~RecorrerContacto
      BY <1>1 DEF RecorrerContacto, PersistirConversacion
    <3>3. ~IndexarUsuario
      BY <1>1 DEF IndexarUsuario
    <3>4. ~Caida
      BY <1>1 DEF Caida, Responder
    <3> QED BY <1>1, <3>1, <3>2, <3>3, <3>4 DEF NextServidor, Manejador
  <2>2. paso = "recorrer" /\ contactos = <<>>
    BY <2>1 DEF ResponderPedido
  <2>3. pedido.destinos \in Seq(Telefonos)
    BY <1>1, <2>2 DEF Entrega, ContactosDelPedido
  <2>4. PICK T : T = {u \in DOMAIN usuarios : usuarios[u].conectado}
    BY Zenon
  <2>5. PICK t : t = DestinatariosDe(pedido)[i]
    BY Zenon
  <2>6. Contiene(pedido.destinos, t) /\ Corresponde(t)
    <3>1. CASE pedido.servicio = "mensaje"
      BY <1>1, <2>5, <3>1, Zenon DEF DestinatariosDe, Contiene, Corresponde
    <3>2. CASE pedido.servicio # "mensaje"
      <4>1. Contiene(Elegir(pedido.destinos, T), t)
        BY <1>1, <2>4, <2>5, <3>2, Zenon DEF DestinatariosDe, obtenerContactos, Contiene
      <4>2. Contiene(pedido.destinos, t) /\ t \in T
        BY <2>3, <4>1, ElegirContiene, Zenon
      <4> QED BY <2>4, <4>2, Zenon DEF Corresponde, Registrado
    <3> QED BY <3>1, <3>2
  <2>7. t \in Telefonos
    BY <2>3, <2>6 DEF Contiene
  <2>8. ~Contiene(contactos, t)
    BY <2>2 DEF Contiene
  <2>9. Puesto(ConversacionDe(pedido.emisor, t), t)
    BY <1>1, <2>6, <2>7, <2>8, Zenon DEF Entrega, Repartido
  <2> QED BY <2>2, <2>5, <2>9, Zenon DEF Puesto, Recibido, Ultimo
<1>2. Inv /\ Entrega /\ [NextServidor]_vars =>
      [paso # "libre" /\ paso' = "libre" /\ respuesta'.success /\ disco
           /\ pedido.mensaje.cuerpo \notin ConSeparador
       => \A i \in DOMAIN DestinatariosDe(pedido) :
              Recibido(pedido, DestinatariosDe(pedido)[i])]_vars
  BY <1>1
<1> QED BY <1>2, InvSiempre, EntregaSiempre, PTL DEF SpecServidor, ConfirmadoEsVisible
=============================================================================
