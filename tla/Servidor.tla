------------------------------ MODULE Servidor ------------------------------
(***************************************************************************)
(* The REST server: the accounts of module Usuarios, the conversations     *)
(* and, for each user, the index of the conversations the user takes part  *)
(* in (BaseDeDatos keys "conversacion_" and "conversaciones_por_usuario_").*)
(*                                                                         *)
(* Servidor::ev_handler starts a thread for a request and joins it: the    *)
(* requests are served one at a time.  A handler that stores a message is  *)
(* several writes of the store, one step each here, because the process    *)
(* may end between two of them (Caida); nothing else can happen between    *)
(* them.  A handler with at most one write is one step.  A write that      *)
(* fails does not end the handler: it goes on to the next write.           *)
(*                                                                         *)
(* Abstractions.  The id of the conversation that a opened with b,         *)
(* "md5(a)-md5(b)", is the pair <<a, b>>, which is also the list of its    *)
(* users.  A conversation is what Conversacion::deserealizar would read:   *)
(* its messages were joined with '#' and are split at '#', so a message    *)
(* whose body has the separator comes back as two unreadable pieces, and   *)
(* an unreadable piece is a Mensaje with empty fields (Ilegible).          *)
(***************************************************************************)
EXTENDS Usuarios, Sequences, FiniteSets, Secuencias

CONSTANTS
    Cuerpos,            \* message bodies
    ConSeparador,       \* those with a '#' followed by ordinary text
    Fechas,             \* dates ("yyyy-MM-dd HH:mm:ss") set by the clients
    DatoNoEncontrado,   \* what getDato reads for a missing key
    ConversacionInvalida, \* the id of new Conversacion()
    MaxMensajes,        \* bound on the stored messages
    MaxContactos        \* bound on the contacts of a broadcast

ASSUME CuerposConSeparador == ConSeparador \subseteq Cuerpos

ASSUME CotasNat == MaxMensajes \in Nat /\ MaxContactos \in Nat

ASSUME NoEncontradoNoEsConversacion == DatoNoEncontrado \notin Telefonos \X Telefonos

VARIABLES
    conversaciones, \* the stored conversations, by id
    indice,         \* the index of each user: a list of conversation ids
    paso,           \* where the handler thread is
    pedido,         \* the request being served
    contactos,      \* broadcast: the contacts still to be served
    conv,           \* the conversation being stored
    porIndexar,     \* its users whose index is still to be written
    cortadas        \* history: conversations whose last store was cut short

varsConversaciones ==
    <<conversaciones, indice, paso, pedido, contactos, conv, porIndexar, cortadas>>

vars == <<varsUsuarios, varsConversaciones>>

IdsConversacion == Telefonos \X Telefonos

(* Mensaje::Mensaje: the id is md5(idUsuarioEmisor + fecha).               *)
Mensaje(cuerpo, emisor, fecha) ==
    [id |-> <<emisor, fecha>>, cuerpo |-> cuerpo, emisor |-> emisor, fecha |-> fecha]

(* Mensaje::deserealizar of a text that is not JSON leaves every field "". *)
Ilegible == [id |-> Vacio, cuerpo |-> Vacio, emisor |-> Vacio, fecha |-> Vacio]

Mensajes == {Mensaje(c, e, f) : c \in Cuerpos, e \in Telefonos, f \in Fechas}

(* What is read back of one message: Conversacion::serializar joins the    *)
(* messages with '#', Conversacion::deserealizar splits at every '#'.      *)
TrozosDe(m) == IF m.cuerpo \in ConSeparador THEN <<Ilegible, Ilegible>> ELSE <<m>>

vectorContiene(v, x) == \E i \in DOMAIN v : v[i] = x

Existe(c) == c \in DOMAIN conversaciones

PedidoNulo == [servicio |-> "ninguno", emisor |-> Vacio, mensaje |-> Ilegible,
               destinos |-> <<>>]

-----------------------------------------------------------------------------
(* Seeded fault: only the order emisor-receptor is looked for.             *)
ConversacionDeSoloIda(e, r) == <<e, r>>

(* Seeded fault: the id of the default conversation is used for a new one. *)
ConversacionDeInvalida(e, r) ==
    IF Existe(<<e, r>>) THEN <<e, r>>
    ELSE IF Existe(<<r, e>>) THEN <<r, e>>
    ELSE ConversacionInvalida

(* The conversation a message from e to r goes to: the one e opened with   *)
(* r, else the one r opened with e, else a new one.                        *)
ConversacionDe(e, r) ==
    IF Existe(<<e, r>>) THEN <<e, r>>
    ELSE IF Existe(<<r, e>>) THEN <<r, e>>
    ELSE <<e, r>>

(* Seeded fault: the stored conversation is replaced instead of extended.  *)
GuardarConversacionPisa(c, m) ==
    /\ Put
    /\ conversaciones' = IF disco' THEN setDato(conversaciones, c, TrozosDe(m))
                                   ELSE conversaciones

(* agregarMensaje (or new Conversacion) and the first write of             *)
(* BaseDeDatos::setConversacion.                                           *)
GuardarConversacion(c, m) ==
    /\ Put
    /\ conversaciones' =
          IF disco'
          THEN setDato(conversaciones, c,
                       (IF Existe(c) THEN conversaciones[c] ELSE <<>>) \o TrozosDe(m))
          ELSE conversaciones

(* The rest of setConversacion writes the index of the conversation's      *)
(* users, in their order.                                                  *)
PersistirConversacion(e, r, m) ==
    LET c == ConversacionDe(e, r)
    IN  /\ GuardarConversacion(c, m)
        /\ conv' = c
        /\ porIndexar' = c
        /\ paso' = "indexar"
        /\ UNCHANGED <<indice, cortadas>>

Terminar ==
    /\ paso' = "libre"
    /\ pedido' = PedidoNulo
    /\ contactos' = <<>>
    /\ conv' = Vacio
    /\ porIndexar' = <<>>
-----------------------------------------------------------------------------
InitServidor ==
    /\ InitUsuarios
    /\ conversaciones = [c \in {} |-> <<>>]
    /\ indice = [t \in Telefonos |-> <<DatoNoEncontrado>>]
    /\ paso = "libre"
    /\ pedido = PedidoNulo
    /\ contactos = <<>>
    /\ conv = Vacio
    /\ porIndexar = <<>>
    /\ cortadas = {}

(* Bound of the model: the messages the server has stored.                 *)
Guardados == UNION {{c} \X DOMAIN conversaciones[c] : c \in DOMAIN conversaciones}

HayLugar == Cardinality(Guardados) < MaxMensajes

Rechazar(servicio) ==
    /\ Responder(servicio, FALSE, Vacio)
    /\ UNCHANGED <<usuarios, reloj, disco, sesion, perdidas, varsConversaciones>>

(* POST /conversacion/, up to the first write.                             *)
almacenarConversacion(e, r, token, cuerpo, fecha) ==
    /\ paso = "libre" /\ HayLugar
    /\ IF Registrado(e) /\ Registrado(r) /\ usuarios[e].token = token
       THEN /\ PersistirConversacion(e, r, Mensaje(cuerpo, e, fecha))
            /\ pedido' = [servicio |-> "mensaje", emisor |-> e,
                          mensaje |-> Mensaje(cuerpo, e, fecha), destinos |-> <<r>>]
            /\ UNCHANGED <<varsCuentas, contactos>>
       ELSE Rechazar("mensaje")

(* POST /difusion/, up to the loop over the contacts.                      *)
almacenarListaDifusion(e, token, telefonos, cuerpo, fecha) ==
    /\ paso = "libre" /\ HayLugar
    /\ IF Registrado(e) /\ usuarios[e].token = token
       THEN /\ paso' = "recorrer"
            /\ contactos' = telefonos
            /\ pedido' = [servicio |-> "difusion", emisor |-> e,
                          mensaje |-> Mensaje(cuerpo, e, fecha), destinos |-> telefonos]
            /\ UNCHANGED <<varsUsuarios, conversaciones, indice, conv, porIndexar,
                           cortadas>>
       ELSE Rechazar("difusion")

(* Seeded fault: the loop ends at a contact that is not connected.         *)
RecorrerHastaDesconectado ==
    /\ paso = "recorrer" /\ contactos # <<>>
    /\ LET t == Head(contactos)
       IN  IF Registrado(t) /\ usuarios[t].conectado
           THEN /\ PersistirConversacion(pedido.emisor, t, pedido.mensaje)
                /\ contactos' = Tail(contactos)
           ELSE /\ contactos' = <<>>
                /\ UNCHANGED <<disco, conversaciones, indice, paso, conv, porIndexar,
                               cortadas>>
    /\ UNCHANGED <<varsCuentas, pedido>>

(* One turn of the loop of almacenarListaDifusion, up to its first write.  *)
RecorrerContacto ==
    /\ paso = "recorrer" /\ contactos # <<>>
    /\ contactos' = Tail(contactos)
    /\ LET t == Head(contactos)
       IN  IF Registrado(t) /\ usuarios[t].conectado
           THEN PersistirConversacion(pedido.emisor, t, pedido.mensaje)
           ELSE UNCHANGED <<disco, conversaciones, indice, paso, conv, porIndexar,
                            cortadas>>
    /\ UNCHANGED <<varsCuentas, pedido>>

(* Seeded fault: the id is added without looking whether it is there.      *)
AgregarAlIndiceSiempre(ids, c) == Append(ids, c)

(* The list of ids is extended unless it already has the id.               *)
AgregarAlIndice(ids, c) == IF vectorContiene(ids, c) THEN ids ELSE Append(ids, c)

(* One turn of the loop of BaseDeDatos::setConversacion: the index of one  *)
(* of the users is read, extended and written back.  cortadas follows what *)
(* the writes did: the first one that fails leaves the conversation        *)
(* without some index, the last one that works completes it.               *)
IndexarUsuario ==
    /\ paso = "indexar"
    /\ Put
    /\ indice' = IF disco'
                 THEN [indice EXCEPT ![Head(porIndexar)] = AgregarAlIndice(@, conv)]
                 ELSE indice
    /\ porIndexar' = Tail(porIndexar)
    /\ cortadas' = IF disco /\ ~disco' THEN cortadas \cup {conv}
                   ELSE IF disco' /\ Tail(porIndexar) = <<>> THEN cortadas \ {conv}
                   ELSE cortadas
    /\ IF Tail(porIndexar) = <<>>
       THEN paso' = "recorrer" /\ conv' = Vacio
       ELSE UNCHANGED <<paso, conv>>
    /\ UNCHANGED <<varsCuentas, conversaciones, pedido, contactos>>

(* The end of both handlers, with nothing left to store: the reply.        *)
ResponderPedido ==
    /\ paso = "recorrer" /\ contactos = <<>>
    /\ Responder(pedido.servicio, TRUE,
                 IF pedido.servicio = "mensaje" THEN pedido.mensaje.id ELSE Vacio)
    /\ Terminar
    /\ UNCHANGED <<usuarios, reloj, disco, sesion, perdidas, conversaciones, indice,
                   cortadas>>

(* The server process ends in the middle of a handler and is started       *)
(* again: what was written stays, the connection is closed unanswered and  *)
(* a store that failed takes writes again.                                 *)
Caida ==
    /\ paso # "libre"
    /\ cortadas' = IF paso = "indexar" /\ disco THEN cortadas \cup {conv} ELSE cortadas
    /\ disco' = TRUE
    /\ Terminar
    /\ Responder("ninguno", FALSE, Vacio)
    /\ UNCHANGED <<usuarios, reloj, sesion, perdidas, conversaciones, indice>>

ListasDeContactos == UNION {[1 .. n -> Telefonos] : n \in 0 .. MaxContactos}

EnviarMensaje ==
    \E e, r \in Telefonos, k \in TokensPosibles, c \in Cuerpos, f \in Fechas :
        almacenarConversacion(e, r, k, c, f)

EnviarDifusion ==
    \E e \in Telefonos, k \in TokensPosibles, l \in ListasDeContactos,
       c \in Cuerpos, f \in Fechas : almacenarListaDifusion(e, k, l, c, f)

(* Between two handlers: a service of the accounts, a restart, the clock   *)
(* (which only the services of the accounts read).                         *)
AdministrarCuentas ==
    /\ paso = "libre"
    /\ NextUsuarios
    /\ UNCHANGED varsConversaciones

Manejador == RecorrerContacto \/ IndexarUsuario \/ ResponderPedido

NextServidor ==
    \/ EnviarMensaje \/ EnviarDifusion
    \/ Manejador \/ Caida
    \/ AdministrarCuentas

SpecServidor == InitServidor /\ [][NextServidor]_vars
-----------------------------------------------------------------------------
(* The services that only read.                                            *)

(* GET /conversacion/id/?telefonoEmisor=e&telefonoReceptor=r: the payload, *)
(* Vacio standing for the warning about an unregistered user.  The last    *)
(* branch is the id of new Conversacion(): the code compares it with       *)
(* keyIdUsuarioNoEncontrado, so it is answered as an id.                   *)
obtenerIdConversacion(e, r) ==
    IF ~Registrado(e) \/ ~Registrado(r) THEN Vacio
    ELSE IF Existe(<<e, r>>) THEN <<e, r>>
    ELSE IF Existe(<<r, e>>) THEN <<r, e>>
    ELSE ConversacionInvalida

(* Seeded fault: the loop over the index stops one short.                  *)
ObtenerConversacionesMenosUna(t, conocidas) ==
    Elegir(SubSeq(indice[t], 1, Len(indice[t]) - 1), DOMAIN conversaciones \ conocidas)

(* GET /usuarioConversacion/<t>: the conversations of the index that are   *)
(* not among the ids the client sent and that can be read.  A phone that   *)
(* is not registered has an empty index and gets no answer.                *)
obtenerConversaciones(t, conocidas) ==
    Elegir(indice[t], DOMAIN conversaciones \ conocidas)

(* GET /contactos/: the registered and connected ones of a list of phones. *)
obtenerContactos(telefonos) ==
    Elegir(telefonos, {t \in DOMAIN usuarios : usuarios[t].conectado})

-----------------------------------------------------------------------------
UsuariosDe(c) == {c[1], c[2]}

(* The handler is between the writes of setConversacion of c, and they     *)
(* have worked so far.                                                     *)
EnCurso(c) == paso = "indexar" /\ c = conv /\ disco

(* A conversation is a sequence of messages or unreadable pieces, an index *)
(* a list of ids after the text getDato reads for a missing key, and the   *)
(* handler thread is between two writes of one request.                    *)
TypeOK ==
    /\ TypeOKUsuarios
    /\ DOMAIN conversaciones \subseteq IdsConversacion
    /\ conversaciones \in [DOMAIN conversaciones -> Seq(Mensajes \cup {Ilegible})]
    /\ indice \in [Telefonos -> Seq(IdsConversacion \cup {DatoNoEncontrado})]
    /\ paso \in {"libre", "recorrer", "indexar"}
    /\ paso # "libre" => pedido.emisor \in Telefonos /\ pedido.mensaje \in Mensajes
    /\ contactos \in Seq(Telefonos)
    /\ paso = "indexar" => conv \in IdsConversacion
    /\ porIndexar \in Seq(Telefonos)
    /\ cortadas \subseteq IdsConversacion

(* Whichever of the two asks, two users get the same conversation id, even *)
(* when both wrote first and a crash cut the first message short: there    *)
(* are never two conversations, a-b and b-a, between the same users.       *)
MismaConversacion ==
    \A e, r \in Telefonos : obtenerIdConversacion(e, r) = obtenerIdConversacion(r, e)

(* The index of a user has no id twice, only ids of stored conversations   *)
(* of the user, and all of them except the one being stored and those      *)
(* whose last store was cut by a crash or by a failed write.               *)
(* setConversacion writes the conversation first, and nothing is written   *)
(* after a failed write, so an index never names a conversation that is    *)
(* not there; the next message repairs the index.                          *)
IndiceExacto ==
    \A t \in Telefonos :
        /\ \A i, j \in DOMAIN indice[t] : indice[t][i] = indice[t][j] => i = j
        /\ \A i \in DOMAIN indice[t] : indice[t][i] # DatoNoEncontrado =>
               Existe(indice[t][i]) /\ t \in UsuariosDe(indice[t][i])
        /\ \A c \in DOMAIN conversaciones :
               t \in UsuariosDe(c) /\ c \notin cortadas /\ ~EnCurso(c)
                   => vectorContiene(indice[t], c)

(* obtenerConversaciones answers with every conversation of the user that  *)
(* the client does not have (but those cut short) and with no other,       *)
(* and each has a last message and a contact to show: the positions        *)
(* mens[size-1] and usuarios.at(1) exist.                                  *)
ListadoCompleto ==
    paso = "libre" =>
    \A t \in Telefonos, ya \in SUBSET DOMAIN conversaciones :
        LET lista == obtenerConversaciones(t, ya)
            suyas == {c \in DOMAIN conversaciones : t \in UsuariosDe(c)}
            vistas == {lista[i] : i \in DOMAIN lista}
        IN  /\ suyas \ (ya \cup cortadas) \subseteq vistas
            /\ vistas \subseteq suyas \ ya
            /\ \A c \in vistas : conversaciones[c] # <<>>

(* The last message of the conversation between the sender of a request    *)
(* and t is the message of the request, and both have the conversation in  *)
(* their index.                                                            *)
Recibido(p, t) ==
    LET c == ConversacionDe(p.emisor, t)
    IN  /\ Existe(c)
        /\ conversaciones[c][Len(conversaciones[c])] = p.mensaje
        /\ vectorContiene(indice[t], c) /\ vectorContiene(indice[p.emisor], c)

DestinatariosDe(p) ==
    IF p.servicio = "mensaje" THEN p.destinos ELSE obtenerContactos(p.destinos)

(* A request answered with success has been carried out: its message, if   *)
(* its body can be read back, is the newest of the conversation with every *)
(* receiver (for a broadcast, with every contact that obtenerContactos     *)
(* lists, however many times it is in the list), and every receiver and    *)
(* the sender will find the conversation.  The reply does not depend on    *)
(* what the writes did: this is so as long as the store takes writes at    *)
(* the end of the handler, which means that it took all of them.           *)
ConfirmadoEsVisible ==
    [][paso # "libre" /\ paso' = "libre" /\ respuesta'.success /\ disco
           /\ pedido.mensaje.cuerpo \notin ConSeparador
       => \A i \in DOMAIN DestinatariosDe(pedido) :
              Recibido(pedido, DestinatariosDe(pedido)[i])]_vars

(* The step left the messages of conversation c in their places.           *)
SoloCrece(c) ==
    /\ c \in DOMAIN conversaciones'
    /\ Len(conversaciones[c]) <= Len(conversaciones'[c])
    /\ \A i \in DOMAIN conversaciones[c] : conversaciones'[c][i] = conversaciones[c][i]

(* A stored conversation is never lost, shortened or reordered: a step     *)
(* may only add messages at its end.                                       *)
HistorialSoloCrece == [][\A c \in DOMAIN conversaciones : SoloCrece(c)]_vars

=============================================================================
