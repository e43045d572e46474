---------------------------- MODULE ChatActivity ----------------------------
(***************************************************************************)
(* The chat screen of the Android client (class ChatActivity), the local   *)
(* table of messages it fills (DbHelper), the list it shows (ChatAdapter)  *)
(* and the requests of class Service that feed them, against one           *)
(* conversation of the server, which only grows (module Servidor).         *)
(*                                                                         *)
(* Every callback runs to its end on the main thread; the requests run in  *)
(* a thread pool, so several polls are under way at once, are answered in  *)
(* any order and may be lost.  A message is its place n in the server's    *)
(* conversation (its body), its id and its date.                           *)
(***************************************************************************)
EXTENDS Naturals, Sequences, Secuencias

CONSTANTS
    Yo, Otro,       \* the user of this phone and its contact
    Vacio,          \* the empty string
    Real,           \* the id of the conversation
    Invalida,       \* the id answered when the conversation does not exist
    MaxFecha,       \* dates (seconds) are 1 .. MaxFecha, of two clocks
    MaxMensajes,    \* bound on the messages sent
    Sondeos         \* bound on the polls under way: a set of slots

ASSUME CotasChat == MaxFecha \in Nat /\ MaxMensajes \in Nat

ASSUME IdsDistintos ==
    /\ Vacio # Real /\ Vacio # Invalida /\ Real # Invalida
    /\ "pedido" \notin {Vacio, Real, Invalida}

VARIABLES
    historial,      \* the messages of the conversation, at the server
    mensajes,       \* the rows of the Message table, in order of insertion
    chatList,       \* the messageIds the ChatAdapter shows
    pantalla,       \* "cerrada", "resumida" or "pausada"
    conversationId, \* the field of the activity
    pedidoId,       \* the request for the conversation id
    vuelo,          \* the polls under way
    enviando,       \* the sends under way
    actual, viejos  \* runnables posted to chatHandler, and to former ones

red == <<vuelo, pedidoId>>
manejadores == <<actual, viejos>>
varsChat == <<historial, mensajes, chatList, pantalla, conversationId, red, enviando,
              manejadores>>

Fechas == 1 .. MaxFecha

Ids == ({Yo, Otro} \X Fechas) \cup {Vacio}

Ninguno == [estado |-> "ninguno", conv |-> Vacio, ultimo |-> Vacio, lista |-> <<>>]

IdsDe(s) == {s[i].id : i \in DOMAIN s}

Filtrar(lista, m, ids) == IF m.id \in ids THEN lista ELSE Append(lista, m)

(* The messages of a sequence with none of the ids.                        *)
SinIds(s, ids) ==
    LET hasta[i \in 0 .. Len(s)] ==
            IF i = 0 THEN <<>> ELSE Filtrar(hasta[i - 1], s[i], ids)
    IN  hasta[Len(s)]

-----------------------------------------------------------------------------
(* The server.  A body with the separator '#' is stored as two unreadable  *)
(* messages, with every field empty (module Servidor); the empty date      *)
(* sorts before the others.                                                *)
Almacenar(emisor, fecha, conSeparador) ==
    LET n == Len(historial)
        ilegible(i) == [n |-> i, id |-> Vacio, fecha |-> 0]
    IN  historial' = historial \o
            IF conSeparador THEN <<ilegible(n + 1), ilegible(n + 2)>>
            ELSE <<[n |-> n + 1, id |-> <<emisor, fecha>>, fecha |-> fecha]>>

(* Seeded fault: the message after the one found is skipped.               *)
ObtenerSalteandoUno(conv, ultimo) ==
    LET es == {i \in DOMAIN historial : historial[i].id = ultimo}
    IN  IF conv # Real \/ (ultimo # Vacio /\ es = {}) THEN <<>>
        ELSE IF ultimo = Vacio THEN historial
        ELSE LET p == CHOOSE i \in es : \A j \in es : i <= j
             IN  SubSeq(historial, p + 2, Len(historial))

(* GET /conversacion/<conv>?idUltimoMensaje=ultimo: the messages after the *)
(* first one with that id, or all.  For another conversation the answer    *)
(* has no list, and the client reads an empty one.                         *)
obtenerConversacion(conv, ultimo) ==
    LET es == {i \in DOMAIN historial : historial[i].id = ultimo}
    IN  IF conv # Real THEN <<>>
        ELSE IF ultimo = Vacio THEN historial
        ELSE IF es = {} THEN <<>>
        ELSE LET p == CHOOSE i \in es : \A j \in es : i <= j
             IN  SubSeq(historial, p + 1, Len(historial))

-----------------------------------------------------------------------------
(* The client.                                                             *)

Tiene(lista, id) == \E i \in DOMAIN lista : lista[i] = id

Quitar(s, i) == SubSeq(s, 1, i - 1) \o SubSeq(s, i + 1, Len(s))

(* The list without the provisional entry of a message being sent, which   *)
(* has the empty id.                                                       *)
SinProvisoria(lista) ==
    IF Tiene(lista, Vacio)
    THEN Quitar(lista, CHOOSE i \in DOMAIN lista : lista[i] = Vacio)
    ELSE lista

(* Seeded fault: a message that is already shown is added again.           *)
AddSinBuscar(lista, id) ==
    IF id = Vacio /\ Tiene(lista, id) THEN lista
    ELSE Append(SinProvisoria(lista), id)

(* ChatAdapter.add: a message already shown is not added again; another    *)
(* one takes away the provisional entry.                                   *)
add(lista, id) ==
    IF Tiene(lista, id) THEN lista ELSE Append(SinProvisoria(lista), id)

(* getSaveMessageList: every row of the conversation is added to the list. *)
getSaveMessageList(filas, lista) ==
    LET tras[i \in 0 .. Len(filas)] ==
            IF i = 0 THEN lista ELSE add(tras[i - 1], filas[i].id)
    IN  tras[Len(filas)]

(* The rows getMessagesByConversationId reads for an id.                   *)
FilasDe(conv, filas) == IF conv = Real THEN filas ELSE <<>>

(* getLastMessageIdByConversationId: ORDER BY DATE DESC, any of the rows   *)
(* of the last date.                                                       *)
UltimosIds(conv) ==
    LET filas == FilasDe(conv, mensajes)
    IN  IF filas = <<>> THEN {Vacio}
        ELSE {filas[i].id : i \in {j \in DOMAIN filas :
                 \A k \in DOMAIN filas : filas[k].fecha <= filas[j].fecha}}

(* lookForNewMessage: chatHandler is replaced by a new Handler with one    *)
(* runnable; what was posted to the former one stays posted.               *)
lookForNewMessage(conv, lista) ==
    /\ chatList' = getSaveMessageList(FilasDe(conv, mensajes), lista)
    /\ viejos' = viejos + actual
    /\ actual' = 1

InitChat ==
    /\ historial = <<>> /\ mensajes = <<>> /\ chatList = <<>>
    /\ pantalla = "cerrada"
    /\ conversationId = Vacio
    /\ pedidoId = Vacio
    /\ vuelo = [s \in Sondeos |-> Ninguno]
    /\ enviando = <<>>
    /\ actual = 0 /\ viejos = 0

(* onCreate, which asks for the id, and onResume.                          *)
Abrir ==
    /\ pantalla = "cerrada"
    /\ pantalla' = "resumida"
    /\ conversationId' = Vacio
    /\ pedidoId' = "pedido"
    /\ lookForNewMessage(Vacio, <<>>)
    /\ UNCHANGED <<historial, mensajes, vuelo, enviando>>

(* The process of the application ends: only the table is left.            *)
Muere ==
    /\ pantalla' = "cerrada"
    /\ conversationId' = Vacio /\ pedidoId' = Vacio
    /\ vuelo' = [s \in Sondeos |-> Ninguno]
    /\ chatList' = <<>>
    /\ actual' = 0 /\ viejos' = 0
    /\ UNCHANGED <<historial, mensajes, enviando>>

ServirId ==
    /\ pedidoId = "pedido"
    /\ pedidoId' = IF historial # <<>> THEN Real ELSE Invalida
    /\ UNCHANGED <<historial, mensajes, chatList, pantalla, conversationId, vuelo,
                   enviando, manejadores>>

(* Seeded fault: the callback does not wait for the answer.                *)
RecibirIdSinEsperar ==
    /\ pedidoId # Vacio
    /\ conversationId' = pedidoId
    /\ pedidoId' = Vacio
    /\ lookForNewMessage(pedidoId, chatList)
    /\ UNCHANGED <<historial, mensajes, pantalla, vuelo, enviando>>

(* The callback of getConversationId.                                      *)
RecibirId ==
    /\ pedidoId \in {Real, Invalida}
    /\ conversationId' = pedidoId
    /\ pedidoId' = Vacio
    /\ lookForNewMessage(pedidoId, chatList)
    /\ UNCHANGED <<historial, mensajes, pantalla, vuelo, enviando>>

(* Without an answer the callback reads the table with a null id, which    *)
(* SQLite refuses with an exception nobody catches.                        *)
PerderId == pedidoId # Vacio /\ Muere

-----------------------------------------------------------------------------
Libre(s) == vuelo[s].estado = "ninguno"

(* Seeded fault: the runnable does not post itself again.                  *)
SondearUnaVez(s) ==
    /\ actual + viejos > 0 /\ Libre(s)
    /\ \E u \in UltimosIds(conversationId) :
          vuelo' = [vuelo EXCEPT ![s] = [estado |-> "pedido", conv |-> conversationId,
                                         ultimo |-> u, lista |-> <<>>]]
    /\ \/ actual > 0 /\ actual' = actual - 1 /\ UNCHANGED viejos
       \/ viejos > 0 /\ viejos' = viejos - 1 /\ UNCHANGED actual
    /\ UNCHANGED <<historial, mensajes, chatList, pantalla, conversationId, pedidoId,
                   enviando>>

(* A runnable of the current Handler, or of a former one, runs: it polls   *)
(* and posts itself to the current one.                                    *)
Sondear(s) ==
    /\ Libre(s)
    /\ \E u \in UltimosIds(conversationId) :
          vuelo' = [vuelo EXCEPT ![s] = [estado |-> "pedido", conv |-> conversationId,
                                         ultimo |-> u, lista |-> <<>>]]
    /\ \/ actual > 0 /\ UNCHANGED manejadores
       \/ viejos > 0 /\ viejos' = viejos - 1 /\ actual' = actual + 1
    /\ UNCHANGED <<historial, mensajes, chatList, pantalla, conversationId, pedidoId,
                   enviando>>

Servir(s) ==
    /\ vuelo[s].estado = "pedido"
    /\ vuelo' = [vuelo EXCEPT ![s].estado = "servido",
                    ![s].lista = obtenerConversacion(vuelo[s].conv, vuelo[s].ultimo)]
    /\ UNCHANGED <<historial, mensajes, chatList, pantalla, conversationId, pedidoId,
                   enviando, manejadores>>

(* Seeded fault: the rows are saved without looking for their ids.         *)
NuevosTodos(lista) == lista

(* The messages of an answer that the table did not have when the callback *)
(* started: two with the same id in one answer are both new.               *)
Nuevos(lista) == SinIds(lista, IdsDe(FilasDe(conversationId, mensajes)))

(* The callback of getMessageFromService.                                  *)
Recibir(s, nuevos) ==
    /\ mensajes' = mensajes \o nuevos
    /\ chatList' = getSaveMessageList(FilasDe(conversationId, mensajes'), chatList)
    /\ vuelo' = [vuelo EXCEPT ![s] = Ninguno]
    /\ UNCHANGED <<historial, pantalla, conversationId, pedidoId, enviando, manejadores>>

Entregar(s) == vuelo[s].estado = "servido" /\ Recibir(s, Nuevos(vuelo[s].lista))

(* The request or its answer is lost: the list is null.                    *)
Perder(s) == ~Libre(s) /\ Recibir(s, <<>>)

-----------------------------------------------------------------------------
HayLugar == Len(historial) + 2 * Len(enviando) < MaxMensajes

(* The click on the send button: a provisional entry and a request.        *)
Enviar(fecha, conSeparador) ==
    /\ pantalla = "resumida" /\ HayLugar
    /\ chatList' = add(chatList, Vacio)
    /\ enviando' = Append(enviando, [fecha |-> fecha, sep |-> conSeparador])
    /\ UNCHANGED <<historial, mensajes, pantalla, conversationId, red, manejadores>>

(* The server serves one of the sends, in any order.                       *)
LlegaEnvio(i) ==
    /\ Almacenar(Yo, enviando[i].fecha, enviando[i].sep)
    /\ enviando' = Quitar(enviando, i)
    /\ UNCHANGED <<mensajes, chatList, pantalla, conversationId, red, manejadores>>

(* A send that fails is not sent again.                                    *)
PierdeEnvio(i) ==
    /\ enviando' = Quitar(enviando, i)
    /\ UNCHANGED <<historial, mensajes, chatList, pantalla, conversationId, red,
                   manejadores>>

OtroEnvia(fecha, conSeparador) ==
    /\ HayLugar
    /\ Almacenar(Otro, fecha, conSeparador)
    /\ UNCHANGED <<mensajes, chatList, pantalla, conversationId, red, enviando,
                   manejadores>>

(* Seeded fault: the Handler is not cleared.                               *)
OnPauseSinLimpiar ==
    /\ pantalla = "resumida"
    /\ pantalla' = "pausada"
    /\ vuelo' = [s \in Sondeos |-> Ninguno]
    /\ pedidoId' = Vacio
    /\ UNCHANGED <<historial, mensajes, chatList, conversationId, enviando, manejadores>>

(* onPause cancels every request, the one for the id too, and clears the   *)
(* current Handler.  The server may still serve a cancelled send.          *)
onPause ==
    /\ pantalla = "resumida"
    /\ pantalla' = "pausada"
    /\ vuelo' = [s \in Sondeos |-> Ninguno]
    /\ pedidoId' = Vacio
    /\ actual' = 0
    /\ UNCHANGED <<historial, mensajes, chatList, conversationId, enviando, viejos>>

onResume ==
    /\ pantalla = "pausada"
    /\ pantalla' = "resumida"
    /\ lookForNewMessage(conversationId, chatList)
    /\ UNCHANGED <<historial, mensajes, conversationId, red, enviando>>

(* Android ends the process of a screen in the background.                 *)
MatarProceso == pantalla = "pausada" /\ Muere

NextChat ==
    \/ Abrir \/ ServirId \/ RecibirId \/ PerderId
    \/ \E s \in Sondeos : Sondear(s) \/ Servir(s) \/ Entregar(s) \/ Perder(s)
    \/ \E f \in Fechas, c \in BOOLEAN : Enviar(f, c) \/ OtroEnvia(f, c)
    \/ \E i \in DOMAIN enviando : LlegaEnvio(i) \/ PierdeEnvio(i)
    \/ onPause \/ onResume \/ MatarProceso

(* The runnables run (postDelayed), the server answers, and polls that are *)
(* repeated for ever are not all lost.                                     *)
Equidad ==
    \A s \in Sondeos : /\ WF_varsChat(Sondear(s))
                       /\ SF_varsChat(Servir(s)) /\ SF_varsChat(Entregar(s))

SpecChat == InitChat /\ [][NextChat]_varsChat

SpecChatJusta == SpecChat /\ Equidad

-----------------------------------------------------------------------------
Mensaje == [n : Nat, id : Ids, fecha : 0 .. MaxFecha]

(* The rows, the list and the requests have the shape of their classes.    *)
TypeOKChat ==
    /\ historial \in Seq(Mensaje)
    /\ mensajes \in Seq(Mensaje)
    /\ chatList \in Seq(Ids)
    /\ pantalla \in {"cerrada", "resumida", "pausada"}
    /\ conversationId \in {Vacio, Real, Invalida}
    /\ pedidoId \in {Vacio, Real, Invalida, "pedido"}
    /\ vuelo \in [Sondeos -> [estado : {"ninguno", "pedido", "servido"},
                              conv : {Vacio, Real, Invalida}, ultimo : Ids,
                              lista : Seq(Mensaje)]]
    /\ enviando \in Seq([fecha : Fechas, sep : BOOLEAN])
    /\ actual \in Nat /\ viejos \in Nat

(* The table has no gaps: the ids it has are those of the first k messages *)
(* of the conversation, for some k, although the position asked for is the *)
(* row with the latest date, the clocks of the two phones differ, polls    *)
(* overlap, and their answers are lost or applied out of order.            *)
SinHuecos ==
    \E k \in 0 .. Len(historial) : IdsDe(mensajes) = IdsDe(SubSeq(historial, 1, k))

(* The table has the messages in the server's order and none twice.        *)
OrdenDelServidor ==
    \A i, j \in DOMAIN mensajes : i < j => mensajes[i].n < mensajes[j].n

Sumar(lista, id) == IF Tiene(lista, id) THEN lista ELSE Append(lista, id)

(* A list of ids followed by those of a sequence of messages, each at its  *)
(* first place.                                                            *)
DistintosTras(lista, s) ==
    LET hasta[i \in 0 .. Len(s)] ==
            IF i = 0 THEN lista ELSE Sumar(hasta[i - 1], s[i].id)
    IN  hasta[Len(s)]

Distintos(s) == DistintosTras(<<>>, s)

(* The screen shows the ids of the readable rows of the table, in its      *)
(* order and none twice, with at most one provisional entry: what the      *)
(* index of chatListCurrent.remove(i) relies on.                           *)
PantallaFiel ==
    /\ ~Tiene(SinProvisoria(chatList), Vacio)
    /\ EsPrefijo(SinProvisoria(chatList), Distintos(SinIds(mensajes, {Vacio})))

(* However often the screen is paused and resumed, and although onPause    *)
(* only clears the last Handler, at most two runnables poll at a time, and *)
(* a screen in the foreground always has one.                              *)
CadenasAcotadas ==
    /\ actual + viejos <= 2
    /\ pantalla = "resumida" => actual + viejos >= 1

(* What the server accepted and the phone got: an implementation of Buzon. *)
BuzonDelChat == INSTANCE Buzon WITH enviados <- Distintos(historial),
                                    recibidos <- Distintos(mensajes)

ImplementaBuzon == BuzonDelChat!Spec

(* While the screen stays open on a conversation whose id it got, every    *)
(* readable message the server has stored is eventually shown.             *)
MensajeLlega ==
    <>[](pantalla = "resumida" /\ conversationId = Real) =>
        \A k \in 1 .. MaxMensajes + 1 :
            (k <= Len(historial) /\ historial[k].id # Vacio)
                ~> (k <= Len(historial) /\ Tiene(chatList, historial[k].id))

=============================================================================
