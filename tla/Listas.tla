------------------------------- MODULE Listas -------------------------------
(***************************************************************************)
(* The main screen of the client, TabLayoutActivity: the tab with the      *)
(* conversations (ConversationsListActivity, with the Conversation table   *)
(* of DbHelper) and the tab with the contacts and the broadcast            *)
(* (ContactsListActivity), and the tasks of class Service that feed them,  *)
(* against the index of the user's conversations at the server, which only *)
(* grows at its end and has no id twice (module Servidor).                 *)
(*                                                                         *)
(* The callbacks run on the main thread, one at a time; a task reads the   *)
(* table and waits for the server in a thread of its own, so it may read   *)
(* the table between two rows that a callback saves.  A task is in the     *)
(* static list currentActiveServices, and the onPause of the conversations *)
(* or of a chat cancels all of them, whoever started them.                 *)
(*                                                                         *)
(* A row is its conversation id.  One instance of each screen is modelled. *)
(***************************************************************************)
EXTENDS Naturals, Sequences, Secuencias

CONSTANTS
    Conversaciones, \* the ids of the user's conversations
    Sondeos         \* bound on the polls under way: a set of slots

VARIABLES
    indice,         \* the index of the user at the server
    filas,          \* the rows of the Conversation table
    lista,          \* the conversations shown
    tab,            \* "cerrada", or the current tab, "chats" or "contactos"
    encima,         \* what covers it: "nada", a "chat", a chat that is itself
                    \* "pausado", or "otra" thing
    vuelo,          \* the polls under way
    hilo,           \* the main thread is "libre", or in the callback of a poll
    porGuardar,     \* the conversations the callback has still to save
    actual, viejos, \* runnables posted to conversationsHandler, and to former ones
    contactos,      \* the request for the contacts, and its outcome
    difusion,       \* a broadcast is under way
    espera          \* the progress dialog of the broadcast is shown

pantalla == <<tab, encima>>
tabla == <<indice, filas>>
callback == <<hilo, porGuardar>>
manejadores == <<actual, viejos>>
dialogo == <<difusion, espera>>
varsListas == <<tabla, lista, pantalla, vuelo, callback, manejadores, contactos, dialogo>>

Ninguno == [estado |-> "ninguno", sabidas |-> {}, nuevas |-> <<>>]

ListaALaVista == tab = "chats" /\ encima = "nada"

-----------------------------------------------------------------------------
(* GET /usuarioConversacion/: the conversations of the index that are not  *)
(* among the ids sent (Servidor!obtenerConversaciones).                    *)
obtenerConversaciones(sabidas) == Elegir(indice, Conversaciones \ sabidas)

(* initView: the rows are shown; conversationsHandler is replaced by a new *)
(* Handler with one runnable, and what was posted to the former one stays. *)
initView ==
    /\ lista' = filas
    /\ viejos' = viejos + actual
    /\ actual' = 1

(* Service.cancelCurrentServices: a cancelled task has no onPostExecute.   *)
cancelCurrentServices ==
    /\ vuelo' = [s \in Sondeos |-> Ninguno]
    /\ contactos' = IF contactos = "pedidos" THEN "cancelados" ELSE contactos
    /\ difusion' = FALSE

(* Seeded fault: the Handler is not cleared.                               *)
OnPauseSinLimpiar == cancelCurrentServices /\ UNCHANGED manejadores

(* ConversationsListActivity.onPause                                       *)
onPause ==
    /\ cancelCurrentServices
    /\ actual' = 0
    /\ UNCHANGED viejos

(* The conversations come to the front, or are left.                       *)
Mostrarse == initView /\ UNCHANGED <<vuelo, contactos, difusion>>

Ocultarse == onPause /\ UNCHANGED lista

Quieta == UNCHANGED <<lista, manejadores, vuelo, contactos, difusion>>

InitListas ==
    /\ indice = <<>> /\ filas = <<>> /\ lista = <<>>
    /\ tab = "cerrada" /\ encima = "nada"
    /\ vuelo = [s \in Sondeos |-> Ninguno]
    /\ hilo = "libre" /\ porGuardar = <<>>
    /\ actual = 0 /\ viejos = 0
    /\ contactos = "ninguno"
    /\ difusion = FALSE /\ espera = FALSE

-----------------------------------------------------------------------------
(* TabLayoutActivity.onCreate: adding the first tab creates the contacts,  *)
(* which are asked for; the second one is then selected, and its initView  *)
(* runs in onCreate and again in onResume.                                 *)
Abrir ==
    /\ tab = "cerrada"
    /\ tab' = "chats" /\ encima' = "nada"
    /\ lista' = filas
    /\ actual' = 1 /\ viejos' = 1
    /\ contactos' = "pedidos"
    /\ UNCHANGED <<tabla, vuelo, callback, dialogo>>

(* Seeded fault: the dialog of the broadcast lets the tabs be used.        *)
ElegirTabSiempre(t) ==
    /\ tab # "cerrada" /\ tab # t /\ encima = "nada" /\ hilo = "libre"
    /\ tab' = t
    /\ IF t = "chats" THEN Mostrarse ELSE Ocultarse
    /\ UNCHANGED <<tabla, encima, callback, espera>>

(* The user selects the other tab; the progress dialog, which cannot be    *)
(* cancelled, keeps the user from it.                                      *)
ElegirTab(t) ==
    /\ tab # "cerrada" /\ tab # t /\ encima = "nada" /\ hilo = "libre" /\ ~espera
    /\ tab' = t
    /\ IF t = "chats" THEN Mostrarse ELSE Ocultarse
    /\ UNCHANGED <<tabla, encima, callback, espera>>

(* A chat is opened from either list, or the home key or the settings      *)
(* cover the screen.                                                       *)
Cubrir(que) ==
    /\ tab # "cerrada" /\ encima = "nada" /\ hilo = "libre"
    /\ que = "chat" => ~espera
    /\ encima' = que
    /\ IF tab = "chats" THEN Ocultarse ELSE Quieta
    /\ UNCHANGED <<tabla, tab, callback, espera>>

(* ChatActivity.onPause also cancels every task.                           *)
PausarChat ==
    /\ encima = "chat" /\ hilo = "libre"
    /\ encima' = "pausado"
    /\ cancelCurrentServices
    /\ UNCHANGED <<tabla, lista, tab, callback, manejadores, espera>>

ReanudarChat ==
    /\ encima = "pausado" /\ hilo = "libre"
    /\ encima' = "chat"
    /\ Quieta
    /\ UNCHANGED <<tabla, tab, callback, espera>>

(* What covered the screen is left; a chat, after its onPause.             *)
Descubrir ==
    /\ encima \in {"pausado", "otra"} /\ hilo = "libre"
    /\ encima' = "nada"
    /\ IF tab = "chats" THEN Mostrarse ELSE Quieta
    /\ UNCHANGED <<tabla, tab, callback, espera>>

(* Android ends the process in the background, between any two rows.       *)
MatarProceso ==
    /\ encima \in {"pausado", "otra"}
    /\ tab' = "cerrada" /\ encima' = "nada"
    /\ lista' = <<>>
    /\ vuelo' = [s \in Sondeos |-> Ninguno]
    /\ hilo' = "libre" /\ porGuardar' = <<>>
    /\ actual' = 0 /\ viejos' = 0
    /\ contactos' = "ninguno"
    /\ difusion' = FALSE /\ espera' = FALSE
    /\ UNCHANGED tabla

-----------------------------------------------------------------------------
(* The server adds a conversation to the index of the user.                *)
NuevaConversacion(c) ==
    /\ ~Contiene(indice, c)
    /\ indice' = Append(indice, c)
    /\ UNCHANGED <<filas, lista, pantalla, vuelo, callback, manejadores, contactos, dialogo>>

Libre(s) == vuelo[s].estado = "ninguno"

Sigue == UNCHANGED <<tabla, lista, pantalla, callback, contactos, dialogo>>

(* Seeded fault: the runnable does not post itself again.                  *)
SondearUnaVez(s) ==
    /\ hilo = "libre" /\ Libre(s)
    /\ vuelo' = [vuelo EXCEPT ![s].estado = "tarea"]
    /\ \/ actual > 0 /\ actual' = actual - 1 /\ UNCHANGED viejos
       \/ viejos > 0 /\ viejos' = viejos - 1 /\ UNCHANGED actual
    /\ Sigue

(* Seeded fault: every runnable is taken for one of a former Handler.      *)
SondearDeViejo(s) ==
    /\ hilo = "libre" /\ Libre(s) /\ actual + viejos > 0
    /\ vuelo' = [vuelo EXCEPT ![s].estado = "tarea"]
    /\ viejos' = viejos - 1 /\ actual' = actual + 1
    /\ Sigue

(* A runnable of the current Handler, or of a former one, runs: it starts  *)
(* a poll and posts itself to the current one.                             *)
Sondear(s) ==
    /\ hilo = "libre" /\ Libre(s)
    /\ vuelo' = [vuelo EXCEPT ![s].estado = "tarea"]
    /\ \/ actual > 0 /\ UNCHANGED manejadores
       \/ viejos > 0 /\ viejos' = viejos - 1 /\ actual' = actual + 1
    /\ Sigue

Guardadas == {c \in Conversaciones : Contiene(filas, c)}

(* doInBackground reads the ids of the table and sends them.               *)
Pedir(s) ==
    /\ vuelo[s].estado = "tarea"
    /\ vuelo' = [vuelo EXCEPT ![s].estado = "pedido", ![s].sabidas = Guardadas]
    /\ UNCHANGED manejadores /\ Sigue

Servir(s) ==
    /\ vuelo[s].estado = "pedido"
    /\ vuelo' = [vuelo EXCEPT ![s].estado = "servido",
                              ![s].nuevas = obtenerConversaciones(vuelo[s].sabidas)]
    /\ UNCHANGED manejadores /\ Sigue

(* Seeded fault: what the table already has is not looked for.             *)
NoGuardadasTodas(nuevas) == nuevas

(* The conversations of an answer that the table does not have when the    *)
(* callback starts.                                                        *)
NoGuardadas(nuevas) == Elegir(nuevas, Conversaciones \ Guardadas)

(* The callback of getConversationsFromService starts.                     *)
Recibir(s, nuevas) ==
    /\ hilo = "libre"
    /\ hilo' = "guardar"
    /\ porGuardar' = NoGuardadas(nuevas)
    /\ vuelo' = [vuelo EXCEPT ![s] = Ninguno]
    /\ UNCHANGED <<tabla, lista, pantalla, manejadores, contactos, dialogo>>

Entregar(s) == vuelo[s].estado = "servido" /\ Recibir(s, vuelo[s].nuevas)

(* Without an answer the callback gets an empty list.                      *)
Perder(s) == vuelo[s].estado \in {"pedido", "servido"} /\ Recibir(s, <<>>)

(* Conversation.save of the next one.                                      *)
saveConversation ==
    /\ hilo = "guardar" /\ porGuardar # <<>>
    /\ filas' = Append(filas, Head(porGuardar))
    /\ porGuardar' = Tail(porGuardar)
    /\ UNCHANGED <<indice, lista, pantalla, vuelo, hilo, manejadores, contactos, dialogo>>

(* The end of the callback: the list is read again.                        *)
getConversations ==
    /\ hilo = "guardar" /\ porGuardar = <<>>
    /\ lista' = filas
    /\ hilo' = "libre"
    /\ UNCHANGED <<tabla, pantalla, vuelo, porGuardar, manejadores, contactos, dialogo>>

-----------------------------------------------------------------------------
(* The contacts are asked for once, in onCreate: an answer is shown, and   *)
(* without one the list is empty.                                          *)
RecibirContactos ==
    /\ contactos = "pedidos" /\ hilo = "libre"
    /\ contactos' \in {"mostrados", "vacios"}
    /\ UNCHANGED <<tabla, lista, pantalla, vuelo, callback, manejadores, dialogo>>

(* The broadcast dialog: its message is not empty.                         *)
sendMessageToServer ==
    /\ tab = "contactos" /\ encima = "nada" /\ hilo = "libre" /\ ~espera
    /\ difusion' = TRUE /\ espera' = TRUE
    /\ UNCHANGED <<tabla, lista, pantalla, vuelo, callback, manejadores, contactos>>

(* onPostExecute of the broadcast, with an answer or, at the latest when   *)
(* the request times out, without: the list it hands over is never null,   *)
(* so the notice of success is shown, and the dialog is dismissed.         *)
TerminarDifusion ==
    /\ difusion /\ hilo = "libre"
    /\ difusion' = FALSE /\ espera' = FALSE
    /\ UNCHANGED <<tabla, lista, pantalla, vuelo, callback, manejadores, contactos>>

NextListas ==
    \/ Abrir \/ Descubrir \/ PausarChat \/ ReanudarChat \/ MatarProceso
    \/ \E t \in {"chats", "contactos"} : ElegirTab(t)
    \/ \E q \in {"chat", "otra"} : Cubrir(q)
    \/ \E c \in Conversaciones : NuevaConversacion(c)
    \/ \E s \in Sondeos : Sondear(s) \/ Pedir(s) \/ Servir(s) \/ Entregar(s) \/ Perder(s)
    \/ saveConversation \/ getConversations
    \/ RecibirContactos \/ sendMessageToServer \/ TerminarDifusion

(* The runnables run (postDelayed), a callback ends, the tasks have a      *)
(* thread and a timeout, and polls that are repeated for ever are not all  *)
(* lost.                                                                   *)
Equidad ==
    /\ \A s \in Sondeos : /\ WF_varsListas(Sondear(s)) /\ WF_varsListas(Pedir(s))
                          /\ SF_varsListas(Servir(s)) /\ SF_varsListas(Entregar(s))
    /\ WF_varsListas(saveConversation) /\ WF_varsListas(getConversations)
    /\ SF_varsListas(TerminarDifusion)

SpecListas == InitListas /\ [][NextListas]_varsListas /\ Equidad

-----------------------------------------------------------------------------
(* The table, the list and the tasks have the shape of their classes.      *)
TypeOKListas ==
    /\ {indice, filas, lista, porGuardar} \subseteq Seq(Conversaciones)
    /\ tab \in {"cerrada", "chats", "contactos"}
    /\ encima \in {"nada", "chat", "pausado", "otra"}
    /\ vuelo \in [Sondeos -> [estado : {"ninguno", "tarea", "pedido", "servido"},
                              sabidas : SUBSET Conversaciones,
                              nuevas : Seq(Conversaciones)]]
    /\ hilo \in {"libre", "guardar"}
    /\ actual \in Nat /\ viejos \in Nat
    /\ contactos \in {"ninguno", "pedidos", "mostrados", "vacios", "cancelados"}
    /\ difusion \in BOOLEAN /\ espera \in BOOLEAN

(* The table gets the conversations of the index in its order, skips none  *)
(* and has none twice, with several polls under way that read the table    *)
(* while rows are saved, with answers lost, cancelled or applied out of    *)
(* order, and with the process ended between two rows.                     *)
BuzonDeLaLista == INSTANCE Buzon WITH enviados <- indice, recibidos <- filas

ListaImplementaBuzon == BuzonDeLaLista!Spec

(* onPause clears only the last Handler, and initView runs twice at the    *)
(* start: at most two runnables poll at a time, at most one of them goes   *)
(* on below another screen, and a list in sight always has one.            *)
CadenasDeLaLista ==
    /\ actual + viejos <= 2
    /\ tab = "contactos" \/ encima # "nada" => actual + viejos <= 1
    /\ ListaALaVista => actual + viejos >= 1

(* SendNewBroadcastAsyncTask dismisses its dialog in onPostExecute and has *)
(* no onCancelled, and the onPause of other screens cancels it with all    *)
(* the other tasks: a dialog on the screen still has the task that will    *)
(* dismiss it.                                                             *)
DialogoConTarea == espera => difusion

(* While the list stays in sight, every conversation the server has put in *)
(* the index of the user is eventually shown in it.                        *)
ConversacionAparece ==
    <>[]ListaALaVista =>
        \A c \in Conversaciones : Contiene(indice, c) ~> Contiene(lista, c)

(* The progress dialog of a broadcast is eventually dismissed, although    *)
(* the onPause of the other screens cancels every task and a cancelled     *)
(* broadcast would leave its dialog for ever.                              *)
DifusionTermina == espera ~> ~espera

=============================================================================
