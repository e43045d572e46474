---------------------------- MODULE ListasProofs ----------------------------
(***************************************************************************)
(* Theorems about module Listas, for any set of conversations and any      *)
(* number of polls under way.                                              *)
(***************************************************************************)
EXTENDS Listas, SecuenciasProofs

-----------------------------------------------------------------------------
(* The runnables that poll the conversations.  The bound is not inductive  *)
(* by itself: onPause only lowers the count to one because the last        *)
(* Handler, the one it clears, has a runnable whenever the list is in      *)
(* sight.                                                                  *)
CadenasInv ==
    /\ actual \in Nat /\ viejos \in Nat
    /\ tab \in {"cerrada", "chats", "contactos"}
    /\ tab = "cerrada" => encima = "nada"
    /\ ListaALaVista => actual >= 1
    /\ actual + viejos <= 2
    /\ tab = "contactos" \/ encima # "nada" => actual + viejos <= 1

LEMMA CadenasInit == InitListas => CadenasInv
BY DEF InitListas, CadenasInv, ListaALaVista

(* The steps that move neither the screens nor the runnables.              *)
LEMMA CadenasQuietas == CadenasInv /\ UNCHANGED <<pantalla, manejadores>> => CadenasInv'
BY DEF CadenasInv, ListaALaVista, pantalla, manejadores

LEMMA CadenasPaso == CadenasInv /\ [NextListas]_varsListas => CadenasInv'
<1> SUFFICES ASSUME CadenasInv, [NextListas]_varsListas PROVE CadenasInv'
  OBVIOUS
<1>1. CASE Abrir
  BY <1>1 DEF CadenasInv, ListaALaVista, Abrir
<1>2. CASE Descubrir
  BY <1>2 DEF CadenasInv, ListaALaVista, Descubrir, Mostrarse, initView, Quieta, manejadores
<1>3. CASE PausarChat
  BY <1>3 DEF CadenasInv, ListaALaVista, PausarChat, manejadores
<1>4. CASE ReanudarChat
  BY <1>4 DEF CadenasInv, ListaALaVista, ReanudarChat, Quieta, manejadores
<1>5. CASE MatarProceso
  BY <1>5 DEF CadenasInv, ListaALaVista, MatarProceso
<1>6. ASSUME NEW t \in {"chats", "contactos"}, ElegirTab(t) PROVE CadenasInv'
  <2>1. CASE t = "chats"
    BY <1>6, <2>1 DEF CadenasInv, ListaALaVista, ElegirTab, Mostrarse, initView
  <2>2. CASE t = "contactos"
    BY <1>6, <2>2 DEF CadenasInv, ListaALaVista, ElegirTab, Ocultarse, onPause
  <2> QED BY <2>1, <2>2
<1>7. ASSUME NEW q \in {"chat", "otra"}, Cubrir(q) PROVE CadenasInv'
  <2>1. CASE tab = "chats"
    BY <1>7, <2>1 DEF CadenasInv, ListaALaVista, Cubrir, Ocultarse, onPause
  <2>2. CASE tab = "contactos"
    BY <1>7, <2>2 DEF CadenasInv, ListaALaVista, Cubrir, Quieta, manejadores
  <2> QED BY <1>7, <2>1, <2>2 DEF CadenasInv, Cubrir
<1>8. ASSUME NEW s \in Sondeos, Sondear(s) PROVE CadenasInv'
  BY <1>8 DEF CadenasInv, ListaALaVista, Sondear, Sigue, pantalla, manejadores
<1>9. ASSUME NEW s \in Sondeos, Pedir(s) \/ Servir(s) \/ Entregar(s) \/ Perder(s)
      PROVE  CadenasInv'
  BY <1>9, CadenasQuietas DEF Pedir, Servir, Entregar, Perder, Recibir, Sigue
<1>10. ASSUME NEW c \in Conversaciones, NuevaConversacion(c) PROVE CadenasInv'
  BY <1>10, CadenasQuietas DEF NuevaConversacion
<1>11. CASE saveConversation \/ getConversations
  BY <1>11, CadenasQuietas DEF saveConversation, getConversations
<1>12. CASE RecibirContactos \/ sendMessageToServer \/ TerminarDifusion
  BY <1>12, CadenasQuietas DEF RecibirContactos, sendMessageToServer, TerminarDifusion
<1>13. CASE UNCHANGED varsListas
  BY <1>13, CadenasQuietas DEF varsListas
<1> QED
  BY <1>1, <1>2, <1>3, <1>4, <1>5, <1>6, <1>7, <1>8, <1>9, <1>10, <1>11, <1>12, <1>13
     DEF NextListas

(* At most two runnables poll, at most one of them below another screen,   *)
(* and a list in sight always has one (initView, onPause and onResume of   *)
(* ConversationsListActivity).                                             *)
THEOREM CadenasAcotadas == SpecListas => []CadenasDeLaLista
<1>1. CadenasInv => CadenasDeLaLista
  BY DEF CadenasInv, CadenasDeLaLista
<1> QED BY <1>1, CadenasInit, CadenasPaso, PTL DEF SpecListas

-----------------------------------------------------------------------------
(* The dialog of a broadcast.  Its task is cancelled by an onPause of the  *)
(* conversations or of a chat, and the dialog keeps both from the front.   *)
DialogoInv ==
    espera => difusion /\ tab = "contactos" /\ encima \in {"nada", "otra"}

LEMMA DialogoPaso == DialogoInv /\ [NextListas]_varsListas => DialogoInv'
<1> SUFFICES ASSUME DialogoInv, [NextListas]_varsListas PROVE DialogoInv'
  OBVIOUS
<1>1. CASE Abrir
  BY <1>1 DEF DialogoInv, Abrir, dialogo
<1>2. CASE Descubrir
  BY <1>2 DEF DialogoInv, Descubrir, Quieta
<1>3. CASE PausarChat \/ ReanudarChat
  BY <1>3 DEF DialogoInv, PausarChat, ReanudarChat
<1>4. CASE MatarProceso
  BY <1>4 DEF DialogoInv, MatarProceso
<1>5. ASSUME NEW t \in {"chats", "contactos"}, ElegirTab(t) PROVE DialogoInv'
  BY <1>5 DEF DialogoInv, ElegirTab
<1>6. ASSUME NEW q \in {"chat", "otra"}, Cubrir(q) PROVE DialogoInv'
  BY <1>6 DEF DialogoInv, Cubrir, Quieta
<1>7. ASSUME NEW s \in Sondeos,
             Sondear(s) \/ Pedir(s) \/ Servir(s) \/ Entregar(s) \/ Perder(s)
      PROVE  DialogoInv'
  BY <1>7 DEF DialogoInv, Sondear, Pedir, Servir, Entregar, Perder, Recibir, Sigue,
              pantalla, dialogo
<1>8. ASSUME NEW c \in Conversaciones, NuevaConversacion(c) PROVE DialogoInv'
  BY <1>8 DEF DialogoInv, NuevaConversacion, pantalla, dialogo
<1>9. CASE saveConversation \/ getConversations \/ RecibirContactos
  BY <1>9 DEF DialogoInv, saveConversation, getConversations, RecibirContactos,
              pantalla, dialogo
<1>10. CASE sendMessageToServer
  BY <1>10 DEF DialogoInv, sendMessageToServer, pantalla
<1>11. CASE TerminarDifusion
  BY <1>11 DEF DialogoInv, TerminarDifusion
<1>12. CASE UNCHANGED varsListas
  BY <1>12 DEF DialogoInv, varsListas, pantalla, dialogo
<1> QED
  BY <1>1, <1>2, <1>3, <1>4, <1>5, <1>6, <1>7, <1>8, <1>9, <1>10, <1>11, <1>12
     DEF NextListas

(* A dialog on the screen still has the task that will dismiss it, although *)
(* cancelCurrentServices cancels the tasks of every screen.                 *)
THEOREM DialogoAtendido == SpecListas => []DialogoConTarea
<1>1. InitListas => DialogoInv
  BY DEF InitListas, DialogoInv
<1>2. DialogoInv => DialogoConTarea
  BY DEF DialogoInv, DialogoConTarea
<1> QED BY <1>1, <1>2, DialogoPaso, PTL DEF SpecListas

-----------------------------------------------------------------------------
(* Types.                                                                  *)
Tarea == [estado : {"ninguno", "tarea", "pedido", "servido"},
          sabidas : SUBSET Conversaciones, nuevas : Seq(Conversaciones)]

LEMMA NingunoTarea == Ninguno \in Tarea
<1>1. <<>> \in Seq(Conversaciones)
  OBVIOUS
<1> QED BY <1>1 DEF Ninguno, Tarea

(* The types of what the screens, the handlers and the contacts leave      *)
(* alone, and of what cancelCurrentServices clears.                        *)
TiposTabla ==
    /\ indice \in Seq(Conversaciones) /\ filas \in Seq(Conversaciones)
    /\ lista \in Seq(Conversaciones) /\ porGuardar \in Seq(Conversaciones)
    /\ hilo \in {"libre", "guardar"}
    /\ vuelo \in [Sondeos -> Tarea]

TiposPantalla ==
    /\ tab \in {"cerrada", "chats", "contactos"}
    /\ encima \in {"nada", "chat", "pausado", "otra"}
    /\ contactos \in {"ninguno", "pedidos", "mostrados", "vacios", "cancelados"}
    /\ difusion \in BOOLEAN /\ espera \in BOOLEAN

LEMMA TiposPartes ==
    TypeOKListas <=> TiposTabla /\ TiposPantalla /\ actual \in Nat /\ viejos \in Nat
BY DEF TypeOKListas, TiposTabla, TiposPantalla, Tarea

LEMMA PasoTiposTabla == TiposTabla /\ [NextListas]_varsListas => TiposTabla'
<1> SUFFICES ASSUME TiposTabla, [NextListas]_varsListas PROVE TiposTabla'
  OBVIOUS
<1>1. PICK S : S = Seq(Conversaciones)
  BY Zenon
<1>2. /\ indice \in S /\ filas \in S /\ lista \in S /\ porGuardar \in S /\ <<>> \in S
      /\ hilo \in {"libre", "guardar"}
      /\ vuelo \in [Sondeos -> Tarea] /\ [s \in Sondeos |-> Ninguno] \in [Sondeos -> Tarea]
  BY <1>1, NingunoTarea DEF TiposTabla
<1>3. ASSUME indice' \in S, filas' \in S, lista' \in S, porGuardar' \in S,
             hilo' \in {"libre", "guardar"}, vuelo' \in [Sondeos -> Tarea]
      PROVE  TiposTabla'
  BY <1>1, <1>3, Zenon DEF TiposTabla, Tarea
<1>4. CASE Abrir
  BY <1>2, <1>3, <1>4, Zenon DEF Abrir, tabla, callback
<1>5. CASE Descubrir
  BY <1>2, <1>3, <1>5, Zenon DEF Descubrir, tabla, callback, Mostrarse, initView, Quieta
<1>6. CASE PausarChat
  BY <1>2, <1>3, <1>6, Zenon DEF PausarChat, tabla, callback, cancelCurrentServices
<1>7. CASE ReanudarChat
  BY <1>2, <1>3, <1>7, Zenon DEF ReanudarChat, tabla, callback, Quieta
<1>8. CASE MatarProceso
  <2>1. hilo' \in {"libre", "guardar"}
    BY <1>8 DEF MatarProceso
  <2> QED BY <1>2, <1>3, <1>8, <2>1, Zenon DEF MatarProceso, tabla
<1>9. ASSUME NEW t \in {"chats", "contactos"}, ElegirTab(t) PROVE TiposTabla'
  BY <1>2, <1>3, <1>9, Zenon DEF ElegirTab, tabla, callback, Mostrarse, initView, Ocultarse,
                                 onPause, cancelCurrentServices
<1>10. ASSUME NEW q \in {"chat", "otra"}, Cubrir(q) PROVE TiposTabla'
  BY <1>2, <1>3, <1>10, Zenon DEF Cubrir, tabla, callback, Quieta, Ocultarse, onPause,
                                  cancelCurrentServices
<1>11. ASSUME NEW c \in Conversaciones, NuevaConversacion(c) PROVE TiposTabla'
  <2>1. indice' \in S
    BY <1>1, <1>2, <1>11 DEF NuevaConversacion
  <2> QED BY <1>2, <1>3, <1>11, <2>1, Zenon DEF NuevaConversacion, callback
<1>12. ASSUME NEW s \in Sondeos, Sondear(s) PROVE TiposTabla'
  <2>1. vuelo' \in [Sondeos -> Tarea]
    BY <1>2, <1>12 DEF Sondear, Tarea
  <2> QED BY <1>2, <1>3, <1>12, <2>1, Zenon DEF Sondear, Sigue, tabla, callback
<1>13. ASSUME NEW s \in Sondeos, Pedir(s) PROVE TiposTabla'
  <2>1. Guardadas \in SUBSET Conversaciones
    BY DEF Guardadas
  <2>2. vuelo' \in [Sondeos -> Tarea]
    BY <1>2, <1>13, <2>1 DEF Pedir, Tarea
  <2> QED BY <1>2, <1>3, <1>13, <2>2, Zenon DEF Pedir, Sigue, tabla, callback
<1>14. ASSUME NEW s \in Sondeos, Servir(s) PROVE TiposTabla'
  <2>1. PICK r \in S : r = obtenerConversaciones(vuelo[s].sabidas)
    BY <1>1, <1>2, ElegirTipo, Zenon DEF obtenerConversaciones
  <2>2. vuelo' \in [Sondeos -> Tarea]
    <3>1. vuelo' = [vuelo EXCEPT ![s].estado = "servido", ![s].nuevas = r]
      BY <1>14, <2>1, Zenon DEF Servir
    <3> QED BY <1>1, <1>2, <3>1 DEF Tarea
  <2> QED BY <1>2, <1>3, <1>14, <2>2, Zenon DEF Servir, Sigue, tabla, callback
<1>15. ASSUME NEW s \in Sondeos, NEW n \in S, Recibir(s, n) PROVE TiposTabla'
  <2>1. porGuardar' \in S
    BY <1>1, <1>15, ElegirTipo, Zenon DEF Recibir, NoGuardadas
  <2>2. vuelo' \in [Sondeos -> Tarea]
    BY <1>2, <1>15, NingunoTarea DEF Recibir
  <2>3. hilo' \in {"libre", "guardar"}
    BY <1>15 DEF Recibir
  <2> QED BY <1>2, <1>3, <1>15, <2>1, <2>2, <2>3, Zenon DEF Recibir, tabla
<1>16. ASSUME NEW s \in Sondeos, Entregar(s) \/ Perder(s) PROVE TiposTabla'
  <2>1. vuelo[s].nuevas \in S
    BY <1>1, <1>2 DEF Tarea
  <2> QED BY <1>2, <1>15, <1>16, <2>1, Zenon DEF Entregar, Perder
<1>17. CASE saveConversation
  <2>1. filas' \in S /\ porGuardar' \in S
    BY <1>1, <1>2, <1>17 DEF saveConversation
  <2> QED BY <1>2, <1>3, <1>17, <2>1, Zenon DEF saveConversation
<1>18. CASE getConversations
  <2>1. hilo' \in {"libre", "guardar"}
    BY <1>18 DEF getConversations
  <2> QED BY <1>2, <1>3, <1>18, <2>1, Zenon DEF getConversations, tabla
<1>19. CASE RecibirContactos \/ sendMessageToServer \/ TerminarDifusion
  BY <1>2, <1>3, <1>19, Zenon DEF RecibirContactos, sendMessageToServer, TerminarDifusion, tabla,
                                  callback
<1>20. CASE UNCHANGED varsListas
  BY <1>2, <1>3, <1>20, Zenon DEF varsListas, tabla, callback
<1> QED
  BY <1>4, <1>5, <1>6, <1>7, <1>8, <1>9, <1>10, <1>11, <1>12, <1>13, <1>14, <1>16, <1>17, <1>18,
     <1>19, <1>20 DEF NextListas

LEMMA PasoTiposPantalla == TiposPantalla /\ [NextListas]_varsListas => TiposPantalla'
<1> SUFFICES ASSUME TiposPantalla, [NextListas]_varsListas PROVE TiposPantalla'
  OBVIOUS
<1> USE DEF TiposPantalla
<1>1. ASSUME UNCHANGED <<pantalla, contactos, dialogo>> PROVE TiposPantalla'
  BY <1>1 DEF pantalla, dialogo
<1>2. CASE Abrir \/ MatarProceso
  BY <1>2 DEF Abrir, MatarProceso, dialogo
<1>3. CASE Descubrir \/ ReanudarChat
  BY <1>3 DEF Descubrir, ReanudarChat, Mostrarse, Quieta
<1>4. CASE PausarChat
  BY <1>4 DEF PausarChat, cancelCurrentServices
<1>5. ASSUME NEW t \in {"chats", "contactos"}, ElegirTab(t) PROVE TiposPantalla'
  BY <1>5 DEF ElegirTab, Mostrarse, Ocultarse, onPause, cancelCurrentServices
<1>6. ASSUME NEW q \in {"chat", "otra"}, Cubrir(q) PROVE TiposPantalla'
  BY <1>6 DEF Cubrir, Quieta, Ocultarse, onPause, cancelCurrentServices
<1>7. ASSUME NEW s \in Sondeos,
             Sondear(s) \/ Pedir(s) \/ Servir(s) \/ Entregar(s) \/ Perder(s)
      PROVE  TiposPantalla'
  BY <1>1, <1>7 DEF Sondear, Pedir, Servir, Entregar, Perder, Recibir, Sigue
<1>8. ASSUME NEW c \in Conversaciones, NuevaConversacion(c) PROVE TiposPantalla'
  BY <1>1, <1>8 DEF NuevaConversacion
<1>9. CASE saveConversation \/ getConversations
  BY <1>1, <1>9 DEF saveConversation, getConversations
<1>10. CASE RecibirContactos \/ sendMessageToServer \/ TerminarDifusion
  BY <1>10 DEF RecibirContactos, sendMessageToServer, TerminarDifusion, pantalla, dialogo
<1>11. CASE UNCHANGED varsListas
  BY <1>1, <1>11 DEF varsListas
<1> QED
  BY <1>2, <1>3, <1>4, <1>5, <1>6, <1>7, <1>8, <1>9, <1>10, <1>11 DEF NextListas

(* The rows, the tasks and the flags always have the types of their        *)
(* classes, for any number of conversations and polls under way.           *)
THEOREM TiposDeLasListas == SpecListas => []TypeOKListas
<1>1. InitListas => TiposTabla /\ TiposPantalla
  <2> SUFFICES ASSUME InitListas PROVE TiposTabla /\ TiposPantalla
    OBVIOUS
  <2>1. TiposTabla
    BY NingunoTarea DEF InitListas, TiposTabla
  <2>2. TiposPantalla
    BY DEF InitListas, TiposPantalla
  <2> QED BY <2>1, <2>2
<1>2. TiposTabla /\ TiposPantalla /\ CadenasInv => TypeOKListas
  BY TiposPartes DEF CadenasInv
<1> QED BY <1>1, <1>2, CadenasInit, CadenasPaso, PasoTiposTabla, PasoTiposPantalla, PTL
        DEF SpecListas

-----------------------------------------------------------------------------
(* The table, against the index of the server.                             *)
SinRepetidos(s) == \A i, j \in DOMAIN s : s[i] = s[j] => i = j

LEMMA PartesAjenas ==
    ASSUME NEW S, NEW a \in Seq(S), NEW b \in Seq(S), SinRepetidos(Junta(a, b)), NEW x,
           Contiene(a, x)
    PROVE  ~Contiene(b, x)
<1>1. PICK c \in Seq(S), n \in Nat, m \in Nat : c = Junta(a, b) /\ n = Len(a) /\ m = Len(b)
  BY JuntaTipo, LenProperties
<1>2. /\ Len(c) = n + m
      /\ \A i \in 1 .. n : c[i] = a[i]
      /\ \A i \in 1 .. m : c[i + n] = b[i]
  <2>1. /\ Len(Junta(a, b)) = Len(a) + Len(b)
        /\ \A i \in 1 .. Len(a) : Junta(a, b)[i] = a[i]
        /\ \A i \in 1 .. Len(b) : Junta(a, b)[i + Len(a)] = b[i]
    BY JuntaLugares
  <2> QED BY <1>1, <2>1, Zenon
<1>3. DOMAIN c = 1 .. (n + m) /\ DOMAIN a = 1 .. n /\ DOMAIN b = 1 .. m
  BY <1>1, <1>2, LenProperties
<1>4. SUFFICES ASSUME NEW i \in 1 .. n, a[i] = x, NEW j \in 1 .. m, b[j] = x PROVE FALSE
  BY <1>3, Zenon DEF Contiene
<1>5. i \in 1 .. (n + m) /\ j + n \in 1 .. (n + m) /\ i # j + n
  OBVIOUS
<1>6. c[i] = c[j + n]
  BY <1>2, <1>4, Zenon
<1> QED BY <1>1, <1>3, <1>5, <1>6, Zenon DEF SinRepetidos

LEMMA SinRepetidosAppend ==
    ASSUME NEW S, NEW s \in Seq(S), NEW m \in S, SinRepetidos(s), ~Contiene(s, m)
    PROVE  SinRepetidos(Append(s, m))
<1>1. PICK u \in Seq(S), n \in Nat :
          /\ u = Append(s, m) /\ n = Len(s) /\ Len(u) = n + 1 /\ u[n + 1] = m
          /\ \A i \in 1 .. n : u[i] = s[i]
  <2>1. /\ Append(s, m) \in Seq(S) /\ Len(s) \in Nat
        /\ Len(Append(s, m)) = Len(s) + 1 /\ Append(s, m)[Len(s) + 1] = m
        /\ \A i \in 1 .. Len(s) : Append(s, m)[i] = s[i]
    BY AppendLugares
  <2> QED BY <2>1, Zenon
<1>2. DOMAIN u = 1 .. (n + 1) /\ DOMAIN s = 1 .. n
  BY <1>1, LenProperties
<1>3. \A i \in 1 .. (n + 1) : i \in 1 .. n \/ i = n + 1
  OBVIOUS
<1> QED BY <1>1, <1>2, <1>3, Zenon DEF SinRepetidos, Contiene

(* Saving the first of the conversations to save.                          *)
LEMMA JuntaPrimero ==
    ASSUME NEW S, NEW f \in Seq(S), NEW p \in Seq(S), p # <<>>
    PROVE  /\ Head(p) \in S /\ Tail(p) \in Seq(S) /\ Append(f, Head(p)) \in Seq(S)
           /\ Junta(f, p) = Junta(Append(f, Head(p)), Tail(p))
<1>1. PICK h \in S, t \in Seq(S) : h = Head(p) /\ t = Tail(p) /\ p = <<h>> \o t
  <2>1. /\ Head(p) \in S /\ Tail(p) \in Seq(S) /\ Len(Tail(p)) = Len(p) - 1
        /\ \A i \in 1 .. Len(Tail(p)) : Tail(p)[i] = p[i + 1]
    BY HeadTailProperties
  <2>2. p = <<Head(p)>> \o Tail(p)
    BY <2>1
  <2> QED BY <2>1, <2>2, Zenon
<1>2. PICK u \in Seq(S) : u = <<h>>
  <2>1. <<h>> \in Seq(S)
    OBVIOUS
  <2> QED BY <2>1, Zenon
<1>3. Junta(f, Junta(u, t)) = Junta(Junta(f, u), t)
  BY JuntaAsocia
<1>4. Junta(f, u) = Append(f, h)
  BY <1>2, AppendIsConcat, Zenon DEF Junta
<1>5. Append(f, h) \in Seq(S)
  BY AppendProperties, Zenon
<1>6. p = Junta(u, t)
  BY <1>1, <1>2, Zenon DEF Junta
<1> QED BY <1>1, <1>3, <1>4, <1>5, <1>6, Zenon

(* A poll under way: it knows a first part a of the rows, and the answer   *)
(* is what follows a in the index.                                         *)
TareaOK(v, ind, fil) ==
    /\ v.estado = "pedido" =>
          \E a \in Seq(Conversaciones), b \in Seq(Conversaciones) :
              /\ fil = Junta(a, b)
              /\ \A x \in Conversaciones : x \in v.sabidas <=> Contiene(a, x)
    /\ v.estado = "servido" =>
          \E a \in Seq(Conversaciones), b \in Seq(Conversaciones), q \in Seq(Conversaciones) :
              fil = Junta(a, b) /\ ind = Junta(a, Junta(v.nuevas, q))

(* The inductive invariant: the rows and those about to be saved begin the *)
(* index, which has none twice.                                            *)
TablaInv ==
    /\ SinRepetidos(indice)
    /\ \E r \in Seq(Conversaciones) : indice = Junta(filas, Junta(porGuardar, r))
    /\ hilo = "libre" => porGuardar = <<>>
    /\ \A s \in Sondeos : TareaOK(vuelo[s], indice, filas)

LEMMA NingunoOK ==
    ASSUME NEW ind, NEW fil PROVE TareaOK(Ninguno, ind, fil)
<1>1. Ninguno.estado # "pedido" /\ Ninguno.estado # "servido"
  BY DEF Ninguno
<1> QED BY <1>1, Zenon DEF TareaOK

(* The server's answer to a poll is what follows the rows it knows.        *)
LEMMA RespuestaDelServidor ==
    ASSUME NEW a \in Seq(Conversaciones), NEW z \in Seq(Conversaciones), NEW sab,
           indice = Junta(a, z), SinRepetidos(indice),
           \A x \in Conversaciones : x \in sab <=> Contiene(a, x)
    PROVE  obtenerConversaciones(sab) = z
<1>1. PICK T : T = Conversaciones \ sab
  BY Zenon
<1>2. \A x : Contiene(a, x) => x \notin T
  <2>1. \A x : Contiene(a, x) => x \in Conversaciones
    BY DEF Contiene
  <2> QED BY <1>1, <2>1
<1>3. \A x : Contiene(z, x) => x \in T
  <2>1. \A x : Contiene(z, x) => x \in Conversaciones
    BY DEF Contiene
  <2>2. \A x : Contiene(a, x) => ~Contiene(z, x)
    BY PartesAjenas
  <2> QED BY <1>1, <2>1, <2>2
<1>4. Elegir(a, T) = <<>> /\ Elegir(z, T) = z
  BY <1>2, <1>3, ElegirTodo
<1>5. Elegir(indice, T) = Junta(Elegir(a, T), Elegir(z, T))
  BY ElegirJunta
<1>6. Junta(<<>>, z) = z
  BY JuntaVacia, Zenon
<1> QED BY <1>1, <1>4, <1>5, <1>6, Zenon DEF obtenerConversaciones

(* The same sequence cut after a and b and after a and n.                  *)
LEMMA CortesTras ==
    ASSUME NEW S, NEW a \in Seq(S), NEW b \in Seq(S), NEW r \in Seq(S), NEW n \in Seq(S),
           NEW q \in Seq(S), Junta(Junta(a, b), r) = Junta(a, Junta(n, q))
    PROVE  Solapan(S, b, r, n, q)
<1>1. Junta(Junta(a, b), r) = Junta(a, Junta(b, r))
  BY JuntaAsocia
<1>2. Junta(b, r) \in Seq(S) /\ Junta(n, q) \in Seq(S)
  BY JuntaTipo
<1>3. Junta(b, r) = Junta(n, q)
  BY <1>1, <1>2, JuntaCancela
<1> QED BY <1>3, DosCortes

(* The rows an answer adds follow the ones of the table.                   *)
LEMMA RespuestaAplicada ==
    ASSUME NEW C, C = Conversaciones,
           NEW a \in Seq(C), NEW b \in Seq(C), NEW n \in Seq(C), NEW q \in Seq(C), NEW r \in Seq(C),
           filas = Junta(a, b), indice = Junta(filas, r), indice = Junta(a, Junta(n, q)),
           SinRepetidos(indice)
    PROVE  \E z \in Seq(C) : indice = Junta(filas, Junta(NoGuardadas(n), z))
<1>1. PICK T : T = C \ Guardadas
  BY Zenon
<1>2. \A x : x \in C => (x \in T <=> ~Contiene(filas, x))
  BY <1>1 DEF Guardadas
<1>4. NoGuardadas(n) = Elegir(n, T)
  BY <1>1, Zenon DEF NoGuardadas
<1>5. filas \in Seq(C)
  BY JuntaTipo
<1>6. \A x : Contiene(b, x) => Contiene(filas, x)
  BY JuntaContiene
<1>7. ASSUME NEW c \in Seq(C), n = Junta(b, c), r = Junta(c, q)
      PROVE  \E z \in Seq(C) : indice = Junta(filas, Junta(NoGuardadas(n), z))
  <2>1. \A x : Contiene(b, x) => x \notin T
    <3>1. \A x : Contiene(b, x) => x \in C
      BY DEF Contiene
    <3> QED BY <1>2, <1>6, <3>1, Zenon
  <2>2. \A x : Contiene(c, x) => x \in T
    <3>1. \A x : Contiene(c, x) => x \in C
      BY DEF Contiene
    <3>2. \A x : Contiene(c, x) => Contiene(r, x)
      BY <1>7, JuntaContiene
    <3>3. \A x : Contiene(filas, x) => ~Contiene(r, x)
      BY <1>5, PartesAjenas
    <3> QED BY <1>2, <3>1, <3>2, <3>3, Zenon
  <2>3. Elegir(b, T) = <<>> /\ Elegir(c, T) = c
    BY <2>1, <2>2, ElegirTodo
  <2>4. Elegir(n, T) = Junta(Elegir(b, T), Elegir(c, T))
    BY <1>7, ElegirJunta
  <2>5. Junta(<<>>, c) = c
    BY JuntaVacia
  <2>6. NoGuardadas(n) = c
    BY <1>4, <2>3, <2>4, <2>5, Zenon
  <2> QED BY <1>7, <2>6, Zenon
<1>8. ASSUME NEW c \in Seq(C), b = Junta(n, c)
      PROVE  \E z \in Seq(C) : indice = Junta(filas, Junta(NoGuardadas(n), z))
  <2>1. \A x : Contiene(n, x) => x \notin T
    <3>1. \A x : Contiene(n, x) => x \in C
      BY DEF Contiene
    <3>2. \A x : Contiene(n, x) => Contiene(b, x)
      BY <1>8, JuntaContiene
    <3> QED BY <1>2, <1>6, <3>1, <3>2, Zenon
  <2>2. NoGuardadas(n) = <<>>
    BY <1>4, <2>1, ElegirTodo
  <2>3. Junta(<<>>, r) = r
    BY JuntaVacia
  <2> QED BY <2>2, <2>3, Zenon
<1>9. \/ \E c \in Seq(C) : n = Junta(b, c) /\ r = Junta(c, q)
      \/ \E c \in Seq(C) : b = Junta(n, c)
  <2>1. Junta(Junta(a, b), r) = Junta(a, Junta(n, q))
    BY Zenon
  <2>2. Solapan(C, b, r, n, q)
    BY <2>1, CortesTras
  <2> QED BY <2>2, Zenon DEF Solapan
<1> QED BY <1>7, <1>8, <1>9, Zenon

(* One more row in the table, or one more conversation in the index.       *)
LEMMA TareaCrece ==
    ASSUME NEW C, C = Conversaciones, NEW v, NEW ind, NEW fil, NEW m \in C,
           v.nuevas \in Seq(C), TareaOK(v, ind, fil)
    PROVE  TareaOK(v, Append(ind, m), fil) /\ TareaOK(v, ind, Append(fil, m))
<1>1. \A a, b \in Seq(C) : Append(b, m) \in Seq(C) /\ Junta(a, Append(b, m)) = Append(Junta(a, b), m)
  BY JuntaAppend, AppendProperties
<1>2. PICK n \in Seq(C) : n = v.nuevas
  BY Zenon
<1>3. ASSUME NEW a \in Seq(C), NEW q \in Seq(C), ind = Junta(a, Junta(n, q))
      PROVE  Append(ind, m) = Junta(a, Junta(n, Append(q, m)))
  <2>1. PICK z \in Seq(C) : z = Junta(n, q)
    BY JuntaTipo, SMT
  <2>2. Junta(n, Append(q, m)) = Append(z, m)
    BY <1>1, <2>1, Zenon
  <2>3. Junta(a, Append(z, m)) = Append(Junta(a, z), m)
    BY <1>1, Zenon
  <2> QED BY <1>3, <2>1, <2>2, <2>3, Zenon
<1>4. ASSUME NEW a \in Seq(C), NEW b \in Seq(C), fil = Junta(a, b)
      PROVE  Append(fil, m) = Junta(a, Append(b, m))
  BY <1>1, <1>4, Zenon
<1>5. TareaOK(v, Append(ind, m), fil)
  <2>1. CASE v.estado = "servido"
    <3>1. PICK a \in Seq(C), b \in Seq(C), q \in Seq(C) :
              fil = Junta(a, b) /\ ind = Junta(a, Junta(n, q))
      BY <1>2, <2>1, Zenon DEF TareaOK
    <3>2. Append(q, m) \in Seq(C) /\ Append(ind, m) = Junta(a, Junta(n, Append(q, m)))
      BY <1>1, <1>3, <3>1, Zenon
    <3>3. v.estado # "pedido"
      BY <2>1
    <3> QED BY <1>2, <3>1, <3>2, <3>3, Zenon DEF TareaOK
  <2> QED BY <2>1, Zenon DEF TareaOK
<1>6. TareaOK(v, ind, Append(fil, m))
  <2>1. CASE v.estado = "servido"
    <3>1. PICK a \in Seq(C), b \in Seq(C), q \in Seq(C) :
              fil = Junta(a, b) /\ ind = Junta(a, Junta(v.nuevas, q))
      BY <2>1, Zenon DEF TareaOK
    <3>2. Append(b, m) \in Seq(C) /\ Append(fil, m) = Junta(a, Append(b, m))
      BY <1>1, <1>4, <3>1, Zenon
    <3>3. v.estado # "pedido"
      BY <2>1
    <3> QED BY <3>1, <3>2, <3>3, Zenon DEF TareaOK
  <2>2. CASE v.estado = "pedido"
    <3>1. PICK a \in Seq(C), b \in Seq(C) :
              /\ fil = Junta(a, b)
              /\ \A x \in Conversaciones : x \in v.sabidas <=> Contiene(a, x)
      BY <2>2, Zenon DEF TareaOK
    <3>2. Append(b, m) \in Seq(C) /\ Append(fil, m) = Junta(a, Append(b, m))
      BY <1>1, <1>4, <3>1, Zenon
    <3>3. v.estado # "servido"
      BY <2>2
    <3> QED BY <3>1, <3>2, <3>3, Zenon DEF TareaOK
  <2> QED BY <2>1, <2>2, Zenon DEF TareaOK
<1> QED BY <1>5, <1>6

(* Saving a row moves it from the ones to save to the table.               *)
LEMMA GuardarFila ==
    ASSUME NEW S, NEW f \in Seq(S), NEW p \in Seq(S), NEW r \in Seq(S), p # <<>>
    PROVE  Junta(f, Junta(p, r)) = Junta(Append(f, Head(p)), Junta(Tail(p), r))
<1>1. PICK g \in Seq(S), t \in Seq(S) :
          g = Append(f, Head(p)) /\ t = Tail(p) /\ Junta(f, p) = Junta(g, t)
  <2>1. /\ Tail(p) \in Seq(S) /\ Append(f, Head(p)) \in Seq(S)
        /\ Junta(f, p) = Junta(Append(f, Head(p)), Tail(p))
    BY JuntaPrimero
  <2> QED BY <2>1, Zenon
<1>2. Junta(f, Junta(p, r)) = Junta(Junta(f, p), r)
  BY JuntaAsocia
<1>3. Junta(Junta(g, t), r) = Junta(g, Junta(t, r))
  BY JuntaAsocia
<1> QED BY <1>1, <1>2, <1>3, Zenon

LEMMA PasoTabla == TiposTabla /\ TablaInv /\ [NextListas]_varsListas => TablaInv'
<1> SUFFICES ASSUME TiposTabla, TablaInv, [NextListas]_varsListas PROVE TablaInv'
  OBVIOUS
<1>1. PICK C, S : C = Conversaciones /\ S = Seq(C)
  BY Zenon
<1>2. /\ indice \in S /\ filas \in S /\ porGuardar \in S /\ <<>> \in S
      /\ vuelo \in [Sondeos -> Tarea]
  BY <1>1, EmptySeq, Zenon DEF TiposTabla
<1>3. SinRepetidos(indice) /\ (hilo = "libre" => porGuardar = <<>>)
  BY Zenon DEF TablaInv
<1>4. PICK r \in S : indice = Junta(filas, Junta(porGuardar, r))
  BY <1>1, Zenon DEF TablaInv
<1>5. \A s \in Sondeos : TareaOK(vuelo[s], indice, filas)
  BY Zenon DEF TablaInv
<1>6. ASSUME SinRepetidos(indice'), \E z \in S : indice' = Junta(filas', Junta(porGuardar', z)),
             hilo' = "libre" => porGuardar' = <<>>,
             \A s \in Sondeos : TareaOK(vuelo'[s], indice', filas')
      PROVE  TablaInv'
  BY <1>1, <1>6, Zenon DEF TablaInv, SinRepetidos, Junta, TareaOK, Contiene
<1>7. ASSUME UNCHANGED <<indice, filas, porGuardar, hilo>>,
             \A s \in Sondeos : TareaOK(vuelo'[s], indice, filas)
      PROVE  TablaInv'
  BY <1>3, <1>4, <1>6, <1>7, Zenon
<1>8. ASSUME UNCHANGED <<indice, filas, porGuardar, hilo>>,
             vuelo' = vuelo \/ vuelo' = [s \in Sondeos |-> Ninguno]
      PROVE  TablaInv'
  <2>1. CASE vuelo' = vuelo
    BY <1>5, <1>7, <1>8, <2>1, Zenon
  <2>2. CASE vuelo' = [s \in Sondeos |-> Ninguno]
    <3>1. \A s \in Sondeos : vuelo'[s] = Ninguno
      BY <2>2
    <3> QED BY <1>7, <1>8, <3>1, NingunoOK, Zenon
  <2> QED BY <1>8, <2>1, <2>2, Zenon
<1>9. CASE Abrir \/ ReanudarChat
  BY <1>8, <1>9, Zenon DEF Abrir, ReanudarChat, tabla, callback, Quieta
<1>10. CASE Descubrir
  BY <1>8, <1>10, Zenon DEF Descubrir, tabla, callback, Mostrarse, Quieta
<1>11. CASE PausarChat
  BY <1>8, <1>11, Zenon DEF PausarChat, tabla, callback, cancelCurrentServices
<1>12. CASE MatarProceso
  <2>1. \A s \in Sondeos : vuelo'[s] = Ninguno
    BY <1>12 DEF MatarProceso
  <2>2. indice' = indice /\ filas' = filas /\ porGuardar' = <<>>
    BY <1>12, Zenon DEF MatarProceso, tabla
  <2>3. Junta(porGuardar, r) \in S
    BY <1>1, <1>2, <1>4, JuntaTipo, Zenon
  <2>4. Junta(<<>>, Junta(porGuardar, r)) = Junta(porGuardar, r)
    BY <1>1, <2>3, JuntaVacia, Zenon
  <2> QED BY <1>3, <1>4, <1>6, <2>1, <2>2, <2>3, <2>4, NingunoOK, Zenon
<1>13. ASSUME NEW t \in {"chats", "contactos"}, ElegirTab(t) PROVE TablaInv'
  BY <1>8, <1>13, Zenon DEF ElegirTab, tabla, callback, Mostrarse, Ocultarse, onPause,
                            cancelCurrentServices
<1>14. ASSUME NEW q \in {"chat", "otra"}, Cubrir(q) PROVE TablaInv'
  BY <1>8, <1>14, Zenon DEF Cubrir, tabla, callback, Quieta, Ocultarse, onPause,
                            cancelCurrentServices
<1>15. ASSUME NEW c \in Conversaciones, NuevaConversacion(c) PROVE TablaInv'
  <2>1. indice' = Append(indice, c) /\ ~Contiene(indice, c)
    BY <1>15, Zenon DEF NuevaConversacion
  <2>2. UNCHANGED <<filas, vuelo, porGuardar, hilo>>
    BY <1>15, Zenon DEF NuevaConversacion, callback
  <2>3. SinRepetidos(indice')
    BY <1>1, <1>2, <1>3, <2>1, SinRepetidosAppend, Zenon
  <2>4. \E z \in S : indice' = Junta(filas, Junta(porGuardar, z))
    <3>1. Append(r, c) \in S /\ Junta(porGuardar, r) \in S
      BY <1>1, <1>2, <1>4, AppendProperties, JuntaTipo
    <3>2. Junta(porGuardar, Append(r, c)) = Append(Junta(porGuardar, r), c)
      BY <1>1, <1>2, <1>4, JuntaAppend
    <3>3. Junta(filas, Append(Junta(porGuardar, r), c)) = Append(Junta(filas, Junta(porGuardar, r)), c)
      BY <1>1, <1>2, <3>1, JuntaAppend
    <3> QED BY <1>4, <2>1, <3>1, <3>2, <3>3, Zenon
  <2>5. ASSUME NEW s \in Sondeos PROVE TareaOK(vuelo'[s], indice', filas)
    <3>1. vuelo[s].nuevas \in Seq(Conversaciones)
      BY <1>2 DEF Tarea
    <3>2. TareaOK(vuelo[s], Append(indice, c), filas)
      BY <1>5, <3>1, TareaCrece, Zenon
    <3> QED BY <2>1, <2>2, <3>2, Zenon
  <2> QED BY <1>3, <1>6, <2>2, <2>3, <2>4, <2>5, Zenon
<1>16. ASSUME NEW s \in Sondeos, UNCHANGED <<indice, filas, porGuardar, hilo>>,
              \A a \in Sondeos : a # s => vuelo'[a] = vuelo[a],
              TareaOK(vuelo'[s], indice, filas)
       PROVE  TablaInv'
  BY <1>5, <1>7, <1>16, Zenon
<1>17. ASSUME NEW s \in Sondeos, Sondear(s) PROVE TablaInv'
  <2>1. \A a \in Sondeos : a # s => vuelo'[a] = vuelo[a]
    BY <1>2, <1>17 DEF Sondear
  <2>2. vuelo'[s].estado = "tarea"
    BY <1>2, <1>17 DEF Sondear, Tarea
  <2>3. TareaOK(vuelo'[s], indice, filas)
    BY <2>2 DEF TareaOK
  <2> QED BY <1>16, <1>17, <2>1, <2>3, Zenon DEF Sondear, Sigue, tabla, callback
<1>18. ASSUME NEW s \in Sondeos, Pedir(s) PROVE TablaInv'
  <2>1. \A a \in Sondeos : a # s => vuelo'[a] = vuelo[a]
    BY <1>2, <1>18 DEF Pedir
  <2>2. vuelo'[s].estado = "pedido" /\ vuelo'[s].sabidas = Guardadas
    BY <1>2, <1>18 DEF Pedir, Tarea
  <2>3. vuelo'[s].estado # "servido"
    BY <2>2
  <2>4. Junta(filas, <<>>) = filas /\ <<>> \in Seq(Conversaciones)
    BY <1>1, <1>2, JuntaVacia, Zenon
  <2>5. \A x \in Conversaciones : x \in vuelo'[s].sabidas <=> Contiene(filas, x)
    BY <2>2, Zenon DEF Guardadas
  <2>6. TareaOK(vuelo'[s], indice, filas)
    BY <1>1, <1>2, <2>3, <2>4, <2>5, Zenon DEF TareaOK
  <2> QED BY <1>16, <1>18, <2>1, <2>6, Zenon DEF Pedir, Sigue, tabla, callback
<1>19. ASSUME NEW s \in Sondeos, Servir(s) PROVE TablaInv'
  <2>1. PICK n : n = obtenerConversaciones(vuelo[s].sabidas)
    BY Zenon
  <2>2. vuelo' = [vuelo EXCEPT ![s].estado = "servido", ![s].nuevas = n]
    BY <1>19, <2>1, Zenon DEF Servir
  <2>3. /\ \A a \in Sondeos : a # s => vuelo'[a] = vuelo[a]
        /\ vuelo'[s].estado = "servido" /\ vuelo'[s].nuevas = n
    BY <1>2, <2>2 DEF Tarea
  <2>4. vuelo'[s].estado # "pedido"
    BY <2>3
  <2>5. PICK a \in Seq(C), b \in Seq(C) :
            /\ filas = Junta(a, b)
            /\ \A x \in Conversaciones : x \in vuelo[s].sabidas <=> Contiene(a, x)
    BY <1>1, <1>5, <1>19, Zenon DEF TareaOK, Servir
  <2>6. PICK z \in Seq(C) : indice = Junta(a, z)
    <3>1. PICK w \in Seq(C) : w = Junta(porGuardar, r)
      BY <1>1, <1>2, <1>4, JuntaTipo, Zenon
    <3>2. Junta(Junta(a, b), w) = Junta(a, Junta(b, w)) /\ Junta(b, w) \in Seq(C)
      BY JuntaAsocia, JuntaTipo
    <3> QED BY <1>4, <2>5, <3>1, <3>2, Zenon
  <2>7. n = z
    BY <1>1, <1>3, <2>1, <2>5, <2>6, RespuestaDelServidor, Zenon
  <2>8. Junta(z, <<>>) = z /\ <<>> \in Seq(C)
    BY JuntaVacia, EmptySeq, Zenon
  <2>9. TareaOK(vuelo'[s], indice, filas)
    BY <1>1, <2>3, <2>4, <2>5, <2>6, <2>7, <2>8, Zenon DEF TareaOK
  <2> QED BY <1>16, <1>19, <2>3, <2>9, Zenon DEF Servir, Sigue, tabla, callback
<1>20. ASSUME NEW s \in Sondeos, NEW n \in S, Recibir(s, n),
              \E z \in S : indice = Junta(filas, Junta(NoGuardadas(n), z))
       PROVE  TablaInv'
  <2>1. ASSUME NEW a \in Sondeos PROVE TareaOK(vuelo'[a], indice, filas)
    <3>1. vuelo'[a] = vuelo[a] \/ vuelo'[a] = Ninguno
      BY <1>2, <1>20 DEF Recibir
    <3> QED BY <1>5, <3>1, NingunoOK, Zenon
  <2>2. hilo' # "libre"
    BY <1>20 DEF Recibir
  <2>3. indice' = indice /\ filas' = filas /\ porGuardar' = NoGuardadas(n)
    BY <1>20, Zenon DEF Recibir, tabla
  <2> QED BY <1>3, <1>6, <1>20, <2>1, <2>2, <2>3, Zenon
<1>21. hilo = "libre" => indice = Junta(filas, r)
  <2>1. Junta(<<>>, r) = r
    BY <1>1, JuntaVacia, Zenon
  <2> QED BY <1>3, <1>4, <2>1, Zenon
<1>22. ASSUME NEW s \in Sondeos, Entregar(s) PROVE TablaInv'
  <2>1. PICK n \in Seq(C) : n = vuelo[s].nuevas
    BY <1>1, <1>2 DEF Tarea
  <2>2. Recibir(s, n) /\ vuelo[s].estado = "servido" /\ hilo = "libre"
    BY <1>22, <2>1, Zenon DEF Entregar, Recibir
  <2>3. PICK a \in Seq(C), b \in Seq(C), q \in Seq(C) :
            filas = Junta(a, b) /\ indice = Junta(a, Junta(n, q))
    BY <1>1, <1>5, <2>1, <2>2, Zenon DEF TareaOK
  <2>4. \E z \in Seq(C) : indice = Junta(filas, Junta(NoGuardadas(n), z))
    BY <1>1, <1>3, <1>21, <2>2, <2>3, RespuestaAplicada
  <2> QED BY <1>1, <1>20, <2>2, <2>4, Zenon
<1>23. ASSUME NEW s \in Sondeos, Perder(s) PROVE TablaInv'
  <2>1. Recibir(s, <<>>) /\ hilo = "libre"
    BY <1>23, Zenon DEF Perder, Recibir
  <2>2. NoGuardadas(<<>>) = <<>>
    BY ElegirEc, Zenon DEF NoGuardadas
  <2>3. Junta(<<>>, r) = r
    BY <1>1, JuntaVacia, Zenon
  <2>4. \E z \in S : indice = Junta(filas, Junta(NoGuardadas(<<>>), z))
    BY <1>4, <1>21, <2>1, <2>2, <2>3, Zenon
  <2> QED BY <1>2, <1>20, <2>1, <2>4, Zenon
<1>24. CASE saveConversation
  <2>1. /\ filas' = Append(filas, Head(porGuardar)) /\ porGuardar' = Tail(porGuardar)
        /\ porGuardar # <<>> /\ hilo = "guardar" /\ UNCHANGED <<indice, vuelo, hilo>>
    BY <1>24, Zenon DEF saveConversation
  <2>2. PICK h \in C : h = Head(porGuardar)
    BY <1>1, <1>2, <2>1, JuntaPrimero
  <2>5. indice' = Junta(filas', Junta(porGuardar', r))
    <3>1. Junta(filas, Junta(porGuardar, r))
              = Junta(Append(filas, Head(porGuardar)), Junta(Tail(porGuardar), r))
      BY <1>1, <1>2, <1>4, <2>1, GuardarFila
    <3> QED BY <1>4, <2>1, <3>1, Zenon
  <2>6. ASSUME NEW s \in Sondeos PROVE TareaOK(vuelo'[s], indice, filas')
    <3>1. vuelo[s].nuevas \in Seq(C)
      BY <1>1, <1>2 DEF Tarea
    <3>2. TareaOK(vuelo[s], indice, Append(filas, h))
      BY <1>1, <1>5, <3>1, TareaCrece, Zenon
    <3> QED BY <2>1, <2>2, <3>2, Zenon
  <2>7. hilo' # "libre"
    BY <2>1
  <2> QED BY <1>3, <1>4, <1>6, <2>1, <2>5, <2>6, <2>7, Zenon
<1>25. CASE getConversations
  <2>1. UNCHANGED <<indice, filas, porGuardar, vuelo>> /\ porGuardar = <<>>
    BY <1>25, Zenon DEF getConversations, tabla
  <2> QED BY <1>3, <1>4, <1>5, <1>6, <2>1, Zenon
<1>26. CASE RecibirContactos \/ sendMessageToServer \/ TerminarDifusion
  BY <1>8, <1>26, Zenon DEF RecibirContactos, sendMessageToServer, TerminarDifusion, tabla,
                            callback
<1>27. CASE UNCHANGED varsListas
  BY <1>8, <1>27, Zenon DEF varsListas, tabla, callback
<1> QED
  BY <1>9, <1>10, <1>11, <1>12, <1>13, <1>14, <1>15, <1>17, <1>18, <1>19, <1>22, <1>23, <1>24,
     <1>25, <1>26, <1>27 DEF NextListas

LEMMA PrefijoJunta ==
    ASSUME NEW S, NEW s \in Seq(S), NEW t \in Seq(S)
    PROVE  EsPrefijo(s, Junta(s, t))
<1>1. PICK c \in Seq(S) : c = Junta(s, t)
  BY JuntaTipo, Zenon
<1>2. Len(c) = Len(s) + Len(t) /\ \A i \in 1 .. Len(s) : c[i] = s[i]
  BY <1>1, JuntaLugares
<1>3. Len(s) <= Len(c)
  BY <1>2, LenProperties
<1> QED BY <1>1, <1>2, <1>3, PrefijoPuntos

LEMMA PrefijoAppend ==
    ASSUME NEW S, NEW s \in Seq(S), NEW m \in S
    PROVE  EsPrefijo(s, Append(s, m)) /\ s # Append(s, m)
<1>1. /\ Append(s, m) \in Seq(S) /\ Len(s) \in Nat
      /\ Len(Append(s, m)) = Len(s) + 1
      /\ \A i \in 1 .. Len(s) : Append(s, m)[i] = s[i]
  BY AppendLugares
<1>2. Len(s) <= Len(Append(s, m))
  BY <1>1
<1>3. EsPrefijo(s, Append(s, m))
  BY <1>1, <1>2, PrefijoPuntos
<1>4. s # Append(s, m)
  BY <1>1
<1> QED BY <1>3, <1>4

(* The steps that change the index or the table.                           *)
LEMMA PasoCrece ==
    ASSUME TiposTabla, [NextListas]_varsListas
    PROVE  \/ UNCHANGED <<indice, filas>>
           \/ filas' = filas /\ \E c \in Conversaciones : indice' = Append(indice, c)
           \/ indice' = indice /\ \E c \in Conversaciones : filas' = Append(filas, c)
<1> DEFINE Meta == \/ UNCHANGED <<indice, filas>>
                   \/ filas' = filas /\ \E c \in Conversaciones : indice' = Append(indice, c)
                   \/ indice' = indice /\ \E c \in Conversaciones : filas' = Append(filas, c)
<1>1. ASSUME UNCHANGED tabla PROVE Meta
  BY <1>1, Zenon DEF tabla
<1>2. ASSUME NEW c \in Conversaciones, NuevaConversacion(c) PROVE Meta
  BY <1>2, Zenon DEF NuevaConversacion
<1>3. ASSUME saveConversation PROVE Meta
  <2>1. Head(porGuardar) \in Conversaciones
    BY <1>3, HeadTailProperties DEF saveConversation, TiposTabla
  <2> QED BY <1>3, <2>1, Zenon DEF saveConversation
<1>4. ASSUME Abrir \/ Descubrir \/ PausarChat \/ ReanudarChat \/ MatarProceso PROVE Meta
  BY <1>1, <1>4, Zenon DEF Abrir, Descubrir, PausarChat, ReanudarChat, MatarProceso
<1>5. ASSUME \/ \E t \in {"chats", "contactos"} : ElegirTab(t)
             \/ \E q \in {"chat", "otra"} : Cubrir(q)
      PROVE  Meta
  BY <1>1, <1>5, Zenon DEF ElegirTab, Cubrir
<1>6. ASSUME NEW s \in Sondeos,
             Sondear(s) \/ Pedir(s) \/ Servir(s) \/ Entregar(s) \/ Perder(s)
      PROVE  Meta
  BY <1>1, <1>6, Zenon DEF Sondear, Pedir, Servir, Entregar, Perder, Recibir, Sigue
<1>7. ASSUME getConversations \/ RecibirContactos \/ sendMessageToServer \/ TerminarDifusion
      PROVE  Meta
  BY <1>1, <1>7, Zenon DEF getConversations, RecibirContactos, sendMessageToServer,
                           TerminarDifusion
<1>8. ASSUME UNCHANGED varsListas PROVE Meta
  BY <1>1, <1>8, Zenon DEF varsListas
<1> HIDE DEF Meta
<1>9. Meta
  <2>1. NextListas \/ UNCHANGED varsListas
    OBVIOUS
  <2>2. CASE NextListas
    BY <1>2, <1>3, <1>4, <1>5, <1>6, <1>7, <2>2, Zenon DEF NextListas
  <2> QED BY <1>8, <2>1, <2>2, Zenon
<1> QED BY <1>9, Zenon DEF Meta

(* The tab of the conversations implements the mailbox for every           *)
(* interleaving of polls, losses, cancellations and ends of the process:   *)
(* the rows are always the first ones of the server's index, in its order, *)
(* and none is taken back.                                                 *)
THEOREM ListasImplementanBuzon == SpecListas => ListaImplementaBuzon
<1>1. InitListas => TiposTabla /\ TablaInv
  <2> SUFFICES ASSUME InitListas PROVE TiposTabla /\ TablaInv
    OBVIOUS
  <2>1. TiposTabla
    BY NingunoTarea DEF InitListas, TiposTabla
  <2>2. indice = <<>> /\ filas = <<>> /\ porGuardar = <<>>
    BY Zenon DEF InitListas
  <2>3. SinRepetidos(indice)
    BY <2>2 DEF SinRepetidos
  <2>4. <<>> \in Seq(Conversaciones) /\ Junta(<<>>, <<>>) = <<>>
    BY EmptySeq, JuntaVacia, Zenon
  <2>5. \A s \in Sondeos : vuelo[s] = Ninguno
    BY DEF InitListas
  <2>6. TablaInv
    BY <2>2, <2>3, <2>4, <2>5, NingunoOK, Zenon DEF TablaInv
  <2> QED BY <2>1, <2>6
<1>2. InitListas => BuzonDeLaLista!Init
  BY Zenon DEF InitListas, BuzonDeLaLista!Init
<1>3. TiposTabla /\ TiposTabla' /\ TablaInv' /\ [NextListas]_varsListas
          => [BuzonDeLaLista!Next]_(BuzonDeLaLista!varsBuzon)
  <2> SUFFICES ASSUME TiposTabla, TiposTabla', TablaInv', [NextListas]_varsListas
               PROVE  [BuzonDeLaLista!Next]_(BuzonDeLaLista!varsBuzon)
    OBVIOUS
  <2>1. PICK S : S = Conversaciones
    BY Zenon
  <2>2. /\ indice \in Seq(S) /\ filas \in Seq(S) /\ indice' \in Seq(S) /\ filas' \in Seq(S)
        /\ porGuardar' \in Seq(S)
    BY <2>1, Zenon DEF TiposTabla
  <2>3. EsPrefijo(filas', indice')
    <3>1. PICK z \in Seq(S) : indice' = Junta(filas', Junta(porGuardar', z))
      BY <2>1, Zenon DEF TablaInv, Junta
    <3>2. PICK w \in Seq(S) : w = Junta(porGuardar', z)
      BY <2>2, JuntaTipo, Zenon
    <3> QED BY <2>2, <3>1, <3>2, PrefijoJunta, Zenon
  <2>4. CASE UNCHANGED <<indice, filas>>
    BY <2>4, Zenon DEF BuzonDeLaLista!varsBuzon
  <2>5. CASE filas' = filas /\ \E c \in Conversaciones : indice' = Append(indice, c)
    <3>1. EsPrefijo(indice, indice') /\ indice # indice'
      BY <2>1, <2>2, <2>5, PrefijoAppend, Zenon
    <3> QED BY <2>5, <3>1, Zenon
            DEF BuzonDeLaLista!Next, BuzonDeLaLista!Aceptar, BuzonDeLaLista!EsPrefijo, EsPrefijo
  <2>6. CASE indice' = indice /\ \E c \in Conversaciones : filas' = Append(filas, c)
    <3>1. EsPrefijo(filas, filas') /\ filas # filas'
      BY <2>1, <2>2, <2>6, PrefijoAppend, Zenon
    <3> QED BY <2>3, <2>6, <3>1, Zenon
            DEF BuzonDeLaLista!Next, BuzonDeLaLista!Recibir, BuzonDeLaLista!EsPrefijo, EsPrefijo
  <2> QED BY <2>4, <2>5, <2>6, PasoCrece, Zenon
<1> QED BY <1>1, <1>2, <1>3, PasoTiposTabla, PasoTabla, PTL
        DEF SpecListas, ListaImplementaBuzon, BuzonDeLaLista!Spec
=============================================================================
