-------------------------------- MODULE Rutas --------------------------------
(***************************************************************************)
(* The routes of the REST interface: Servidor::parsearURI, which chooses   *)
(* the service, getParametroIdMetodoGET, which takes the id from the URI,  *)
(* and the requests that class Service of the client makes.                *)
(*                                                                         *)
(* A URI is the sequence of its segments: "/usuario/" is <<"usuario", "">>.*)
(***************************************************************************)
EXTENDS Naturals, Sequences, SequencesExt

CONSTANT Ids    \* phones and conversation ids, which are no words of a route

(* std::string::find of a route in the URI: its last segment is the        *)
(* beginning of one of the URI's, and "" of any.                           *)
ContieneRuta(uri, ruta) ==
    \E d \in 0 .. Len(uri) - Len(ruta) :
        \A k \in 1 .. Len(ruta) :
            uri[d + k] = ruta[k] \/ (k = Len(ruta) /\ ruta[k] = "")

urlBaseUsuario == <<"usuario", "">>
urlBaseConversacion == <<"conversacion", "">>
urlBaseConversacionId == <<"conversacion", "id", "">>
urlBaseUsuarioConversaciones == <<"usuarioConversacion", "">>
urlBaseContactos == <<"contactos", "">>
urlBaseListaDifusion == <<"difusion", "">>
urlCheckinUsuario == <<"usuario", "checkIn">>
urlPrueba == <<"prueba">>

(* The tests of each method, in the order they are made, after which the   *)
(* test route is tried.                                                    *)
RutasPOST(uri) ==
    CASE uri = urlBaseUsuario -> "REGISTRAR_USUARIO"
      [] uri = urlBaseConversacion -> "ALMACENAR_CONVERSACION"
      [] uri = urlBaseListaDifusion -> "ALMACENAR_LISTA_DIFUSION"
      [] OTHER -> "INVALIDO"

(* Seeded fault: the conversation is looked for before its id.             *)
RutasGETConversacionAntes(uri) ==
    IF ContieneRuta(uri, urlBaseUsuarioConversaciones) THEN "OBTENER_CONVERSACIONES"
    ELSE IF ContieneRuta(uri, urlBaseUsuario) THEN "CONSULTAR_USUARIO_ONLINE"
    ELSE IF ContieneRuta(uri, urlBaseConversacion) THEN "OBTENER_CONVERSACION"
    ELSE IF ContieneRuta(uri, urlBaseConversacionId) THEN "OBTENER_ID_CONVERSACION"
    ELSE IF ContieneRuta(uri, urlBaseContactos) THEN "OBTENER_CONTACTOS"
    ELSE "INVALIDO"

RutasGET(uri) ==
    IF ContieneRuta(uri, urlBaseUsuarioConversaciones) THEN "OBTENER_CONVERSACIONES"
    ELSE IF ContieneRuta(uri, urlBaseUsuario) THEN "CONSULTAR_USUARIO_ONLINE"
    ELSE IF ContieneRuta(uri, urlBaseConversacionId) THEN "OBTENER_ID_CONVERSACION"
    ELSE IF ContieneRuta(uri, urlBaseConversacion) THEN "OBTENER_CONVERSACION"
    ELSE IF ContieneRuta(uri, urlBaseContactos) THEN "OBTENER_CONTACTOS"
    ELSE "INVALIDO"

RutasPUT(uri) ==
    IF uri = urlBaseUsuario THEN "ADMINISTRAR_PERFIL"
    ELSE IF ContieneRuta(uri, urlCheckinUsuario) THEN "CHECKIN_USUARIO"
    ELSE "INVALIDO"

parsearURI(metodo, uri) ==
    LET servicio == CASE metodo = "POST" -> RutasPOST(uri)
                      [] metodo = "GET"  -> RutasGET(uri)
                      [] metodo = "PUT"  -> RutasPUT(uri)
                      [] OTHER -> "INVALIDO"
    IN  IF servicio = "INVALIDO" /\ uri = urlPrueba THEN "PRUEBA" ELSE servicio

(* sscanf(uri, base + "%s"): the segment after the base, "" without one.   *)
getParametroIdMetodoGET(uri, base) ==
    IF Len(uri) = Len(base) /\ Front(uri) = Front(base) THEN uri[Len(uri)] ELSE ""

-----------------------------------------------------------------------------
(* The requests of class Service with the service each is meant for and,   *)
(* where the URI carries one, the base and the id; id may be empty.        *)
Peticion(metodo, uri, servicio, base, id) ==
    [metodo |-> metodo, uri |-> uri, servicio |-> servicio, base |-> base, id |-> id]

Peticiones ==
    { Peticion("PUT", <<"usuario", "">>, "ADMINISTRAR_PERFIL", <<>>, ""),
      Peticion("PUT", <<"usuario", "checkIn">>, "CHECKIN_USUARIO", <<>>, ""),
      Peticion("POST", <<"conversacion", "">>, "ALMACENAR_CONVERSACION", <<>>, ""),
      Peticion("GET", <<"conversacion", "id", "">>, "OBTENER_ID_CONVERSACION", <<>>, ""),
      Peticion("POST", <<"usuario", "">>, "REGISTRAR_USUARIO", <<>>, ""),
      Peticion("GET", <<"contactos", "">>, "OBTENER_CONTACTOS", <<>>, ""),
      Peticion("POST", <<"difusion", "">>, "ALMACENAR_LISTA_DIFUSION", <<>>, "") }
    \cup UNION { {
      Peticion("GET", <<"conversacion", id>>, "OBTENER_CONVERSACION", urlBaseConversacion, id),
      Peticion("GET", <<"usuario", id>>, "CONSULTAR_USUARIO_ONLINE", urlBaseUsuario, id),
      Peticion("GET", <<"usuarioConversacion", id>>, "OBTENER_CONVERSACIONES",
               urlBaseUsuarioConversaciones, id) } : id \in Ids \cup {""} }

(* Every request the client makes reaches the service it is meant for and  *)
(* that service reads the id the client put in the URI, although routes    *)
(* are found anywhere in it and one contains another.                      *)
RutasDelCliente ==
    \A p \in Peticiones :
        /\ parsearURI(p.metodo, p.uri) = p.servicio
        /\ p.base # <<>> => getParametroIdMetodoGET(p.uri, p.base) = p.id

=============================================================================
