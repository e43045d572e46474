---------------------------- MODULE Localizacion ----------------------------
(***************************************************************************)
(* Class Localizacion of the server: the place of the list loaded at the   *)
(* start in which a check-in falls.                                        *)
(*                                                                         *)
(* Coordinates and radii are integers and distances are compared by their  *)
(* squares, which orders them as the square roots do.                      *)
(***************************************************************************)
EXTENDS Integers, Sequences, SequencesExt

CONSTANTS
    Latitudes, Longitudes,  \* small sets of integers
    Radios,                 \* small set of naturals
    MaxLugares,             \* bound on the length of the list of places
    DistanciaMaxima         \* distanciaMaxima, 999 degrees in the code

Coordenadas == [latitud : Latitudes, longitud : Longitudes]

(* The lists of places; a place is named by its position.                  *)
ListasDeLugares ==
    UNION { [1 .. n -> [centro : Coordenadas, radio : Radios]] : n \in 0 .. MaxLugares }

Cuadrado(n) == n * n

calcularDistancia(a, b) ==
    Cuadrado(a.latitud - b.latitud) + Cuadrado(a.longitud - b.longitud)

(* Seeded fault: the last place that contains the point is taken.          *)
ProbarSinComparar(lugares, p, mejor, i) ==
    LET d == calcularDistancia(lugares[i].centro, p)
    IN  IF d <= Cuadrado(lugares[i].radio) THEN [lugar |-> i, distancia |-> d] ELSE mejor

(* One round of the loop: a place that contains the point replaces the     *)
(* nearest one so far, also when it is as near.                            *)
Probar(lugares, p, mejor, i) ==
    LET d == calcularDistancia(lugares[i].centro, p)
    IN  IF d <= mejor.distancia /\ d <= Cuadrado(lugares[i].radio)
        THEN [lugar |-> i, distancia |-> d]
        ELSE mejor

(* The position of the place, or 0, "desconocida".                         *)
calcularUbicacion(lugares, p) ==
    FoldLeft(LAMBDA mejor, i : Probar(lugares, p, mejor, i),
             [lugar |-> 0, distancia |-> Cuadrado(DistanciaMaxima)],
             [i \in 1 .. Len(lugares) |-> i]).lugar

-----------------------------------------------------------------------------
(* The places of the list that contain the point.                          *)
Contienen(lugares, p) ==
    { i \in DOMAIN lugares :
        calcularDistancia(lugares[i].centro, p) <= Cuadrado(lugares[i].radio) }

(* calcularUbicacion finds a place exactly when one contains the point;    *)
(* with overlapping places it is one whose centre is nearest, and of those *)
(* the last of the file, in whatever order the places were loaded.         *)
UbicacionSegunLaLista ==
    \A lugares \in ListasDeLugares, p \in Coordenadas :
        LET u == calcularUbicacion(lugares, p)
            En == Contienen(lugares, p)
            Cerca(i) == calcularDistancia(lugares[i].centro, p)
        IN  IF En = {} THEN u = 0
            ELSE /\ u \in En
                 /\ \A i \in En : Cerca(u) < Cerca(i) \/ (Cerca(u) = Cerca(i) /\ i <= u)

=============================================================================
