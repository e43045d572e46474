SPECIFICATION SpecChat
CONSTANTS
    Yo = yo
    Otro = otro
    Vacio = vacio
    Real = idReal
    Invalida = idInvalida
    MaxFecha = 2
    MaxMensajes = 3
    Sondeos = {s1, s2}
INVARIANTS
    TypeOKChat
    SinHuecos
    OrdenDelServidor
    PantallaFiel
    CadenasAcotadas
PROPERTIES
    ImplementaBuzon
