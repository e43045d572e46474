SPECIFICATION SpecChatJusta
CONSTANTS
    Yo = yo
    Otro = otro
    Vacio = vacio
    Real = idReal
    Invalida = idInvalida
    MaxFecha = 2
    MaxMensajes = 3
    Sondeos = {s1}
PROPERTIES
    MensajeLlega
