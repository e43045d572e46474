SPECIFICATION SpecSesion
CONSTANTS
    Telefonos = {ana, beto}
    Perfiles = {p1}
    Lugares = {}
    Desconocida = desconocida
    Vacio = vacio
    Fallas = FALSE
    MaxReloj = 0
    MaxSondeos = 2
    MaxHuerfanos = 0
INVARIANT
    ConversacionesDelUsuario
