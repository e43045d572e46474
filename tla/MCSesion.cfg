SPECIFICATION SpecSesion
CONSTANTS
    Telefonos = {ana}
    Perfiles = {p1}
    Lugares = {plaza}
    Desconocida = desconocida
    Vacio = vacio
    Fallas = FALSE
    MaxReloj = 1
    MaxSondeos = 0
    MaxHuerfanos = 1
INVARIANTS
    TypeOKSesion
    
