SPECIFICATION SpecUsuarios
CONSTANTS
    Telefonos = {ana, beto}
    Perfiles = {p1}
    Lugares = {plaza}
    Desconocida = desconocida
    Vacio = vacio
    MaxReloj = 1
    Fallas = TRUE
    Latitudes = {0, 1, 2}
    Longitudes = {0, 1}
    Radios = {0, 1, 2}
    MaxLugares = 3
    DistanciaMaxima = 999
SYMMETRY Simetria
INVARIANTS
    TypeOKUsuarios
    SesionVigente
    UbicacionCorrecta
PROPERTY
    CuentaSoloPorSuToken
