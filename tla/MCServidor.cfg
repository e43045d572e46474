SPECIFICATION SpecServidor
CONSTANTS
    Telefonos = {ana, beto}
    Perfiles = {}
    Lugares = {}
    Desconocida = vacio
    Vacio = vacio
    MaxReloj = 0
    Fallas = TRUE
    Cuerpos = {hola, almohadilla}
    ConSeparador = {almohadilla}
    Fechas = {f1}
    DatoNoEncontrado = NotFound
    ConversacionInvalida = ConversacionInvalida
    MaxMensajes = 2
    MaxContactos = 2
    Ids = {"i1"}
SYMMETRY Simetria
INVARIANTS
    TypeOK
    MismaConversacion
    IndiceExacto
    ListadoCompleto
    CadaPeticionASuServicio
PROPERTIES
    ConfirmadoEsVisible
    HistorialSoloCrece
