SPECIFICATION SpecListas
CONSTANTS
    Conversaciones = {c1, c2}
    Sondeos = {s1, s2}
INVARIANTS
    
    CadenasDeLaLista
    DialogoConTarea
PROPERTIES
    ListaImplementaBuzon
    ConversacionAparece
    DifusionTermina
