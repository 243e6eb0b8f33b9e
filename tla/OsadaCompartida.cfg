SPECIFICATION FairSpec
CONSTANTS
    Hilos = {h1, h2}
    Entradas = {eA, eB}
    NBloques = 3
    NIL = NIL
    TamBloque = 2
    Modulo = 64
    Hueco = 1
    Pedidos <- PedidosCompartidos
    AsigIniciales <- DiscoNuevo
    h1 = h1
    h2 = h2
    eA = eA
    eB = eB
INVARIANTS
    IInv
    CadenasDisjuntas
    CadenasOcupadas
    EscribeEnLoSuyo
    TamanioCubierto
PROPERTIES
    LockSeSuelta
CHECK_DEADLOCK FALSE
