SPECIFICATION Spec
CONSTANTS
    Hilos = {h1, h2}
    Entradas = {eA, eB}
    NBloques = 4
    NIL = NIL
    TamBloque = 2
    Modulo = 64
    Hueco = 0
    Pedidos <- PedidosCruzados
    AsigIniciales <- DiscoNuevo
    h1 = h1
    h2 = h2
    eA = eA
    eB = eB
INVARIANTS
    CadenasDisjuntas
CHECK_DEADLOCK FALSE
