SPECIFICATION Spec
CONSTANTS
    Hilos = {h1}
    Entradas = {eA, eB}
    NBloques = 3
    NIL = NIL
    TamBloque = 2
    Modulo = 64
    Hueco = 1
    Pedidos <- PedidosDeUno
    AsigIniciales <- DiscoNuevo
    h1 = h1
    h2 = h2
    eA = eA
    eB = eB
PROPERTIES
    LoQueNoEntraSeRechaza
CHECK_DEADLOCK FALSE
