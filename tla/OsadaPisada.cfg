SPECIFICATION Spec
CONSTANTS
    Hilos = {h1, h2}
    NEntradas = 2
    Ajenas = 1
    Nombres = {"d", "e", "f", "g"}
    RAIZ = RAIZ
    NIL = NIL
    Pedidos <- PedidosDeDosAutores
    h1 = h1
    h2 = h2
PROPERTIES
    NadaPisado
CHECK_DEADLOCK FALSE
