SPECIFICATION Spec
CONSTANTS
    Clientes = {c1, c2}
    Rutas = {"x", "y"}
    Entradas = {0, 2}
    MaxArchivos = 2
    Tamanio = 5
    NADA = NADA
    BASURA = BASURA
    Pedidos <- PedidosDeDos
    Mortales = {c1}
    c1 = c1
    c2 = c2
INVARIANTS
    IInv
    Correspondencia
    EncuadrePedidos
    EncuadreRespuestas
PROPERTIES
    ServicioSpec
    TodoSeContesta
    HiloTermina
CHECK_DEADLOCK FALSE
