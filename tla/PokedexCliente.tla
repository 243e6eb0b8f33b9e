--------------------------- MODULE PokedexCliente ---------------------------
(***************************************************************************)
(* A PokeDex client (pokeClienteConections.c): each FUSE call sends its    *)
(* fields and waits for the answer.  It is mounted with -s, so it has one  *)
(* call at a time.  It may be killed between any two steps.                *)
(***************************************************************************)
EXTENDS PokedexCanal

CONSTANTS
    Pedidos,        \* the calls each client makes
    Mortales        \* the clients that may be killed or unmounted

VARIABLES
    cli,            \* each client: what it does, its call, the next field it
                    \* sends and what it has read of the answer
    dicho           \* what its last call returned

cliente == <<cli, dicho>>

ASSUME ClienteAssumption == \A c \in Clientes : Pedidos[c] \subseteq Pedido

-----------------------------------------------------------------------------
(* The requests and the answers: for a call p, the fields sent in order;    *)
(* then what is read, given what has been read so far.                      *)
Tipo(p) == Campo("tipo", 4, p.op)
LargoDe == Campo("largo", 4, Largo)
Ruta(r) == Campo("ruta", Largo, r)
Size == Campo("size", 8, Tamanio)
Offset(bytes) == Campo("offset", bytes, 0)
ConRuta(p) == <<Tipo(p), LargoDe, Ruta(p.de)>>
Resultado(bytes) == <<Espera("resultado", bytes)>>

AbrirArchivo(p) == [manda |-> ConRuta(p), recibe |-> Resultado(4)]

LeerArchivo(p) == [manda |-> <<Tipo(p), Size, Offset(4), LargoDe, Ruta(p.de)>>,
                   recibe |-> <<Espera("datos", Tamanio)>>]

EscribirArchivo(p) ==
    [manda |-> <<Tipo(p), Size, Offset(4), LargoDe, Ruta(p.de),
                 Campo("datos", Tamanio, "datos")>>,
     recibe |-> Resultado(4)]

(* Mutant: the whole off_t is sent.                                         *)
TruncarConOffT(p) == [manda |-> <<Tipo(p), Offset(8), LargoDe, Ruta(p.de)>>,
                      recibe |-> Resultado(4)]

TruncarArchivo(p) == [manda |-> <<Tipo(p), Offset(4), LargoDe, Ruta(p.de)>>,
                      recibe |-> Resultado(4)]

BorrarArchivo(p) == [manda |-> ConRuta(p), recibe |-> Resultado(4)]

(* The number of elements, then the name and the kind of each.              *)
GetDir(p, v) ==
    [manda |-> ConRuta(p),
     recibe |->
        IF v # <<>> /\ v[1] # ENVIO_DATA_DIRECTORIO THEN <<Espera("tipo", 4)>>
        ELSE [i \in 1 .. (IF Len(v) < 2 THEN 2 ELSE 2 + 2 * v[2]) |->
                IF i = 1 THEN Espera("tipo", 4)
                ELSE IF i = 2 THEN Espera("cantidad", 4)
                ELSE IF i % 2 = 1 THEN Espera("nombre", 17) ELSE Espera("clase", 4)]]

GetAttr(p, v) ==
    [manda |-> ConRuta(p),
     recibe |->
        IF v = <<>> \/ v[1] > 0 THEN <<Espera("existe", 4)>>
        ELSE IF Len(v) < 2 THEN <<Espera("existe", 4), Espera("esArchivo", 1)>>
        ELSE IF v[2]
        THEN <<Espera("existe", 4), Espera("esArchivo", 1), Espera("size", 4),
               Espera("lastmod", 4)>>
        ELSE <<Espera("existe", 4), Espera("esArchivo", 1), Espera("lastmod", 4)>>]

CrearDirectorioPedido(p) == [manda |-> ConRuta(p), recibe |-> Resultado(2)]

CrearArchivoPedido(p) == [manda |-> ConRuta(p), recibe |-> Resultado(2)]

RenombrarArchivo(p) ==
    [manda |-> <<Tipo(p), LargoDe, Ruta(p.de), LargoDe, Ruta(p.a)>>,
     recibe |-> Resultado(4)]

UtimensPedido(p) ==
    [manda |-> <<Tipo(p), LargoDe, Ruta(p.de), Campo("segundos", 8, 0)>>,
     recibe |-> Resultado(4)]

Llamada(p, v) ==
    CASE p.op = "ABRIR_ARCHIVO" -> AbrirArchivo(p)
      [] p.op = "LEER_ARCHIVO" -> LeerArchivo(p)
      [] p.op = "ESCRIBIR_ARCHIVO" -> EscribirArchivo(p)
      [] p.op = "TRUNCAR_ARCHIVO" -> TruncarArchivo(p)
      [] p.op = "ELIMINAR_ARCHIVO" -> BorrarArchivo(p)
      [] p.op = "GET_DIRECTORIO" -> GetDir(p, v)
      [] p.op = "GET_ATTR" -> GetAttr(p, v)
      [] p.op = "CREAR_DIRECTORIO" -> CrearDirectorioPedido(p)
      [] p.op = "CREAR_ARCHIVO" -> CrearArchivoPedido(p)
      [] p.op = "RENOMBRAR_ARCHIVO" -> RenombrarArchivo(p)
      [] p.op = "UTIMENS" -> UtimensPedido(p)

(* Mutant: the 1 of the server is passed on.                                *)
DevuelveComoLlega(creado) == creado

(* What each function returns for what it read.                             *)
DevuelveTruncar(creado) == IF creado = 1 THEN 0 ELSE creado

DevuelveUtimens(creado) == IF creado = 1 THEN 0 ELSE -1

Nombres(v) == {v[i] : i \in {j \in 3 .. Len(v) : j % 2 = 1}}
Clase(v) == IF v[1] > 0 THEN "nada" ELSE IF v[2] THEN "archivo" ELSE "directorio"

Devuelve(p, v) ==
    CASE p.op = "ABRIR_ARCHIVO" -> v[1] = 0
      [] p.op = "LEER_ARCHIVO" -> 1
      [] p.op = "TRUNCAR_ARCHIVO" -> DevuelveTruncar(v[1])
      [] p.op = "UTIMENS" -> DevuelveUtimens(v[1])
      [] p.op = "GET_DIRECTORIO" -> Nombres(v)
      [] p.op = "GET_ATTR" -> Clase(v)
      [] OTHER -> v[1]

(* These do not look at what recv returned.                                 *)
NoMiranLaConexion == {"TRUNCAR_ARCHIVO", "ELIMINAR_ARCHIVO", "UTIMENS"}

-----------------------------------------------------------------------------
ClienteInit ==
    /\ cli = [c \in Clientes |-> [pc |-> "afuera", pedido |-> NADA, i |-> 1,
                                  leido |-> <<>>]]
    /\ dicho = [c \in Clientes |-> NADA]

Libre == [pc |-> "libre", pedido |-> NADA, i |-> 1, leido |-> <<>>]
Manda(c) == Llamada(cli[c].pedido, <<>>).manda

(* conectarAservidor.                                                       *)
Conectar(c) ==
    /\ cli[c].pc = "afuera" /\ servidor = "vivo"
    /\ cli' = [cli EXCEPT ![c] = Libre]
    /\ extremo' = [extremo EXCEPT ![c] = "abierto"]
    /\ UNCHANGED <<dicho, aServidor, aCliente, servidor>>

Llamar(c, p) ==
    /\ cli[c].pc = "libre" /\ p \in Pedidos[c]
    /\ cli' = [cli EXCEPT ![c].pc = "mandando", ![c].pedido = p]
    /\ dicho' = [dicho EXCEPT ![c] = NADA]
    /\ UNCHANGED canal

Mandar(c) ==
    /\ cli[c].pc = "mandando" /\ servidor = "vivo"
    /\ aServidor' = [aServidor EXCEPT ![c] = Append(@, Manda(c)[cli[c].i])]
    /\ cli' = [cli EXCEPT ![c].i = @ + 1,
                          ![c].pc = IF cli[c].i = Len(Manda(c)) THEN "esperando" ELSE @]
    /\ UNCHANGED <<dicho, aCliente, extremo, servidor>>

Recibir(c) ==
    LET p == cli[c].pedido
        v == Append(cli[c].leido, Head(aCliente[c]).valor)
    IN
    /\ cli[c].pc = "esperando" /\ aCliente[c] # <<>>
    /\ aCliente' = [aCliente EXCEPT ![c] = Tail(@)]
    /\ IF Len(v) < Len(Llamada(p, v).recibe)
       THEN cli' = [cli EXCEPT ![c].leido = v] /\ UNCHANGED dicho
       ELSE /\ cli' = [cli EXCEPT ![c] = Libre]
            /\ dicho' = [dicho EXCEPT ![c] = Devuelve(p, v)]
    /\ UNCHANGED <<aServidor, extremo, servidor>>

(* The server is gone: the second send is a SIGPIPE; recv returns 0, which  *)
(* is the end of the client where it is looked at, or -1, which never is,   *)
(* when the server left fields unread.                                      *)
SinServidor(c) ==
    /\ servidor = "caido" /\ aCliente[c] = <<>>
    /\ \/ /\ cli[c].pc \in {"mandando", "esperando"}
          /\ cli' = [cli EXCEPT ![c].pc = "ido"]
          /\ UNCHANGED dicho
       \/ /\ cli[c].pc = "mandando"
             \/ /\ cli[c].pc = "esperando"
                /\ aServidor[c] # <<>> \/ cli[c].pedido.op \in NoMiranLaConexion
          /\ cli' = [cli EXCEPT ![c] = Libre]
          /\ dicho' = [dicho EXCEPT ![c] = BASURA]
    /\ UNCHANGED canal

(* Killed or unmounted, maybe half way through the data it sends.  What it  *)
(* left unread is answered with a reset.                                    *)
Morir(c) ==
    /\ c \in Mortales /\ cli[c].pc \in {"libre", "mandando", "esperando"}
    /\ cli' = [cli EXCEPT ![c].pc = "ido"]
    /\ extremo' = [extremo EXCEPT ![c] =
                     IF aCliente[c] = <<>> THEN "cerrado" ELSE "cortado"]
    /\ aCliente' = [aCliente EXCEPT ![c] = <<>>]
    /\ \/ UNCHANGED aServidor
       \/ /\ cli[c].pc = "mandando" /\ servidor = "vivo"
          /\ Manda(c)[cli[c].i].campo = "datos"
          /\ aServidor' = [aServidor EXCEPT ![c] =
                             Append(@, CortadoEn(Manda(c)[cli[c].i]))]
    /\ UNCHANGED <<dicho, servidor>>

ClientePaso(c) ==
    \/ Mandar(c) \/ Recibir(c) \/ SinServidor(c)

ClienteQuiere(c) ==
    \/ Conectar(c) \/ Morir(c)
    \/ \E p \in Pedidos[c] : Llamar(c, p)
=============================================================================
