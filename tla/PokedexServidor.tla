-------------------------- MODULE PokedexServidor --------------------------
(***************************************************************************)
(* The PokeDex server: one thread for each client, which reads the type of *)
(* a request, its fields one by one, runs the call and sends the answer.   *)
(***************************************************************************)
EXTENDS PokedexCanal, SequencesExt

VARIABLES
    hilo,           \* the thread of each client: the call it serves, the
                    \* fields it has read, its paths, and what is left to send
    fs,             \* what is at each path
    efecto          \* what the call of each client found (ghost: until told)

atencion == <<hilo, fs, efecto>>

-----------------------------------------------------------------------------
(* The handlers: the fields each reads after the type, and what it sends    *)
(* for a result r (NADA while there is none).                               *)
Largo4 == Espera("largo", 4)
RutaEs == Espera("ruta", Largo)
LeeRuta == <<Largo4, RutaEs>>
Entero(bytes, r) == <<Campo("resultado", bytes, r)>>
Existencia(n) == Campo("existe", 4, n)
EsArchivo(b) == Campo("esArchivo", 1, b)
Lastmod == Campo("lastmod", 4, 0)

abrirArchivo(r) ==
    [lee |-> LeeRuta, manda |-> Entero(4, IF r = 0 THEN 0 ELSE 1)]

(* The buffer is NULL when there is nothing to read: nothing is sent.       *)
leerArchivo(r) ==
    [lee |-> <<Espera("size", 8), Espera("offset", 4), Largo4, RutaEs>>,
     manda |-> IF r = NADA THEN <<>> ELSE <<Campo("datos", r, "datos")>>]

escribirArchivo(r) ==
    [lee |-> <<Espera("size", 8), Espera("offset", 4), Largo4, RutaEs,
               Espera("datos", Tamanio)>>,
     manda |-> Entero(4, r)]

truncarArchivo(r) ==
    [lee |-> <<Espera("offset", 4), Largo4, RutaEs>>, manda |-> Entero(4, r)]

eliminarArchivo(r) == [lee |-> LeeRuta, manda |-> Entero(4, r)]

(* r is the set of names, f says what each is.                              *)
Cantidad(r) == IF r = NADA THEN 0 ELSE Cardinality(r)

getEstructuraDirectorio(r, f) ==
    [lee |-> LeeRuta,
     manda |->
        [i \in 1 .. 2 + 2 * Cantidad(r) |->
           IF i = 1 THEN Campo("tipo", 4, ENVIO_DATA_DIRECTORIO)
           ELSE IF i = 2 THEN Campo("cantidad", 4, Cantidad(r))
           ELSE LET x == SetToSeq(r)[(i - 1) \div 2] IN
                IF i % 2 = 1 THEN Campo("nombre", 17, x) ELSE Campo("clase", 4, f[x])]]

(* Mutant: a directory has its size sent too.                               *)
getAttrConSize(r) ==
    [lee |-> LeeRuta,
     manda |-> IF r = "nada" THEN <<Existencia(1)>>
               ELSE <<Existencia(0), EsArchivo(r = "archivo"),
                      Campo("size", 4, Tamanio), Lastmod>>]

getAttr(r) ==
    [lee |-> LeeRuta,
     manda |->
        CASE r = "nada" -> <<Existencia(1)>>
          [] r = "archivo" -> <<Existencia(0), EsArchivo(TRUE),
                                Campo("size", 4, Tamanio), Lastmod>>
          [] OTHER -> <<Existencia(0), EsArchivo(FALSE), Lastmod>>]

(* Mutant: the result is sent as the int32_t of the other answers.          *)
crearDirectorioLargo(r) == [lee |-> LeeRuta, manda |-> Entero(4, r)]

crearDirectorio(r) == [lee |-> LeeRuta, manda |-> Entero(2, r)]

(* Mutant: what failed is logged and not answered.                          *)
crearSinAvisar(r) ==
    [lee |-> LeeRuta, manda |-> IF r = PATH_INVALIDO THEN <<>> ELSE Entero(2, r)]

crearArchivo(r) == [lee |-> LeeRuta, manda |-> Entero(2, r)]

renombrarArchivo(r) ==
    [lee |-> <<Largo4, RutaEs, Largo4, RutaEs>>, manda |-> Entero(4, r)]

server_utimens(r) ==
    [lee |-> <<Largo4, RutaEs, Espera("segundos", 8)>>, manda |-> Entero(4, r)]

(* interpretarMensaje.                                                      *)
Interpretar(op, r, f) ==
    CASE op = "ABRIR_ARCHIVO" -> abrirArchivo(r)
      [] op = "LEER_ARCHIVO" -> leerArchivo(r)
      [] op = "ESCRIBIR_ARCHIVO" -> escribirArchivo(r)
      [] op = "CREAR_ARCHIVO" -> crearArchivo(r)
      [] op = "CREAR_DIRECTORIO" -> crearDirectorio(r)
      [] op = "RENOMBRAR_ARCHIVO" -> renombrarArchivo(r)
      [] op = "GET_DIRECTORIO" -> getEstructuraDirectorio(r, f)
      [] op = "GET_ATTR" -> getAttr(r)
      [] op = "ELIMINAR_ARCHIVO" -> eliminarArchivo(r)
      [] op = "TRUNCAR_ARCHIVO" -> truncarArchivo(r)
      [] op = "UTIMENS" -> server_utimens(r)

Lee(c) == Interpretar(hilo[c].op, NADA, fs).lee

-----------------------------------------------------------------------------
SinPedido == [pc |-> "cabecera", op |-> NADA, k |-> 1, rutas |-> <<>>,
              cola |-> <<>>]

(* With all of the answer sent, the thread is back at the next request.     *)
Contestando(h, cola) ==
    IF cola = <<>> THEN SinPedido
    ELSE [h EXCEPT !.pc = "contestar", !.cola = cola]

ServidorInit ==
    /\ hilo = [c \in Clientes |-> [SinPedido EXCEPT !.pc = "no"]]
    /\ fs = [r \in Rutas |-> "nada"]
    /\ efecto = [c \in Clientes |-> NADA]

(* accept and the thread for the connection.                                *)
Aceptar(c) ==
    /\ servidor = "vivo" /\ extremo[c] # "afuera" /\ hilo[c].pc = "no"
    /\ hilo' = [hilo EXCEPT ![c] = SinPedido]
    /\ UNCHANGED <<fs, efecto, canal>>

LeerCabecera(c) ==
    /\ servidor = "vivo" /\ hilo[c].pc = "cabecera" /\ aServidor[c] # <<>>
    /\ hilo' = [hilo EXCEPT ![c].pc = "campos", ![c].op = Head(aServidor[c]).valor]
    /\ aServidor' = [aServidor EXCEPT ![c] = Tail(@)]
    /\ UNCHANGED <<fs, efecto, aCliente, extremo, servidor>>

(* A field is read whole, or as much of it as there is before the end.      *)
LeerCampo(c) ==
    /\ servidor = "vivo" /\ hilo[c].pc = "campos" /\ aServidor[c] # <<>>
    /\ LET x == Head(aServidor[c]) IN
       hilo' = [hilo EXCEPT ![c].k = @ + 1,
                  ![c].rutas = IF x.campo = "ruta" THEN Append(@, x.valor) ELSE @,
                  ![c].pc = IF hilo[c].k = Len(Lee(c)) THEN "atender" ELSE @]
    /\ aServidor' = [aServidor EXCEPT ![c] = Tail(@)]
    /\ UNCHANGED <<fs, efecto, aCliente, extremo, servidor>>

(* recv returns 0.  At the type of a request the thread ends; inside of a   *)
(* request it gives up the request, and utimens answers -1 all the same.    *)
Desconectado(c) ==
    servidor = "vivo" /\ extremo[c] \in {"cerrado", "cortado"} /\ aServidor[c] = <<>>

TerminarHilo(c) ==
    /\ hilo[c].pc = "cabecera" /\ Desconectado(c)
    /\ hilo' = [hilo EXCEPT ![c].pc = "fin"]
    /\ UNCHANGED <<fs, efecto, canal>>

(* Mutant: the field that did not come is asked for again.                  *)
InsistirConElPedido(c) ==
    /\ hilo[c].pc = "campos" /\ Desconectado(c)
    /\ UNCHANGED <<hilo, fs, efecto, canal>>

DejarPedido(c) ==
    /\ hilo[c].pc = "campos" /\ Desconectado(c)
    /\ hilo' = [hilo EXCEPT ![c] =
                  IF @.op = "UTIMENS"
                  THEN Contestando(@, Entero(4, -1)) ELSE SinPedido]
    /\ UNCHANGED <<fs, efecto, canal>>

Atender(c) ==
    /\ servidor = "vivo" /\ hilo[c].pc = "atender"
    /\ LET h == hilo[c]
           p == [op |-> h.op, de |-> h.rutas[1], a |-> Last(h.rutas)]
       IN \E e \in Efectos(fs, p) :
            /\ fs' = e[1] /\ efecto' = [efecto EXCEPT ![c] = e[2]]
            /\ hilo' = [hilo EXCEPT ![c] =
                          Contestando(h, Interpretar(h.op, e[2], fs).manda)]
    /\ UNCHANGED canal

(* What is sent to a client that is gone is lost; a reset comes back, and   *)
(* to send after it kills the server: nobody ignores SIGPIPE.               *)
Contestar(c) ==
    /\ servidor = "vivo" /\ hilo[c].pc = "contestar"
    /\ \/ /\ aCliente' = IF extremo[c] # "abierto" THEN aCliente
                         ELSE [aCliente EXCEPT ![c] = Append(@, Head(hilo[c].cola))]
          /\ extremo' = IF extremo[c] # "cerrado" THEN extremo
                        ELSE [extremo EXCEPT ![c] = "cortado"]
          /\ hilo' = [hilo EXCEPT ![c] = Contestando(@, Tail(@.cola))]
          /\ UNCHANGED servidor
       \/ /\ extremo[c] = "cortado"
          /\ servidor' = "caido"
          /\ UNCHANGED <<hilo, aCliente, extremo>>
    /\ UNCHANGED <<fs, efecto, aServidor>>

ServidorPaso(c) ==
    \/ Aceptar(c) \/ LeerCabecera(c) \/ LeerCampo(c) \/ TerminarHilo(c)
    \/ DejarPedido(c) \/ Atender(c) \/ Contestar(c)
=============================================================================
