------------------------------- MODULE Mapa -------------------------------
(***************************************************************************)
(* A map: the thread that accepts trainers, the planner that serves their  *)
(* requests (round robin or SRDF), and the thread that draws.              *)
(*                                                                         *)
(* A t_pcb lives in the heap "pcb" and the lists hold its index: the copies*)
(* that the deadlock detection makes are other records that share the list *)
(* of captured pokemons, "rec[lista]".  The planner is one thread: "pl" is *)
(* where it is, and a wait for the screen or for a mutex is a place of its *)
(* own.  An access to listaListos made with its mutex held is one step.    *)
(***************************************************************************)
EXTENDS Mundo

CONSTANTS
    Modos,          \* the configurations: records [alg, batalla]
    Quantum,        \* messages of a turn
    Stock,          \* pokemons of each pokenest at the start
    MaxPcb          \* t_pcb the runs may allocate

ASSUME MapaAssumption ==
    /\ Modos \subseteq [alg : {"RR", "SRDF"}, batalla : BOOLEAN]
    /\ Quantum \in Nat \ {0} /\ Stock \in [Pokenests -> Nat] /\ MaxPcb \in Nat

VARIABLES
    modo,           \* mapaActual: algorithm and battle mode
    pcb,            \* the t_pcb allocated
    rec,            \* listaRecursos: pokemons of each species
    listos,         \* listaListos
    bloqueados,     \* listaBloqueados
    cant,           \* cant of each pokenest
    llave,          \* holder of mutexListaListos
    llaveB,         \* holder of mutexListaBloqueados
    semGui,         \* changes to draw
    semYa,          \* semEntrenadorYaSeDibujo
    pl,             \* the planner
    aceptando,      \* the accepting thread waits to be drawn
    caida           \* why the map is not followed further, or "no"

listas == <<pcb, rec, listos, bloqueados>>
mutexes == <<llave, llaveB>>
pantalla == <<semGui, semYa>>
mapa == <<modo, pcb, rec, listos, bloqueados, cant, llave, llaveB,
          semGui, semYa, pl, aceptando, caida>>

NADIE == "nadie"
Hilos == {NADIE, "planificador", "perdida"}

Pasos == {"elegir", "recibir", "moviendo", "entregando", "bloquear",
          "bloqueando", "soltar", "quitar", "quitando", "rotar", "cerrar"}
Acciones == {"NADA", "SE_CONECTO", "SE_MOVIO", "SE_BLOQUEO",
             "SE_DESCONECTO", "SE_DESBLOQUEO"}

Pcbs == [fd : Fds, quien : Entrenadores, punto : Int \X Int, pide : Pokenests,
         lista : 1..MaxPcb, accion : Acciones, desc : BOOLEAN]
Pls == [pc : Pasos, corre : 0..MaxPcb, queda : Nat, vez : 1..2, sitio : Nat,
        cierra : BOOLEAN]

MapaTypeOK ==
    /\ modo \in Modos
    /\ pcb \in Seq(Pcbs)
    /\ Len(pcb) <= MaxPcb
    /\ rec \in [1..MaxPcb -> [Pokenests -> Nat]]
    /\ listos \in Seq(1..Len(pcb)) /\ bloqueados \in Seq(1..Len(pcb))
    /\ cant \in [Pokenests -> Int]
    /\ llave \in Hilos /\ llaveB \in Hilos
    /\ semGui \in Nat /\ semYa \in Nat
    /\ pl \in Pls
    /\ aceptando \in BOOLEAN
    /\ caida \in {"no", "SIGPIPE", "nulo", "fuera de fase"}

MapaInit ==
    /\ modo \in Modos
    /\ pcb = <<>> /\ listos = <<>> /\ bloqueados = <<>>
    /\ rec = [l \in 1..MaxPcb |-> [p \in Pokenests |-> 0]]
    /\ cant = Stock /\ nido = Stock
    /\ llave = NADIE /\ llaveB = NADIE
    /\ semGui = 1 /\ semYa = 0
    /\ pl = [pc |-> "elegir", corre |-> 0, queda |-> 0, vez |-> 1,
             sitio |-> 0, cierra |-> FALSE]
    /\ aceptando = FALSE /\ caida = "no"

-----------------------------------------------------------------------------
(* Connections.                                                             *)

(* Index of the first t_pcb of a list with the descriptor, 0 if none.       *)
Lugar(lista, s) ==
    LET donde == {i \in DOMAIN lista : pcb[lista[i]].fd = s}
    IN  IF donde = {} THEN 0 ELSE Min(donde)

(* getPcbBySockFdListos: without that descriptor, the last one.             *)
PcbEnListos(s) ==
    listos[IF Lugar(listos, s) = 0 THEN Len(listos) ELSE Lugar(listos, s)]

(* A second write to an end closed by the trainer raises SIGPIPE.           *)
Envia(s) ==
    caida' \in {"no"} \union
               (IF extremo[s] = "cortado" THEN {"SIGPIPE"} ELSE {})

Nuevo(c) == [fd |-> c.fd, quien |-> c.quien, punto |-> <<0, 0>>,
             pide |-> Head(Objetivos[c.quien]), lista |-> Len(pcb) + 1,
             accion |-> "SE_CONECTO", desc |-> TRUE]

(* nuevoEntrenadorConectado and agregarEntrenadorAListos.                   *)
Aceptar ==
    /\ cola # <<>> /\ ~aceptando /\ llave = NADIE /\ Len(pcb) < MaxPcb
    /\ pcb' = Append(pcb, Nuevo(Head(cola)))
    /\ listos' = Append(listos, Len(pcb) + 1)
    /\ cola' = Tail(cola)
    /\ semGui' = semGui + 1 /\ aceptando' = TRUE
    /\ UNCHANGED <<aMapa, aEntrenador, extremo, sock, archivos, modo, rec,
                   bloqueados, cant, mutexes, semYa, pl, caida>>

Aceptado ==
    /\ aceptando /\ semYa > 0
    /\ aceptando' = FALSE /\ semYa' = semYa - 1
    /\ UNCHANGED <<mundo, modo, listas, cant, mutexes, semGui, pl, caida>>

-----------------------------------------------------------------------------
(* The screen.                                                              *)

EnListos == {"SE_CONECTO", "SE_MOVIO", "SE_BLOQUEO", "SE_DESCONECTO"}

(* The second loop starts in listaBloqueados and goes on in listaListos.    *)
Recorridos ==
    IF bloqueados = <<>> THEN {}
    ELSE {bloqueados[1]} \union
         {listos[i] : i \in 2..Min({Len(bloqueados), Len(listos)})}

(* One pass of dibujarGUI.  Who posted is told only if something changed.   *)
Dibujar ==
    LET vistos == {listos[i] : i \in {j \in DOMAIN listos :
                                  pcb[listos[j]].accion \in EnListos}}
        ya == [p \in DOMAIN pcb |->
                 IF p \in vistos THEN [pcb[p] EXCEPT !.accion = "NADA"]
                                 ELSE pcb[p]]
        hubo == vistos # {} \/ \E p \in Recorridos :
                                  ya[p].accion \in {"NADA", "SE_DESBLOQUEO"}
    IN
    /\ semGui > 0
    /\ semGui' = semGui - 1
    /\ pcb' = ya
    /\ semYa' = IF hubo THEN semYa + 1 ELSE semYa
    /\ UNCHANGED <<mundo, modo, rec, listos, bloqueados, cant, mutexes, pl,
                   aceptando, caida>>

-----------------------------------------------------------------------------
(* Who runs next.                                                           *)

(* calcularDistancia: a sum of differences, not of their absolute values.   *)
CalcularDistancia(p) ==
    (Coordenada[pcb[p].pide][1] - pcb[p].punto[1])
    + (Coordenada[pcb[p].pide][2] - pcb[p].punto[2])

Cercano ==
    Max({i \in DOMAIN listos : \A j \in DOMAIN listos :
           CalcularDistancia(listos[i]) <= CalcularDistancia(listos[j])})

Elegido ==
    LET sinDireccion == {i \in DOMAIN listos : pcb[listos[i]].desc} IN
    CASE modo.alg = "RR" -> Head(listos)
      [] modo.alg = "SRDF" /\ sinDireccion # {} -> listos[Min(sinDireccion)]
      [] OTHER -> listos[Cercano]

Elegir ==
    /\ pl.pc = "elegir" /\ llave = NADIE /\ listos # <<>>
    /\ pl' = [pl EXCEPT !.pc = "recibir", !.corre = Elegido,
                        !.queda = Quantum, !.vez = 1]
    /\ UNCHANGED <<mundo, modo, listas, cant, mutexes, pantalla, aceptando,
                   caida>>

(* What the turn does with the result of mensajeDeEntrenadorRecibido:       *)
(* 0 served, 1 blocked or gone, 2 a pokenest was asked for.                 *)
AgotarDespues(res) ==
    [pl EXCEPT !.queda = @ - 1, !.pc = IF pl.queda = 0 THEN "rotar" ELSE "recibir"]

Sigue(res) ==
    IF modo.alg = "SRDF"
    THEN [pl EXCEPT !.pc = IF res = 2 /\ pl.vez = 1 THEN "recibir" ELSE "elegir",
                    !.vez = IF res = 2 THEN 2 ELSE 1]
    ELSE CASE res = 1 -> [pl EXCEPT !.pc = "quitar"]
           [] res = 2 -> [pl EXCEPT !.pc = "elegir"]
           [] OTHER -> [pl EXCEPT !.queda = @ - 1,
                          !.pc = IF pl.queda = 1 THEN "rotar" ELSE "recibir"]

(* In SRDF the direction is known after the second message of the turn.     *)
Conocida(p) ==
    IF pl.vez = 2 THEN [p EXCEPT ![pl.corre].desc = FALSE] ELSE p

Rotar ==
    /\ pl.pc = "rotar" /\ llave = NADIE
    /\ listos' = Append(Tail(listos), pl.corre)
    /\ pl' = [pl EXCEPT !.pc = "elegir"]
    /\ UNCHANGED <<mundo, modo, pcb, rec, bloqueados, cant, mutexes, pantalla,
                   aceptando, caida>>

-----------------------------------------------------------------------------
(* The requests of the trainer that runs.                                   *)

Fd == pcb[pl.corre].fd
Pedido(tipo) ==
    /\ pl.pc = "recibir" /\ Hay(Fd) /\ Head(aMapa[Fd]).tipo = tipo
    /\ aMapa' = [aMapa EXCEPT ![Fd] = Tail(@)]
Responde(tipo, dato) ==
    aEntrenador' = Enviado(aEntrenador, Fd, Msg(tipo, dato)) /\ Envia(Fd)

ObtenerPokenest ==
    LET p == Head(aMapa[Fd]).dato IN
    /\ Pedido("CONOCER_POKENEST")
    /\ Responde("COORDENADA", Coordenada[p])
    /\ pcb' = Conocida([pcb EXCEPT ![PcbEnListos(Fd)].pide = p])
    /\ pl' = Sigue(2)
    /\ UNCHANGED <<extremo, sock, cola, archivos, modo, rec, listos,
                   bloqueados, cant, mutexes, pantalla, aceptando>>

MoverPosicion ==
    /\ Pedido("MOVER_POSICION")
    /\ pcb' = [pcb EXCEPT ![PcbEnListos(Fd)].punto = Paso(@, Head(aMapa[Fd]).dato),
                          ![PcbEnListos(Fd)].accion = "SE_MOVIO"]
    /\ semGui' = semGui + 1
    /\ pl' = [pl EXCEPT !.pc = "moviendo"]
    /\ UNCHANGED <<aEntrenador, extremo, sock, cola, archivos, modo, rec,
                   listos, bloqueados, cant, mutexes, semYa, aceptando, caida>>

Moviendo ==
    /\ pl.pc = "moviendo" /\ semYa > 0
    /\ semYa' = semYa - 1
    /\ Responde("OK", 0)
    /\ pcb' = Conocida(pcb)
    /\ pl' = Sigue(0)
    /\ UNCHANGED <<aMapa, extremo, sock, cola, archivos, modo, rec, listos,
                   bloqueados, cant, mutexes, semGui, aceptando>>

(* capturarPokemon with a pokemon to give.                                  *)
Entregar ==
    LET p == Head(aMapa[Fd]).dato IN
    /\ Pedido("CAPTURAR")
    /\ cant[p] > 0
    /\ Responde("TE_DOY", p)
    /\ cant' = [cant EXCEPT ![p] = @ - 1]
    /\ pl' = [pl EXCEPT !.pc = "entregando"]
    /\ UNCHANGED <<extremo, sock, cola, archivos, modo, listas, mutexes,
                   pantalla, aceptando>>

(* ... and once the trainer has copied the file, it is deleted.             *)
Entregado ==
    LET q == PcbEnListos(Fd)
        p == pcb[q].pide
    IN
    /\ pl.pc = "entregando" /\ Hay(Fd) /\ Head(aMapa[Fd]).tipo = "ACK"
    /\ aMapa' = [aMapa EXCEPT ![Fd] = Tail(@)]
    /\ rec' = [rec EXCEPT ![pcb[q].lista][p] = @ + 1]
    /\ nido' = [nido EXCEPT ![p] = IF @ > 0 THEN @ - 1 ELSE 0]
    /\ pcb' = Conocida([pcb EXCEPT ![q].desc = TRUE])
    /\ pl' = Sigue(0)
    /\ UNCHANGED <<aEntrenador, extremo, sock, cola, bill, modo, listos,
                   bloqueados, cant, mutexes, pantalla, aceptando, caida>>

NoEntregado ==
    /\ pl.pc = "entregando" /\ Cortado(Fd)
    /\ pcb' = Conocida(pcb)
    /\ pl' = Sigue(1)
    /\ UNCHANGED <<mundo, modo, rec, listos, bloqueados, cant, mutexes,
                   pantalla, aceptando, caida>>

(* capturarPokemon with none left.                                          *)
Negar ==
    /\ Pedido("CAPTURAR")
    /\ cant[Head(aMapa[Fd]).dato] <= 0
    /\ Responde("ESTAS_BLOQUEADO", 0)
    /\ pl' = [pl EXCEPT !.pc = "bloquear"]
    /\ UNCHANGED <<extremo, sock, cola, archivos, modo, listas, cant, mutexes,
                   pantalla, aceptando>>

Bloquear ==
    /\ pl.pc = "bloquear" /\ llave = NADIE /\ llaveB = NADIE
    /\ bloqueados' = Append(bloqueados, PcbEnListos(Fd))
    /\ llaveB' = "planificador"
    /\ semGui' = semGui + 1
    /\ pl' = [pl EXCEPT !.pc = "bloqueando"]
    /\ UNCHANGED <<mundo, modo, pcb, rec, listos, cant, llave, semYa,
                   aceptando, caida>>

Bloqueado ==
    /\ pl.pc = "bloqueando" /\ semYa > 0
    /\ semYa' = semYa - 1 /\ llaveB' = NADIE
    /\ pcb' = Conocida(pcb)
    /\ pl' = Sigue(1)
    /\ UNCHANGED <<mundo, modo, rec, listos, bloqueados, cant, llave, semGui,
                   aceptando, caida>>

(* TERMINE_OBJETIVOS: the medal, and the t_pcb goes away.                   *)
DarMedalla ==
    /\ Pedido("TERMINE_OBJETIVOS")
    /\ Responde("MEDALLA", 0)
    /\ pl' = [pl EXCEPT !.pc = "soltar", !.cierra = FALSE]
    /\ UNCHANGED <<extremo, sock, cola, archivos, modo, listas, cant, mutexes,
                   pantalla, aceptando>>

(* recv fails: tipoMensaje is not initialized, and any case may be taken.   *)
(* Those of a request fail at their own recv; the default one disconnects.  *)
Desconectado ==
    /\ pl.pc = "recibir" /\ Cortado(Fd)
    /\ \/ /\ pcb' = Conocida(pcb) /\ pl' = Sigue(1) /\ caida' = caida
       \/ /\ \E cierra \in BOOLEAN :
               /\ pl' = [pl EXCEPT !.pc = "soltar", !.cierra = cierra]
               /\ IF cierra THEN caida' = caida ELSE Envia(Fd)
          /\ pcb' = pcb
    /\ UNCHANGED <<mundo, modo, rec, listos, bloqueados, cant, mutexes,
                   pantalla, aceptando>>

(* The planner reads what was sent to the other thread: not followed.       *)
LeerLoAjeno ==
    /\ pl.pc \in {"recibir", "entregando"} /\ Hay(Fd)
    /\ Head(aMapa[Fd]).tipo = "POKEMON"
    /\ caida' = "fuera de fase"
    /\ UNCHANGED <<mundo, modo, listas, cant, mutexes, pantalla, pl, aceptando>>

(* reintegrarRecurso of everything a t_pcb holds: the files go back with    *)
(* the first of a species, the count is increased for each.                 *)
Devuelto(l, q) == [p \in Pokenests |-> IF rec[l][p] > 0 THEN bill[q][p] ELSE 0]
SinLlevarAlNido(l, q) ==
    /\ bill' = [bill EXCEPT ![q] = [p \in Pokenests |-> @[p] - Devuelto(l, q)[p]]]
    /\ UNCHANGED nido

SinReintegrar(l, q) == UNCHANGED archivos

Reintegrar(l, q) ==
    /\ nido' = [p \in Pokenests |-> nido[p] + Devuelto(l, q)[p]]
    /\ bill' = [bill EXCEPT ![q] = [p \in Pokenests |-> @[p] - Devuelto(l, q)[p]]]

SinSumar(l) == cant

Sumado(l) == [p \in Pokenests |-> cant[p] + rec[l][p]]

(* liberarRecursosListos, and eliminarSocketListaListos up to its wait.     *)
Soltar ==
    LET q == PcbEnListos(Fd) IN
    /\ pl.pc = "soltar" /\ llave = NADIE
    /\ Reintegrar(pcb[q].lista, pcb[q].quien)
    /\ cant' = Sumado(pcb[q].lista)
    /\ pcb' = [pcb EXCEPT ![q].accion = "SE_DESCONECTO"]
    /\ semGui' = semGui + 1 /\ llave' = "planificador"
    /\ pl' = [pl EXCEPT !.pc = "quitando", !.sitio = Lugar(listos, Fd)]
    /\ UNCHANGED <<conexiones, modo, rec, listos, bloqueados, llaveB, semYa,
                   aceptando, caida>>

(* eliminarSocketListaListos for who ended its turn blocked or gone: with   *)
(* the list empty it returns and never unlocks.                             *)
QuitarDeVacia ==
    /\ pl.pc = "quitar" /\ llave = NADIE /\ listos = <<>>
    /\ llave' = "perdida"
    /\ pl' = [pl EXCEPT !.pc = "elegir"]
    /\ UNCHANGED <<mundo, modo, listas, cant, llaveB, pantalla, aceptando,
                   caida>>

Quitar ==
    LET i == Lugar(listos, Fd) IN
    /\ pl.pc = "quitar" /\ llave = NADIE /\ i # 0
    /\ pcb' = [pcb EXCEPT ![listos[i]].accion = "SE_BLOQUEO"]
    /\ semGui' = semGui + 1 /\ llave' = "planificador"
    /\ pl' = [pl EXCEPT !.pc = "cerrar", !.sitio = i]
    /\ UNCHANGED <<mundo, modo, rec, listos, bloqueados, cant, llaveB, semYa,
                   aceptando, caida>>

YaNoEsta ==
    /\ pl.pc = "quitar" /\ llave = NADIE
    /\ listos # <<>> /\ Lugar(listos, Fd) = 0
    /\ pl' = [pl EXCEPT !.pc = "elegir"]
    /\ UNCHANGED <<mundo, modo, listas, cant, mutexes, pantalla, aceptando,
                   caida>>

(* The end of a removal, and a mutant in which nothing is removed.          *)
SinQuitar ==
    /\ semYa > 0 /\ semYa' = semYa - 1
    /\ llave' = NADIE /\ UNCHANGED listos

Quitado ==
    /\ semYa > 0 /\ semYa' = semYa - 1
    /\ listos' = RemoveAt(listos, pl.sitio)
    /\ llave' = NADIE

(* The end of the first removal: the default case closes the connection.    *)
QuitadoPorSi ==
    /\ pl.pc = "quitando" /\ Quitado
    /\ extremo' = IF pl.cierra THEN [extremo EXCEPT ![Fd] = "libre"] ELSE extremo
    /\ pcb' = Conocida(pcb)
    /\ pl' = Sigue(1)
    /\ UNCHANGED <<aMapa, aEntrenador, sock, cola, archivos, modo, rec,
                   bloqueados, cant, llaveB, semGui, aceptando, caida>>

(* The end of the one of the turn.                                          *)
QuitadoDelTurno ==
    /\ pl.pc = "cerrar" /\ Quitado
    /\ pl' = [pl EXCEPT !.pc = "elegir"]
    /\ UNCHANGED <<mundo, modo, pcb, rec, bloqueados, cant, llaveB, semGui,
                   aceptando, caida>>

MapaPaso ==
    /\ caida = "no"
    /\ \/ Aceptar \/ Aceptado \/ Dibujar \/ Elegir \/ Rotar
       \/ ObtenerPokenest \/ MoverPosicion \/ Moviendo
       \/ Entregar \/ Entregado \/ NoEntregado
       \/ Negar \/ Bloquear \/ Bloqueado
       \/ DarMedalla \/ Desconectado \/ LeerLoAjeno \/ Soltar
       \/ QuitarDeVacia \/ Quitar \/ YaNoEsta
       \/ QuitadoPorSi \/ QuitadoDelTurno
=============================================================================
