----------------------------- MODULE OsadaTabla -----------------------------
(***************************************************************************)
(* The file table of OSADA: what the threads of the server do to it when   *)
(* clients create, rename and delete files and directories.                *)
(*                                                                         *)
(* A path is a sequence of names.  Every component is looked up in a fresh *)
(* copy of the table; the free entry is looked for in one copy taken       *)
(* before obtenerEntradaArchivoLibreMutex is ever locked, and may go past  *)
(* the end of the table: what the process does to memory and disk there,   *)
(* beyond the hint it leaves behind, is not modelled.                      *)
(***************************************************************************)
EXTENDS Integers, Sequences, FiniteSets

CONSTANTS
    Hilos,     \* the threads, one per connected client
    NEntradas, \* 2048: the entries are 0 .. NEntradas - 1
    Ajenas,    \* the positions past the table it can read before it dies
    Nombres,   \* file names of at most 17 bytes
    RAIZ,      \* 0xFFFF, the parent of what hangs from the root
    NIL,       \* no thread; no descriptor
    Pedidos    \* the requests the clients may send

Entradas == 0 .. NEntradas - 1
Posiciones == 0 .. NEntradas + Ajenas
Operaciones == {"crear", "mkdir", "renombrar", "eliminar"}

ASSUME ConstantesTabla ==
    /\ NEntradas \in Nat \ {0}
    /\ Ajenas \in Nat
    /\ RAIZ \notin Entradas
    /\ NIL \notin Hilos
    /\ NIL \notin [state: {"DELETED", "REGULAR", "DIRECTORY"},
                    fname: Nombres \cup {"", "/"},
                    parent: Entradas \cup {RAIZ}]
    /\ Pedidos \subseteq [hilo: Hilos, op: Operaciones,
                          camino: Seq(Nombres), destino: Seq(Nombres)]
    /\ \A p \in Pedidos : p.camino # <<>>
    /\ \A p \in Pedidos : p.op = "renombrar" => p.destino # <<>>

VARIABLES
    tabla,     \* the table on disk: state, fname and parent_directory
    otorgadas, \* entradasLibresOtorgadas
    ultima,    \* ultimaEntradaLibreDeTabla
    mutex,     \* the thread in obtenerEntradaArchivoLibreMutex
    vivo,      \* FALSE once the process used a lock out of the array
    pc, ped,   \* where each thread is, and the request it serves
    copia,     \* its copy of the table
    partes,    \* what is left of the path it walks
    arr, desc, \* the last entry and descriptor the walk found
    vieja,     \* what renombrar found at the old path
    pos        \* the entry it looks at, or was given

vars == <<tabla, otorgadas, ultima, mutex, vivo, pc, ped, copia, partes, arr,
          desc, vieja, pos>>
camino == <<partes, arr, desc>>
compartido == <<tabla, otorgadas, ultima, mutex, vivo>>

Vacia == [state |-> "DELETED", fname |-> "", parent |-> RAIZ]
DescRaiz == [state |-> "DIRECTORY", fname |-> "/", parent |-> RAIZ]
TablaVacia == [e \in Entradas |-> Vacia]
NoPed == [op |-> "ninguna"]
NoVieja == [pos |-> RAIZ, desc |-> DescRaiz, existe |-> FALSE]

Init ==
    /\ tabla = TablaVacia
    /\ otorgadas = [e \in Entradas |-> FALSE]
    /\ ultima = 0
    /\ mutex = NIL
    /\ vivo = TRUE
    /\ pc = [h \in Hilos |-> "libre"]
    /\ ped = [h \in Hilos |-> NoPed]
    /\ copia = [h \in Hilos |-> TablaVacia]
    /\ partes = [h \in Hilos |-> <<>>]
    /\ arr = [h \in Hilos |-> RAIZ]
    /\ desc = [h \in Hilos |-> DescRaiz]
    /\ vieja = [h \in Hilos |-> NoVieja]
    /\ pos = [h \in Hilos |-> 0]

Activa(t, e) == t[e].state # "DELETED"
ObtenerCantidadDeArchivos == Cardinality({e \in Entradas : Activa(tabla, e)})

(* A thread is done: it drops its copies and answers its client.           *)
Olvidar(h) ==
    /\ pc' = [pc EXCEPT ![h] = "libre"]
    /\ ped' = [ped EXCEPT ![h] = NoPed]
    /\ copia' = [copia EXCEPT ![h] = TablaVacia]
    /\ partes' = [partes EXCEPT ![h] = <<>>]
    /\ arr' = [arr EXCEPT ![h] = RAIZ]
    /\ desc' = [desc EXCEPT ![h] = DescRaiz]
    /\ vieja' = [vieja EXCEPT ![h] = NoVieja]
    /\ pos' = [pos EXCEPT ![h] = 0]

Responder(h) == Olvidar(h) /\ UNCHANGED compartido

-----------------------------------------------------------------------------
(* A request arrives.  Deleting starts with a copy of the whole table.     *)
Recibir(h, p) ==
    /\ pc[h] = "libre"
    /\ p.hilo = h
    /\ pc' = [pc EXCEPT ![h] =
                 IF p.op \in {"crear", "mkdir"} THEN "contar" ELSE "camino"]
    /\ ped' = [ped EXCEPT ![h] = p]
    /\ copia' = [copia EXCEPT ![h] = IF p.op = "eliminar" THEN tabla ELSE @]
    /\ partes' = [partes EXCEPT ![h] = p.camino]
    /\ UNCHANGED <<compartido, arr, desc, vieja, pos>>

(* Creating starts by counting the files: NO_HAY_DESCRIPTORES.             *)
(* Variant: one file too many.                                             *)
UnoDeMas == ObtenerCantidadDeArchivos <= NEntradas

HayDescriptores == ObtenerCantidadDeArchivos < NEntradas

Contar(h) ==
    /\ pc[h] = "contar"
    /\ \/ HayDescriptores
          /\ pc' = [pc EXCEPT ![h] = "camino"]
          /\ UNCHANGED <<compartido, ped, copia, camino, vieja, pos>>
       \/ ~HayDescriptores /\ Responder(h)

-----------------------------------------------------------------------------
(* obtenerEstructuraDeArchivo: the first active entry of that name and     *)
(* that parent.                                                            *)
Hallada(e, padre, nombre) ==
    LET Sirve(d) == /\ Activa(tabla, d)
                    /\ tabla[d].fname = nombre
                    /\ tabla[d].parent = padre IN
    Sirve(e) /\ \A d \in Entradas : Sirve(d) => e <= d

EsDirectorio(d) == d # NIL /\ d.state = "DIRECTORY"

(* One turn of the loop of leerPath.  What follows a regular file or a     *)
(* component that does not exist makes the path invalid.                   *)
LeerParte(h) ==
    /\ pc[h] \in {"camino", "destino"}
    /\ partes[h] # <<>>
    /\ EsDirectorio(desc[h])
    /\ partes' = [partes EXCEPT ![h] = Tail(@)]
    /\ \/ \E e \in Entradas :
              /\ Hallada(e, arr[h], Head(partes[h]))
              /\ arr' = [arr EXCEPT ![h] = e]
              /\ desc' = [desc EXCEPT ![h] = tabla[e]]
       \/ /\ \A e \in Entradas : ~Hallada(e, arr[h], Head(partes[h]))
          /\ desc' = [desc EXCEPT ![h] = NIL]
          /\ UNCHANGED arr
    /\ UNCHANGED <<compartido, pc, ped, copia, vieja, pos>>

(* The three results of leerPath.                                          *)
PathInvalido(h) == partes[h] # <<>> /\ ~EsDirectorio(desc[h])
ArchivoExiste(h) == partes[h] = <<>> /\ desc[h] # NIL
ArchivoNoPathValido(h) == partes[h] = <<>> /\ desc[h] = NIL

FinDe(h, donde) ==
    /\ pc[h] = donde
    /\ PathInvalido(h) \/ ArchivoExiste(h) \/ ArchivoNoPathValido(h)

(* Creating goes on if only the last component is missing.                 *)
DecidirCrear(h) ==
    /\ FinDe(h, "camino")
    /\ ped[h].op \in {"crear", "mkdir"}
    /\ \/ /\ ArchivoNoPathValido(h)
          /\ pc' = [pc EXCEPT ![h] = "copiar"]
          /\ UNCHANGED <<compartido, ped, copia, camino, vieja, pos>>
       \/ ~ArchivoNoPathValido(h) /\ Responder(h)

(* Deleting goes on if the copy of the table, older than the walk, shows   *)
(* nothing that hangs from the entry.                                      *)
(* Variant: the children are not looked at.                                *)
SinMirarHijos(h) == FALSE

TieneHijos(h) ==
    \E e \in Entradas : Activa(copia[h], e) /\ copia[h][e].parent = arr[h]

DecidirEliminar(h) ==
    /\ FinDe(h, "camino")
    /\ ped[h].op = "eliminar"
    /\ \/ /\ ArchivoExiste(h) /\ ~TieneHijos(h)
          /\ pc' = [pc EXCEPT ![h] = "eliminar"]
          /\ UNCHANGED <<compartido, ped, copia, camino, vieja, pos>>
       \/ ~(ArchivoExiste(h) /\ ~TieneHijos(h)) /\ Responder(h)

Eliminar(h) ==
    /\ pc[h] = "eliminar"
    /\ tabla' = [tabla EXCEPT ![arr[h]] = [desc[h] EXCEPT !.state = "DELETED"]]
    /\ Olvidar(h)
    /\ UNCHANGED <<otorgadas, ultima, mutex, vivo>>

(* Variant: the second walk starts where the first one ended.              *)
SinVolverALaRaiz(h) ==
    /\ FinDe(h, "camino")
    /\ ped[h].op = "renombrar"
    /\ vieja' = [vieja EXCEPT ![h] =
                    [pos |-> arr[h],
                     desc |-> IF ArchivoExiste(h) THEN desc[h] ELSE DescRaiz,
                     existe |-> ArchivoExiste(h)]]
    /\ pc' = [pc EXCEPT ![h] = "destino"]
    /\ partes' = [partes EXCEPT ![h] = ped[h].destino]
    /\ UNCHANGED <<compartido, ped, copia, arr, desc, pos>>

(* Renaming walks the old path and then the new one, whatever it finds.    *)
PasarAlDestino(h) ==
    /\ FinDe(h, "camino")
    /\ ped[h].op = "renombrar"
    /\ vieja' = [vieja EXCEPT ![h] =
                    [pos |-> arr[h],
                     desc |-> IF ArchivoExiste(h) THEN desc[h] ELSE DescRaiz,
                     existe |-> ArchivoExiste(h)]]
    /\ pc' = [pc EXCEPT ![h] = "destino"]
    /\ partes' = [partes EXCEPT ![h] = ped[h].destino]
    /\ arr' = [arr EXCEPT ![h] = RAIZ]
    /\ desc' = [desc EXCEPT ![h] = DescRaiz]
    /\ UNCHANGED <<compartido, ped, copia, pos>>

(* It goes on if the old path exists and the new one lacks only its last   *)
(* component.                                                              *)
PuedeRenombrar(h) == vieja[h].existe /\ ArchivoNoPathValido(h)

DecidirRenombrar(h) ==
    /\ FinDe(h, "destino")
    /\ \/ /\ PuedeRenombrar(h)
          /\ pc' = [pc EXCEPT ![h] = "renombrar"]
          /\ UNCHANGED <<compartido, ped, copia, camino, vieja, pos>>
       \/ ~PuedeRenombrar(h) /\ Responder(h)

Ultimo(s) == s[Len(s)]

Renombrar(h) ==
    /\ pc[h] = "renombrar"
    /\ tabla' = [tabla EXCEPT ![vieja[h].pos] =
                    [vieja[h].desc EXCEPT !.fname = Ultimo(ped[h].destino),
                                          !.parent = arr[h]]]
    /\ Olvidar(h)
    /\ UNCHANGED <<otorgadas, ultima, mutex, vivo>>

-----------------------------------------------------------------------------
(* obtenerEstructuraDeArchivoLibre takes its copy of the table, and then   *)
(* tests, resets and reads ultimaEntradaLibreDeTabla with no lock held.    *)
CopiarTabla(h) ==
    /\ pc[h] = "copiar"
    /\ copia' = [copia EXCEPT ![h] = tabla]
    /\ pc' = [pc EXCEPT ![h] = "reiniciar"]
    /\ UNCHANGED <<compartido, ped, camino, vieja, pos>>

MirarUltima(h) ==
    /\ pc[h] = "reiniciar"
    /\ pc' = [pc EXCEPT ![h] = IF ultima >= NEntradas - 1 THEN "cero" ELSE "desde"]
    /\ UNCHANGED <<compartido, ped, copia, camino, vieja, pos>>

ReiniciarUltima(h) ==
    /\ pc[h] = "cero"
    /\ ultima' = 0
    /\ pc' = [pc EXCEPT ![h] = "desde"]
    /\ UNCHANGED <<tabla, otorgadas, mutex, vivo, ped, copia, camino, vieja,
                   pos>>

LeerUltima(h) ==
    /\ pc[h] = "desde"
    /\ pos' = [pos EXCEPT ![h] = ultima]
    /\ pc' = [pc EXCEPT ![h] = "buscar"]
    /\ UNCHANGED <<compartido, ped, copia, camino, vieja>>

(* One turn of its loop, under the mutex.  The entry is free if the copy   *)
(* says so and nobody has been given it.                                   *)
(* Variant: the entries in flight are not looked at.                       *)
SinMirarOtorgadas(h) == ~Activa(copia[h], pos[h])

(* Variant: the copy is not looked at.                                     *)
SinMirarCopia(h) == ~otorgadas[pos[h]]

Sirve(h) == ~Activa(copia[h], pos[h]) /\ ~otorgadas[pos[h]]

(* Variant: ultimaEntradaLibreDeTabla goes two entries on.                 *)
DosMas(e) == e + 2

Despues(e) == e + 1

OtorgarEntrada(h) ==
    /\ pc[h] = "buscar" /\ pos[h] \in Entradas
    /\ mutex = NIL
    /\ Sirve(h)
    /\ ultima' = Despues(pos[h])
    /\ otorgadas' = [otorgadas EXCEPT ![pos[h]] = TRUE]
    /\ pc' = [pc EXCEPT ![h] = "escribir"]
    /\ UNCHANGED <<tabla, mutex, vivo, ped, copia, camino, vieja, pos>>

(* The hint may be past the table by the time a search reads it.  What is  *)
(* there is not the table: it may look free, and the search is given a     *)
(* position that is no entry, or look taken, or kill the process.          *)
OtorgarAjena(h) ==
    /\ pc[h] = "buscar" /\ pos[h] \notin Entradas
    /\ mutex = NIL
    /\ pos[h] < NEntradas + Ajenas
    /\ ultima' = Despues(pos[h])
    /\ pc' = [pc EXCEPT ![h] = "ajena"]
    /\ UNCHANGED <<tabla, otorgadas, mutex, vivo, ped, copia, camino, vieja, pos>>

MorirBuscando(h) ==
    /\ pc[h] = "buscar" /\ pos[h] \notin Entradas
    /\ mutex = NIL
    /\ vivo' = FALSE
    /\ UNCHANGED <<tabla, otorgadas, ultima, mutex, pc, ped, copia, camino, vieja, pos>>

(* The entry is taken: on to the next.  Only the last entry wraps around.  *)
(* Back at ultima, the search gives up without releasing the mutex.        *)
Siguiente(e) == IF e + 1 = NEntradas THEN 0 ELSE e + 1

PasarEntrada(h) ==
    /\ pc[h] = "buscar" /\ pos[h] < NEntradas + Ajenas
    /\ mutex = NIL
    /\ pos[h] \in Entradas => ~Sirve(h)
    /\ pos' = [pos EXCEPT ![h] = Siguiente(@)]
    /\ \/ /\ pos'[h] = ultima
          /\ mutex' = h
          /\ pc' = [pc EXCEPT ![h] = "sinEntrada"]
       \/ /\ pos'[h] # ultima
          /\ pc' = [pc EXCEPT ![h] = "seguir"]
          /\ UNCHANGED mutex
    /\ UNCHANGED <<tabla, otorgadas, ultima, vivo, ped, copia, camino, vieja>>

(* The condition of the loop reads ultima again, with no lock held.        *)
SeguirBuscando(h) ==
    /\ pc[h] = "seguir"
    /\ pc' = [pc EXCEPT ![h] = IF pos[h] # ultima THEN "buscar"
                                                  ELSE "sinEntrada"]
    /\ UNCHANGED <<compartido, ped, copia, camino, vieja, pos>>

(* The search answers -1, which is never equal to the uint16_t it is kept  *)
(* in, or a position that is no entry: the process dies on a lock that     *)
(* does not exist, or writes where no entry is and answers all the same.   *)
SinEntrada(h) ==
    /\ pc[h] \in {"sinEntrada", "ajena"}
    /\ UNCHANGED <<tabla, otorgadas, ultima, mutex>>
    /\ \/ vivo' = FALSE /\ UNCHANGED <<pc, ped, copia, camino, vieja, pos>>
       \/ Olvidar(h) /\ UNCHANGED vivo

(* escribirDescriptor writes the new descriptor under the lock of the      *)
(* entry and then gives the entry back.                                    *)
TipoDe(op) == IF op = "mkdir" THEN "DIRECTORY" ELSE "REGULAR"

EscribirDescriptor(h) ==
    /\ pc[h] = "escribir"
    /\ tabla' = [tabla EXCEPT ![pos[h]] = [state |-> TipoDe(ped[h].op),
                                           fname |-> Ultimo(ped[h].camino),
                                           parent |-> arr[h]]]
    /\ pc' = [pc EXCEPT ![h] = "devolver"]
    /\ UNCHANGED <<otorgadas, ultima, mutex, vivo, ped, copia, camino, vieja,
                   pos>>

(* Variant: the entry stays marked as given away.                          *)
SinDevolver(h) == otorgadas

Devueltas(h) == [otorgadas EXCEPT ![pos[h]] = FALSE]

DevolverEntrada(h) ==
    /\ pc[h] = "devolver"
    /\ otorgadas' = Devueltas(h)
    /\ Olvidar(h)
    /\ UNCHANGED <<tabla, ultima, mutex, vivo>>

-----------------------------------------------------------------------------
Paso(h) ==
    \/ Contar(h)
    \/ LeerParte(h)
    \/ DecidirCrear(h)
    \/ DecidirEliminar(h)
    \/ Eliminar(h)
    \/ PasarAlDestino(h)
    \/ DecidirRenombrar(h)
    \/ Renombrar(h)
    \/ CopiarTabla(h)
    \/ MirarUltima(h)
    \/ ReiniciarUltima(h)
    \/ LeerUltima(h)
    \/ OtorgarEntrada(h)
    \/ OtorgarAjena(h)
    \/ MorirBuscando(h)
    \/ PasarEntrada(h)
    \/ SeguirBuscando(h)
    \/ SinEntrada(h)
    \/ EscribirDescriptor(h)
    \/ DevolverEntrada(h)

Next ==
    /\ vivo
    /\ \E h \in Hilos : Paso(h) \/ \E p \in Pedidos : Recibir(h, p)

Spec == Init /\ [][Next]_vars

(* The threads of the server are scheduled by the system.                  *)
FairSpec == Spec /\ \A h \in Hilos : WF_vars(vivo /\ Paso(h))

-----------------------------------------------------------------------------
(* Every variable holds a value of the type the code gives it.  The hint   *)
(* and the searches may leave the table, as far as the process can read.   *)
Descriptores == [state: {"DELETED", "REGULAR", "DIRECTORY"},
                 fname: Nombres \cup {"", "/"}, parent: Entradas \cup {RAIZ}]

Estados == {"libre", "contar", "camino", "destino", "eliminar", "renombrar",
            "copiar", "reiniciar", "cero", "desde", "buscar", "seguir",
            "sinEntrada", "ajena", "escribir", "devolver"}

TypeOK ==
    /\ tabla \in [Entradas -> Descriptores]
    /\ otorgadas \in [Entradas -> BOOLEAN]
    /\ ultima \in Posiciones
    /\ mutex \in Hilos \cup {NIL}
    /\ vivo \in BOOLEAN
    /\ pc \in [Hilos -> Estados]
    /\ ped \in [Hilos -> Pedidos \cup {NoPed}]
    /\ copia \in [Hilos -> [Entradas -> Descriptores]]
    /\ partes \in [Hilos -> Seq(Nombres)]
    /\ arr \in [Hilos -> Entradas \cup {RAIZ}]
    /\ desc \in [Hilos -> Descriptores \cup {NIL}]
    /\ vieja \in [Hilos -> [pos: Entradas \cup {RAIZ}, desc: Descriptores,
                            existe: BOOLEAN]]
    /\ pos \in [Hilos -> Posiciones]

(* A free entry is in the hands of one thread at most until its descriptor *)
(* is written, and an entry is marked as given away only while a thread    *)
(* holds it: no creation writes over another one's entry in flight, and no *)
(* entry is lost to later creations.                                       *)
Tiene(h, e) == pc[h] \in {"escribir", "devolver"} /\ pos[h] = e

EntradaDeUno ==
    \A e \in Entradas :
        /\ \A g, h \in Hilos : Tiene(g, e) /\ Tiene(h, e) => g = h
        /\ otorgadas[e] <=> \E h \in Hilos : Tiene(h, e)

(* The count at the head of a creation is a promise: past it, the search   *)
(* finds an entry without ever leaving the table, and the mutex is given   *)
(* back.                                                                   *)
SiempreHayEntrada ==
    /\ vivo /\ mutex = NIL
    /\ \A h \in Hilos : pos[h] \in Entradas /\ pc[h] # "sinEntrada"

(* The nodes of the tree, as the clients see it.                           *)
Arbol == {[entrada |-> e, tipo |-> tabla[e].state, nombre |-> tabla[e].fname,
           padre |-> tabla[e].parent] : e \in {d \in Entradas : Activa(tabla, d)}}

Espacio == INSTANCE EspacioDeNombres WITH arbol <- Arbol

(* The table changes only as a tree does: one node is created, deleted or  *)
(* moved, under a directory that is there and to a name that is free.      *)
EsUnArbol == Espacio!Spec

(* Whatever the table has is reached from the root: no directory is left   *)
(* hanging from itself, out of the reach of every path.                    *)
CuelgaDeLaRaiz ==
    \A S \in SUBSET Entradas :
        S # {} /\ (\A e \in S : Activa(tabla, e)) => \E e \in S : tabla[e].parent \notin S

(* A creation never writes over a file or a directory that is there.       *)
NadaPisado ==
    [][\A h \in Hilos : pc[h] = "escribir" /\ pc'[h] = "devolver" =>
           ~Activa(tabla, pos[h])]_vars

(* What the clients have to agree on for the table to keep its promises.    *)
(* UnAutor: one client creates and moves; the others delete.                *)
(* CadaUnoLoSuyo: besides, each name has one client that deletes it, the    *)
(* author for directories; a rename keeps the owner; and the kernel of the  *)
(* author refuses to move a directory into itself.                          *)
DeUno(a) == \A p \in Pedidos : p.op # "eliminar" => p.hilo = a
UnAutor == \E a \in Hilos : DeUno(a)

Empieza(d, c) == Len(c) <= Len(d) /\ \A i \in 1 .. Len(c) : c[i] = d[i]

Repartidos(a, duenio) ==
    /\ DeUno(a)
    /\ \A p \in Pedidos :
         LET de == duenio[Ultimo(p.camino)] IN
         /\ p.op = "mkdir" => de = a
         /\ p.op = "eliminar" => de = p.hilo
         /\ p.op = "renombrar" => /\ duenio[Ultimo(p.destino)] = de
                                  /\ ~Empieza(p.destino, p.camino)
CadaUnoLoSuyo == \E a \in Hilos, duenio \in [Nombres -> Hilos] : Repartidos(a, duenio)

(* Every request is answered: no search of the table goes on for ever and  *)
(* none waits for a mutex that is not given back.                          *)
TodoSeResponde == \A h \in Hilos : pc[h] # "libre" ~> pc[h] = "libre"
=============================================================================
