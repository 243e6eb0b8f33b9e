---------------------------- MODULE OsadaBloques ----------------------------
(***************************************************************************)
(* Block management of the OSADA filesystem of pokeDex-Servidor: what the  *)
(* threads that serve the clients do to the bitmap, to the allocation      *)
(* table and to the file table when they write, truncate, delete or touch  *)
(* existing regular files.                                                 *)
(*                                                                         *)
(* One step is one critical section or one disk access of the code.  A     *)
(* handler copies the descriptor of its file in leerPath, BEFORE it takes  *)
(* the write lock of the entry, works on that copy and on a private copy   *)
(* of the allocation table, and writes the whole descriptor back.          *)
(***************************************************************************)
EXTENDS Integers, FiniteSets

CONSTANTS
    Hilos,        \* the threads, one per connected client
    Entradas,     \* the entries of the file table
    NBloques,     \* the data blocks are 0 .. NBloques - 1
    NIL,          \* UINT32_MAX as a block pointer; a lock nobody holds
    TamBloque,    \* OSADA_BLOCK_SIZE
    Modulo,       \* 2^32, the modulus of the uint32_t arithmetic
    Pedidos,      \* the requests the clients may send
    Hueco,        \* how far past the end of its file a write may start
    AsigIniciales \* what the allocation table of a new disk may hold

Bloques == 0 .. NBloques - 1
Punteros == Bloques \cup {NIL}

(* "utimens" is also what renombrar does to size and first block: both     *)
(* write back, without the lock, the descriptor they read.                 *)
Operaciones == {"editar", "truncar", "eliminar", "utimens"}

ASSUME ConstantesBloques ==
    /\ NBloques \in Nat
    /\ TamBloque \in Nat \ {0}
    /\ Modulo \in Nat \ {0}
    /\ Hueco \in Nat
    /\ NIL \notin Bloques \cup Hilos \cup Entradas
    /\ Pedidos \subseteq [hilo: Hilos, op: Operaciones, arch: Entradas,
                          ini: Nat, bytes: Nat]
    /\ AsigIniciales \subseteq [Bloques -> Punteros]

VARIABLES
    tabla,  \* file table on disk: state, file_size and first_block of an entry
    bitmap, \* TRUE: the block is marked as occupied
    asig,   \* allocation table on disk: the block that follows a block
    lock,   \* locks[]: the thread that holds the write lock of an entry
    vivo,   \* FALSE once the process died indexing asignaciones[UINT32_MAX]
    pc, ped,    \* where each thread is, and the request it serves
    modo,       \* which internal routine it runs (truncar ends in editar)
    dTam, dPri, \* its copy of the descriptor: file_size, first_block
    snap,       \* its copy of the allocation table
    ini, res,   \* posicionInicial/inicio and bytesAEscribir, as they shrink
    blq, sig,   \* bloqueAEditar_bq and siguiente_bloque_bq
    huecos      \* no variable of the code, and read by no guard: the files
                \* written past their end since they were last truncated

disco == <<tabla, bitmap, asig>>
vars == <<tabla, bitmap, asig, lock, vivo, pc, ped, modo, dTam, dPri, snap,
          ini, res, blq, sig, huecos>>

NoPed == [op |-> "ninguna", arch |-> NIL]
NoSnap == [b \in Bloques |-> NIL]

Init ==
    /\ tabla = [e \in Entradas |->
                   [state |-> "REGULAR", file_size |-> 0, first_block |-> NIL]]
    /\ bitmap = [b \in Bloques |-> FALSE]
    /\ asig \in AsigIniciales
    /\ lock = [e \in Entradas |-> NIL]
    /\ vivo = TRUE
    /\ pc = [h \in Hilos |-> "libre"]
    /\ ped = [h \in Hilos |-> NoPed]
    /\ modo = [h \in Hilos |-> "ninguno"]
    /\ dTam = [h \in Hilos |-> 0]
    /\ dPri = [h \in Hilos |-> NIL]
    /\ snap = [h \in Hilos |-> NoSnap]
    /\ ini = [h \in Hilos |-> 0]
    /\ res = [h \in Hilos |-> 0]
    /\ blq = [h \in Hilos |-> NIL]
    /\ sig = [h \in Hilos |-> NIL]
    /\ huecos = {}

-----------------------------------------------------------------------------
(* The blocks a walk that starts at p and follows f visits: the least set  *)
(* that holds p and is closed under f.                                     *)
Cerrado(f, S) == \A b \in S : f[b] = NIL \/ f[b] \in S

Alcanzables(f, p) ==
    {b \in Bloques : /\ p # NIL
                     /\ \A S \in SUBSET Bloques :
                            p \in S /\ Cerrado(f, S) => b \in S}

(* A walk that visits some block and none that ends it runs for ever.      *)
NoTermina(f, p) == /\ Alcanzables(f, p) # {}
                   /\ \A b \in Alcanzables(f, p) : f[b] # NIL

Libres == {b \in Bloques : ~bitmap[b]}
ObtenerBloquesLibres == Cardinality(Libres)

(* A thread that loops for ever in a free loop holds lockBitmap.           *)
LockBitmapLibre == \A h \in Hilos : pc[h] # "colgado"

Arch(h) == ped[h].arch

(* The first free block is taken under lockBitmap.                         *)
SinMarcar(b) == b \in Libres /\ (\A c \in Libres : b <= c) /\ UNCHANGED bitmap

ObtenerPrimerBloqueLibre(b) ==
    /\ b \in Libres
    /\ \A c \in Libres : b <= c
    /\ bitmap' = [bitmap EXCEPT ![b] = TRUE]

SoloEnDisco(h, posicion, valor) ==
    asig' = [asig EXCEPT ![posicion] = valor] /\ UNCHANGED snap

AsignarSiguienteBloque(h, posicion, valor) ==
    /\ asig' = [asig EXCEPT ![posicion] = valor]
    /\ snap' = [snap EXCEPT ![h][posicion] = valor]

(* The lock of the entry is released on every way out of the handlers that *)
(* took it.                                                                *)
SoltarSiReemplaza(h) ==
    [e \in Entradas |->
        IF lock[e] = h /\ pc[h] = "reemplazar" THEN NIL ELSE lock[e]]

SoltarLock(h) == [e \in Entradas |-> IF lock[e] = h THEN NIL ELSE lock[e]]

(* A thread is done: it drops its copies and answers its client.           *)
Terminado(h) ==
    /\ pc' = [pc EXCEPT ![h] = "libre"]
    /\ ped' = [ped EXCEPT ![h] = NoPed]
    /\ modo' = [modo EXCEPT ![h] = "ninguno"]
    /\ dTam' = [dTam EXCEPT ![h] = 0]
    /\ dPri' = [dPri EXCEPT ![h] = NIL]
    /\ snap' = [snap EXCEPT ![h] = NoSnap]
    /\ ini' = [ini EXCEPT ![h] = 0]
    /\ res' = [res EXCEPT ![h] = 0]
    /\ blq' = [blq EXCEPT ![h] = NIL]
    /\ sig' = [sig EXCEPT ![h] = NIL]
    /\ lock' = SoltarLock(h)

-----------------------------------------------------------------------------
(* leerPath finds the entry and copies its descriptor.                     *)
PrimerPaso(op) == CASE op \in {"editar", "truncar"} -> "lock"
                    [] op = "eliminar" -> "asignaciones"
                    [] OTHER -> "reemplazar"

LeerPath(h, p) ==
    /\ pc[h] = "libre"
    /\ p.hilo = h
    /\ tabla[p.arch].state = "REGULAR"
    /\ p.op = "editar" =>
           p.bytes > 0 /\ p.ini <= tabla[p.arch].file_size + Hueco
    /\ pc' = [pc EXCEPT ![h] = PrimerPaso(p.op)]
    /\ ped' = [ped EXCEPT ![h] = p]
    /\ modo' = [modo EXCEPT ![h] = p.op]
    /\ dTam' = [dTam EXCEPT ![h] = tabla[p.arch].file_size]
    /\ dPri' = [dPri EXCEPT ![h] = tabla[p.arch].first_block]
    /\ UNCHANGED <<disco, lock, vivo, huecos, snap, ini, res, blq, sig>>

(* The path of a deleted file: ARCHIVO_INEXISTENTE, and nothing changes.   *)
PathInexistente(h, p) ==
    /\ pc[h] = "libre"
    /\ p.hilo = h
    /\ tabla[p.arch].state # "REGULAR"
    /\ UNCHANGED vars

SinEsperar(h) == TRUE

LockLibre(h) == lock[Arch(h)] = NIL

TomarLock(h) ==
    /\ pc[h] = "lock"
    /\ LockLibre(h)
    /\ lock' = [lock EXCEPT ![Arch(h)] = h]
    /\ pc' = [pc EXCEPT ![h] = "espacio"]
    /\ ini' = [ini EXCEPT ![h] =
                  IF modo[h] = "editar" THEN ped[h].ini ELSE ped[h].bytes]
    /\ res' = [res EXCEPT ![h] =
                  IF modo[h] = "editar" THEN ped[h].bytes ELSE 0]
    /\ UNCHANGED <<disco, vivo, huecos, ped, modo, dTam, dPri, snap, blq, sig>>

(* The test for room, in uint32_t arithmetic.                              *)
SinContarElInicio(h) ==
    res[h] > dTam[h] + ini[h] + ObtenerBloquesLibres * TamBloque

NoHayEspacio(h) ==
    IF modo[h] = "editar"
    THEN res[h] > (dTam[h] - ini[h] + ObtenerBloquesLibres * TamBloque) % Modulo
    ELSE ini[h] > (dTam[h] + ObtenerBloquesLibres * TamBloque) % Modulo

ComprobarEspacio(h) ==
    /\ pc[h] = "espacio"
    /\ LockBitmapLibre
    /\ ~NoHayEspacio(h)
    /\ pc' = [pc EXCEPT ![h] = "asignaciones"]
    /\ UNCHANGED <<disco, lock, vivo, huecos, ped, modo, dTam, dPri, snap, ini,
                   res, blq, sig>>

(* No room: the request is refused, except that osada_TruncarArchivo       *)
(* ignores what rellenarConEspacios answers.                               *)
RechazarPorEspacio(h) ==
    /\ pc[h] = "espacio"
    /\ LockBitmapLibre
    /\ NoHayEspacio(h)
    /\ \/ /\ modo[h] = ped[h].op
          /\ Terminado(h)
       \/ /\ modo[h] # ped[h].op
          /\ pc' = [pc EXCEPT ![h] = "reemplazar"]
          /\ UNCHANGED <<lock, ped, modo, dTam, dPri, snap, ini, res, blq,
                         sig>>
    /\ UNCHANGED <<disco, vivo, huecos>>

(* obtenerTablaAsignaciones, and where the routine goes with its copy.     *)
TrasAsignaciones(h) ==
    CASE modo[h] = "editar" -> IF dPri[h] = NIL THEN "primero" ELSE "escribir"
      [] modo[h] = "truncar" -> IF dPri[h] = NIL /\ ini[h] # 0
                                THEN "primero" ELSE "recorrer"
      [] OTHER -> "liberar"

ObtenerTablaAsignaciones(h) ==
    /\ pc[h] = "asignaciones"
    /\ snap' = [snap EXCEPT ![h] = asig]
    /\ pc' = [pc EXCEPT ![h] = TrasAsignaciones(h)]
    /\ blq' = [blq EXCEPT ![h] = dPri[h]]
    /\ sig' = [sig EXCEPT ![h] = dPri[h]]
    /\ UNCHANGED <<disco, lock, vivo, huecos, ped, modo, dTam, dPri, ini, res>>

(* The file had no block: its first one is taken ...                       *)
PedirPrimero(h) ==
    /\ pc[h] = "primero"
    /\ LockBitmapLibre
    /\ \E b \in Bloques :
           /\ ObtenerPrimerBloqueLibre(b)
           /\ dPri' = [dPri EXCEPT ![h] = b]
           /\ blq' = [blq EXCEPT ![h] = b]
           /\ sig' = [sig EXCEPT ![h] = b]
    /\ pc' = [pc EXCEPT ![h] = "termPrimero"]
    /\ UNCHANGED <<tabla, asig, lock, vivo, huecos, ped, modo, dTam, snap, ini,
                   res>>

(* ... and ends the chain.                                                 *)
TerminarPrimero(h) ==
    /\ pc[h] = "termPrimero"
    /\ AsignarSiguienteBloque(h, sig[h], NIL)
    /\ pc' = [pc EXCEPT ![h] =
                 IF modo[h] = "editar" THEN "escribir" ELSE "recorrer"]
    /\ UNCHANGED <<tabla, bitmap, lock, vivo, huecos, ped, modo, dTam, dPri,
                   ini, res, blq, sig>>

-----------------------------------------------------------------------------
(* One turn of the loop of editarArchivoInterna: writes what falls in this *)
(* block, or skips it, and moves on to the next block of its copy.         *)
SinDescontarElInicio(h) == IF ini[h] >= TamBloque THEN 0
                           ELSE IF res[h] + ini[h] >= TamBloque THEN TamBloque
                           ELSE res[h]

Escritos(h) == IF ini[h] >= TamBloque THEN 0
               ELSE IF res[h] + ini[h] >= TamBloque THEN TamBloque - ini[h]
               ELSE res[h]

EscribirBloque(h) ==
    /\ pc[h] = "escribir"
    /\ res' = [res EXCEPT ![h] = @ - Escritos(h)]
    /\ ini' = [ini EXCEPT ![h] = IF @ < TamBloque THEN 0 ELSE @ - TamBloque]
    /\ LET siguiente == snap[h][blq[h]] IN
       \/ /\ res'[h] <= 0
          /\ pc' = [pc EXCEPT ![h] = "reemplazar"]
          /\ UNCHANGED blq
       \/ /\ res'[h] > 0
          /\ siguiente # NIL
          /\ blq' = [blq EXCEPT ![h] = siguiente]
          /\ UNCHANGED pc
       \/ /\ res'[h] > 0
          /\ siguiente = NIL
          /\ pc' = [pc EXCEPT ![h] = "pedir"]
          /\ UNCHANGED blq
    /\ UNCHANGED <<disco, lock, vivo, huecos, ped, modo, dTam, dPri, snap,
                   sig>>

(* The end of the chain is reached with bytes left: one more block.        *)
PedirBloque(h) ==
    /\ pc[h] = "pedir"
    /\ LockBitmapLibre
    /\ \E b \in Bloques :
           /\ ObtenerPrimerBloqueLibre(b)
           /\ sig' = [sig EXCEPT ![h] = b]
    /\ pc' = [pc EXCEPT ![h] = "enlazar"]
    /\ UNCHANGED <<tabla, asig, lock, vivo, huecos, ped, modo, dTam, dPri,
                   snap, ini, res, blq>>

(* The last block is linked to the new one before the new one ends the     *)
(* chain.                                                                  *)
Enlazar(h) ==
    /\ pc[h] = "enlazar"
    /\ AsignarSiguienteBloque(h, blq[h], sig[h])
    /\ pc' = [pc EXCEPT ![h] = "terminar"]
    /\ UNCHANGED <<tabla, bitmap, lock, vivo, huecos, ped, modo, dTam, dPri,
                   ini, res, blq, sig>>

Terminar(h) ==
    /\ pc[h] = "terminar"
    /\ AsignarSiguienteBloque(h, sig[h], NIL)
    /\ \/ /\ modo[h] = "editar"
          /\ blq' = [blq EXCEPT ![h] = sig[h]]
          /\ pc' = [pc EXCEPT ![h] = "escribir"]
       \/ /\ modo[h] # "editar"
          /\ pc' = [pc EXCEPT ![h] = "recorrer"]
          /\ UNCHANGED blq
    /\ UNCHANGED <<tabla, bitmap, lock, vivo, huecos, ped, modo, dTam, dPri,
                   ini, res, sig>>

(* obtenerPrimerBloqueLibre answers -1 and its caller indexes the copy of  *)
(* the allocation table with UINT32_MAX: the process dies.  In the loops   *)
(* the last block has been ended first.  (The bitmap is taken to have one  *)
(* bit per block of the disk and no more.)                                 *)
QuedarseSinBloque(h) ==
    /\ pc[h] \in {"primero", "pedir"}
    /\ LockBitmapLibre
    /\ Libres = {}
    /\ vivo' = FALSE
    /\ \/ pc[h] = "pedir" /\ AsignarSiguienteBloque(h, blq[h], NIL)
       \/ pc[h] = "primero" /\ UNCHANGED <<asig, snap>>
    /\ UNCHANGED <<tabla, bitmap, lock, pc, ped, modo, dTam, dPri, ini, res,
                   blq, sig, huecos>>

-----------------------------------------------------------------------------
(* One turn of the loop of truncarArchivoInterna.                          *)
UnaVueltaDeMas(h) == ini[h] >= 0
UnaVueltaDeMenos(h) == ini[h] >= TamBloque

QuedaPorRecorrer(h) == ini[h] > 0

Recorrer(h) ==
    /\ pc[h] = "recorrer"
    /\ \/ /\ QuedaPorRecorrer(h)
          /\ sig[h] = NIL
          /\ pc' = [pc EXCEPT ![h] = "pedir"]
          /\ UNCHANGED <<ini, blq, sig>>
       \/ /\ QuedaPorRecorrer(h)
          /\ sig[h] # NIL
          /\ ini' = [ini EXCEPT ![h] = @ - TamBloque]
          /\ blq' = [blq EXCEPT ![h] = sig[h]]
          /\ sig' = [sig EXCEPT ![h] = snap[h][sig[h]]]
          /\ UNCHANGED pc
       \/ /\ ~QuedaPorRecorrer(h)
          /\ pc' = [pc EXCEPT ![h] = "cortar"]
          /\ UNCHANGED <<ini, blq, sig>>
    /\ UNCHANGED <<disco, lock, vivo, huecos, ped, modo, dTam, dPri, snap,
                   res>>

(* The chain is cut after the last block kept; a file left without blocks  *)
(* loses its first block in the copy of the descriptor only.               *)
ConservarPrimero(h) == dPri[h]

NuevoPrimero(h) == IF sig[h] = dPri[h] THEN NIL ELSE dPri[h]

Cortar(h) ==
    /\ pc[h] = "cortar"
    /\ \/ sig[h] # dPri[h] /\ AsignarSiguienteBloque(h, blq[h], NIL)
       \/ sig[h] = dPri[h] /\ UNCHANGED <<asig, snap>>
    /\ dPri' = [dPri EXCEPT ![h] = NuevoPrimero(h)]
    /\ pc' = [pc EXCEPT ![h] = "liberar"]
    /\ UNCHANGED <<tabla, bitmap, lock, vivo, huecos, ped, modo, dTam, ini,
                   res, blq, sig>>

(* The blocks from siguiente on are freed under one hold of lockBitmap:    *)
(* the tail of a truncated file, or the whole chain of a deleted one.  A   *)
(* file that grew is then filled through editarArchivoInterna.             *)
SoloElPrimero(h) == {sig[h]}
DesdeElComienzo(h) == Alcanzables(snap[h], dPri[h])

Liberados(h) == Alcanzables(snap[h], sig[h])

Liberar(h) ==
    /\ pc[h] = "liberar"
    /\ LockBitmapLibre
    /\ bitmap' = [b \in Bloques |-> bitmap[b] /\ b \notin Liberados(h)]
    /\ \/ /\ NoTermina(snap[h], sig[h])
          /\ pc' = [pc EXCEPT ![h] = "colgado"]
          /\ UNCHANGED <<modo, ini, res>>
       \/ /\ ~NoTermina(snap[h], sig[h])
          /\ modo[h] = "truncar" /\ ped[h].bytes > dTam[h]
          /\ pc' = [pc EXCEPT ![h] = "espacio"]
          /\ modo' = [modo EXCEPT ![h] = "editar"]
          /\ ini' = [ini EXCEPT ![h] = dTam[h]]
          /\ res' = [res EXCEPT ![h] = ped[h].bytes - dTam[h]]
       \/ /\ ~NoTermina(snap[h], sig[h])
          /\ ~(modo[h] = "truncar" /\ ped[h].bytes > dTam[h])
          /\ pc' = [pc EXCEPT ![h] = "reemplazar"]
          /\ UNCHANGED <<modo, ini, res>>
    /\ UNCHANGED <<tabla, asig, lock, vivo, huecos, ped, dTam, dPri, snap, blq,
                   sig>>

(* reemplazarEstructuraDeArchivo writes the whole copy of the descriptor   *)
(* back, and the lock of the entry is released if the handler took it.     *)
NuevoTamanio(h) ==
    CASE ped[h].op = "editar" ->
             IF ped[h].bytes > (dTam[h] - ped[h].ini) % Modulo
             THEN ped[h].bytes + ped[h].ini ELSE dTam[h]
      [] ped[h].op = "truncar" -> ped[h].bytes
      [] OTHER -> dTam[h]

(* A write that starts past the end of its file, as its copy has it.       *)
PasadoDelFinal(h) == ped[h].op = "editar" /\ ped[h].ini > dTam[h]

ReemplazarEstructuraDeArchivo(h) ==
    /\ pc[h] = "reemplazar"
    /\ tabla' = [tabla EXCEPT ![Arch(h)] =
           [state |-> IF ped[h].op = "eliminar" THEN "DELETED" ELSE "REGULAR",
            file_size |-> NuevoTamanio(h),
            first_block |-> dPri[h]]]
    /\ huecos' = CASE PasadoDelFinal(h) -> huecos \cup {Arch(h)}
                   [] ped[h].op = "truncar" -> huecos \ {Arch(h)}
                   [] OTHER -> huecos
    /\ Terminado(h)
    /\ UNCHANGED <<bitmap, asig, vivo>>

-----------------------------------------------------------------------------
Paso(h) ==
    \/ TomarLock(h)
    \/ ComprobarEspacio(h)
    \/ RechazarPorEspacio(h)
    \/ ObtenerTablaAsignaciones(h)
    \/ PedirPrimero(h)
    \/ TerminarPrimero(h)
    \/ EscribirBloque(h)
    \/ PedirBloque(h)
    \/ Enlazar(h)
    \/ Terminar(h)
    \/ QuedarseSinBloque(h)
    \/ Recorrer(h)
    \/ Cortar(h)
    \/ Liberar(h)
    \/ ReemplazarEstructuraDeArchivo(h)

Next ==
    /\ vivo
    /\ \E h \in Hilos :
           \/ \E p \in Pedidos : LeerPath(h, p) \/ PathInexistente(h, p)
           \/ Paso(h)

Spec == Init /\ [][Next]_vars

(* A thread that can go on does go on: the threads of the server are       *)
(* scheduled by the system and none of their waits is on another request   *)
(* of their own client.                                                    *)
FairSpec == Spec /\ \A h \in Hilos : WF_vars(vivo /\ Paso(h))

-----------------------------------------------------------------------------
(* Every variable holds a value of the type the code gives it.             *)
Estados == {"libre", "lock", "espacio", "asignaciones", "primero",
            "termPrimero", "escribir", "pedir", "enlazar", "terminar",
            "recorrer", "cortar", "liberar", "colgado", "reemplazar"}

TypeOK ==
    /\ tabla \in [Entradas -> [state: {"REGULAR", "DELETED"},
                               file_size: Nat, first_block: Punteros]]
    /\ bitmap \in [Bloques -> BOOLEAN]
    /\ asig \in [Bloques -> Punteros]
    /\ lock \in [Entradas -> Hilos \cup {NIL}]
    /\ vivo \in BOOLEAN
    /\ pc \in [Hilos -> Estados]
    /\ ped \in [Hilos -> Pedidos \cup {NoPed}]
    /\ modo \in [Hilos -> Operaciones \cup {"ninguno"}]
    /\ dTam \in [Hilos -> Nat]
    /\ dPri \in [Hilos -> Punteros]
    /\ snap \in [Hilos -> [Bloques -> Punteros]]
    /\ ini \in [Hilos -> Int]
    /\ res \in [Hilos -> Nat]
    /\ blq \in [Hilos -> Punteros]
    /\ sig \in [Hilos -> Punteros]
    /\ huecos \subseteq Entradas

-----------------------------------------------------------------------------
Activa(e) == tabla[e].state = "REGULAR"
Cadena(e) == Alcanzables(asig, tabla[e].first_block)

(* The entry still names a block that its file has just lost: the bitmap   *)
(* is cleared before the descriptor is written, and a new block is linked  *)
(* before it ends the chain.  These are the instants at which a crash      *)
(* would leave a file that reaches blocks that are not its own.            *)
CabezaVieja(h) ==
    \/ pc[h] = "colgado"
    \/ pc[h] = "reemplazar" /\ ped[h].op = "eliminar"
    \/ pc[h] = "reemplazar" /\ ped[h].op = "truncar" /\ dPri[h] = NIL

EnVentana(e) == \E h \in Hilos : /\ Arch(h) = e
                                 /\ CabezaVieja(h) \/ pc[h] = "terminar"

Sana(e) == Activa(e) /\ ~EnVentana(e)

(* No block belongs to two files, whatever the operations in flight.       *)
CadenasDisjuntas ==
    \A d, e \in Entradas :
        d # e /\ Sana(d) /\ Sana(e) => Cadena(d) \cap Cadena(e) = {}

(* Every block a file reaches is marked in the bitmap, so that no other    *)
(* file can be given it.                                                   *)
CadenasOcupadas ==
    \A e \in Entradas : Sana(e) => \A b \in Cadena(e) : bitmap[b]

(* A write lands in a block that is marked and that no other file reaches: *)
(* the private copies of the descriptor and of the allocation table never  *)
(* lead editarArchivoInterna into somebody else's data.                    *)
EscribeEnLoSuyo ==
    \A h \in Hilos : pc[h] = "escribir" =>
        /\ blq[h] # NIL
        /\ bitmap[blq[h]]
        /\ \A e \in Entradas \ {Arch(h)} : Sana(e) => blq[h] \notin Cadena(e)

(* The lock of an entry keeps apart the handlers that write or truncate    *)
(* its file: from the test for room to the last write of the allocation    *)
(* table there is one of them at most, even while others delete the file.  *)
EnSeccion(h) ==
    /\ ped[h].op \in {"editar", "truncar"}
    /\ pc[h] \notin {"libre", "lock", "colgado", "reemplazar"}

ExclusionDeEscritores ==
    \A g, h \in Hilos :
        g # h /\ EnSeccion(g) /\ EnSeccion(h) => Arch(g) # Arch(h)

(* When no request is being served, a block is marked in the bitmap only   *)
(* if some file reaches it: nothing leaks.                                 *)
Quieto == vivo /\ \A h \in Hilos : pc[h] = "libre"

SinFugas ==
    Quieto => \A b \in Bloques :
                  bitmap[b] => \E e \in Entradas : Activa(e) /\ b \in Cadena(e)

(* A file nobody is working on has exactly the blocks its size asks for.   *)
(* Only a write that starts past its end parts the two: the blocks it adds *)
(* are not counted in the size (FuncionesOsada.c:74 compares unsigned      *)
(* numbers) until a truncation puts the chain right again.                 *)
EnUso(e) == \E h \in Hilos : pc[h] # "libre" /\ Arch(h) = e

BloquesDe(bytes) == (bytes + TamBloque - 1) \div TamBloque

CadenaJusta ==
    \A e \in Entradas : Activa(e) /\ ~EnUso(e) /\ e \notin huecos =>
        Cardinality(Cadena(e)) = BloquesDe(tabla[e].file_size)

(* A file nobody is working on has a block for each byte of its size, and  *)
(* its chain ends: a reader never runs past the last block.                *)
TamanioCubierto ==
    \A e \in Entradas : Activa(e) /\ ~EnUso(e) =>
        /\ BloquesDe(tabla[e].file_size) <= Cardinality(Cadena(e))
        /\ ~NoTermina(asig, tabla[e].first_block)

(* No chain goes round in circles: a reader of a file nobody is working on *)
(* comes to its end, and no thread is caught in the loop that frees blocks *)
(* while it holds lockBitmap.                                              *)
SinBucles ==
    /\ \A h \in Hilos : pc[h] # "colgado"
    /\ \A e \in Entradas : Activa(e) /\ ~EnUso(e) =>
           ~NoTermina(asig, tabla[e].first_block)

(* The test for room at the head of each operation keeps its promise: once *)
(* it is passed the free blocks do not run out.  One client alone sees it  *)
(* broken only to a write that starts past the end of its file, where the  *)
(* difference wraps (LectorOsada.c:345) and the test is passed.  It keeps  *)
(* nothing apart, though: two clients may pass it for the same blocks.     *)
NuncaSinBloque == vivo \/ \E h \in Hilos : PasadoDelFinal(h)

(* "Lo que se pide escribir es mas grande que el archivo y mas grande que  *)
(* el espacio disponible en el filesystem" (LectorOsada.c:344): a write of *)
(* more bytes than the file and the free blocks have between them does not *)
(* pass the test.                                                          *)
LoQueNoEntraSeRechaza ==
    [][\A h \in Hilos :
          pc[h] = "espacio" /\ pc'[h] = "asignaciones" /\ modo[h] = "editar" =>
              res[h] <= dTam[h] + ObtenerBloquesLibres * TamBloque]_vars

(* A lock that is taken is given back, unless the process dies: no answer  *)
(* of a handler, and no refusal, leaves the entry locked.                  *)
LockSeSuelta ==
    \A e \in Entradas, h \in Hilos :
        lock[e] = h ~> (lock[e] # h \/ ~vivo)
=============================================================================
