------------------------ MODULE OsadaBloques_proofs ------------------------
(***************************************************************************)
(* Proofs about OsadaBloques, for any number of clients, files and blocks: *)
(* its types and locks, and that the blocks always have an assignment of   *)
(* owners that every chain and every thread respects, provided the files   *)
(* that somebody cuts or deletes are each in the hands of one client.      *)
(***************************************************************************)
EXTENDS OsadaBloquesInv, TLAPS

Base == TypeOK /\ \A h \in Hilos : Control(h)

LEMMA BaseInicial == Init => Base
<1> USE ConstantesBloques
<1> SUFFICES ASSUME Init PROVE Base
    OBVIOUS
<1>1. TypeOK
    BY DEF Init, TypeOK, NoSnap, NoPed, Estados, Punteros, Operaciones
<1>2. ASSUME NEW h \in Hilos PROVE Control(h)
    BY DEF Init, Control, NoPed, ConSnap, Pendiente, Operaciones
<1> QED BY <1>1, <1>2 DEF Base

LEMMA TerminadoBase ==
    ASSUME Base, NEW h \in Hilos, Terminado(h), vivo' = vivo,
           asig' = asig, bitmap' = bitmap, huecos' \subseteq Entradas,
           tabla' \in [Entradas -> [state: {"REGULAR", "DELETED"},
                                    file_size: Nat, first_block: Punteros]],
           pc[h] # "libre"
    PROVE  Base'
<1> USE ConstantesBloques
<1>1. TypeOK'
    BY DEF Base, TypeOK, Terminado, SoltarLock, NoSnap, NoPed, Estados, Punteros, Operaciones
<1>2. ASSUME NEW g \in Hilos PROVE Control(g)'
    <2>1. CASE g = h
        BY <2>1 DEF Base, TypeOK, Terminado, Control, NoPed, ConSnap, Pendiente, Operaciones
    <2>2. CASE g # h
        <3>1. Control(g)
            BY DEF Base
        <3>2. /\ pc'[g] = pc[g] /\ ped'[g] = ped[g] /\ modo'[g] = modo[g]
              /\ dPri'[g] = dPri[g] /\ ini'[g] = ini[g] /\ sig'[g] = sig[g]
              /\ blq'[g] = blq[g]
            BY <2>2 DEF Base, TypeOK, Terminado
        <3>3. pc[g] # "libre" => Arch(g) \in Entradas
            BY <3>1 DEF Control, Arch
        <3>4. lock[Arch(g)] = g /\ pc[g] # "libre" => lock'[Arch(g)] = g
            BY <2>2, <3>3 DEF Terminado, SoltarLock
        <3> QED BY <3>1, <3>2, <3>4 DEF Control, Arch, ConSnap, Pendiente, Operaciones
    <2> QED BY <2>1, <2>2
<1> QED BY <1>1, <1>2 DEF Base

(* A step of h that leaves the state of the other threads alone.           *)
SoloDe(h) ==
    \A g \in Hilos \ {h} :
        /\ pc'[g] = pc[g] /\ ped'[g] = ped[g] /\ modo'[g] = modo[g]
        /\ dTam'[g] = dTam[g] /\ dPri'[g] = dPri[g] /\ snap'[g] = snap[g]
        /\ ini'[g] = ini[g] /\ res'[g] = res[g]
        /\ blq'[g] = blq[g] /\ sig'[g] = sig[g]

LEMMA ControlAjeno ==
    ASSUME Base, NEW h \in Hilos, SoloDe(h), UNCHANGED lock,
           NEW g \in Hilos \ {h}
    PROVE  Control(g)'
BY DEF Base, SoloDe, Control, Arch, ConSnap, Pendiente, Operaciones

(* Only the loop of editarArchivoInterna writes.                           *)
LEMMA ModoEscribir ==
    ASSUME NEW h \in Hilos, Control(h), pc[h] = "escribir"
    PROVE  modo[h] = "editar"
BY DEF Control, ConSnap

LEMMA BaseLeerPath ==
    ASSUME Base, NEW h \in Hilos, NEW p \in Pedidos, LeerPath(h, p)
    PROVE  Base'
<1> USE ConstantesBloques DEF LeerPath, disco
<1>0. p \in [hilo: Hilos, op: Operaciones, arch: Entradas, ini: Nat, bytes: Nat]
    OBVIOUS
<1>1. PrimerPaso(p.op) \in {"lock", "asignaciones", "reemplazar"}
    BY <1>0 DEF PrimerPaso, Operaciones
<1>2. TypeOK'
    BY <1>0, <1>1 DEF Base, TypeOK, Estados, Punteros
<1>3. Control(h)'
    BY <1>0 DEF Base, TypeOK, Control, PrimerPaso, Operaciones,
               ConSnap, NoPed, Pendiente
<1>4. ASSUME NEW g \in Hilos \ {h} PROVE Control(g)'
    BY ControlAjeno DEF SoloDe, Base, TypeOK
<1> QED BY <1>2, <1>3, <1>4 DEF Base

LEMMA BasePaso ==
    ASSUME Base, NEW h \in Hilos, Paso(h)
    PROVE  Base'
<1> USE ConstantesBloques
<1>0. /\ TypeOK /\ Control(h)
      /\ pc[h] # "libre" =>
             /\ ped[h].op \in Operaciones /\ ped[h].arch \in Entradas
             /\ ped[h].ini \in Nat /\ ped[h].bytes \in Nat
    <2>1. TypeOK /\ Control(h)
        BY DEF Base
    <2>2. pc[h] # "libre" =>
              ped[h] \in [hilo: Hilos, op: Operaciones, arch: Entradas,
                          ini: Nat, bytes: Nat]
        BY <2>1 DEF Control
    <2> QED BY <2>1, <2>2
<1>1. CASE TomarLock(h)
    <2>1. TypeOK'
        <3>1. ini' \in [Hilos -> Int] /\ res' \in [Hilos -> Nat]
            BY <1>0, <1>1 DEF TomarLock, LockLibre, TypeOK
        <3>2. lock' \in [Entradas -> Hilos \cup {NIL}]
            BY <1>0, <1>1 DEF TomarLock, LockLibre, TypeOK
        <3> QED BY <1>0, <1>1, <3>1, <3>2 DEF TomarLock, LockLibre, TypeOK, Estados, disco
    <2>2. Control(h)'
        BY <1>0, <1>1 DEF TomarLock, LockLibre, TypeOK, Control, ConSnap, Arch, Pendiente, disco
    <2>3. ASSUME NEW g \in Hilos \ {h} PROVE Control(g)'
        <3>1. Control(g)
            BY DEF Base
        <3>2. pc[g] # "libre" => Arch(g) \in Entradas
            BY <3>1 DEF Control, Arch
        <3>3. lock[Arch(g)] = g /\ pc[g] # "libre" => lock'[Arch(g)] = g
            BY <1>0, <1>1, <3>2 DEF TomarLock, LockLibre, Arch, TypeOK
        <3> QED BY <1>0, <1>1, <3>1, <3>3
                DEF TomarLock, LockLibre, Control, ConSnap, Arch, Pendiente, TypeOK
    <2> QED BY <2>1, <2>2, <2>3 DEF Base
<1>2. CASE ComprobarEspacio(h)
    <2>1. TypeOK'
        BY <1>0, <1>2 DEF ComprobarEspacio, TypeOK, Estados, disco
    <2>2. Control(h)'
        BY <1>0, <1>2 DEF ComprobarEspacio, TypeOK, Control, ConSnap, Arch, Pendiente, Operaciones
    <2>3. SoloDe(h) /\ UNCHANGED lock
        BY <1>0, <1>2 DEF ComprobarEspacio, SoloDe, TypeOK
    <2> QED BY <2>1, <2>2, <2>3, ControlAjeno DEF Base
<1>3. CASE RechazarPorEspacio(h)
    <2>1. CASE Terminado(h)
        BY <1>0, <1>3, <2>1, TerminadoBase DEF RechazarPorEspacio, disco, TypeOK
    <2>2. CASE ~Terminado(h)
        <3>1. TypeOK'
            BY <1>0, <1>3, <2>2 DEF RechazarPorEspacio, TypeOK, Estados, disco
        <3>2. Control(h)'
            BY <1>0, <1>3, <2>2
            DEF RechazarPorEspacio, TypeOK, Control, ConSnap, Arch, Pendiente, Operaciones
        <3>3. SoloDe(h) /\ UNCHANGED lock
            BY <1>0, <1>3, <2>2 DEF RechazarPorEspacio, SoloDe, TypeOK
        <3> QED BY <3>1, <3>2, <3>3, ControlAjeno DEF Base
    <2> QED BY <2>1, <2>2
<1>4. CASE ObtenerTablaAsignaciones(h)
    <2>1. TypeOK'
        BY <1>0, <1>4
        DEF ObtenerTablaAsignaciones, TrasAsignaciones, TypeOK, Estados, disco
    <2>2. Control(h)'
        BY <1>0, <1>4
        DEF ObtenerTablaAsignaciones, TrasAsignaciones, TypeOK, Control,
            ConSnap, Arch, Pendiente, Punteros, Operaciones
    <2>3. SoloDe(h) /\ UNCHANGED lock
        BY <1>0, <1>4 DEF ObtenerTablaAsignaciones, SoloDe, TypeOK
    <2> QED BY <2>1, <2>2, <2>3, ControlAjeno DEF Base
<1>5. CASE PedirPrimero(h)
    <2>1. TypeOK'
        BY <1>0, <1>5 DEF PedirPrimero, ObtenerPrimerBloqueLibre, TypeOK, Estados, Punteros
    <2>2. Control(h)'
        BY <1>0, <1>5 DEF PedirPrimero, TypeOK, Control, ConSnap, Arch, Pendiente, Operaciones
    <2>3. SoloDe(h) /\ UNCHANGED lock
        BY <1>0, <1>5 DEF PedirPrimero, SoloDe, TypeOK
    <2> QED BY <2>1, <2>2, <2>3, ControlAjeno DEF Base
<1>6. CASE TerminarPrimero(h)
    <2>1. TypeOK'
        BY <1>0, <1>6
        DEF TerminarPrimero, AsignarSiguienteBloque, TypeOK, Estados, Punteros
    <2>2. Control(h)'
        BY <1>0, <1>6 DEF TerminarPrimero, TypeOK, Control, ConSnap, Arch, Pendiente, Operaciones
    <2>3. SoloDe(h) /\ UNCHANGED lock
        BY <1>0, <1>6
        DEF TerminarPrimero, AsignarSiguienteBloque, SoloDe, TypeOK
    <2> QED BY <2>1, <2>2, <2>3, ControlAjeno DEF Base
<1>7. CASE EscribirBloque(h)
    <2>1. TypeOK'
        <3>1. blq[h] \in Bloques
            BY <1>0, <1>7, ModoEscribir DEF EscribirBloque, Control
        <3>2. snap[h][blq[h]] \in Punteros
            BY <1>0, <3>1 DEF TypeOK
        <3>3. blq' \in [Hilos -> Punteros] /\ pc' \in [Hilos -> Estados]
            BY <1>0, <1>7, <3>2 DEF EscribirBloque, TypeOK, Estados
        <3>4. ini' \in [Hilos -> Int]
            BY <1>0, <1>7 DEF EscribirBloque, TypeOK
        <3>5. res' \in [Hilos -> Nat]
            BY <1>0, <1>7 DEF EscribirBloque, Escritos, TypeOK
        <3> QED BY <1>0, <1>7, <3>3, <3>4, <3>5 DEF EscribirBloque, TypeOK, disco
    <2>2. Control(h)'
        <3>1. blq[h] \in Bloques
            BY <1>0, <1>7, ModoEscribir DEF EscribirBloque, Control
        <3>2. snap[h][blq[h]] \in Punteros
            BY <1>0, <3>1 DEF TypeOK
        <3> QED BY <1>0, <1>7, <3>1, <3>2
                DEF EscribirBloque, TypeOK, Control, ConSnap, Arch, Pendiente,
                    Punteros, Operaciones
    <2>3. SoloDe(h) /\ UNCHANGED lock
        BY <1>0, <1>7 DEF EscribirBloque, SoloDe, TypeOK
    <2> QED BY <2>1, <2>2, <2>3, ControlAjeno DEF Base
<1>8. CASE PedirBloque(h)
    <2>1. TypeOK'
        BY <1>0, <1>8 DEF PedirBloque, ObtenerPrimerBloqueLibre, TypeOK, Estados, Punteros
    <2>2. Control(h)'
        BY <1>0, <1>8 DEF PedirBloque, TypeOK, Control, ConSnap, Arch, Pendiente, Operaciones
    <2>3. SoloDe(h) /\ UNCHANGED lock
        BY <1>0, <1>8 DEF PedirBloque, SoloDe, TypeOK
    <2> QED BY <2>1, <2>2, <2>3, ControlAjeno DEF Base
<1>9. CASE Enlazar(h)
    <2>1. TypeOK'
        BY <1>0, <1>9
        DEF Enlazar, AsignarSiguienteBloque, TypeOK, Estados, Punteros
    <2>2. Control(h)'
        BY <1>0, <1>9 DEF Enlazar, TypeOK, Control, ConSnap, Arch, Pendiente, Operaciones
    <2>3. SoloDe(h) /\ UNCHANGED lock
        BY <1>0, <1>9 DEF Enlazar, AsignarSiguienteBloque, SoloDe, TypeOK
    <2> QED BY <2>1, <2>2, <2>3, ControlAjeno DEF Base
<1>10. CASE Terminar(h)
    <2>1. TypeOK'
        <3>1. /\ asig' \in [Bloques -> Punteros]
              /\ snap' \in [Hilos -> [Bloques -> Punteros]]
            BY <1>0, <1>10
            DEF Terminar, AsignarSiguienteBloque, TypeOK, Punteros
        <3>2. blq' \in [Hilos -> Punteros] /\ pc' \in [Hilos -> Estados]
            <4>1. \/ /\ blq' = [blq EXCEPT ![h] = sig[h]]
                     /\ pc' = [pc EXCEPT ![h] = "escribir"]
                  \/ pc' = [pc EXCEPT ![h] = "recorrer"] /\ blq' = blq
                BY <1>10 DEF Terminar
            <4> QED BY <1>0, <4>1 DEF TypeOK, Estados
        <3> QED BY <1>0, <1>10, <3>1, <3>2 DEF Terminar, TypeOK
    <2>2. Control(h)'
        BY <1>0, <1>10 DEF Terminar, TypeOK, Control, ConSnap, Arch, Pendiente, Operaciones
    <2>3. SoloDe(h) /\ UNCHANGED lock
        BY <1>0, <1>10 DEF Terminar, AsignarSiguienteBloque, SoloDe, TypeOK
    <2> QED BY <2>1, <2>2, <2>3, ControlAjeno DEF Base
<1>11. CASE QuedarseSinBloque(h)
    <2>1. TypeOK'
        <3>1. asig' \in [Bloques -> Punteros]
            BY <1>0, <1>11
            DEF QuedarseSinBloque, AsignarSiguienteBloque, TypeOK, Punteros
        <3>2. snap' \in [Hilos -> [Bloques -> Punteros]]
            <4>1. snap[h] \in [Bloques -> Punteros]
                BY <1>0 DEF TypeOK
            <4>2. [snap[h] EXCEPT ![blq[h]] = NIL] \in [Bloques -> Punteros]
                BY <4>1 DEF Punteros
            <4> QED BY <1>0, <1>11, <4>2
                    DEF QuedarseSinBloque, AsignarSiguienteBloque, TypeOK
        <3> QED BY <1>0, <1>11, <3>1, <3>2 DEF QuedarseSinBloque, TypeOK
    <2>2. Control(h)'
        BY <1>0, <1>11 DEF QuedarseSinBloque, Control, ConSnap, Arch, Pendiente, Operaciones
    <2>3. SoloDe(h) /\ UNCHANGED lock
        BY <1>0, <1>11
        DEF QuedarseSinBloque, AsignarSiguienteBloque, SoloDe, TypeOK
    <2> QED BY <2>1, <2>2, <2>3, ControlAjeno DEF Base
<1>12. CASE Recorrer(h)
    <2>1. TypeOK'
        <3>1. sig[h] # NIL => sig[h] \in Bloques /\ snap[h][sig[h]] \in Punteros
            BY <1>0 DEF TypeOK, Punteros
        <3>2. ini' \in [Hilos -> Int]
            BY <1>0, <1>12 DEF Recorrer, QuedaPorRecorrer, TypeOK
        <3>3. sig' \in [Hilos -> Punteros] /\ blq' \in [Hilos -> Punteros]
            BY <1>0, <1>12, <3>1 DEF Recorrer, QuedaPorRecorrer, TypeOK
        <3>4. pc' \in [Hilos -> Estados]
            BY <1>0, <1>12 DEF Recorrer, QuedaPorRecorrer, TypeOK, Estados
        <3> QED BY <1>0, <1>12, <3>2, <3>3, <3>4 DEF Recorrer, QuedaPorRecorrer, TypeOK, disco
    <2>2. Control(h)'
        BY <1>0, <1>12 DEF Recorrer, QuedaPorRecorrer, TypeOK, Control, ConSnap, Arch, Pendiente, Operaciones
    <2>3. SoloDe(h) /\ UNCHANGED lock
        BY <1>0, <1>12 DEF Recorrer, QuedaPorRecorrer, SoloDe, TypeOK
    <2> QED BY <2>1, <2>2, <2>3, ControlAjeno DEF Base
<1>13. CASE Cortar(h)
    <2>1. TypeOK'
        <3>1. asig' \in [Bloques -> Punteros]
            BY <1>0, <1>13 DEF Cortar, NuevoPrimero, AsignarSiguienteBloque, TypeOK, Punteros
        <3>2. snap' \in [Hilos -> [Bloques -> Punteros]]
            <4>1. snap[h] \in [Bloques -> Punteros]
                BY <1>0 DEF TypeOK
            <4>2. [snap[h] EXCEPT ![blq[h]] = NIL] \in [Bloques -> Punteros]
                BY <4>1 DEF Punteros
            <4> QED BY <1>0, <1>13, <4>2
                    DEF Cortar, NuevoPrimero, AsignarSiguienteBloque, TypeOK
        <3> QED BY <1>0, <1>13, <3>1, <3>2 DEF Cortar, NuevoPrimero, TypeOK, Estados, Punteros
    <2>2. Control(h)'
        BY <1>0, <1>13 DEF Cortar, NuevoPrimero, TypeOK, Control, ConSnap, Arch, Pendiente, Operaciones
    <2>3. SoloDe(h) /\ UNCHANGED lock
        BY <1>0, <1>13 DEF Cortar, NuevoPrimero, AsignarSiguienteBloque, SoloDe, TypeOK
    <2> QED BY <2>1, <2>2, <2>3, ControlAjeno DEF Base
<1>14. CASE Liberar(h)
    <2>1. TypeOK'
        <3>1. bitmap' \in [Bloques -> BOOLEAN]
            BY <1>14 DEF Liberar
        <3>a. \/ UNCHANGED <<modo, ini, res>>
              \/ /\ ped[h].bytes > dTam[h]
                 /\ modo' = [modo EXCEPT ![h] = "editar"]
                 /\ ini' = [ini EXCEPT ![h] = dTam[h]]
                 /\ res' = [res EXCEPT ![h] = ped[h].bytes - dTam[h]]
            BY <1>14 DEF Liberar
        <3>b. ped[h].bytes \in Nat
            BY <1>0, <1>14 DEF Liberar
        <3>2. res' \in [Hilos -> Nat] /\ ini' \in [Hilos -> Int]
            BY <1>0, <3>a, <3>b DEF TypeOK
        <3>3. modo' \in [Hilos -> Operaciones \cup {"ninguno"}]
            BY <1>0, <3>a DEF TypeOK, Operaciones
        <3> QED BY <1>0, <1>14, <3>1, <3>2, <3>3 DEF Liberar, TypeOK, Estados
    <2>2. Control(h)'
        BY <1>0, <1>14 DEF Liberar, TypeOK, Control, ConSnap, Arch, Pendiente, Operaciones
    <2>3. SoloDe(h) /\ UNCHANGED lock
        BY <1>0, <1>14 DEF Liberar, SoloDe, TypeOK
    <2> QED BY <2>1, <2>2, <2>3, ControlAjeno DEF Base
<1>15. CASE ReemplazarEstructuraDeArchivo(h)
    <2>1. NuevoTamanio(h) \in Nat
        BY <1>0, <1>15 DEF ReemplazarEstructuraDeArchivo, NuevoTamanio, TypeOK
    <2>2. Arch(h) \in Entradas
        BY <1>0, <1>15, ConstantesBloques
           DEF ReemplazarEstructuraDeArchivo, Control, Arch
    <2>3. huecos' \subseteq Entradas
        BY <1>0, <1>15, <2>2 DEF ReemplazarEstructuraDeArchivo, TypeOK
    <2> QED BY <1>0, <1>15, <2>1, <2>3, TerminadoBase
            DEF ReemplazarEstructuraDeArchivo, TypeOK
<1> QED
    BY <1>1, <1>2, <1>3, <1>4, <1>5, <1>6, <1>7, <1>8, <1>9, <1>10, <1>11,
       <1>12, <1>13, <1>14, <1>15 DEF Paso

LEMMA BasePasoCualquiera ==
    ASSUME Base, [Next]_vars
    PROVE  Base'
<1>1. CASE UNCHANGED vars
    BY <1>1 DEF vars, Base, TypeOK, Control, Arch, Pendiente
<1>2. CASE Next
    BY <1>1, <1>2, BaseLeerPath, BasePaso DEF Next, PathInexistente
<1> QED BY <1>1, <1>2

LEMMA BaseSiempre == Spec => []Base
<1>1. Base /\ [Next]_vars => Base'
    BY BasePasoCualquiera
<1> QED BY BaseInicial, <1>1, PTL DEF Spec

(* Every variable of the block manager keeps its type: no file size goes   *)
(* negative and no pointer leaves the disk, whatever the clients ask for.  *)
THEOREM TipoCorrecto == Spec => []TypeOK
<1>1. Base => TypeOK
    BY DEF Base
<1> QED BY BaseSiempre, <1>1, PTL

(* Two handlers never write or truncate the same file at once, however     *)
(* many clients there are and whatever else they ask for.                  *)
THEOREM EscritoresSiempreExcluidos == Spec => []ExclusionDeEscritores
<1>1. Base => ExclusionDeEscritores
    <2> SUFFICES ASSUME Base, NEW g \in Hilos, NEW h \in Hilos, g # h,
                        EnSeccion(g), EnSeccion(h), Arch(g) = Arch(h)
                 PROVE  FALSE
        BY DEF ExclusionDeEscritores
    <2>1. ASSUME NEW i \in Hilos, EnSeccion(i)
          PROVE  lock[Arch(i)] = i
        <3>1. Control(i) /\ pc[i] \in Estados
            BY DEF Base, TypeOK
        <3>2. modo[i] # "eliminar"
            BY <2>1, <3>1 DEF Control, EnSeccion
        <3> QED BY <2>1, <3>1, <3>2 DEF Control, EnSeccion, ConSnap, Estados
    <2> QED BY <2>1
<1> QED BY BaseSiempre, <1>1, PTL
-----------------------------------------------------------------------------
(* The remainder of the test of editarArchivoInterna never exceeds what is *)
(* left of the file.                                                       *)
LEMMA RestoAcotado ==
    ASSUME NEW a \in Nat, NEW m \in Nat \ {0}
    PROVE  a % m <= a
<1>1. a = m * (a \div m) + (a % m) /\ a \div m \in Nat /\ a % m \in 0 .. m - 1
    OBVIOUS
<1>2. m * (a \div m) >= 0
    BY <1>1
<1> QED BY <1>1, <1>2

-----------------------------------------------------------------------------
(* The owners of the blocks: the inductive invariant of OsadaBloquesInv.   *)

(* Who works on a file that is cut works on it alone.                      *)
LEMMA Exclusivo ==
    ASSUME Base, SinRecortesCompartidos, NEW g \in Hilos, NEW h \in Hilos,
           Arch(g) = Arch(h), Arch(h) \in Entradas, Recortado(Arch(h))
    PROVE  g = h
<1>1. ped[g] # NoPed /\ ped[h] # NoPed
    BY ConstantesBloques DEF Arch, NoPed
<1>2. /\ ped[g] \in Pedidos /\ ped[g].hilo = g
      /\ ped[h] \in Pedidos /\ ped[h].hilo = h
    BY <1>1 DEF Base, Control
<1>3. PICK p \in Pedidos : p.arch = Arch(h) /\ p.op \in {"truncar", "eliminar"}
    BY DEF Recortado
<1>4. p.hilo = g /\ p.hilo = h
    BY <1>2, <1>3 DEF SinRecortesCompartidos, Arch
<1> QED BY <1>4

(* Only a file that somebody cuts or deletes can have a stale head.        *)
LEMMA ViejaRecorta ==
    ASSUME Base, NEW h \in Hilos, CabezaVieja(h), ped[h] \in Pedidos
    PROVE  Recortado(Arch(h))
<1>1. ped[h].op \in {"truncar", "eliminar"}
    BY DEF CabezaVieja, Base, Control, Operaciones
<1> QED BY <1>1 DEF Recortado, Arch

(* Two threads that use their copies of the allocation table work on       *)
(* different files: by the lock of the entry, or because one deletes it.   *)
LEMMA SnapAjeno ==
    ASSUME Base, SinRecortesCompartidos, NEW g \in Hilos, NEW h \in Hilos,
           g # h, pc[g] \in ConSnap \cup {"asignaciones"},
           pc[h] \in ConSnap \cup {"asignaciones"}
    PROVE  Arch(g) # Arch(h)
<1> SUFFICES ASSUME Arch(g) = Arch(h) PROVE FALSE
    OBVIOUS
<1>1. /\ ped[g] \in Pedidos /\ ped[g].hilo = g
      /\ ped[h] \in Pedidos /\ ped[h].hilo = h
    BY DEF Base, Control, ConSnap
<1>2. Arch(h) \in Entradas
    BY <1>1, ConstantesBloques DEF Arch
<1>3. modo[g] # "eliminar" /\ modo[h] # "eliminar"
    <2>1. ASSUME NEW k \in {g, h}, modo[k] = "eliminar" PROVE FALSE
        <3>1. ped[k].op = "eliminar"
            BY <2>1 DEF Base, Control
        <3>2. Recortado(Arch(h))
            BY <1>1, <3>1 DEF Recortado, Arch
        <3> QED BY <1>2, <3>2, Exclusivo
    <2> QED BY <2>1
<1>4. lock[Arch(g)] = g /\ lock[Arch(h)] = h
    BY <1>3 DEF Base, Control
<1> QED BY <1>4

(* The part of the state the conditions on one file speak of.              *)
Igual(own, own2, e) ==
    /\ Suyos(own2, e) = Suyos(own, e)
    /\ \A b \in Suyos(own, e) : asig'[b] = asig[b] /\ (bitmap[b] => bitmap'[b])
    /\ tabla'[e] = tabla[e]
    /\ \A g \in Hilos : Arch(g)' = e <=> Arch(g) = e
    /\ \A g \in Hilos : Arch(g) = e =>
           /\ pc'[g] = pc[g] /\ ped'[g] = ped[g] /\ modo'[g] = modo[g]
           /\ dPri'[g] = dPri[g] /\ snap'[g] = snap[g] /\ ini'[g] = ini[g]
           /\ blq'[g] = blq[g] /\ sig'[g] = sig[g]

LEMMA Marco ==
    ASSUME NEW own, NEW own2, NEW e \in Entradas,
           Bien(own, e), Igual(own, own2, e)
    PROVE  Bien(own2, e)'
<1>1. Suyos(own2, e) = Suyos(own, e) /\ Suyos(own2, e)' = Suyos(own, e)
    BY DEF Igual, Suyos
<1>2. Firmes(own2, e)' = Firmes(own, e)
    BY <1>1 DEF Firmes, Igual, Pendiente
<1>3. \A p : De(own2, p, e)' <=> De(own, p, e)
    BY <1>1 DEF De
<1>4. \A b \in Firmes(own, e) : b \in Suyos(own, e) /\ asig'[b] = asig[b]
    BY DEF Firmes, Igual
<1>5. \A g \in Hilos : Arch(g) = e => CabezaVieja(g)' = CabezaVieja(g)
    BY DEF CabezaVieja, Igual
<1>6. CabezaFirme(e)' = CabezaFirme(e)
    BY <1>5 DEF CabezaFirme, Activa, Igual
<1>7. Encerrado(own2, e)'
    BY <1>1, <1>2, <1>3, <1>4 DEF Bien, Encerrado, Igual, De
<1>8. Cabezas(own2, e)'
    BY <1>1, <1>5, <1>6 DEF Bien, Cabezas, Igual, De
<1>9. Recorrido(own2, e)'
    BY <1>1, <1>2, <1>4 DEF Bien, Recorrido, Igual, Pendiente
<1>10. Nuevo(own2, e)'
    BY <1>2, <1>4, <1>6 DEF Bien, Nuevo, Igual
<1>11. Lineal(own2, e)'
    BY <1>2, <1>4, <1>5, <1>6 DEF Bien, Lineal, Igual, Recortado
<1>12. Cortes(own2, e)'
    <2> SUFFICES ASSUME NEW h \in Hilos, Arch(h) = e, EnCorte(h)
                 PROVE  \E V \in SUBSET Bloques : Corte(own2, h, V)'
        BY DEF Cortes, Igual, EnCorte
    <2>1. PICK V \in SUBSET Bloques : Corte(own, h, V)
        BY DEF Bien, Cortes
    <2>2. Arch(h)' = e
        BY DEF Igual
    <2>3. Corte(own2, h, V)'
        BY <1>1, <1>2, <1>4, <2>1, <2>2 DEF Corte, Igual
    <2> QED BY <2>3
<1> QED BY <1>7, <1>8, <1>9, <1>10, <1>11, <1>12 DEF Bien

(* A step of h touches no file but its own.                                *)
LEMMA OtrosArchivos ==
    ASSUME NEW own, NEW own2, NEW h \in Hilos, NEW e \in Entradas,
           Bien(own, e), SoloDe(h), e # Arch(h), e # Arch(h)',
           Suyos(own2, e) = Suyos(own, e), tabla'[e] = tabla[e],
           \A b \in Suyos(own, e) :
               asig'[b] = asig[b] /\ (bitmap[b] => bitmap'[b])
    PROVE  Bien(own2, e)'
<1>1. Igual(own, own2, e)
    BY DEF Igual, SoloDe, Arch
<1> QED BY <1>1, Marco

(* A thread in the middle of a request has a file.                         *)
LEMMA ConArchivo ==
    ASSUME Base, NEW h \in Hilos, pc[h] # "libre"
    PROVE  /\ Arch(h) \in Entradas
           /\ ped[h] \in Pedidos /\ ped[h].hilo = h
           /\ ped[h].bytes \in Nat
<1>1. ped[h] \in Pedidos /\ ped[h].hilo = h
    BY DEF Base, Control
<1> QED BY <1>1, ConstantesBloques DEF Arch

(* Steps that move a thread on and leave the disk, its copies and the      *)
(* blocks it has in hand as they were.                                     *)
LEMMA PasoLocal ==
    ASSUME Base, NEW own, NEW h \in Hilos, Bien(own, Arch(h)), SoloDe(h),
           UNCHANGED disco, ped'[h] = ped[h], dPri'[h] = dPri[h],
           snap'[h] = snap[h], pc[h] \notin {"libre", "colgado", "reemplazar"},
           ~Pendiente(h), ~Pendiente(h)', ~EnCorte(h)',
           pc'[h] \in ConSnap => pc[h] \in ConSnap,
           pc'[h] \in Antes => pc[h] \in Antes,
           pc'[h] \in {"escribir", "pedir", "enlazar", "terminar"} =>
               blq'[h] \in Firmes(own, Arch(h))
    PROVE  Bien(own, Arch(h))'
<1> DEFINE e == Arch(h)
<1>0. Arch(h)' = e /\ \A g \in Hilos : Arch(g)' = Arch(g)
    BY DEF Arch, SoloDe
<1>1. Suyos(own, e)' = Suyos(own, e) /\ \A p : De(own, p, e)' = De(own, p, e)
    BY <1>0 DEF Suyos, De
<1>2. Firmes(own, e)' = Firmes(own, e)
    BY <1>0, <1>1 DEF Firmes, Pendiente, SoloDe
<1>3. ~CabezaVieja(h)
    BY DEF CabezaVieja
<1>4. \A g \in Hilos : CabezaVieja(g) => CabezaVieja(g)'
    BY <1>3 DEF CabezaVieja, SoloDe
<1>5. CabezaFirme(e)' => CabezaFirme(e)
    BY <1>0, <1>4 DEF CabezaFirme, Activa, disco
<1>6. UNCHANGED <<tabla, bitmap, asig>> /\ UNCHANGED dPri[h]
    BY DEF disco
<1>7. \A g \in Hilos : dPri'[g] = dPri[g]
    BY DEF SoloDe
<1>8. (Encerrado(own, e) /\ Cabezas(own, e))'
    BY <1>0, <1>1, <1>2, <1>4, <1>5, <1>6, <1>7 DEF Bien, Encerrado, Cabezas, De
<1>9. Recorrido(own, e)'
    BY <1>0, <1>1, <1>2, <1>6 DEF Bien, Recorrido, Pendiente, SoloDe
<1>10. Nuevo(own, e)'
    BY <1>0, <1>2, <1>5, <1>6, <1>7 DEF Bien, Nuevo, Pendiente, SoloDe
<1>11. Lineal(own, e)'
    BY <1>0, <1>2, <1>4, <1>5, <1>6, <1>7
    DEF Bien, Lineal, Recortado, SoloDe
<1>12. Cortes(own, e)'
    <2> SUFFICES ASSUME NEW g \in Hilos, Arch(g) = e, EnCorte(g)'
                 PROVE  \E V \in SUBSET Bloques : Corte(own, g, V)'
        BY <1>0 DEF Cortes
    <2>1. g # h /\ EnCorte(g)
        BY DEF EnCorte, SoloDe
    <2>2. PICK V \in SUBSET Bloques : Corte(own, g, V)
        BY <2>1 DEF Bien, Cortes
    <2>3. Corte(own, g, V)'
        BY <1>0, <1>1, <1>2, <1>6, <2>1, <2>2 DEF Corte, SoloDe
    <2> QED BY <2>3
<1> QED BY <1>0, <1>8, <1>9, <1>10, <1>11, <1>12 DEF Bien

(* What is left to show of a step that keeps the owners of the blocks.     *)
LEMMA MismosDuenios ==
    ASSUME Base, NEW own, \A e \in Entradas : Bien(own, e),
           NEW h \in Hilos, SoloDe(h), Arch(h)' = Arch(h), pc[h] # "libre",
           tabla' = tabla, bitmap' = bitmap,
           \A b \in Bloques : own[b] # Arch(h) => asig'[b] = asig[b],
           Bien(own, Arch(h))'
    PROVE  \A e \in Entradas : Bien(own, e)'
<1> SUFFICES ASSUME NEW e \in Entradas PROVE Bien(own, e)'
    OBVIOUS
<1>1. CASE e = Arch(h)
    BY <1>1
<1>2. CASE e # Arch(h)
    BY <1>2, OtrosArchivos DEF Suyos
<1> QED BY <1>1, <1>2

LEMMA RepartoTomarLock ==
    ASSUME Base, NEW own, \A e \in Entradas : Bien(own, e),
           NEW h \in Hilos, TomarLock(h)
    PROVE  \A e \in Entradas : Bien(own, e)'
<1>1. SoloDe(h) /\ Arch(h)' = Arch(h)
    BY DEF TomarLock, SoloDe, Arch, Base, TypeOK
<1>2. pc'[h] = "espacio"
    BY DEF TomarLock, Base, TypeOK
<1>3. Bien(own, Arch(h))'
    BY <1>1, <1>2, PasoLocal, ConArchivo
    DEF TomarLock, Pendiente, EnCorte, ConSnap, Antes
<1> QED BY <1>1, <1>3, MismosDuenios DEF TomarLock, disco

LEMMA RepartoComprobarEspacio ==
    ASSUME Base, NEW own, \A e \in Entradas : Bien(own, e),
           NEW h \in Hilos, ComprobarEspacio(h)
    PROVE  \A e \in Entradas : Bien(own, e)'
<1>1. SoloDe(h) /\ Arch(h)' = Arch(h)
    BY DEF ComprobarEspacio, SoloDe, Arch, Base, TypeOK
<1>2. pc'[h] = "asignaciones"
    BY DEF ComprobarEspacio, Base, TypeOK
<1>3. Bien(own, Arch(h))'
    BY <1>1, <1>2, PasoLocal, ConArchivo
    DEF ComprobarEspacio, Pendiente, EnCorte, ConSnap, Antes
<1> QED BY <1>1, <1>3, MismosDuenios DEF ComprobarEspacio, disco

LEMMA RepartoEscribirBloque ==
    ASSUME Base, NEW own, \A e \in Entradas : Bien(own, e),
           NEW h \in Hilos, EscribirBloque(h), SinRecortesCompartidos
    PROVE  \A e \in Entradas : Bien(own, e)'
<1>1. SoloDe(h) /\ Arch(h)' = Arch(h)
    BY DEF EscribirBloque, SoloDe, Arch, Base, TypeOK
<1>2. Arch(h) \in Entradas /\ pc[h] = "escribir"
    BY ConArchivo DEF EscribirBloque
<1>3. pc'[h] \in {"escribir", "pedir", "reemplazar"} /\ modo'[h] = "editar"
    <2>1. modo[h] = "editar"
        BY <1>2, ModoEscribir DEF Base
    <2> QED BY <2>1 DEF EscribirBloque, Base, TypeOK
<1>4. blq[h] \in Firmes(own, Arch(h)) /\ snap[h][blq[h]] = asig[blq[h]]
    BY <1>2 DEF Bien, Recorrido, ConSnap
<1>5. Firmes(own, Arch(h)) = Suyos(own, Arch(h))
    BY <1>2, SnapAjeno DEF Firmes, Pendiente, ConSnap
<1>6. asig[blq[h]] = NIL \/ asig[blq[h]] \in Suyos(own, Arch(h))
    BY <1>2, <1>4 DEF Bien, Encerrado, De
<1>7. blq'[h] \in Firmes(own, Arch(h))
    BY <1>4, <1>5, <1>6 DEF EscribirBloque, Base, TypeOK
<1>8. Bien(own, Arch(h))'
    BY <1>1, <1>2, <1>3, <1>7, PasoLocal
    DEF EscribirBloque, Pendiente, EnCorte, ConSnap, Antes
<1> QED BY <1>1, <1>2, <1>8, MismosDuenios DEF EscribirBloque, disco

LEMMA RepartoObtenerTablaAsignaciones ==
    ASSUME Base, Base', NEW own, \A e \in Entradas : Bien(own, e),
           NEW h \in Hilos, ObtenerTablaAsignaciones(h), SinRecortesCompartidos
    PROVE  \A e \in Entradas : Bien(own, e)'
<1> DEFINE e == Arch(h)
<1>1. SoloDe(h) /\ Arch(h)' = e /\ \A g \in Hilos : Arch(g)' = Arch(g)
    BY DEF ObtenerTablaAsignaciones, SoloDe, Arch, Base, TypeOK
<1>2. e \in Entradas /\ pc[h] = "asignaciones" /\ ped[h].bytes \in Nat
    BY ConArchivo DEF ObtenerTablaAsignaciones
<1>3. pc'[h] = TrasAsignaciones(h)
    BY DEF ObtenerTablaAsignaciones, Base, TypeOK
<1>4. /\ blq'[h] = dPri[h] /\ sig'[h] = dPri[h] /\ snap'[h] = asig
      /\ dPri'[h] = dPri[h] /\ ini'[h] = ini[h] /\ ped'[h] = ped[h]
      /\ modo'[h] = modo[h] /\ UNCHANGED <<tabla, bitmap, asig>>
    BY DEF ObtenerTablaAsignaciones, disco, Base, TypeOK
<1>5. pc'[h] \in {"primero", "escribir", "recorrer", "liberar"}
    BY <1>3 DEF TrasAsignaciones
<1>6. ~CabezaVieja(h) /\ ~CabezaVieja(h)' /\ ~Pendiente(h) /\ ~Pendiente(h)'
    BY <1>2, <1>5 DEF CabezaVieja, Pendiente
<1>7. \A g \in Hilos \ {h} : Arch(g) = e => pc[g] \notin ConSnap
    BY <1>2, SnapAjeno
<1>8. Suyos(own, e)' = Suyos(own, e) /\ Firmes(own, e)' = Suyos(own, e)
      /\ Firmes(own, e) = Suyos(own, e)
    BY <1>1, <1>6, <1>7 DEF Suyos, Firmes, Pendiente, ConSnap, SoloDe
<1>9. \A p : De(own, p, e)' = De(own, p, e)
    BY <1>8 DEF De
<1>10. \A g \in Hilos : CabezaVieja(g)' <=> CabezaVieja(g)
    BY <1>1, <1>6 DEF CabezaVieja, SoloDe
<1>11. CabezaFirme(e)' = CabezaFirme(e)
    BY <1>1, <1>4, <1>10 DEF CabezaFirme, Activa
<1>12. \A g \in Hilos : dPri'[g] = dPri[g]
    BY <1>1, <1>4 DEF SoloDe
<1>13. De(own, dPri[h], e)
    BY <1>2, <1>6 DEF Bien, Cabezas
<1>14. (Encerrado(own, e) /\ Cabezas(own, e))'
    BY <1>1, <1>2, <1>4, <1>8, <1>9, <1>10, <1>11, <1>12
    DEF Bien, Encerrado, Cabezas, De
<1>15. Recorrido(own, e)'
    <2>1. pc'[h] = "escribir" => dPri[h] # NIL
        BY <1>3 DEF TrasAsignaciones
    <2> QED BY <1>1, <1>4, <1>5, <1>6, <1>7, <1>8, <1>13, <2>1
            DEF Recorrido, Pendiente, ConSnap, SoloDe, De
<1>16. Nuevo(own, e)'
    BY <1>1, <1>5, <1>7 DEF Nuevo, ConSnap, SoloDe
<1>17. Lineal(own, e)'
    <2>1. pc'[h] \in Antes => pc[h] \in Antes
        BY <1>2 DEF Antes
    <2> QED BY <1>1, <1>2, <1>4, <1>8, <1>10, <1>11, <1>12, <2>1
            DEF Bien, Lineal, Recortado, SoloDe
<1>18. Cortes(own, e)'
    <2> SUFFICES ASSUME NEW g \in Hilos, Arch(g) = e, EnCorte(g)'
                 PROVE  \E V \in SUBSET Bloques : Corte(own, g, V)'
        BY <1>1 DEF Cortes
    <2>1. g = h /\ modo[h] = "truncar"
        BY <1>1, <1>4, <1>7 DEF EnCorte, ConSnap, SoloDe
    <2>2. pc'[h] = "recorrer" /\ (dPri[h] = NIL => ini[h] = 0)
        BY <1>3, <1>5, <2>1 DEF EnCorte, TrasAsignaciones
    <2>3. ini[h] = ped[h].bytes
        BY <1>2, <2>1 DEF Base, Control
    <2>4. Corte(own, h, {})'
        BY <1>1, <1>2, <1>4, <1>8, <1>9, <1>13, <1>14, <2>1, <2>2, <2>3
        DEF Corte, Encerrado, De
    <2> QED BY <2>1, <2>4
<1>19. Bien(own, e)'
    BY <1>14, <1>15, <1>16, <1>17, <1>18 DEF Bien
<1> QED BY <1>1, <1>2, <1>4, <1>19, MismosDuenios DEF ObtenerTablaAsignaciones

(* While a thread uses its copy of the allocation table, nobody else does  *)
(* so on its file.                                                         *)
LEMMA EnMano ==
    ASSUME Base, SinRecortesCompartidos, NEW own, NEW h \in Hilos,
           pc[h] \in ConSnap
    PROVE  /\ \A g \in Hilos \ {h} : Arch(g) = Arch(h) =>
                  pc[g] \notin ConSnap /\ ~Pendiente(g) /\ ~EnCorte(g)
           /\ Firmes(own, Arch(h)) =
                  IF Pendiente(h) THEN Suyos(own, Arch(h)) \ {sig[h]}
                  ELSE Suyos(own, Arch(h))
           /\ \A g \in Hilos : Arch(g) = Arch(h) => ~CabezaVieja(g)
<1>1. \A g \in Hilos \ {h} : Arch(g) = Arch(h) => pc[g] \notin ConSnap
    BY SnapAjeno
<1>2. \A g \in Hilos : pc[g] \notin ConSnap => ~Pendiente(g) /\ ~EnCorte(g)
    BY DEF ConSnap, Pendiente, EnCorte
<1>3. Firmes(own, Arch(h)) = IF Pendiente(h) THEN Suyos(own, Arch(h)) \ {sig[h]}
                             ELSE Suyos(own, Arch(h))
    BY <1>1, <1>2 DEF Firmes
<1>4. ASSUME NEW g \in Hilos, Arch(g) = Arch(h), CabezaVieja(g) PROVE FALSE
    <2>1. ped[g] \in Pedidos /\ Arch(h) \in Entradas
        BY <1>4, ConArchivo DEF CabezaVieja, ConSnap
    <2>2. Recortado(Arch(h))
        BY <1>4, <2>1, ViejaRecorta
    <2>3. g = h
        BY <1>4, <2>1, <2>2, Exclusivo
    <2> QED BY <1>4, <2>3 DEF CabezaVieja, ConSnap
<1> QED BY <1>1, <1>2, <1>3, <1>4

(* A free block belongs to nobody, and its new owner is the only one that  *)
(* notices.                                                                *)
LEMMA BloqueNuevo ==
    ASSUME Base, NEW own \in Duenios, \A e \in Entradas : Bien(own, e),
           NEW b \in Bloques, ~bitmap[b], NEW e \in Entradas
    PROVE  /\ [own EXCEPT ![b] = e] \in Duenios
           /\ b \notin Suyos(own, e)
           /\ Suyos([own EXCEPT ![b] = e], e) = Suyos(own, e) \cup {b}
           /\ \A d \in Entradas \ {e} :
                  Suyos([own EXCEPT ![b] = e], d) = Suyos(own, d)
<1>1. \A d \in Entradas : b \notin Suyos(own, d)
    BY DEF Bien, Encerrado
<1> QED BY <1>1 DEF Duenios, Suyos

LEMMA RepartoPedirPrimero ==
    ASSUME Base, NEW own \in Duenios, \A e \in Entradas : Bien(own, e),
           NEW h \in Hilos, PedirPrimero(h), SinRecortesCompartidos
    PROVE  \E own2 \in Duenios : \A e \in Entradas : Bien(own2, e)'
<1>0. PICK e \in Entradas : e = Arch(h)
    BY ConArchivo DEF PedirPrimero
<1>1. SoloDe(h) /\ Arch(h) = e /\ Arch(h)' = e /\ \A g \in Hilos : Arch(g)' = Arch(g)
    BY <1>0 DEF PedirPrimero, SoloDe, Arch, Base, TypeOK
<1>2. pc[h] = "primero" /\ pc[h] \in ConSnap
    BY DEF PedirPrimero, ConSnap
<1>3. PICK b \in Bloques :
          /\ ~bitmap[b]
          /\ bitmap' = [bitmap EXCEPT ![b] = TRUE]
          /\ dPri'[h] = b /\ blq'[h] = b /\ sig'[h] = b
    BY DEF PedirPrimero, ObtenerPrimerBloqueLibre, Libres, Base, TypeOK
<1> DEFINE own2 == [own EXCEPT ![b] = e]
<1>4. /\ pc'[h] = "termPrimero" /\ modo'[h] = modo[h] /\ ped'[h] = ped[h]
      /\ snap'[h] = snap[h] /\ UNCHANGED <<tabla, asig>>
    BY DEF PedirPrimero, Base, TypeOK
<1>5. /\ own2 \in Duenios /\ b \notin Suyos(own, e)
      /\ Suyos(own2, e) = Suyos(own, e) \cup {b}
      /\ \A d \in Entradas \ {e} : Suyos(own2, d) = Suyos(own, d)
    <2>1. ~bitmap[b]
        BY <1>3
    <2>2. own2 \in Duenios
        BY <2>1, BloqueNuevo
    <2>3. b \notin Suyos(own, e)
        BY <2>1, BloqueNuevo
    <2>4. Suyos(own2, e) = Suyos(own, e) \cup {b}
        BY <2>1, BloqueNuevo
    <2>5. \A d \in Entradas \ {e} : Suyos(own2, d) = Suyos(own, d)
        BY <2>1, BloqueNuevo
    <2> QED BY <2>2, <2>3, <2>4, <2>5
<1> HIDE DEF own2
<1>6. /\ \A g \in Hilos \ {h} : Arch(g) = e =>
             pc[g] \notin ConSnap /\ ~Pendiente(g) /\ ~EnCorte(g)
      /\ Firmes(own, e) = Suyos(own, e)
      /\ \A g \in Hilos : Arch(g) = e => ~CabezaVieja(g)
    BY <1>0, <1>1, <1>2, EnMano DEF Pendiente
<1>7. Suyos(own2, e)' = Suyos(own, e) \cup {b} /\ Firmes(own2, e)' = Suyos(own, e)
    <2>1. Suyos(own2, e)' = Suyos(own, e) \cup {b}
        BY <1>1, <1>5 DEF Suyos
    <2>2. \A g \in Hilos : Arch(g)' = e /\ Pendiente(g)' <=> g = h
        BY <1>1, <1>4, <1>6 DEF Pendiente, SoloDe
    <2>3. Firmes(own2, e)' = {x \in Suyos(own2, e)' : x # b}
        BY <1>3, <2>2 DEF Firmes
    <2> QED BY <1>5, <2>1, <2>3
<1>8. \A p : De(own, p, e) => De(own2, p, e)'
    BY <1>7 DEF De
<1>9. \A g \in Hilos : CabezaVieja(g)' <=> CabezaVieja(g)
    BY <1>1, <1>4, <1>6 DEF CabezaVieja, SoloDe
<1>10. CabezaFirme(e)' = CabezaFirme(e)
    BY <1>1, <1>4, <1>9 DEF CabezaFirme, Activa
<1>11. \A x \in Suyos(own, e) : asig[x] # b /\ De(own, asig[x], e)
    BY <1>2, <1>5, <1>6, ConstantesBloques DEF Bien, Encerrado, De
<1>12. \A g \in Hilos \ {h} : Arch(g) = e =>
           dPri'[g] = dPri[g] /\ dPri[g] # b
    <2> SUFFICES ASSUME NEW g \in Hilos \ {h}, Arch(g) = e
                 PROVE  dPri'[g] = dPri[g] /\ dPri[g] # b
        OBVIOUS
    <2>1. ~CabezaVieja(g)
        BY <1>6
    <2>2. De(own, dPri[g], e)
        BY <1>0, <2>1 DEF Bien, Cabezas
    <2> QED BY <1>1, <1>5, <2>2, ConstantesBloques DEF SoloDe, De
<1>13. CabezaFirme(e) => tabla[e].first_block # b
    BY <1>2, <1>5, ConstantesBloques DEF Bien, Cabezas, De
<1>14. (Encerrado(own2, e) /\ Cabezas(own2, e))'
    <2>1. Encerrado(own2, e)'
        <3>1. \A x \in Suyos(own, e) \cup {b} : bitmap'[x]
            BY <1>0, <1>3 DEF Bien, Encerrado, Suyos, Base, TypeOK
        <3>2. \A x \in Suyos(own, e) : De(own2, asig[x], e)'
            BY <1>4, <1>7, <1>11 DEF De
        <3> QED BY <1>7, <3>1, <3>2 DEF Encerrado
    <2>2. De(own2, b, e)'
        BY <1>7 DEF De
    <2>3. Cabezas(own2, e)'
        BY <1>0, <1>1, <1>2, <1>3, <1>4, <1>8, <1>9, <1>10, <1>12, <2>2
        DEF Bien, Cabezas
    <2> QED BY <2>1, <2>3
<1>15. Recorrido(own2, e)'
    <2>1. /\ sig'[h] \in Suyos(own2, e)'
          /\ \A x \in Firmes(own2, e)' : snap'[h][x] = asig'[x]
        BY <1>0, <1>1, <1>2, <1>3, <1>4, <1>6, <1>7 DEF Bien, Recorrido
    <2>2. \A g \in Hilos \ {h} : Arch(g) = e =>
              pc'[g] \notin ConSnap /\ ~Pendiente(g)'
        BY <1>1, <1>6 DEF SoloDe, Pendiente
    <2> QED BY <1>1, <1>4, <2>1, <2>2 DEF Recorrido, ConSnap
<1>16. Nuevo(own2, e)'
    <2> SUFFICES ASSUME NEW g \in Hilos, Arch(g) = e,
                        pc'[g] \in {"termPrimero", "enlazar"}
                 PROVE  /\ g = h
                        /\ \A x \in Firmes(own2, e)' : asig'[x] # sig'[g]
                        /\ CabezaFirme(e)' => tabla'[e].first_block # sig'[g]
                        /\ \A k \in Hilos \ {g} : Arch(k) = e => dPri'[k] # sig'[g]
        BY <1>1, <1>4 DEF Nuevo
    <2>1. g = h
        BY <1>1, <1>6 DEF SoloDe, ConSnap
    <2>2. \A k \in Hilos \ {h} : Arch(k) = e => dPri'[k] # b
        BY <1>12
    <2> QED BY <1>3, <1>4, <1>7, <1>10, <1>11, <1>13, <2>1, <2>2
<1>17. Lineal(own2, e)'
    <2>1. Recortado(e) => \A g \in Hilos : Arch(g) = e => g = h
        BY <1>1, Exclusivo
    <2>2. dPri[h] = NIL /\ pc[h] \in Antes
        BY <1>2 DEF Base, Control, Antes
    <2>3. SUFFICES ASSUME Recortado(e) PROVE Lineal(own2, e)'
        BY DEF Lineal, Recortado
    <2>4. Lineal(own, e)
        BY <1>0 DEF Bien
    <2>5. \A x, y \in Firmes(own2, e)' :
              asig'[x] = asig'[y] /\ asig'[x] # NIL => x = y
        BY <1>4, <1>6, <1>7, <2>3, <2>4 DEF Lineal
    <2>6. \A x \in Firmes(own2, e)' : asig'[x] # NIL =>
              /\ CabezaFirme(e)' => asig'[x] # tabla'[e].first_block
              /\ asig'[x] # dPri'[h]
        BY <1>3, <1>4, <1>6, <1>7, <1>10, <1>11, <2>3, <2>4 DEF Lineal
    <2>7. CabezaFirme(e)' => tabla'[e].first_block = NIL
        BY <1>1, <1>4, <1>10, <2>2, <2>3, <2>4 DEF Lineal
    <2> QED BY <1>1, <2>1, <2>3, <2>5, <2>6, <2>7 DEF Lineal
<1>18. Cortes(own2, e)'
    BY <1>1, <1>4, <1>6 DEF Cortes, EnCorte, SoloDe
<1>19. Bien(own2, e)'
    BY <1>14, <1>15, <1>16, <1>17, <1>18 DEF Bien
<1>20. ASSUME NEW d \in Entradas PROVE Bien(own2, d)'
    <2>1. CASE d = e
        BY <1>19, <2>1
    <2>2. CASE d # e
        <3>1. \A x \in Suyos(own, d) : asig'[x] = asig[x] /\ (bitmap[x] => bitmap'[x])
            BY <1>3, <1>4 DEF Suyos, Base, TypeOK
        <3> QED BY <1>1, <1>4, <1>5, <2>2, <3>1, OtrosArchivos
    <2> QED BY <2>1, <2>2
<1> QED BY <1>5, <1>20

LEMMA RepartoPedirBloque ==
    ASSUME Base, NEW own \in Duenios, \A e \in Entradas : Bien(own, e),
           NEW h \in Hilos, PedirBloque(h), SinRecortesCompartidos
    PROVE  \E own2 \in Duenios : \A e \in Entradas : Bien(own2, e)'
<1>0. PICK e \in Entradas : e = Arch(h)
    BY ConArchivo DEF PedirBloque
<1>1. SoloDe(h) /\ Arch(h) = e /\ Arch(h)' = e /\ \A g \in Hilos : Arch(g)' = Arch(g)
    BY <1>0 DEF PedirBloque, SoloDe, Arch, Base, TypeOK
<1>2. pc[h] = "pedir" /\ pc[h] \in ConSnap
    BY DEF PedirBloque, ConSnap
<1>3. PICK b \in Bloques :
          /\ ~bitmap[b]
          /\ bitmap' = [bitmap EXCEPT ![b] = TRUE]
          /\ sig'[h] = b
    BY DEF PedirBloque, ObtenerPrimerBloqueLibre, Libres, Base, TypeOK
<1> DEFINE own2 == [own EXCEPT ![b] = e]
<1>4. /\ pc'[h] = "enlazar" /\ modo'[h] = modo[h] /\ ped'[h] = ped[h]
      /\ snap'[h] = snap[h] /\ dPri'[h] = dPri[h] /\ blq'[h] = blq[h]
      /\ ini'[h] = ini[h] /\ UNCHANGED <<tabla, asig>>
    BY DEF PedirBloque, Base, TypeOK
<1>5. /\ own2 \in Duenios /\ b \notin Suyos(own, e)
      /\ Suyos(own2, e) = Suyos(own, e) \cup {b}
      /\ \A d \in Entradas \ {e} : Suyos(own2, d) = Suyos(own, d)
    <2>1. ~bitmap[b]
        BY <1>3
    <2>2. own2 \in Duenios
        BY <2>1, BloqueNuevo
    <2>3. b \notin Suyos(own, e)
        BY <2>1, BloqueNuevo
    <2>4. Suyos(own2, e) = Suyos(own, e) \cup {b}
        BY <2>1, BloqueNuevo
    <2>5. \A d \in Entradas \ {e} : Suyos(own2, d) = Suyos(own, d)
        BY <2>1, BloqueNuevo
    <2> QED BY <2>2, <2>3, <2>4, <2>5
<1> HIDE DEF own2
<1>6. /\ \A g \in Hilos \ {h} : Arch(g) = e =>
             pc[g] \notin ConSnap /\ ~Pendiente(g) /\ ~EnCorte(g)
      /\ Firmes(own, e) = Suyos(own, e)
      /\ \A g \in Hilos : Arch(g) = e => ~CabezaVieja(g)
    BY <1>0, <1>1, <1>2, EnMano DEF Pendiente
<1>7. Suyos(own2, e)' = Suyos(own, e) \cup {b} /\ Firmes(own2, e)' = Suyos(own, e)
    <2>1. Suyos(own2, e)' = Suyos(own, e) \cup {b}
        BY <1>1, <1>5 DEF Suyos
    <2>2. \A g \in Hilos : Arch(g)' = e /\ Pendiente(g)' <=> g = h
        BY <1>1, <1>4, <1>6 DEF Pendiente, SoloDe
    <2>3. Firmes(own2, e)' = {x \in Suyos(own2, e)' : x # b}
        BY <1>3, <2>2 DEF Firmes
    <2> QED BY <1>5, <2>1, <2>3
<1>8. \A p : De(own, p, e) => De(own2, p, e)'
    BY <1>7 DEF De
<1>9. \A g \in Hilos : CabezaVieja(g)' <=> CabezaVieja(g)
    BY <1>1, <1>4, <1>6 DEF CabezaVieja, SoloDe
<1>10. CabezaFirme(e)' = CabezaFirme(e)
    BY <1>1, <1>4, <1>9 DEF CabezaFirme, Activa
<1>11. \A x \in Suyos(own, e) : asig[x] # b /\ De(own, asig[x], e)
    BY <1>2, <1>5, <1>6, ConstantesBloques DEF Bien, Encerrado, De
<1>12. \A g \in Hilos : Arch(g) = e =>
           dPri'[g] = dPri[g] /\ dPri[g] # b
    <2> SUFFICES ASSUME NEW g \in Hilos, Arch(g) = e
                 PROVE  dPri'[g] = dPri[g] /\ dPri[g] # b
        OBVIOUS
    <2>1. ~CabezaVieja(g)
        BY <1>6
    <2>2. De(own, dPri[g], e)
        BY <1>0, <2>1 DEF Bien, Cabezas
    <2> QED BY <1>1, <1>4, <1>5, <2>2, ConstantesBloques DEF SoloDe, De
<1>13. CabezaFirme(e) => tabla[e].first_block # b
    BY <1>2, <1>5, ConstantesBloques DEF Bien, Cabezas, De
<1>14. (Encerrado(own2, e) /\ Cabezas(own2, e))'
    <2>1. Encerrado(own2, e)'
        <3>1. \A x \in Suyos(own, e) \cup {b} : bitmap'[x]
            BY <1>0, <1>3 DEF Bien, Encerrado, Suyos, Base, TypeOK
        <3>2. \A x \in Suyos(own, e) : De(own2, asig[x], e)'
            BY <1>4, <1>7, <1>11 DEF De
        <3> QED BY <1>7, <3>1, <3>2 DEF Encerrado
    <2>2. Cabezas(own2, e)'
        BY <1>0, <1>1, <1>4, <1>8, <1>9, <1>10, <1>12 DEF Bien, Cabezas, De
    <2> QED BY <2>1, <2>2
<1>15. Recorrido(own2, e)'
    <2>1. /\ sig'[h] \in Suyos(own2, e)'
          /\ \A x \in Firmes(own2, e)' : snap'[h][x] = asig'[x]
          /\ blq'[h] \in Firmes(own2, e)'
        BY <1>0, <1>1, <1>2, <1>3, <1>4, <1>6, <1>7 DEF Bien, Recorrido
    <2>2. \A g \in Hilos \ {h} : Arch(g) = e =>
              pc'[g] \notin ConSnap /\ ~Pendiente(g)'
        BY <1>1, <1>6 DEF SoloDe, Pendiente
    <2> QED BY <1>1, <1>4, <2>1, <2>2 DEF Recorrido, ConSnap
<1>16. Nuevo(own2, e)'
    <2> SUFFICES ASSUME NEW g \in Hilos, Arch(g) = e,
                        pc'[g] \in {"termPrimero", "enlazar"}
                 PROVE  /\ g = h
                        /\ \A x \in Firmes(own2, e)' : asig'[x] # sig'[g]
                        /\ CabezaFirme(e)' => tabla'[e].first_block # sig'[g]
                        /\ \A k \in Hilos : Arch(k) = e => dPri'[k] # sig'[g]
        BY <1>1, <1>4 DEF Nuevo
    <2>1. g = h
        BY <1>1, <1>6 DEF SoloDe, ConSnap
    <2>2. \A k \in Hilos : Arch(k) = e => dPri'[k] # b
        BY <1>12
    <2> QED BY <1>3, <1>4, <1>7, <1>10, <1>11, <1>13, <2>1, <2>2
<1>17. Lineal(own2, e)'
    <2>1. Recortado(e) => \A g \in Hilos : Arch(g) = e => g = h
        BY <1>1, Exclusivo
    <2>3. SUFFICES ASSUME Recortado(e) PROVE Lineal(own2, e)'
        BY DEF Lineal, Recortado
    <2>4. Lineal(own, e)
        BY <1>0 DEF Bien
    <2>5. \A x, y \in Firmes(own2, e)' :
              asig'[x] = asig'[y] /\ asig'[x] # NIL => x = y
        BY <1>4, <1>6, <1>7, <2>3, <2>4 DEF Lineal
    <2>6. \A x \in Firmes(own2, e)' : asig'[x] # NIL =>
              /\ CabezaFirme(e)' => asig'[x] # tabla'[e].first_block
              /\ asig'[x] # dPri'[h]
        BY <1>1, <1>4, <1>6, <1>7, <1>10, <2>3, <2>4 DEF Lineal
    <2>7. CabezaFirme(e)' =>
              tabla'[e].first_block \in {NIL, dPri'[h]} \/ dPri'[h] = NIL
        BY <1>1, <1>4, <1>10, <2>3, <2>4 DEF Lineal
    <2> QED BY <1>1, <1>4, <2>1, <2>3, <2>5, <2>6, <2>7 DEF Lineal, Antes
<1>18. Cortes(own2, e)'
    <2> SUFFICES ASSUME NEW g \in Hilos, Arch(g) = e, EnCorte(g)'
                 PROVE  \E V \in SUBSET Bloques : Corte(own2, g, V)'
        BY <1>1 DEF Cortes
    <2>1. g = h /\ EnCorte(h)
        BY <1>1, <1>2, <1>4, <1>6 DEF EnCorte, SoloDe
    <2>2. PICK V \in SUBSET Bloques : Corte(own, h, V)
        BY <1>0, <1>1, <2>1 DEF Bien, Cortes
    <2>3. V # {} /\ sig[h] = NIL
        BY <1>2, <2>2 DEF Corte
    <2>4. asig[blq[h]] = NIL
        BY <1>2, <2>2, <2>3 DEF Corte
    <2>5. Corte(own2, h, V)'
        BY <1>1, <1>2, <1>3, <1>4, <1>5, <1>6, <1>7, <2>2, <2>3, <2>4 DEF Corte
    <2> QED BY <2>1, <2>5
<1>19. Bien(own2, e)'
    BY <1>14, <1>15, <1>16, <1>17, <1>18 DEF Bien
<1>20. ASSUME NEW d \in Entradas PROVE Bien(own2, d)'
    <2>1. CASE d = e
        BY <1>19, <2>1
    <2>2. CASE d # e
        <3>1. \A x \in Suyos(own, d) : asig'[x] = asig[x] /\ (bitmap[x] => bitmap'[x])
            BY <1>3, <1>4 DEF Suyos, Base, TypeOK
        <3> QED BY <1>1, <1>4, <1>5, <2>2, <3>1, OtrosArchivos
    <2> QED BY <2>1, <2>2
<1> QED BY <1>5, <1>20

(* One entry of the allocation table changes, on disk and in the copy of   *)
(* the thread, to a value of its own file ...                              *)
Asignacion(own, e, h, p, v) ==
    /\ Bien(own, e)
    /\ Arch(h) = e /\ Arch(h)' = e /\ SoloDe(h)
    /\ pc[h] \in ConSnap /\ pc'[h] \in ConSnap
    /\ UNCHANGED <<tabla, bitmap>> /\ dPri'[h] = dPri[h]
    /\ p \in Suyos(own, e) /\ De(own, v, e)
    /\ asig' = [asig EXCEPT ![p] = v]
    /\ snap'[h] = [snap[h] EXCEPT ![p] = v]
    /\ Firmes(own, e)' \subseteq Firmes(own, e) \cup {p}

(* ... and what can be said of the file then.                              *)
Asignado(own, e, h, p, v) ==
    /\ Encerrado(own, e)' /\ Cabezas(own, e)'
    /\ \A x \in Firmes(own, e)' : snap'[h][x] = asig'[x]
    /\ \A x \in Firmes(own, e)' : x # p =>
           x \in Firmes(own, e) /\ asig'[x] = asig[x]
    /\ asig'[p] = v
    /\ CabezaFirme(e)' = CabezaFirme(e)
    /\ Suyos(own, e)' = Suyos(own, e)
    /\ \A g \in Hilos : Arch(g)' = Arch(g)
    /\ \A g \in Hilos : Arch(g) = e => ~CabezaVieja(g) /\ ~CabezaVieja(g)'
    /\ \A g \in Hilos \ {h} : Arch(g) = e =>
           pc'[g] \notin ConSnap /\ ~Pendiente(g)' /\ ~EnCorte(g)'

LEMMA Asignar ==
    ASSUME Base, SinRecortesCompartidos, NEW own, NEW e \in Entradas,
           NEW h \in Hilos, NEW p, NEW v, Asignacion(own, e, h, p, v)
    PROVE  Asignado(own, e, h, p, v)
<1> USE DEF Asignacion
<1>1. \A g \in Hilos : Arch(g)' = Arch(g)
    BY DEF SoloDe, Arch
<1>2. Suyos(own, e)' = Suyos(own, e)
    BY DEF Suyos
<1>3. \A g \in Hilos : Arch(g) = e => ~CabezaVieja(g)
    BY EnMano
<1>4. \A g \in Hilos : Arch(g) = e => ~CabezaVieja(g)'
    BY <1>3 DEF CabezaVieja, SoloDe, ConSnap
<1>5. CabezaFirme(e)' = CabezaFirme(e)
    BY <1>1, <1>3, <1>4 DEF CabezaFirme, Activa
<1>6. p \in Bloques /\ asig'[p] = v
    BY DEF Suyos, Base, TypeOK
<1>7. snap[h] \in [Bloques -> Punteros] /\ asig \in [Bloques -> Punteros]
    BY DEF Base, TypeOK
<1>8. \A x \in Firmes(own, e)' : x # p =>
          x \in Firmes(own, e) /\ asig'[x] = asig[x] /\ snap'[h][x] = snap[h][x]
    BY <1>6, <1>7 DEF Firmes, Suyos
<1>9. \A x \in Firmes(own, e)' : snap'[h][x] = asig'[x]
    <2>1. \A x \in Firmes(own, e) : snap[h][x] = asig[x]
        BY DEF Bien, Recorrido
    <2> QED BY <1>6, <1>7, <1>8, <2>1
<1>10. Encerrado(own, e)'
    <2>1. \A b \in Suyos(own, e)' : bitmap'[b]
        BY <1>2 DEF Bien, Encerrado
    <2>2. \A b \in Firmes(own, e)' : asig'[b] = NIL \/ asig'[b] \in Suyos(own, e)
        BY <1>6, <1>8 DEF Bien, Encerrado, De
    <2> QED BY <1>2, <2>1, <2>2 DEF Encerrado, De
<1>11. Cabezas(own, e)'
    <2>1. \A g \in Hilos : dPri'[g] = dPri[g]
        BY DEF SoloDe
    <2> QED BY <1>1, <1>2, <1>3, <1>5, <2>1 DEF Bien, Cabezas, De
<1>12. \A g \in Hilos \ {h} : Arch(g) = e =>
           pc'[g] \notin ConSnap /\ ~Pendiente(g)' /\ ~EnCorte(g)'
    BY EnMano DEF SoloDe, Pendiente, EnCorte
<1> QED BY <1>1, <1>2, <1>3, <1>4, <1>5, <1>6, <1>8, <1>9, <1>10, <1>11, <1>12
        DEF Asignado

LEMMA RepartoTerminarPrimero ==
    ASSUME Base, NEW own \in Duenios, \A e \in Entradas : Bien(own, e),
           NEW h \in Hilos, TerminarPrimero(h), SinRecortesCompartidos
    PROVE  \A e \in Entradas : Bien(own, e)'
<1>0. PICK e \in Entradas : e = Arch(h)
    BY ConArchivo DEF TerminarPrimero
<1>1. SoloDe(h) /\ Arch(h) = e /\ Arch(h)' = e
    BY <1>0
    DEF TerminarPrimero, AsignarSiguienteBloque, SoloDe, Arch, Base, TypeOK
<1>2. /\ pc[h] = "termPrimero" /\ pc[h] \in ConSnap /\ pc'[h] \in ConSnap
      /\ pc'[h] = IF modo[h] = "editar" THEN "escribir" ELSE "recorrer"
      /\ Pendiente(h) /\ ~Pendiente(h)'
    BY DEF TerminarPrimero, ConSnap, Pendiente, Base, TypeOK
<1>3. /\ UNCHANGED <<tabla, bitmap>> /\ dPri'[h] = dPri[h] /\ sig'[h] = sig[h]
      /\ blq'[h] = blq[h] /\ ini'[h] = ini[h] /\ modo'[h] = modo[h]
      /\ ped'[h] = ped[h]
      /\ asig' = [asig EXCEPT ![sig[h]] = NIL]
      /\ snap'[h] = [snap[h] EXCEPT ![sig[h]] = NIL]
    BY DEF TerminarPrimero, AsignarSiguienteBloque, Base, TypeOK
<1>4. PICK p \in Suyos(own, e) : p = sig[h]
    BY <1>0, <1>1, <1>2 DEF Bien, Recorrido
<1>5. dPri[h] = p /\ blq[h] = p /\ p # NIL
    BY <1>2, <1>4, ConstantesBloques DEF Base, Control, Suyos
<1>6. Firmes(own, e) = Suyos(own, e) \ {p}
    BY <1>1, <1>2, <1>4, EnMano
<1>7. Firmes(own, e)' = Suyos(own, e)
    <2>1. \A g \in Hilos \ {h} : Arch(g) = e => ~Pendiente(g)
        BY <1>1, <1>2, EnMano
    <2>2. ASSUME NEW g \in Hilos, Arch(g)' = e
          PROVE  ~Pendiente(g)'
        <3>1. CASE g = h
            BY <3>1, <1>2
        <3>2. CASE g # h
            <4>1. Arch(g)' = Arch(g) /\ pc'[g] = pc[g]
                BY <1>1, <3>2 DEF SoloDe, Arch
            <4>2. ~Pendiente(g)
                BY <2>1, <2>2, <3>2, <4>1
            <4> QED BY <4>1, <4>2 DEF Pendiente
        <3> QED BY <3>1, <3>2
    <2> QED BY <2>2 DEF Firmes, Suyos
<1>8. De(own, NIL, e)
    BY DEF De
<1>a. Asignacion(own, e, h, p, NIL)
    BY <1>0, <1>1, <1>2, <1>3, <1>4, <1>6, <1>7, <1>8 DEF Asignacion
<1>b. Asignado(own, e, h, p, NIL)
    BY <1>0, <1>a, Asignar
<1>10. Recorrido(own, e)'
    BY <1>2, <1>3, <1>5, <1>7, <1>b DEF Asignado, Recorrido, ConSnap
<1>11. Nuevo(own, e)'
    BY <1>2, <1>b DEF Asignado, Nuevo, ConSnap
<1>12. Lineal(own, e)'
    <2>1. SUFFICES ASSUME Recortado(e) PROVE Lineal(own, e)'
        BY DEF Lineal, Recortado
    <2>2. Lineal(own, e) /\ \A g \in Hilos : Arch(g) = e => g = h
        BY <1>0, <1>1, <2>1, Exclusivo DEF Bien
    <2>3. \A x, y \in Firmes(own, e)' :
              asig'[x] = asig'[y] /\ asig'[x] # NIL => x = y
        BY <1>b, <2>1, <2>2 DEF Asignado, Lineal
    <2>4. \A x \in Firmes(own, e)' : asig'[x] # NIL =>
              /\ CabezaFirme(e)' => asig'[x] # tabla'[e].first_block
              /\ asig'[x] # dPri'[h]
        BY <1>1, <1>3, <1>b, <2>1, <2>2 DEF Asignado, Lineal
    <2>5. CabezaFirme(e)' =>
              tabla'[e].first_block \in {NIL, dPri'[h]} \/ dPri'[h] = NIL
        BY <1>1, <1>3, <1>b, <2>1, <2>2 DEF Asignado, Lineal
    <2> QED BY <1>2, <1>b, <2>1, <2>2, <2>3, <2>4, <2>5 DEF Asignado, Lineal, Antes
<1>13. Cortes(own, e)'
    <2> SUFFICES ASSUME EnCorte(h)'
                 PROVE  \E V \in SUBSET Bloques : Corte(own, h, V)'
        BY <1>b DEF Asignado, Cortes
    <2>1. modo[h] = "truncar" /\ pc'[h] = "recorrer"
        BY <1>2, <1>3 DEF EnCorte
    <2>2. ini[h] = ped[h].bytes
        BY <1>2, <2>1 DEF Base, Control
    <2>3. Corte(own, h, {})'
        BY <1>1, <1>3, <1>4, <1>5, <1>7, <1>b, <2>1, <2>2
        DEF Asignado, Corte, Encerrado, De
    <2> QED BY <2>3
<1>14. Bien(own, e)'
    BY <1>b, <1>10, <1>11, <1>12, <1>13 DEF Asignado, Bien
<1>15. \A b \in Bloques : own[b] # Arch(h) => asig'[b] = asig[b]
    BY <1>1, <1>3, <1>4 DEF Suyos, Base, TypeOK
<1>16. Bien(own, Arch(h))'
    BY <1>1, <1>14
<1> QED BY <1>1, <1>2, <1>3, <1>15, <1>16, MismosDuenios

LEMMA RepartoEnlazar ==
    ASSUME Base, NEW own \in Duenios, \A e \in Entradas : Bien(own, e),
           NEW h \in Hilos, Enlazar(h), SinRecortesCompartidos
    PROVE  \A e \in Entradas : Bien(own, e)'
<1>0. PICK e \in Entradas : e = Arch(h)
    BY ConArchivo DEF Enlazar
<1>1. SoloDe(h) /\ Arch(h) = e /\ Arch(h)' = e
    BY <1>0 DEF Enlazar, AsignarSiguienteBloque, SoloDe, Arch, Base, TypeOK
<1>2. /\ pc[h] = "enlazar" /\ pc[h] \in ConSnap
      /\ pc'[h] = "terminar" /\ pc'[h] \in ConSnap
      /\ Pendiente(h) /\ Pendiente(h)'
    BY DEF Enlazar, ConSnap, Pendiente, Base, TypeOK
<1>3. /\ UNCHANGED <<tabla, bitmap>> /\ dPri'[h] = dPri[h] /\ sig'[h] = sig[h]
      /\ blq'[h] = blq[h] /\ ini'[h] = ini[h] /\ modo'[h] = modo[h]
      /\ ped'[h] = ped[h]
      /\ asig' = [asig EXCEPT ![blq[h]] = sig[h]]
      /\ snap'[h] = [snap[h] EXCEPT ![blq[h]] = sig[h]]
    BY DEF Enlazar, AsignarSiguienteBloque, Base, TypeOK
<1>4. PICK p \in Firmes(own, e) : p = blq[h]
    BY <1>0, <1>1, <1>2 DEF Bien, Recorrido
<1>5. PICK v \in Suyos(own, e) : v = sig[h]
    BY <1>0, <1>1, <1>2 DEF Bien, Recorrido
<1>6. Firmes(own, e) = Suyos(own, e) \ {v} /\ v # NIL /\ p \in Suyos(own, e)
    BY <1>1, <1>2, <1>4, <1>5, EnMano, ConstantesBloques DEF Suyos, Firmes
<1>7. Firmes(own, e)' = Firmes(own, e)
    <2>1. \A g \in Hilos : Arch(g)' = e /\ Pendiente(g)' <=> g = h
        <3>1. \A g \in Hilos \ {h} : Arch(g) = e => ~Pendiente(g)
            BY <1>1, <1>2, EnMano
        <3>2. \A g \in Hilos \ {h} : Arch(g)' = e => ~Pendiente(g)'
            BY <1>1, <3>1 DEF Pendiente, SoloDe, Arch
        <3> QED BY <1>1, <1>2, <3>2
    <2>2. Firmes(own, e)' = {x \in Suyos(own, e) : x # v}
        BY <1>3, <1>5, <2>1 DEF Firmes, Suyos
    <2> QED BY <1>6, <2>2
<1>8. De(own, v, e)
    BY DEF De
<1>a. Asignacion(own, e, h, p, v)
    BY <1>0, <1>1, <1>2, <1>3, <1>4, <1>5, <1>6, <1>7, <1>8 DEF Asignacion
<1>b. Asignado(own, e, h, p, v)
    BY <1>0, <1>a, Asignar
<1>9. /\ \A x \in Firmes(own, e) : asig[x] # v
      /\ CabezaFirme(e) => tabla[e].first_block # v
      /\ dPri[h] # v
    BY <1>0, <1>1, <1>2, <1>5 DEF Bien, Nuevo
<1>10. Recorrido(own, e)'
    BY <1>2, <1>3, <1>4, <1>5, <1>7, <1>b DEF Asignado, Recorrido, ConSnap
<1>11. Nuevo(own, e)'
    BY <1>2, <1>b DEF Asignado, Nuevo, ConSnap
<1>12. Lineal(own, e)'
    <2>1. SUFFICES ASSUME Recortado(e) PROVE Lineal(own, e)'
        BY DEF Lineal, Recortado
    <2>2. Lineal(own, e) /\ \A g \in Hilos : Arch(g) = e => g = h
        BY <1>0, <1>1, <2>1, Exclusivo DEF Bien
    <2>3. \A x, y \in Firmes(own, e)' :
              asig'[x] = asig'[y] /\ asig'[x] # NIL => x = y
        BY <1>7, <1>9, <1>b, <2>1, <2>2 DEF Asignado, Lineal
    <2>4. \A x \in Firmes(own, e)' : asig'[x] # NIL =>
              /\ CabezaFirme(e)' => asig'[x] # tabla'[e].first_block
              /\ asig'[x] # dPri'[h]
        BY <1>1, <1>3, <1>7, <1>9, <1>b, <2>1, <2>2 DEF Asignado, Lineal
    <2>5. CabezaFirme(e)' =>
              tabla'[e].first_block \in {NIL, dPri'[h]} \/ dPri'[h] = NIL
        BY <1>1, <1>3, <1>b, <2>1, <2>2 DEF Asignado, Lineal
    <2> QED BY <1>2, <1>b, <2>1, <2>2, <2>3, <2>4, <2>5
            DEF Asignado, Lineal, Antes
<1>13. Cortes(own, e)'
    <2> SUFFICES ASSUME EnCorte(h)'
                 PROVE  \E V \in SUBSET Bloques : Corte(own, h, V)'
        BY <1>b DEF Asignado, Cortes
    <2>1. EnCorte(h)
        BY <1>2, <1>3 DEF EnCorte
    <2>2. PICK V \in SUBSET Bloques : Corte(own, h, V)
        BY <1>0, <1>1, <2>1 DEF Bien, Cortes
    <2>3. V # {} /\ p \in V
        BY <1>2, <1>4, <2>2 DEF Corte
    <2>4. Corte(own, h, V)'
        BY <1>1, <1>2, <1>3, <1>4, <1>5, <1>7, <1>b, <2>2, <2>3
        DEF Asignado, Corte
    <2> QED BY <2>4
<1>14. Bien(own, e)'
    BY <1>10, <1>11, <1>12, <1>13, <1>b DEF Asignado, Bien
<1>15. \A b \in Bloques : own[b] # Arch(h) => asig'[b] = asig[b]
    BY <1>1, <1>3, <1>4, <1>6 DEF Suyos, Base, TypeOK
<1>16. Bien(own, Arch(h))'
    BY <1>1, <1>14
<1> QED BY <1>1, <1>2, <1>3, <1>15, <1>16, MismosDuenios

LEMMA RepartoTerminar ==
    ASSUME Base, NEW own \in Duenios, \A e \in Entradas : Bien(own, e),
           NEW h \in Hilos, Terminar(h), SinRecortesCompartidos
    PROVE  \A e \in Entradas : Bien(own, e)'
<1>0. PICK e \in Entradas : e = Arch(h)
    BY ConArchivo DEF Terminar
<1>1. SoloDe(h) /\ Arch(h) = e /\ Arch(h)' = e
    BY <1>0 DEF Terminar, AsignarSiguienteBloque, SoloDe, Arch, Base, TypeOK
<1>2. /\ pc[h] = "terminar" /\ pc[h] \in ConSnap /\ Pendiente(h)
      /\ \/ /\ modo[h] = "editar" /\ pc'[h] = "escribir" /\ blq'[h] = sig[h]
         \/ /\ modo[h] # "editar" /\ pc'[h] = "recorrer" /\ blq'[h] = blq[h]
    BY DEF Terminar, ConSnap, Pendiente, Base, TypeOK
<1>c. pc'[h] \in ConSnap /\ ~Pendiente(h)'
    BY <1>2 DEF ConSnap, Pendiente
<1>3. /\ UNCHANGED <<tabla, bitmap>> /\ dPri'[h] = dPri[h] /\ sig'[h] = sig[h]
      /\ ini'[h] = ini[h] /\ modo'[h] = modo[h] /\ ped'[h] = ped[h]
      /\ asig' = [asig EXCEPT ![sig[h]] = NIL]
      /\ snap'[h] = [snap[h] EXCEPT ![sig[h]] = NIL]
    BY DEF Terminar, AsignarSiguienteBloque, Base, TypeOK
<1>4. PICK p \in Suyos(own, e) : p = sig[h]
    BY <1>0, <1>1, <1>2 DEF Bien, Recorrido
<1>5. blq[h] \in Firmes(own, e)
    BY <1>0, <1>1, <1>2 DEF Bien, Recorrido
<1>6. Firmes(own, e) = Suyos(own, e) \ {p} /\ p # NIL
    BY <1>1, <1>2, <1>4, EnMano, ConstantesBloques DEF Suyos
<1>7. Firmes(own, e)' = Suyos(own, e)
    <2>1. \A g \in Hilos \ {h} : Arch(g) = e => ~Pendiente(g)
        BY <1>1, <1>2, EnMano
    <2>2. ASSUME NEW g \in Hilos, Arch(g)' = e
          PROVE  ~Pendiente(g)'
        <3>1. CASE g = h
            BY <3>1, <1>c
        <3>2. CASE g # h
            <4>1. Arch(g)' = Arch(g) /\ pc'[g] = pc[g]
                BY <1>1, <3>2 DEF SoloDe, Arch
            <4>2. ~Pendiente(g)
                BY <2>1, <2>2, <3>2, <4>1
            <4> QED BY <4>1, <4>2 DEF Pendiente
        <3> QED BY <3>1, <3>2
    <2> QED BY <2>2 DEF Firmes, Suyos
<1>8. De(own, NIL, e)
    BY DEF De
<1>a. Asignacion(own, e, h, p, NIL)
    BY <1>0, <1>1, <1>2, <1>3, <1>4, <1>6, <1>7, <1>8, <1>c DEF Asignacion
<1>b. Asignado(own, e, h, p, NIL)
    BY <1>0, <1>a, Asignar
<1>10. Recorrido(own, e)'
    BY <1>2, <1>c, <1>3, <1>4, <1>5, <1>6, <1>7, <1>b
    DEF Asignado, Recorrido, ConSnap
<1>11. Nuevo(own, e)'
    BY <1>2, <1>c, <1>b DEF Asignado, Nuevo, ConSnap
<1>12. Lineal(own, e)'
    <2>1. SUFFICES ASSUME Recortado(e) PROVE Lineal(own, e)'
        BY DEF Lineal, Recortado
    <2>2. Lineal(own, e) /\ \A g \in Hilos : Arch(g) = e => g = h
        BY <1>0, <1>1, <2>1, Exclusivo DEF Bien
    <2>3. \A x, y \in Firmes(own, e)' :
              asig'[x] = asig'[y] /\ asig'[x] # NIL => x = y
        BY <1>b, <2>1, <2>2 DEF Asignado, Lineal
    <2>4. \A x \in Firmes(own, e)' : asig'[x] # NIL =>
              /\ CabezaFirme(e)' => asig'[x] # tabla'[e].first_block
              /\ asig'[x] # dPri'[h]
        BY <1>1, <1>3, <1>b, <2>1, <2>2 DEF Asignado, Lineal
    <2>5. CabezaFirme(e)' =>
              tabla'[e].first_block \in {NIL, dPri'[h]} \/ dPri'[h] = NIL
        BY <1>1, <1>3, <1>b, <2>1, <2>2 DEF Asignado, Lineal
    <2> QED BY <1>2, <1>b, <2>1, <2>2, <2>3, <2>4, <2>5
            DEF Asignado, Lineal, Antes
<1>13. Cortes(own, e)'
    <2> SUFFICES ASSUME EnCorte(h)'
                 PROVE  \E V \in SUBSET Bloques : Corte(own, h, V)'
        BY <1>b DEF Asignado, Cortes
    <2>1. EnCorte(h) /\ pc'[h] = "recorrer" /\ blq'[h] = blq[h]
        BY <1>2, <1>3 DEF EnCorte
    <2>2. PICK V \in SUBSET Bloques : Corte(own, h, V)
        BY <1>0, <1>1, <2>1 DEF Bien, Cortes
    <2>3. V # {} /\ blq[h] \in V /\ blq[h] # p /\ p \notin V /\ asig[blq[h]] = p
        BY <1>2, <1>4, <1>5, <1>6, <2>2 DEF Corte
    <2>4. Corte(own, h, V)'
        BY <1>1, <1>2, <1>3, <1>4, <1>5, <1>6, <1>7, <1>b, <2>1, <2>2, <2>3
        DEF Asignado, Corte
    <2> QED BY <2>4
<1>14. Bien(own, e)'
    BY <1>10, <1>11, <1>12, <1>13, <1>b DEF Asignado, Bien
<1>15. \A b \in Bloques : own[b] # Arch(h) => asig'[b] = asig[b]
    BY <1>1, <1>3, <1>4 DEF Suyos, Base, TypeOK
<1>16. Bien(own, Arch(h))'
    BY <1>1, <1>14
<1> QED BY <1>1, <1>2, <1>3, <1>15, <1>16, MismosDuenios

LEMMA RepartoQuedarseSinBloque ==
    ASSUME Base, NEW own \in Duenios, \A e \in Entradas : Bien(own, e),
           NEW h \in Hilos, QuedarseSinBloque(h), SinRecortesCompartidos
    PROVE  \A e \in Entradas : Bien(own, e)'
<1>0. PICK e \in Entradas : e = Arch(h)
    BY ConArchivo DEF QuedarseSinBloque
<1>1. SoloDe(h) /\ Arch(h) = e /\ Arch(h)' = e
    BY <1>0
    DEF QuedarseSinBloque, AsignarSiguienteBloque, SoloDe, Arch, Base, TypeOK
<1>3. /\ UNCHANGED <<tabla, bitmap, pc, dPri, sig, blq, ini, modo, ped>>
      /\ pc[h] \in {"primero", "pedir"} /\ ~Pendiente(h) /\ ~Pendiente(h)'
    BY DEF QuedarseSinBloque, Pendiente
<1>p. CASE pc[h] # "pedir"
    <2>1. UNCHANGED <<tabla, bitmap, asig, pc, dPri, sig, blq, ini, modo, ped, snap>>
        BY <1>3, <1>p DEF QuedarseSinBloque
    <2>2. ASSUME NEW d \in Entradas PROVE Igual(own, own, d)
        BY <2>1 DEF Igual, Arch, Suyos
    <2> QED BY <2>2, Marco
<1>q. CASE pc[h] = "pedir"
    <2>3. pc[h] \in ConSnap /\ pc'[h] \in ConSnap
        BY <1>q, <1>3 DEF ConSnap
    <2>4. PICK p \in Firmes(own, e) : p = blq[h]
        BY <1>0, <1>1, <1>q DEF Bien, Recorrido
    <2>5. /\ asig' = [asig EXCEPT ![blq[h]] = NIL]
          /\ snap'[h] = [snap[h] EXCEPT ![blq[h]] = NIL]
        BY <1>q DEF QuedarseSinBloque, AsignarSiguienteBloque, Base, TypeOK
    <2>6. Firmes(own, e) = Suyos(own, e) /\ p \in Suyos(own, e)
        BY <1>1, <1>3, <2>3, <2>4, EnMano DEF Firmes
    <2>7. Firmes(own, e)' = Firmes(own, e)
        BY <1>1, <1>3 DEF Firmes, Suyos, Pendiente, Arch
    <2>8. De(own, NIL, e)
        BY DEF De
    <2>a. Asignacion(own, e, h, p, NIL)
        BY <1>0, <1>1, <1>3, <2>3, <2>4, <2>5, <2>6, <2>7, <2>8 DEF Asignacion
    <2>b. Asignado(own, e, h, p, NIL)
        BY <1>0, <2>a, Asignar
    <2>10. Recorrido(own, e)'
        BY <1>3, <1>q, <2>3, <2>4, <2>7, <2>b DEF Asignado, Recorrido, ConSnap
    <2>11. Nuevo(own, e)'
        BY <1>3, <1>q, <2>b DEF Asignado, Nuevo, ConSnap
    <2>12. Lineal(own, e)'
        <3>1. SUFFICES ASSUME Recortado(e) PROVE Lineal(own, e)'
            BY DEF Lineal, Recortado
        <3>2. Lineal(own, e) /\ \A g \in Hilos : Arch(g) = e => g = h
            BY <1>0, <1>1, <3>1, Exclusivo DEF Bien
        <3> QED BY <1>1, <1>3, <1>q, <2>b, <3>1, <3>2 DEF Asignado, Lineal, Antes
    <2>13. Cortes(own, e)'
        <3> SUFFICES ASSUME EnCorte(h)'
                     PROVE  \E V \in SUBSET Bloques : Corte(own, h, V)'
            BY <2>b DEF Asignado, Cortes
        <3>1. EnCorte(h)
            BY <1>3 DEF EnCorte
        <3>2. PICK V \in SUBSET Bloques : Corte(own, h, V)
            BY <1>0, <1>1, <3>1 DEF Bien, Cortes
        <3>3. V # {} /\ p \in V /\ sig[h] = NIL
            BY <1>q, <2>4, <3>2 DEF Corte
        <3>4. Corte(own, h, V)'
            BY <1>1, <1>3, <1>q, <2>4, <2>7, <2>b, <3>2, <3>3 DEF Asignado, Corte
        <3> QED BY <3>4
    <2>14. Bien(own, e)'
        BY <2>10, <2>11, <2>12, <2>13, <2>b DEF Asignado, Bien
    <2>15. \A b \in Bloques : own[b] # Arch(h) => asig'[b] = asig[b]
        BY <1>1, <2>5, <2>4, <2>6 DEF Suyos, Base, TypeOK
    <2>16. Bien(own, Arch(h))'
        BY <1>1, <2>14
    <2> QED BY <1>1, <1>3, <1>q, <2>15, <2>16, MismosDuenios
<1> QED BY <1>p, <1>q

(* The loop of truncarArchivoInterna belongs to a truncation, which has    *)
(* its file to itself.                                                     *)
LEMMA SoloTruncar ==
    ASSUME Base, SinRecortesCompartidos, NEW h \in Hilos,
           pc[h] \in {"recorrer", "cortar"}
    PROVE  /\ modo[h] = "truncar" /\ EnCorte(h) /\ Recortado(Arch(h))
           /\ \A g \in Hilos : Arch(g) = Arch(h) => g = h
<1>1. modo[h] = "truncar" /\ ped[h].op = "truncar"
    BY DEF Base, Control, ConSnap
<1>2. ped[h] \in Pedidos /\ Arch(h) \in Entradas
    BY ConArchivo
<1>3. Recortado(Arch(h))
    BY <1>1, <1>2 DEF Recortado, Arch
<1>4. \A g \in Hilos : Arch(g) = Arch(h) => g = h
    BY <1>2, <1>3, Exclusivo
<1> QED BY <1>1, <1>3, <1>4 DEF EnCorte

LEMMA RepartoRecorrer ==
    ASSUME Base, NEW own \in Duenios, \A e \in Entradas : Bien(own, e),
           NEW h \in Hilos, Recorrer(h), SinRecortesCompartidos
    PROVE  \A e \in Entradas : Bien(own, e)'
<1>0. PICK e \in Entradas : e = Arch(h)
    BY ConArchivo DEF Recorrer
<1>1. /\ SoloDe(h) /\ Arch(h) = e /\ Arch(h)' = e
      /\ \A g \in Hilos : Arch(g)' = Arch(g)
    BY <1>0 DEF Recorrer, QuedaPorRecorrer, SoloDe, Arch, Base, TypeOK
<1>2. /\ pc[h] = "recorrer" /\ pc[h] \in ConSnap
      /\ pc'[h] \in {"pedir", "recorrer", "cortar"} /\ pc'[h] \in ConSnap
    BY DEF Recorrer, QuedaPorRecorrer, ConSnap, Base, TypeOK
<1>3. /\ UNCHANGED <<tabla, bitmap, asig>> /\ dPri'[h] = dPri[h]
      /\ snap'[h] = snap[h] /\ modo'[h] = modo[h] /\ ped'[h] = ped[h]
    BY DEF Recorrer, QuedaPorRecorrer, disco
<1>4. /\ modo[h] = "truncar" /\ EnCorte(h) /\ Recortado(e)
      /\ \A g \in Hilos : Arch(g) = e => g = h
    BY <1>1, <1>2, SoloTruncar
<1>5. ~Pendiente(h) /\ ~Pendiente(h)' /\ ~CabezaVieja(h) /\ ~CabezaVieja(h)'
    BY <1>2 DEF Pendiente, CabezaVieja
<1>6. /\ Firmes(own, e) = Suyos(own, e) /\ Firmes(own, e)' = Suyos(own, e)
      /\ Suyos(own, e)' = Suyos(own, e)
    BY <1>1, <1>4, <1>5 DEF Firmes, Suyos
<1>7. CabezaFirme(e)' = CabezaFirme(e)
    BY <1>1, <1>3, <1>4, <1>5 DEF CabezaFirme, Activa
<1>8. PICK V \in SUBSET Bloques : Corte(own, h, V)
    BY <1>0, <1>1, <1>4 DEF Bien, Cortes
<1>9. V \subseteq Suyos(own, e)
    BY <1>1, <1>6, <1>8 DEF Corte
<1>10. (Encerrado(own, e) /\ Cabezas(own, e))'
    BY <1>0, <1>1, <1>3, <1>4, <1>5, <1>6, <1>7 DEF Bien, Encerrado, Cabezas, De
<1>11. Nuevo(own, e)'
    BY <1>1, <1>2, <1>4 DEF Nuevo
<1>12. Lineal(own, e)'
    BY <1>0, <1>1, <1>2, <1>3, <1>4, <1>5, <1>6, <1>7
    DEF Bien, Lineal, Recortado, Antes
<1>13. \A x \in Suyos(own, e) : snap[h][x] = asig[x]
    BY <1>0, <1>1, <1>2, <1>6 DEF Bien, Recorrido
<1>14. /\ \E W \in SUBSET Bloques : Corte(own, h, W)'
       /\ pc'[h] = "pedir" => blq'[h] \in Suyos(own, e)
    <2>1. CASE ini[h] > 0 /\ sig[h] = NIL
        <3>1. /\ pc'[h] = "pedir" /\ ini'[h] = ini[h] /\ blq'[h] = blq[h]
              /\ sig'[h] = sig[h]
            BY <2>1 DEF Recorrer, QuedaPorRecorrer, Base, TypeOK
        <3>2. V # {}
            BY <1>2, <1>8, <2>1 DEF Corte, Base, TypeOK
        <3>3. Corte(own, h, V)'
            BY <1>1, <1>2, <1>3, <1>6, <1>8, <2>1, <3>1, <3>2 DEF Corte
        <3> QED BY <1>2, <1>8, <1>9, <3>1, <3>2, <3>3 DEF Corte
    <2>2. CASE ini[h] > 0 /\ sig[h] # NIL
        <3>1. /\ pc'[h] = "recorrer" /\ blq'[h] = sig[h]
              /\ sig'[h] = snap[h][sig[h]]
            BY <1>2, <2>2 DEF Recorrer, QuedaPorRecorrer, Base, TypeOK
        <3>2. PICK s \in Suyos(own, e) : s = sig[h] /\ s \notin V
            BY <1>1, <1>8, <2>2 DEF Corte
        <3>3. sig'[h] = asig[s]
            BY <1>13, <3>1, <3>2
        <3>4. \A x \in Suyos(own, e) \ V : asig[x] # s
            <4>1. s # NIL
                BY <2>2, <3>2
            <4>2. /\ \A x, y \in Suyos(own, e) :
                         asig[x] = asig[y] /\ asig[x] # NIL => x = y
                  /\ \A x \in Suyos(own, e) : asig[x] # NIL => asig[x] # dPri[h]
                BY <1>0, <1>1, <1>4, <1>5, <1>6 DEF Bien, Lineal
            <4>3. CASE V = {}
                <5>1. dPri[h] = s
                    BY <1>2, <1>8, <3>2, <4>3 DEF Corte
                <5> QED BY <4>1, <4>2, <5>1
            <4>4. CASE V # {}
                <5>1. PICK q \in V : asig[q] = s
                    BY <1>2, <1>8, <3>2, <4>4 DEF Corte
                <5> QED BY <1>9, <4>1, <4>2, <5>1
            <4> QED BY <4>3, <4>4
        <3> DEFINE W == V \cup {s}
        <3>5. W \subseteq Suyos(own, e) /\ W \in SUBSET Bloques
            BY <1>9 DEF Suyos
        <3>6. \A x \in Suyos(own, e) \ W :
                  asig[x] = NIL \/ asig[x] \in Suyos(own, e) \ W
            BY <1>1, <1>6, <1>8, <3>4 DEF Corte
        <3>7. \A x \in W : x # s => asig[x] = NIL \/ asig[x] \in W
            <4> SUFFICES ASSUME NEW x \in V PROVE asig[x] = NIL \/ asig[x] \in W
                OBVIOUS
            <4>1. CASE x = blq[h]
                BY <1>2, <1>8, <3>2, <4>1 DEF Corte
            <4>2. CASE x # blq[h]
                BY <1>8, <4>2 DEF Corte
            <4> QED BY <4>1, <4>2
        <3>8. asig[s] # NIL => asig[s] \in Suyos(own, e) \ W
            BY <1>1, <1>6, <1>8, <3>2, <3>4 DEF Corte
        <3>9. dPri[h] \in W
            BY <1>2, <1>8, <3>2 DEF Corte
        <3> HIDE DEF W
        <3>10. s \in W
            BY DEF W
        <3>11. Corte(own, h, W)'
            BY <1>1, <1>3, <1>6, <3>1, <3>2, <3>3, <3>5, <3>6, <3>7, <3>8, <3>9,
               <3>10 DEF Corte
        <3> QED BY <3>1, <3>5, <3>11
    <2>3. CASE ini[h] <= 0
        <3>1. /\ pc'[h] = "cortar" /\ ini'[h] = ini[h] /\ blq'[h] = blq[h]
              /\ sig'[h] = sig[h]
            BY <2>3 DEF Recorrer, QuedaPorRecorrer, Base, TypeOK
        <3>2. Corte(own, h, V)'
            BY <1>1, <1>2, <1>3, <1>6, <1>8, <2>3, <3>1 DEF Corte
        <3> QED BY <3>1, <3>2
    <2>4. ini[h] \in Int
        BY DEF Base, TypeOK
    <2> QED BY <2>1, <2>2, <2>3, <2>4 DEF Recorrer, QuedaPorRecorrer
<1>15. Recorrido(own, e)'
    BY <1>1, <1>2, <1>3, <1>4, <1>5, <1>6, <1>13, <1>14 DEF Recorrido
<1>16. Cortes(own, e)'
    BY <1>1, <1>4, <1>14 DEF Cortes
<1>17. Bien(own, Arch(h))'
    BY <1>1, <1>10, <1>11, <1>12, <1>15, <1>16 DEF Bien
<1> QED BY <1>1, <1>2, <1>3, <1>17, MismosDuenios

LEMMA RepartoCortar ==
    ASSUME Base, NEW own \in Duenios, \A e \in Entradas : Bien(own, e),
           NEW h \in Hilos, Cortar(h), SinRecortesCompartidos
    PROVE  \A e \in Entradas : Bien(own, e)'
<1>0. PICK e \in Entradas : e = Arch(h)
    BY ConArchivo DEF Cortar
<1>1. /\ SoloDe(h) /\ Arch(h) = e /\ Arch(h)' = e
      /\ \A g \in Hilos : Arch(g)' = Arch(g)
    BY <1>0 DEF Cortar, NuevoPrimero, AsignarSiguienteBloque, SoloDe, Arch, Base, TypeOK
<1>2. /\ pc[h] = "cortar" /\ pc[h] \in ConSnap
      /\ pc'[h] = "liberar" /\ pc'[h] \in ConSnap
    BY DEF Cortar, NuevoPrimero, ConSnap, Base, TypeOK
<1>3. /\ UNCHANGED <<tabla, bitmap>> /\ sig'[h] = sig[h] /\ blq'[h] = blq[h]
      /\ ini'[h] = ini[h] /\ modo'[h] = modo[h] /\ ped'[h] = ped[h]
    BY DEF Cortar, NuevoPrimero
<1>4. /\ modo[h] = "truncar" /\ EnCorte(h) /\ Recortado(e)
      /\ \A g \in Hilos : Arch(g) = e => g = h
    BY <1>1, <1>2, SoloTruncar
<1>5. ~Pendiente(h) /\ ~Pendiente(h)' /\ ~CabezaVieja(h) /\ ~CabezaVieja(h)'
    BY <1>2 DEF Pendiente, CabezaVieja
<1>6. /\ Firmes(own, e) = Suyos(own, e) /\ Firmes(own, e)' = Suyos(own, e)
      /\ Suyos(own, e)' = Suyos(own, e)
    BY <1>1, <1>4, <1>5 DEF Firmes, Suyos
<1>7. PICK V \in SUBSET Bloques : Corte(own, h, V)
    BY <1>0, <1>1, <1>4 DEF Bien, Cortes
<1>8. Nuevo(own, e)'
    BY <1>1, <1>2, <1>4 DEF Nuevo
<1>9. CASE sig[h] # dPri[h]
    <2>1. /\ asig' = [asig EXCEPT ![blq[h]] = NIL] /\ dPri'[h] = dPri[h]
          /\ snap'[h] = [snap[h] EXCEPT ![blq[h]] = NIL]
        BY <1>9 DEF Cortar, NuevoPrimero, AsignarSiguienteBloque, Base, TypeOK
    <2>2. V # {}
        BY <1>2, <1>7, <1>9 DEF Corte
    <2>3. PICK p \in Suyos(own, e) : p = blq[h] /\ p \in V
        BY <1>1, <1>2, <1>6, <1>7, <2>2 DEF Corte
    <2>a. Asignacion(own, e, h, p, NIL)
        BY <1>0, <1>1, <1>2, <1>3, <1>6, <2>1, <2>3 DEF Asignacion, De
    <2>b. Asignado(own, e, h, p, NIL)
        BY <1>0, <2>a, Asignar
    <2>4. Recorrido(own, e)'
        BY <1>1, <1>2, <1>4, <1>5, <2>b DEF Asignado, Recorrido
    <2>5. Lineal(own, e)'
        BY <1>0, <1>1, <1>2, <1>3, <1>4, <1>5, <2>1, <2>b
        DEF Asignado, Bien, Lineal, Recortado, Antes
    <2>6. Corte(own, h, V)'
        BY <1>1, <1>2, <1>3, <1>6, <1>7, <2>1, <2>2, <2>3, <2>b
        DEF Asignado, Corte
    <2>7. Cortes(own, e)'
        BY <1>1, <1>4, <2>6 DEF Cortes
    <2>8. Bien(own, Arch(h))'
        BY <1>1, <1>8, <2>4, <2>5, <2>7, <2>b DEF Asignado, Bien
    <2>9. \A b \in Bloques : own[b] # Arch(h) => asig'[b] = asig[b]
        BY <1>1, <2>1, <2>3 DEF Suyos, Base, TypeOK
    <2> QED BY <1>1, <1>2, <1>3, <2>8, <2>9, MismosDuenios
<1>10. CASE sig[h] = dPri[h]
    <2>1. dPri'[h] = NIL /\ UNCHANGED <<asig, snap>>
        BY <1>10 DEF Cortar, NuevoPrimero, Base, TypeOK
    <2>2. V = {}
        BY <1>1, <1>2, <1>7, <1>10, ConstantesBloques DEF Corte
    <2>3. CabezaFirme(e)' = CabezaFirme(e)
        BY <1>1, <1>3, <1>4, <1>5 DEF CabezaFirme, Activa
    <2>4. (Encerrado(own, e) /\ Cabezas(own, e))'
        BY <1>0, <1>1, <1>3, <1>4, <1>6, <2>1, <2>3
        DEF Bien, Encerrado, Cabezas, De
    <2>5. Recorrido(own, e)'
        BY <1>0, <1>1, <1>2, <1>4, <1>5, <1>6, <2>1 DEF Bien, Recorrido
    <2>6. Lineal(own, e)'
        BY <1>0, <1>1, <1>2, <1>3, <1>4, <1>6, <2>1, <2>3
        DEF Bien, Lineal, Recortado, Antes
    <2>7. Corte(own, h, {})'
        BY <1>1, <1>2, <1>3, <1>6, <1>7, <2>1, <2>2 DEF Corte
    <2>8. Cortes(own, e)'
        BY <1>1, <1>4, <2>7 DEF Cortes
    <2>9. Bien(own, Arch(h))'
        BY <1>1, <1>8, <2>4, <2>5, <2>6, <2>8 DEF Bien
    <2> QED BY <1>1, <1>2, <1>3, <2>1, <2>9, MismosDuenios
<1> QED BY <1>9, <1>10

(* A walk that starts in a set the pointers do not leave stays in it.      *)
LEMMA AlcanzablesAcotados ==
    ASSUME NEW f, NEW p, NEW S \in SUBSET Bloques, p = NIL \/ p \in S,
           Cerrado(f, S)
    PROVE  Alcanzables(f, p) \subseteq S
BY DEF Alcanzables

(* The last request on a file that is cut ends: what stays is V.           *)
LEMMA RepartoLiberar ==
    ASSUME Base, NEW own \in Duenios, \A e \in Entradas : Bien(own, e),
           NEW h \in Hilos, Liberar(h), SinRecortesCompartidos
    PROVE  \E own2 \in Duenios : \A e \in Entradas : Bien(own2, e)'
<1>0. PICK e \in Entradas : e = Arch(h)
    BY ConArchivo DEF Liberar
<1>1. /\ SoloDe(h) /\ Arch(h) = e /\ Arch(h)' = e
      /\ \A g \in Hilos : Arch(g)' = Arch(g)
    BY <1>0 DEF Liberar, SoloDe, Arch, Base, TypeOK
<1>2. /\ pc[h] = "liberar" /\ pc[h] \in ConSnap
      /\ pc'[h] \in {"colgado", "espacio", "reemplazar"}
      /\ pc'[h] = "espacio" =>
             /\ modo[h] = "truncar" /\ ped[h].bytes > dTam[h]
             /\ modo'[h] = "editar"
      /\ ped[h].bytes \in Nat /\ dTam[h] \in Nat
    BY ConArchivo DEF Liberar, ConSnap, Base, TypeOK
<1>3. /\ UNCHANGED <<tabla, asig>> /\ dPri'[h] = dPri[h] /\ ped'[h] = ped[h]
      /\ snap'[h] = snap[h]
      /\ bitmap' = [b \in Bloques |->
                       bitmap[b] /\ b \notin Alcanzables(snap[h], sig[h])]
    BY DEF Liberar, Liberados
<1>4. /\ modo[h] \in {"truncar", "eliminar"} /\ ped[h].op = modo[h]
      /\ modo[h] = "eliminar" => sig[h] = dPri[h]
    BY <1>2 DEF Base, Control, ConSnap
<1>5. Recortado(e) /\ \A g \in Hilos : Arch(g) = e => g = h
    <2>1. ped[h] \in Pedidos
        BY <1>2, ConArchivo
    <2>2. Recortado(e)
        BY <1>1, <1>4, <2>1 DEF Recortado, Arch
    <2> QED BY <1>1, <2>2, Exclusivo
<1>6. ~Pendiente(h) /\ ~Pendiente(h)' /\ ~CabezaVieja(h)
    BY <1>2 DEF Pendiente, CabezaVieja
<1>7. Firmes(own, e) = Suyos(own, e)
    BY <1>1, <1>5, <1>6 DEF Firmes
<1>8. \A x \in Suyos(own, e) : snap[h][x] = asig[x]
    BY <1>0, <1>1, <1>2, <1>7 DEF Bien, Recorrido
<1>9. \E V \in SUBSET Bloques :
          /\ V \subseteq Suyos(own, e)
          /\ sig[h] = NIL \/ sig[h] \in Suyos(own, e) \ V
          /\ Cerrado(snap[h], Suyos(own, e) \ V)
          /\ \A x \in V : asig[x] = NIL \/ asig[x] \in V
          /\ \/ dPri[h] = NIL \/ dPri[h] \in V
             \/ ped[h].op = "eliminar" /\ V = {}
          /\ pc'[h] = "espacio" => dPri[h] # NIL
    <2>1. CASE modo[h] = "eliminar"
        <3>1. \A x \in Suyos(own, e) : asig[x] = NIL \/ asig[x] \in Suyos(own, e)
            BY <1>0, <1>7 DEF Bien, Encerrado, De
        <3>2. sig[h] = NIL \/ sig[h] \in Suyos(own, e)
            BY <1>0, <1>1, <1>4, <1>6, <2>1 DEF Bien, Cabezas, De
        <3>3. Cerrado(snap[h], Suyos(own, e) \ {})
            BY <1>8, <3>1 DEF Cerrado
        <3>4. ped[h].op = "eliminar" /\ pc'[h] # "espacio"
            BY <1>2, <1>4, <2>1
        <3>5. sig[h] = NIL \/ sig[h] \in Suyos(own, e) \ {}
            BY <3>2
        <3> WITNESS {} \in SUBSET Bloques
        <3> QED BY <3>3, <3>4, <3>5
    <2>2. CASE modo[h] = "truncar"
        <3>1. PICK V \in SUBSET Bloques : Corte(own, h, V)
            BY <1>0, <1>1, <1>2, <2>2 DEF Bien, Cortes, EnCorte
        <3>2. V \subseteq Suyos(own, e) /\ (sig[h] = NIL \/ sig[h] \in Suyos(own, e) \ V)
            BY <1>1, <1>7, <3>1 DEF Corte
        <3>3. Cerrado(snap[h], Suyos(own, e) \ V)
            BY <1>1, <1>7, <1>8, <3>1 DEF Corte, Cerrado
        <3>4. \A x \in V : asig[x] = NIL \/ asig[x] \in V
            BY <1>2, <3>1 DEF Corte
        <3>5. dPri[h] = NIL \/ dPri[h] \in V
            BY <1>2, <3>1 DEF Corte
        <3>6. pc'[h] = "espacio" => dPri[h] # NIL
            <4>1. V = {} => ini[h] = ped[h].bytes /\ (dPri[h] = NIL => ini[h] <= 0)
                BY <1>2, <3>1 DEF Corte
            <4>2. V # {} => dPri[h] \in V
                BY <3>1 DEF Corte
            <4> QED BY <1>2, <4>1, <4>2, ConstantesBloques
        <3> QED BY <3>2, <3>3, <3>4, <3>5, <3>6
    <2> QED BY <1>4, <2>1, <2>2
<1>10. PICK V \in SUBSET Bloques :
          /\ V \subseteq Suyos(own, e)
          /\ sig[h] = NIL \/ sig[h] \in Suyos(own, e) \ V
          /\ Cerrado(snap[h], Suyos(own, e) \ V)
          /\ \A x \in V : asig[x] = NIL \/ asig[x] \in V
          /\ \/ dPri[h] = NIL \/ dPri[h] \in V
             \/ ped[h].op = "eliminar" /\ V = {}
          /\ pc'[h] = "espacio" => dPri[h] # NIL
    BY <1>9
<1>11. Alcanzables(snap[h], sig[h]) \subseteq Suyos(own, e) \ V
    <2>1. Suyos(own, e) \ V \in SUBSET Bloques
        BY DEF Suyos
    <2> QED BY <1>10, <2>1, AlcanzablesAcotados
<1> DEFINE own2 == [b \in Bloques |->
                       IF own[b] = e /\ b \notin V THEN NIL ELSE own[b]]
<1>12. /\ own2 \in Duenios
       /\ Suyos(own2, e) = V
       /\ \A d \in Entradas \ {e} : Suyos(own2, d) = Suyos(own, d)
    <2>1. own2 \in Duenios
        BY DEF Duenios
    <2>2. Suyos(own2, e) = V
        BY <1>10, ConstantesBloques DEF Suyos
    <2>3. \A d \in Entradas \ {e} : Suyos(own2, d) = Suyos(own, d)
        BY ConstantesBloques DEF Suyos
    <2> QED BY <2>1, <2>2, <2>3
<1> HIDE DEF own2
<1>13. Suyos(own2, e)' = V /\ Firmes(own2, e)' = V
    <2>1. Suyos(own2, e)' = V
        BY <1>12 DEF Suyos
    <2>2. \A g \in Hilos : Arch(g)' = e => ~Pendiente(g)'
        BY <1>1, <1>5, <1>6
    <2> QED BY <2>1, <2>2 DEF Firmes
<1>14. CabezaVieja(h)' \/ dPri[h] \in V
    BY <1>2, <1>3, <1>4, <1>10 DEF CabezaVieja
<1>15. CabezaFirme(e)' => CabezaFirme(e) /\ ~CabezaVieja(h)'
    BY <1>1, <1>3, <1>5, <1>6 DEF CabezaFirme, Activa
<1>16. Lineal(own, e)
    BY <1>0 DEF Bien
<1>17. CabezaFirme(e)' => tabla'[e].first_block \in V \cup {NIL}
    <2>1. CabezaFirme(e)' => tabla[e].first_block \in {NIL, dPri[h]} \/ dPri[h] = NIL
        BY <1>1, <1>5, <1>15, <1>16 DEF Lineal
    <2> QED BY <1>3, <1>10, <1>14, <1>15, <2>1, ConstantesBloques
<1>18. Encerrado(own2, e)'
    <2>1. \A x \in V : bitmap'[x]
        BY <1>0, <1>3, <1>10, <1>11 DEF Bien, Encerrado, Suyos, Base, TypeOK
    <2>2. \A x \in V : asig'[x] = NIL \/ asig'[x] \in V
        BY <1>3, <1>10
    <2> QED BY <1>13, <2>1, <2>2 DEF Encerrado, De
<1>19. Cabezas(own2, e)'
    <2>1. CabezaFirme(e)' => De(own2, tabla[e].first_block, e)'
        BY <1>3, <1>13, <1>17 DEF De
    <2>2. ~CabezaVieja(h)' => De(own2, dPri[h], e)'
        BY <1>3, <1>13, <1>14 DEF De
    <2> QED BY <1>1, <1>5, <2>1, <2>2 DEF Cabezas, De
<1>20. Recorrido(own2, e)' /\ Nuevo(own2, e)'
    BY <1>1, <1>2, <1>5, <1>6 DEF Recorrido, Nuevo, ConSnap
<1>21. Lineal(own2, e)'
    <2>1. SUFFICES ASSUME Recortado(e) PROVE Lineal(own2, e)'
        BY DEF Lineal, Recortado
    <2>2. \A x, y \in V : asig'[x] = asig'[y] /\ asig'[x] # NIL => x = y
        BY <1>3, <1>7, <1>10, <1>16, <2>1 DEF Lineal
    <2>3. \A x \in V : asig'[x] # NIL =>
              /\ CabezaFirme(e)' => asig'[x] # tabla'[e].first_block
              /\ asig'[x] # dPri'[h]
        BY <1>1, <1>3, <1>6, <1>7, <1>10, <1>15, <1>16, <2>1 DEF Lineal
    <2>4. CabezaFirme(e)' =>
              tabla'[e].first_block \in {NIL, dPri'[h]} \/ dPri'[h] = NIL
        BY <1>1, <1>3, <1>15, <1>16, <2>1 DEF Lineal
    <2>5. pc'[h] \in Antes => dPri'[h] # NIL
        BY <1>2, <1>3, <1>10 DEF Antes
    <2> QED BY <1>1, <1>5, <1>13, <2>2, <2>3, <2>4, <2>5 DEF Lineal
<1>22. Cortes(own2, e)'
    BY <1>1, <1>2, <1>5 DEF Cortes, EnCorte
<1>23. Bien(own2, e)'
    BY <1>18, <1>19, <1>20, <1>21, <1>22 DEF Bien
<1>24. ASSUME NEW d \in Entradas PROVE Bien(own2, d)'
    <2>1. CASE d = e
        BY <1>23, <2>1
    <2>2. CASE d # e
        <3>1. \A x \in Suyos(own, d) : asig'[x] = asig[x] /\ (bitmap[x] => bitmap'[x])
            BY <1>3, <1>11, <2>2 DEF Suyos
        <3> QED BY <1>1, <1>3, <1>12, <2>2, <3>1, OtrosArchivos
    <2> QED BY <2>1, <2>2
<1> QED BY <1>12, <1>24

-----------------------------------------------------------------------------
(* A thread that answers its client leaves its file: the conditions on the *)
(* other threads remain, with the head the descriptor was given.           *)
LEMMA RepartoTerminado ==
    ASSUME Base, SinRecortesCompartidos, NEW own,
           \A e \in Entradas : Bien(own, e),
           NEW h \in Hilos, pc[h] \in {"espacio", "reemplazar"}, Terminado(h),
           UNCHANGED <<bitmap, asig>>,
           \A e \in Entradas \ {Arch(h)} : tabla'[e] = tabla[e],
           \/ tabla' = tabla /\ ~CabezaVieja(h)
           \/ tabla'[Arch(h)].state # "REGULAR"
           \/ tabla'[Arch(h)].first_block = dPri[h] /\ ~CabezaVieja(h)
           \/ tabla'[Arch(h)].first_block = NIL /\ dPri[h] = NIL
    PROVE  \A e \in Entradas : Bien(own, e)'
<1>0. PICK e \in Entradas : e = Arch(h)
    BY ConArchivo
<1>1. /\ SoloDe(h) /\ Arch(h)' = NIL /\ Arch(h) = e /\ e # NIL
      /\ \A g \in Hilos \ {h} : Arch(g)' = Arch(g)
    BY <1>0, ConstantesBloques DEF Terminado, SoloDe, Arch, NoPed, Base, TypeOK
<1>2. ~Pendiente(h)
    BY DEF Pendiente
<1>3. /\ Suyos(own, e)' = Suyos(own, e)
      /\ \A p : De(own, p, e)' = De(own, p, e)
    BY DEF Suyos, De
<1>4. Firmes(own, e)' = Firmes(own, e)
    <2>1. \A g \in Hilos : Arch(g)' = e /\ Pendiente(g)' <=>
                           Arch(g) = e /\ Pendiente(g)
        BY <1>1, <1>2 DEF Pendiente, SoloDe
    <2>2. \A g \in Hilos : Arch(g) = e /\ Pendiente(g) => sig'[g] = sig[g]
        BY <1>1, <1>2 DEF SoloDe
    <2> QED BY <1>3, <2>1, <2>2 DEF Firmes
<1>5. \A g \in Hilos \ {h} : CabezaVieja(g)' = CabezaVieja(g)
    BY <1>1 DEF CabezaVieja, SoloDe
<1>6. Encerrado(own, e)'
    BY <1>0, <1>3, <1>4 DEF Bien, Encerrado
<1>7. CabezaFirme(e)' =>
          \/ CabezaFirme(e) /\ tabla'[e] = tabla[e]
          \/ tabla'[e].first_block = dPri[h] /\ ~CabezaVieja(h)
          \/ tabla'[e].first_block = NIL
    BY <1>1, <1>5 DEF CabezaFirme, Activa
<1>8. ~CabezaVieja(h) => De(own, dPri[h], e)
    BY <1>0, <1>1 DEF Bien, Cabezas
<1>9. Cabezas(own, e)'
    <2>1. CabezaFirme(e)' => De(own, tabla'[e].first_block, e)
        BY <1>0, <1>7, <1>8 DEF Bien, Cabezas, De
    <2>2. \A g \in Hilos : Arch(g)' = e /\ ~CabezaVieja(g)' =>
              De(own, dPri'[g], e)
        BY <1>0, <1>1, <1>5 DEF Bien, Cabezas, SoloDe
    <2> QED BY <1>3, <2>1, <2>2 DEF Cabezas, De
<1>10. Recorrido(own, e)'
    BY <1>0, <1>1, <1>3, <1>4 DEF Bien, Recorrido, SoloDe, Pendiente
<1>11. Nuevo(own, e)'
    <2> SUFFICES ASSUME NEW g \in Hilos, Arch(g)' = e,
                        pc'[g] \in {"termPrimero", "enlazar"}
                 PROVE  /\ \A b \in Firmes(own, e)' : asig'[b] # sig'[g]
                        /\ CabezaFirme(e)' => tabla'[e].first_block # sig'[g]
                        /\ \A k \in Hilos \ {g} : Arch(k)' = e =>
                               dPri'[k] # sig'[g]
                        /\ pc'[g] = "enlazar" => dPri'[g] # sig'[g]
        BY DEF Nuevo
    <2>1. /\ g # h /\ Arch(g) = e /\ pc[g] \in {"termPrimero", "enlazar"}
          /\ sig'[g] = sig[g] /\ pc'[g] = pc[g] /\ dPri'[g] = dPri[g]
        BY <1>1 DEF SoloDe
    <2>2. sig[g] # NIL
        BY <2>1, ConstantesBloques DEF Base, Control, Pendiente
    <2>3. /\ \A b \in Firmes(own, e) : asig[b] # sig[g]
          /\ CabezaFirme(e) => tabla[e].first_block # sig[g]
          /\ \A k \in Hilos \ {g} : Arch(k) = e => dPri[k] # sig[g]
          /\ pc[g] = "enlazar" => dPri[g] # sig[g]
        BY <1>0, <2>1 DEF Bien, Nuevo
    <2>4. \A k \in Hilos \ {g} : Arch(k)' = e => dPri'[k] # sig[g]
        BY <1>1, <2>3 DEF SoloDe
    <2>5. CabezaFirme(e)' => tabla'[e].first_block # sig[g]
        BY <1>1, <1>7, <2>1, <2>2, <2>3
    <2> QED BY <1>4, <2>1, <2>3, <2>4, <2>5
<1>12. Lineal(own, e)'
    <2>1. SUFFICES ASSUME Recortado(e) PROVE Lineal(own, e)'
        BY DEF Lineal, Recortado
    <2>2. Lineal(own, e) /\ \A g \in Hilos : Arch(g) = e => g = h
        BY <1>0, <1>1, <2>1, Exclusivo DEF Bien
    <2>3. \A g \in Hilos : Arch(g)' # e
        BY <1>1, <2>2
    <2>4. \A x \in Firmes(own, e) : asig[x] # NIL =>
              /\ CabezaFirme(e) => asig[x] # tabla[e].first_block
              /\ ~CabezaVieja(h) => asig[x] # dPri[h]
        BY <1>1, <2>1, <2>2 DEF Lineal
    <2>5. \A x \in Firmes(own, e) : asig[x] # NIL =>
              (CabezaFirme(e)' => asig[x] # tabla'[e].first_block)
        BY <1>7, <2>4
    <2>6. \A x, y \in Firmes(own, e) :
              asig[x] = asig[y] /\ asig[x] # NIL => x = y
        BY <2>1, <2>2 DEF Lineal
    <2> QED BY <1>4, <2>3, <2>5, <2>6 DEF Lineal
<1>13. Cortes(own, e)'
    <2> SUFFICES ASSUME NEW g \in Hilos, Arch(g)' = e, EnCorte(g)'
                 PROVE  \E V \in SUBSET Bloques : Corte(own, g, V)'
        BY DEF Cortes
    <2>1. g # h /\ Arch(g) = e /\ EnCorte(g)
        BY <1>1 DEF EnCorte, SoloDe
    <2>2. PICK V \in SUBSET Bloques : Corte(own, g, V)
        BY <1>0, <2>1 DEF Bien, Cortes
    <2>3. Corte(own, g, V)'
        BY <1>1, <1>3, <1>4, <2>1, <2>2 DEF Corte, SoloDe
    <2> QED BY <2>3
<1>14. Bien(own, e)'
    BY <1>6, <1>9, <1>10, <1>11, <1>12, <1>13 DEF Bien
<1> SUFFICES ASSUME NEW d \in Entradas PROVE Bien(own, d)'
    OBVIOUS
<1>15. CASE d = e
    BY <1>14, <1>15
<1>16. CASE d # e
    BY <1>1, <1>16, ConstantesBloques, OtrosArchivos DEF Suyos
<1> QED BY <1>15, <1>16

LEMMA RepartoRechazarPorEspacio ==
    ASSUME Base, NEW own \in Duenios, \A e \in Entradas : Bien(own, e),
           NEW h \in Hilos, RechazarPorEspacio(h), SinRecortesCompartidos
    PROVE  \A e \in Entradas : Bien(own, e)'
<1>1. pc[h] = "espacio" /\ UNCHANGED <<tabla, bitmap, asig>>
    BY DEF RechazarPorEspacio, disco
<1>2. CASE Terminado(h)
    BY <1>1, <1>2, RepartoTerminado DEF CabezaVieja
<1>3. CASE ~Terminado(h)
    <2>1. /\ pc' = [pc EXCEPT ![h] = "reemplazar"]
          /\ UNCHANGED <<lock, ped, modo, dTam, dPri, snap, ini, res, blq, sig>>
        BY <1>3 DEF RechazarPorEspacio
    <2>2. SoloDe(h) /\ Arch(h)' = Arch(h) /\ pc'[h] = "reemplazar"
        BY <2>1 DEF SoloDe, Arch, Base, TypeOK
    <2>3. Arch(h) \in Entradas
        BY <1>1, ConArchivo
    <2>4. Bien(own, Arch(h))'
        BY <1>1, <2>1, <2>2, <2>3, PasoLocal
        DEF disco, Pendiente, EnCorte, ConSnap, Antes
    <2> QED BY <1>1, <2>2, <2>4, MismosDuenios
<1> QED BY <1>2, <1>3

LEMMA RepartoReemplazarEstructuraDeArchivo ==
    ASSUME Base, NEW own \in Duenios, \A e \in Entradas : Bien(own, e),
           NEW h \in Hilos, ReemplazarEstructuraDeArchivo(h),
           SinRecortesCompartidos
    PROVE  \A e \in Entradas : Bien(own, e)'
<1>1. /\ pc[h] = "reemplazar" /\ Terminado(h) /\ UNCHANGED <<bitmap, asig>>
      /\ Arch(h) \in Entradas
    BY ConArchivo DEF ReemplazarEstructuraDeArchivo
<1>2. /\ \A e \in Entradas \ {Arch(h)} : tabla'[e] = tabla[e]
      /\ tabla'[Arch(h)].first_block = dPri[h]
      /\ ped[h].op = "eliminar" => tabla'[Arch(h)].state # "REGULAR"
    BY <1>1 DEF ReemplazarEstructuraDeArchivo, Base, TypeOK
<1>3. CabezaVieja(h) => ped[h].op = "eliminar" \/ dPri[h] = NIL
    BY <1>1 DEF CabezaVieja
<1> QED BY <1>1, <1>2, <1>3, RepartoTerminado

LEMMA RepartoLeerPath ==
    ASSUME Base, NEW own \in Duenios, \A e \in Entradas : Bien(own, e),
           NEW h \in Hilos, NEW p \in Pedidos, LeerPath(h, p),
           SinRecortesCompartidos
    PROVE  \A e \in Entradas : Bien(own, e)'
<1>0. PICK e \in Entradas : e = p.arch
    BY ConstantesBloques
<1>1. /\ pc[h] = "libre" /\ p.hilo = h /\ Arch(h) = NIL /\ Arch(h)' = e
      /\ SoloDe(h) /\ \A g \in Hilos \ {h} : Arch(g)' = Arch(g)
      /\ Activa(e)
    BY <1>0 DEF LeerPath, Arch, NoPed, SoloDe, Activa, Base, TypeOK, Control
<1>2. /\ UNCHANGED <<tabla, bitmap, asig>> /\ dPri'[h] = tabla[e].first_block
      /\ ped'[h] = p /\ pc'[h] = PrimerPaso(p.op)
    BY <1>0 DEF LeerPath, disco, Base, TypeOK
<1>3. /\ pc'[h] \in {"lock", "asignaciones", "reemplazar"}
      /\ pc'[h] = "reemplazar" => p.op \notin {"truncar", "eliminar"}
    BY <1>2, ConstantesBloques DEF PrimerPaso, Operaciones
<1>4. /\ ~CabezaVieja(h)' /\ ~Pendiente(h)' /\ ~EnCorte(h)'
      /\ pc'[h] \notin ConSnap
    BY <1>2, <1>3 DEF CabezaVieja, Pendiente, EnCorte, ConSnap
<1>5. ASSUME NEW g \in Hilos, Arch(g) = e PROVE ~Recortado(e)
    <2>1. g # h /\ ped[g] \in Pedidos /\ ped[g].hilo = g /\ ped[g].arch = e
        BY <1>1, <1>5, ConstantesBloques DEF Base, Control, NoPed, Arch
    <2>2. SUFFICES ASSUME NEW q \in Pedidos, q.arch = e,
                          q.op \in {"truncar", "eliminar"}
                   PROVE  FALSE
        BY DEF Recortado
    <2>3. q.hilo = g
        BY <2>1, <2>2 DEF SinRecortesCompartidos
    <2>4. q.hilo = h
        BY <1>0, <1>1, <2>2 DEF SinRecortesCompartidos
    <2> QED BY <2>1, <2>3, <2>4
<1>6. \A g \in Hilos \ {h} : CabezaVieja(g)' = CabezaVieja(g)
    BY <1>1 DEF CabezaVieja, SoloDe
<1>7. CabezaFirme(e) /\ CabezaFirme(e)'
    <2>1. ASSUME NEW g \in Hilos, Arch(g) = e, CabezaVieja(g) PROVE FALSE
        <3>1. ped[g] \in Pedidos
            BY <2>1, ConArchivo DEF CabezaVieja
        <3> QED BY <1>5, <2>1, <3>1, ViejaRecorta
    <2> QED BY <1>1, <1>2, <1>4, <1>6, <2>1 DEF CabezaFirme, Activa
<1>8. /\ Suyos(own, e)' = Suyos(own, e)
      /\ \A x : De(own, x, e)' = De(own, x, e)
    BY DEF Suyos, De
<1>9. Firmes(own, e)' = Firmes(own, e)
    <2>1. \A g \in Hilos : Arch(g)' = e /\ Pendiente(g)' <=>
                           Arch(g) = e /\ Pendiente(g)
        BY <1>1, <1>4, ConstantesBloques DEF Pendiente, SoloDe
    <2>2. \A g \in Hilos : Arch(g) = e => sig'[g] = sig[g]
        BY <1>1, ConstantesBloques DEF SoloDe
    <2> QED BY <1>8, <2>1, <2>2 DEF Firmes
<1>10. De(own, tabla[e].first_block, e)
    BY <1>7 DEF Bien, Cabezas
<1>11. Encerrado(own, e)'
    BY <1>2, <1>8, <1>9 DEF Bien, Encerrado
<1>12. Cabezas(own, e)'
    <2>1. \A g \in Hilos : Arch(g)' = e /\ ~CabezaVieja(g)' =>
              De(own, dPri'[g], e)
        BY <1>1, <1>2, <1>6, <1>10 DEF Bien, Cabezas, SoloDe
    <2> QED BY <1>2, <1>8, <1>10, <2>1 DEF Cabezas, De
<1>13. Recorrido(own, e)'
    BY <1>1, <1>2, <1>4, <1>8, <1>9
    DEF Bien, Recorrido, SoloDe, Pendiente, ConSnap
<1>14. Nuevo(own, e)'
    <2> SUFFICES ASSUME NEW g \in Hilos, Arch(g)' = e,
                        pc'[g] \in {"termPrimero", "enlazar"}
                 PROVE  /\ \A b \in Firmes(own, e)' : asig'[b] # sig'[g]
                        /\ CabezaFirme(e)' => tabla'[e].first_block # sig'[g]
                        /\ \A k \in Hilos \ {g} : Arch(k)' = e =>
                               dPri'[k] # sig'[g]
                        /\ pc'[g] = "enlazar" => dPri'[g] # sig'[g]
        BY DEF Nuevo
    <2>1. /\ g # h /\ Arch(g) = e /\ pc[g] \in {"termPrimero", "enlazar"}
          /\ sig'[g] = sig[g] /\ pc'[g] = pc[g] /\ dPri'[g] = dPri[g]
        BY <1>1, <1>3 DEF SoloDe
    <2>2. /\ \A b \in Firmes(own, e) : asig[b] # sig[g]
          /\ tabla[e].first_block # sig[g]
          /\ \A k \in Hilos \ {g} : Arch(k) = e => dPri[k] # sig[g]
          /\ pc[g] = "enlazar" => dPri[g] # sig[g]
        BY <1>7, <2>1 DEF Bien, Nuevo
    <2>3. \A k \in Hilos \ {g} : Arch(k)' = e => dPri'[k] # sig[g]
        BY <1>1, <1>2, <2>2 DEF SoloDe
    <2> QED BY <1>2, <1>9, <2>1, <2>2, <2>3
<1>15. Lineal(own, e)'
    <2>1. SUFFICES ASSUME Recortado(e) PROVE Lineal(own, e)'
        BY DEF Lineal, Recortado
    <2>2. Lineal(own, e) /\ \A g \in Hilos : Arch(g)' = e => g = h
        BY <1>1, <1>5, <2>1 DEF Bien
    <2>3. \A x \in Firmes(own, e) : asig[x] # NIL => asig[x] # tabla[e].first_block
        BY <1>7, <2>1, <2>2 DEF Lineal
    <2>4. \A x, y \in Firmes(own, e) :
              asig[x] = asig[y] /\ asig[x] # NIL => x = y
        BY <2>1, <2>2 DEF Lineal
    <2> QED BY <1>2, <1>9, <2>2, <2>3, <2>4 DEF Lineal
<1>16. Cortes(own, e)'
    <2> SUFFICES ASSUME NEW g \in Hilos, Arch(g)' = e, EnCorte(g)'
                 PROVE  \E V \in SUBSET Bloques : Corte(own, g, V)'
        BY DEF Cortes
    <2>1. g # h /\ Arch(g) = e /\ EnCorte(g)
        BY <1>1, <1>4 DEF EnCorte, SoloDe
    <2>2. PICK V \in SUBSET Bloques : Corte(own, g, V)
        BY <2>1 DEF Bien, Cortes
    <2>3. Corte(own, g, V)'
        BY <1>1, <1>2, <1>8, <1>9, <2>1, <2>2 DEF Corte, SoloDe
    <2> QED BY <2>3
<1>17. Bien(own, e)'
    BY <1>11, <1>12, <1>13, <1>14, <1>15, <1>16 DEF Bien
<1> SUFFICES ASSUME NEW d \in Entradas PROVE Bien(own, d)'
    OBVIOUS
<1>18. CASE d = e
    BY <1>17, <1>18
<1>19. CASE d # e
    BY <1>1, <1>2, <1>19, ConstantesBloques, OtrosArchivos DEF Suyos
<1> QED BY <1>18, <1>19

-----------------------------------------------------------------------------
LEMMA RepartoInicial == Init => IInv
<1> SUFFICES ASSUME Init PROVE IInv
    OBVIOUS
<1>1. Base
    BY BaseInicial
<1> DEFINE own == [b \in Bloques |-> NIL]
<1>2. own \in Duenios
    BY DEF Duenios
<1>3. ASSUME NEW e \in Entradas PROVE Bien(own, e)
    <2>1. /\ \A h \in Hilos : Arch(h) # e
          /\ Suyos(own, e) = {} /\ Firmes(own, e) = {}
          /\ tabla[e].first_block = NIL
        BY ConstantesBloques DEF Init, Arch, NoPed, Suyos, Firmes
    <2> QED BY <2>1 DEF Bien, Encerrado, Cabezas, Recorrido, Nuevo, Lineal,
                        Cortes, De
<1> QED BY <1>1, <1>2, <1>3 DEF IInv, Base

LEMMA RepartoPaso ==
    ASSUME Base, SinRecortesCompartidos, NEW h \in Hilos, Paso(h),
           NEW own \in Duenios, \A e \in Entradas : Bien(own, e)
    PROVE  \E own2 \in Duenios : \A e \in Entradas : Bien(own2, e)'
<1>1. Base'
    BY BasePaso
<1>2. \/ \A e \in Entradas : Bien(own, e)'
      \/ \E own2 \in Duenios : \A e \in Entradas : Bien(own2, e)'
    <2>1. CASE TomarLock(h)
        BY <2>1, RepartoTomarLock
    <2>2. CASE ComprobarEspacio(h)
        BY <2>2, RepartoComprobarEspacio
    <2>3. CASE RechazarPorEspacio(h)
        BY <2>3, RepartoRechazarPorEspacio
    <2>4. CASE ObtenerTablaAsignaciones(h)
        BY <1>1, <2>4, RepartoObtenerTablaAsignaciones
    <2>5. CASE PedirPrimero(h)
        BY <2>5, RepartoPedirPrimero
    <2>6. CASE TerminarPrimero(h)
        BY <2>6, RepartoTerminarPrimero
    <2>7. CASE EscribirBloque(h)
        BY <2>7, RepartoEscribirBloque
    <2>8. CASE PedirBloque(h)
        BY <2>8, RepartoPedirBloque
    <2>9. CASE Enlazar(h)
        BY <2>9, RepartoEnlazar
    <2>10. CASE Terminar(h)
        BY <2>10, RepartoTerminar
    <2>11. CASE QuedarseSinBloque(h)
        BY <2>11, RepartoQuedarseSinBloque
    <2>12. CASE Recorrer(h)
        BY <2>12, RepartoRecorrer
    <2>13. CASE Cortar(h)
        BY <2>13, RepartoCortar
    <2>14. CASE Liberar(h)
        BY <2>14, RepartoLiberar
    <2>15. CASE ReemplazarEstructuraDeArchivo(h)
        BY <2>15, RepartoReemplazarEstructuraDeArchivo
    <2> QED BY <2>1, <2>2, <2>3, <2>4, <2>5, <2>6, <2>7, <2>8, <2>9, <2>10,
               <2>11, <2>12, <2>13, <2>14, <2>15 DEF Paso
<1> QED BY <1>2

LEMMA RepartoInductivo ==
    ASSUME SinRecortesCompartidos, IInv, [Next]_vars
    PROVE  IInv'
<1>1. Base
    BY DEF IInv, Base
<1>2. PICK own \in Duenios : \A e \in Entradas : Bien(own, e)
    BY DEF IInv
<1>3. CASE UNCHANGED vars
    <2>1. \A e \in Entradas : Igual(own, own, e)
        BY <1>3 DEF vars, Igual, Arch, Suyos
    <2>2. \A e \in Entradas : Bien(own, e)'
        BY <1>2, <2>1, Marco
    <2>3. Base'
        BY <1>1, <1>3 DEF vars, Base, TypeOK, Control, Arch, Pendiente
    <2> QED BY <2>2, <2>3 DEF IInv, Base
<1>4. ASSUME NEW h \in Hilos, NEW p \in Pedidos, LeerPath(h, p)
      PROVE  IInv'
    <2>1. \A e \in Entradas : Bien(own, e)'
        BY <1>1, <1>2, <1>4, RepartoLeerPath
    <2>2. Base'
        BY <1>1, <1>4, BaseLeerPath
    <2> QED BY <2>1, <2>2 DEF IInv, Base
<1>5. ASSUME NEW h \in Hilos, Paso(h)
      PROVE  IInv'
    <2>1. \E own2 \in Duenios : \A e \in Entradas : Bien(own2, e)'
        BY <1>1, <1>2, <1>5, RepartoPaso
    <2>2. Base'
        BY <1>1, <1>5, BasePaso
    <2> QED BY <2>1, <2>2 DEF IInv, Base
<1> QED BY <1>3, <1>4, <1>5 DEF Next, PathInexistente

(* The invariant that makes the block manager correct: blocks can always   *)
(* be given owners that the chains and the threads respect.  It asks that  *)
(* only one client work on a file that somebody truncates or deletes (the  *)
(* run OsadaCruce shows what happens when several do).                     *)
THEOREM RepartoSiempre ==
    ASSUME SinRecortesCompartidos
    PROVE  Spec => []IInv
<1>1. IInv /\ [Next]_vars => IInv'
    BY RepartoInductivo
<1> QED BY RepartoInicial, <1>1, PTL DEF Spec

-----------------------------------------------------------------------------
(* A sound file reaches blocks of its own only.                            *)
LEMMA CadenaPropia ==
    ASSUME NEW own, NEW e \in Entradas, Bien(own, e), Sana(e)
    PROVE  Cadena(e) \subseteq Suyos(own, e)
<1>1. CabezaFirme(e) /\ \A h \in Hilos : Arch(h) = e => pc[h] # "terminar"
    BY DEF Sana, EnVentana, CabezaFirme
<1>2. \A h \in Hilos : Arch(h) = e /\ Pendiente(h) =>
          /\ \A b \in Firmes(own, e) : asig[b] # sig[h]
          /\ tabla[e].first_block # sig[h]
    BY <1>1 DEF Bien, Nuevo, Pendiente
<1>3. tabla[e].first_block = NIL \/ tabla[e].first_block \in Firmes(own, e)
    BY <1>1, <1>2 DEF Bien, Cabezas, De, Firmes
<1>4. Cerrado(asig, Firmes(own, e))
    BY <1>2 DEF Bien, Encerrado, De, Cerrado, Firmes
<1>5. Firmes(own, e) \in SUBSET Bloques /\ Firmes(own, e) \subseteq Suyos(own, e)
    BY DEF Firmes, Suyos
<1> QED BY <1>3, <1>4, <1>5, AlcanzablesAcotados DEF Cadena

(* No block belongs to two files: two clients that write, each through its *)
(* own stale copy of the descriptor, are never given the same block.       *)
THEOREM CadenasSiempreDisjuntas ==
    ASSUME SinRecortesCompartidos
    PROVE  Spec => []CadenasDisjuntas
<1>1. IInv => CadenasDisjuntas
    BY CadenaPropia DEF IInv, CadenasDisjuntas, Suyos
<1> QED BY <1>1, RepartoSiempre, PTL

(* Every block a file reaches is marked, so that nobody is given it.       *)
THEOREM CadenasSiempreOcupadas ==
    ASSUME SinRecortesCompartidos
    PROVE  Spec => []CadenasOcupadas
<1>1. IInv => CadenasOcupadas
    <2> SUFFICES ASSUME IInv, NEW e \in Entradas, Sana(e), NEW b \in Cadena(e)
                 PROVE  bitmap[b]
        BY DEF CadenasOcupadas
    <2>1. PICK own \in Duenios : \A d \in Entradas : Bien(own, d)
        BY DEF IInv
    <2>2. b \in Suyos(own, e)
        BY <2>1, CadenaPropia
    <2> QED BY <2>1, <2>2 DEF Bien, Encerrado
<1> QED BY <1>1, RepartoSiempre, PTL

(* A write lands in a block of its own file.                               *)
THEOREM EscribeSiempreEnLoSuyo ==
    ASSUME SinRecortesCompartidos
    PROVE  Spec => []EscribeEnLoSuyo
<1>1. IInv => EscribeEnLoSuyo
    <2> SUFFICES ASSUME IInv, NEW h \in Hilos, pc[h] = "escribir"
                 PROVE  /\ blq[h] # NIL
                        /\ bitmap[blq[h]]
                        /\ \A e \in Entradas \ {Arch(h)} :
                               Sana(e) => blq[h] \notin Cadena(e)
        BY DEF EscribeEnLoSuyo
    <2>1. PICK own \in Duenios : \A d \in Entradas : Bien(own, d)
        BY DEF IInv
    <2>2. Arch(h) \in Entradas
        BY ConArchivo DEF IInv, Base
    <2>3. blq[h] \in Suyos(own, Arch(h))
        BY <2>1, <2>2 DEF Bien, Recorrido, Firmes
    <2>4. blq[h] # NIL /\ bitmap[blq[h]]
        BY <2>1, <2>2, <2>3, ConstantesBloques DEF Bien, Encerrado, Suyos
    <2>5. ASSUME NEW e \in Entradas \ {Arch(h)}, Sana(e)
          PROVE  blq[h] \notin Cadena(e)
        BY <2>1, <2>3, <2>5, CadenaPropia DEF Suyos
    <2> QED BY <2>4, <2>5
<1> QED BY <1>1, RepartoSiempre, PTL
=============================================================================
