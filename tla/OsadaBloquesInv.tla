-------------------------- MODULE OsadaBloquesInv --------------------------
(***************************************************************************)
(* The inductive invariant of OsadaBloques.  It says that the blocks can   *)
(* be given owners: own[b] is the file that b belongs to, or NIL for a     *)
(* block that no chain and no thread can reach.  The code keeps no such    *)
(* record, so the invariant asserts that one exists.                       *)
(***************************************************************************)
EXTENDS OsadaBloques

(* A file that somebody cuts or deletes is in the hands of one client.     *)
SinRecortesCompartidos ==
    \A p, q \in Pedidos :
        p.arch = q.arch /\ p.hilo # q.hilo => p.op \in {"editar", "utimens"}

Recortado(e) ==
    \E p \in Pedidos : p.arch = e /\ p.op \in {"truncar", "eliminar"}

ConSnap == {"primero", "termPrimero", "escribir", "pedir", "enlazar",
            "terminar", "recorrer", "cortar", "liberar"}
Antes == {"lock", "espacio", "asignaciones", "primero"}
Pendiente(h) == pc[h] \in {"termPrimero", "enlazar", "terminar"}

(* The blocks of a file, and among them those whose entry of the           *)
(* allocation table is meaningful: not a new block that still has to be    *)
(* made the end of its chain.                                              *)
Suyos(own, e) == {b \in Bloques : own[b] = e}

Firmes(own, e) ==
    {b \in Suyos(own, e) :
        \A h \in Hilos : Arch(h) = e /\ Pendiente(h) => sig[h] # b}

De(own, p, e) == p = NIL \/ p \in Suyos(own, e)

-----------------------------------------------------------------------------
(* What a thread is doing agrees with the request it serves and with the   *)
(* locks it holds.                                                         *)
Control(h) ==
    /\ pc[h] = "libre" => ped[h] = NoPed /\ dPri[h] = NIL
    /\ pc[h] # "libre" => ped[h] \in Pedidos /\ ped[h].hilo = h
    /\ pc[h] # "libre" => modo[h] \in Operaciones
    /\ pc[h] \in ConSnap => modo[h] \in {"editar", "truncar", "eliminar"}
    /\ pc[h] \in ConSnap \cup {"asignaciones"} /\ modo[h] # "eliminar"
           => lock[Arch(h)] = h
    /\ pc[h] = "espacio" => lock[Arch(h)] = h
    /\ modo[h] = "truncar" => ped[h].op = "truncar"
    /\ modo[h] = "eliminar" <=> ped[h].op = "eliminar"
    /\ modo[h] = "editar" => ped[h].op \in {"editar", "truncar"}
    /\ modo[h] = "utimens" <=> ped[h].op = "utimens"
    /\ modo[h] = "editar" => 
           pc[h] \notin {"recorrer", "cortar", "liberar", "colgado"}
    /\ modo[h] = "truncar" => pc[h] # "escribir"
    /\ modo[h] = "eliminar" =>
           pc[h] \in {"asignaciones", "liberar", "colgado", "reemplazar"}
    /\ modo[h] = "utimens" => pc[h] = "reemplazar"
    /\ pc[h] = "liberar" /\ modo[h] = "eliminar" => sig[h] = dPri[h]
    /\ pc[h] \in {"espacio", "asignaciones", "primero", "termPrimero"}
           /\ modo[h] = "truncar" => ini[h] = ped[h].bytes
    /\ pc[h] = "primero" => dPri[h] = NIL
    /\ Pendiente(h) => sig[h] \in Bloques
    /\ pc[h] = "termPrimero" => dPri[h] = sig[h] /\ blq[h] = sig[h]
    /\ modo[h] = "editar" /\ pc[h] \in {"escribir", "pedir", "enlazar",
                                       "terminar"} => blq[h] \in Bloques

(* Owned blocks are marked, and a chain stays inside its file.             *)
Encerrado(own, e) ==
    /\ \A b \in Suyos(own, e) : bitmap[b]
    /\ \A b \in Firmes(own, e) : De(own, asig[b], e)

(* The heads of the chains, on disk and in the copies of the descriptors.  *)
CabezaFirme(e) == Activa(e) /\ \A h \in Hilos : Arch(h) = e => ~CabezaVieja(h)

Cabezas(own, e) ==
    /\ CabezaFirme(e) => De(own, tabla[e].first_block, e)
    /\ \A h \in Hilos :
           Arch(h) = e /\ ~CabezaVieja(h) => De(own, dPri[h], e)

(* The pointers a thread walks with, and its copy of the allocation table. *)
Recorrido(own, e) ==
    \A h \in Hilos : Arch(h) = e =>
        /\ pc[h] \in {"escribir", "pedir", "enlazar", "terminar"} =>
               blq[h] \in Firmes(own, e)
        /\ Pendiente(h) => sig[h] \in Suyos(own, e)
        /\ pc[h] \in ConSnap =>
               \A b \in Firmes(own, e) : snap[h][b] = asig[b]

(* A new block is reached by nothing before it is linked.                  *)
Nuevo(own, e) ==
    \A h \in Hilos : Arch(h) = e /\ pc[h] \in {"termPrimero", "enlazar"} =>
        /\ \A b \in Firmes(own, e) : asig[b] # sig[h]
        /\ CabezaFirme(e) => tabla[e].first_block # sig[h]
        /\ \A g \in Hilos \ {h} : Arch(g) = e => dPri[g] # sig[h]
        /\ pc[h] = "enlazar" => dPri[h] # sig[h]

(* In a file that is cut, a block has one predecessor at most and the      *)
(* first block has none.                                                   *)
Lineal(own, e) ==
    Recortado(e) =>
        /\ \A b, c \in Firmes(own, e) :
               asig[b] = asig[c] /\ asig[b] # NIL => b = c
        /\ \A b \in Firmes(own, e) : asig[b] # NIL =>
               /\ CabezaFirme(e) => asig[b] # tabla[e].first_block
               /\ \A h \in Hilos :
                      Arch(h) = e /\ ~CabezaVieja(h) => asig[b] # dPri[h]
        /\ \A h \in Hilos : Arch(h) = e /\ CabezaFirme(e) =>
               /\ tabla[e].first_block \in {NIL, dPri[h]} \/ dPri[h] = NIL
               /\ pc[h] \in Antes /\ dPri[h] = NIL =>
                      tabla[e].first_block = NIL

(* While a file is cut: V is what the walk has left behind, closed but for *)
(* the block the walk is at; what lies ahead of it is closed too.          *)
Corte(own, h, V) ==
    LET e == Arch(h)
        O == Suyos(own, e) IN
    /\ V \subseteq Firmes(own, e)
    /\ \A b \in Firmes(own, e) \ V : asig[b] = NIL \/ asig[b] \in O \ V
    /\ \A b \in V : b # blq[h] \/ pc[h] = "liberar" =>
                        asig[b] = NIL \/ asig[b] \in V
    /\ sig[h] # NIL => sig[h] \in O \ V
    /\ V = {} => /\ ini[h] = ped[h].bytes
                 /\ pc[h] \in {"recorrer", "cortar", "liberar"}
                 /\ pc[h] # "liberar" => sig[h] = dPri[h]
                 /\ pc[h] # "recorrer" \/ dPri[h] = NIL => ini[h] <= 0
                 /\ pc[h] = "liberar" => dPri[h] = NIL
    /\ V # {} => /\ dPri[h] \in V
                 /\ pc[h] # "liberar" =>
                        /\ blq[h] \in V
                        /\ asig[blq[h]] =
                               IF pc[h] = "enlazar" THEN NIL ELSE sig[h]
                 /\ pc[h] = "pedir" => sig[h] = NIL

EnCorte(h) == /\ modo[h] = "truncar"
              /\ pc[h] \in {"recorrer", "pedir", "enlazar", "terminar",
                            "cortar", "liberar"}

Cortes(own, e) ==
    \A h \in Hilos : Arch(h) = e /\ EnCorte(h) =>
        \E V \in SUBSET Bloques : Corte(own, h, V)

Bien(own, e) ==
    /\ Encerrado(own, e)
    /\ Cabezas(own, e)
    /\ Recorrido(own, e)
    /\ Nuevo(own, e)
    /\ Lineal(own, e)
    /\ Cortes(own, e)

Duenios == [Bloques -> Entradas \cup {NIL}]

IInv == /\ TypeOK
        /\ \A h \in Hilos : Control(h)
        /\ \E own \in Duenios : \A e \in Entradas : Bien(own, e)
-----------------------------------------------------------------------------
(* Nothing leaks when each file is in the hands of one client.             *)
CadaArchivoDeUno ==
    \A p, q \in Pedidos : p.arch = q.arch => p.hilo = q.hilo

(* The allocation table as it will be once a new block ends its chain, and *)
(* the blocks that the copy of the descriptor then leads to.               *)
Vista(h) == IF Pendiente(h) THEN [asig EXCEPT ![sig[h]] = NIL] ELSE asig
Llega(h) == Alcanzables(Vista(h), dPri[h])

(* A block that the thread keeps for its file, or is about to free.        *)
EnCurso(h, b) ==
    \/ b \in Llega(h) /\ ~(pc[h] = "reemplazar" /\ ped[h].op = "eliminar")
    \/ pc[h] = "enlazar" /\ b = sig[h]
    \/ pc[h] = "liberar" /\ b \in Alcanzables(asig, sig[h])

EnReposo(e) == Activa(e) /\ \A h \in Hilos : Arch(h) # e

Sostenido(b) ==
    \/ \E e \in Entradas : EnReposo(e) /\ b \in Cadena(e)
    \/ \E h \in Hilos : pc[h] # "libre" /\ EnCurso(h, b)

(* A thread has its file's descriptor as it is on disk until it changes    *)
(* the chain, and it only walks and extends that chain.                    *)
SinTocar(h) ==
    pc[h] = "lock" \/ (pc[h] = "espacio" /\ modo[h] = ped[h].op)

Fiel(h) ==
    /\ SinTocar(h) =>
           Activa(Arch(h)) /\ tabla[Arch(h)].first_block = dPri[h]
    /\ pc[h] \in {"escribir", "pedir", "enlazar", "terminar", "recorrer"} =>
           blq[h] \in Llega(h) \cup {NIL}
    /\ pc[h] \in {"recorrer", "terminar"} => sig[h] \in Llega(h) \cup {NIL}
    /\ pc[h] \in {"pedir", "enlazar"} => asig[blq[h]] = NIL

SinColgar == vivo /\ \A h \in Hilos : pc[h] # "colgado"

NadaSePierde ==
    SinColgar => /\ \A h \in Hilos : pc[h] # "libre" => Fiel(h)
                 /\ \A b \in Bloques : bitmap[b] => Sostenido(b)

(* No chain goes round in circles: the one a thread will leave, the tail   *)
(* it is about to free, and the part of a file that a truncation has left  *)
(* behind, which ends at the block the walk is at and nowhere else.        *)
Recorridos(h) == Alcanzables([asig EXCEPT ![blq[h]] = NIL], dPri[h])

SinCiclos(h) ==
    /\ ~(pc[h] = "reemplazar" /\ ped[h].op = "eliminar") =>
           ~NoTermina(Vista(h), dPri[h])
    /\ pc[h] = "liberar" => ~NoTermina(asig, sig[h])
    /\ EnCorte(h) /\ pc[h] # "liberar" /\ sig[h] # dPri[h] =>
           /\ blq[h] \in Recorridos(h)
           /\ \A b \in Recorridos(h) \ {blq[h]} : asig[b] # NIL

NadieSeCuelga ==
    /\ \A h \in Hilos : pc[h] # "libre" => pc[h] # "colgado" /\ SinCiclos(h)
    /\ \A e \in Entradas : EnReposo(e) => ~NoTermina(asig, tabla[e].first_block)

(* How long the chains are.  A chain fits a size when it has the blocks    *)
(* that the size asks for and not one more; of a file written past its end *)
(* it only covers the size.                                                *)
Bytes(n) == TamBloque * n
Justa(n, bytes) == bytes <= Bytes(n) /\ Bytes(n) < bytes + TamBloque
Ajustada(e, n, bytes) ==
    bytes <= Bytes(n) /\ (e \notin huecos => Justa(n, bytes))

(* No request goes beyond what the 32 bits of a size can say.              *)
SinDesborde == \A p \in Pedidos : p.ini + p.bytes < Modulo

(* The byte at which the request ends, and the size it leaves.             *)
Meta(h) == IF ped[h].op = "truncar" THEN ped[h].bytes
           ELSE ped[h].ini + ped[h].bytes
Tope(h) == IF ped[h].op = "truncar" \/ (ped[h].op = "editar" /\ dTam[h] < Meta(h))
           THEN Meta(h) ELSE dTam[h]

(* The blocks of the chain a thread will leave, those of them that the     *)
(* walk of a write still has ahead, and those a truncation left behind.    *)
Largo(h) == Cardinality(Llega(h))
PorEscribir(h) == Cardinality(Alcanzables(asig, blq[h]))
Dejados(h) == IF sig[h] = dPri[h] THEN 0 ELSE Cardinality(Recorridos(h))

(* A truncation leaves an exact chain whatever it found.                   *)
Exacta(h) == ped[h].op = "truncar" \/ Arch(h) \notin huecos

MedidaAlEditar(h) ==
    /\ pc[h] # "reemplazar" /\ pc[h] # "lock" =>
           res[h] > 0 /\ ini[h] >= 0
    /\ pc[h] \in {"espacio", "asignaciones", "primero", "termPrimero"} =>
           ini[h] + res[h] = Meta(h)
    /\ pc[h] \in {"espacio", "asignaciones"} /\ ped[h].op = "truncar" =>
           Justa(Largo(h), ped[h].bytes)
    /\ pc[h] = "escribir" =>
           /\ Bytes(Largo(h)) + ini[h] + res[h] = Meta(h) + Bytes(PorEscribir(h))
           /\ Exacta(h) => Bytes(Largo(h)) < Tope(h) + TamBloque
    /\ pc[h] \in {"pedir", "enlazar"} =>
           Bytes(Largo(h)) + ini[h] + res[h] = Meta(h)
    /\ pc[h] = "terminar" =>
           Bytes(Largo(h)) + ini[h] + res[h] = Meta(h) + TamBloque

MedidaAlTruncar(h) ==
    /\ Bytes(Dejados(h)) + ini[h] = ped[h].bytes
    /\ ini[h] > -TamBloque
    /\ pc[h] \in {"pedir", "enlazar", "terminar"} => ini[h] > 0
    /\ pc[h] = "cortar" => ini[h] <= 0

Medida(h) ==
    /\ dTam[h] < Modulo
    /\ SinTocar(h) => dTam[h] = tabla[Arch(h)].file_size
    /\ pc[h] = "lock" => modo[h] = ped[h].op
    /\ ped[h].op = "editar" => ped[h].bytes > 0 /\ dTam[h] <= Bytes(Largo(h))
    /\ SinTocar(h) \/ (pc[h] \in {"asignaciones", "primero"} /\ modo[h] = ped[h].op)
           => Ajustada(Arch(h), Largo(h), dTam[h])
    /\ modo[h] = "editar" => MedidaAlEditar(h)
    /\ EnCorte(h) /\ pc[h] # "liberar" => MedidaAlTruncar(h)
    /\ EnCorte(h) /\ pc[h] = "liberar" => Justa(Largo(h), ped[h].bytes)
    /\ pc[h] = "reemplazar" /\ ped[h].op # "eliminar" =>
           Tope(h) <= Bytes(Largo(h)) /\ (Exacta(h) => Justa(Largo(h), Tope(h)))

MedidaDe(e) == /\ tabla[e].file_size < Modulo
               /\ Ajustada(e, Cardinality(Cadena(e)), tabla[e].file_size)

Medidas ==
    /\ \A h \in Hilos : pc[h] # "libre" => Medida(h)
    /\ \A e \in Entradas : EnReposo(e) => MedidaDe(e)

(* Room for one client: the blocks of its chain and those that are free    *)
(* hold what its request asks for, from the test for room to the last      *)
(* block taken, unless it writes past the end of its file.                 *)
UnSoloCliente == \A g, h \in Hilos : g = h

Reservado(h) == IF pc[h] = "enlazar" THEN 1 ELSE 0
Cupo(h) == Largo(h) + ObtenerBloquesLibres + Reservado(h)

ConLugar == {"asignaciones", "primero", "termPrimero", "escribir", "pedir",
             "enlazar", "terminar", "recorrer"}

Cabe(h) ==
    /\ pc[h] \in ConLugar /\ modo[h] # "eliminar" => Meta(h) <= Bytes(Cupo(h))
    /\ pc[h] = "espacio" /\ ped[h].op = "editar" => ini[h] = ped[h].ini
    /\ pc[h] = "primero" => Meta(h) > 0
    /\ pc[h] = "pedir" /\ modo[h] = "truncar" => sig[h] = NIL

HayLugar ==
    /\ NuncaSinBloque
    /\ \A h \in Hilos : pc[h] # "libre" /\ ~PasadoDelFinal(h) => Cabe(h)

(* What holds of one client whatever it asks for, taken together.          *)
Ordenado == NadaSePierde /\ NadieSeCuelga /\ Medidas /\ HayLugar
=============================================================================
