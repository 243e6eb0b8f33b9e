------------------------- MODULE OsadaFugas_proofs -------------------------
(***************************************************************************)
(* Proofs about the chains of OsadaBloques when each file is in the hands  *)
(* of one client: what a chain reaches, that no block leaks, that no chain *)
(* goes round in circles, that a file has the blocks its size asks for     *)
(* unless it was written past its end, and that a client that works alone  *)
(* runs out of blocks only in such a write.                                *)
(***************************************************************************)
EXTENDS OsadaBloques_proofs, FiniteSetTheorems

(* The blocks a walk reaches: they hold the first one and are closed.      *)
LEMMA AlcanzablesCerrados ==
    ASSUME NEW f \in [Bloques -> Punteros], NEW p
    PROVE  /\ Cerrado(f, Alcanzables(f, p))
           /\ Alcanzables(f, p) \subseteq Bloques
           /\ p \in Bloques => p \in Alcanzables(f, p)
           /\ p = NIL => Alcanzables(f, p) = {}
<1>1. ASSUME NEW b \in Alcanzables(f, p), f[b] # NIL
      PROVE  f[b] \in Alcanzables(f, p)
    <2>1. b \in Bloques /\ f[b] \in Bloques /\ p # NIL
        BY <1>1 DEF Alcanzables, Punteros
    <2>2. ASSUME NEW S \in SUBSET Bloques, p \in S, Cerrado(f, S)
          PROVE  f[b] \in S
        BY <1>1, <2>2 DEF Alcanzables, Cerrado
    <2> QED BY <2>1, <2>2 DEF Alcanzables
<1>2. Cerrado(f, Alcanzables(f, p))
    BY <1>1 DEF Cerrado
<1>3. Alcanzables(f, p) \subseteq Bloques
    BY DEF Alcanzables
<1>4. p \in Bloques => p \in Alcanzables(f, p)
    BY ConstantesBloques DEF Alcanzables
<1>5. p = NIL => Alcanzables(f, p) = {}
    BY DEF Alcanzables
<1> QED BY <1>2, <1>3, <1>4, <1>5

(* Two tables that agree on a closed set lead a walk inside it to the same *)
(* blocks.                                                                 *)
LEMMA AlcanzablesIguales ==
    ASSUME NEW f \in [Bloques -> Punteros], NEW g \in [Bloques -> Punteros],
           NEW S \in SUBSET Bloques, Cerrado(f, S), \A b \in S : f[b] = g[b],
           NEW p, p = NIL \/ p \in S
    PROVE  Alcanzables(g, p) = Alcanzables(f, p)
<1>1. CASE p = NIL
    BY <1>1 DEF Alcanzables
<1>2. CASE p \in S
    <2>1. Cerrado(g, S)
        BY DEF Cerrado
    <2>2. ASSUME NEW F, NEW G, NEW R \in SUBSET Bloques, R \subseteq S,
                 p \in R, Cerrado(F, R), \A b \in S : F[b] = G[b]
          PROVE  Alcanzables(G, p) \subseteq R
        <3>1. Cerrado(G, R)
            BY <2>2 DEF Cerrado
        <3> QED BY <2>2, <3>1, AlcanzablesAcotados
    <2>3. /\ Alcanzables(f, p) \in SUBSET Bloques /\ Alcanzables(f, p) \subseteq S
          /\ p \in Alcanzables(f, p) /\ Cerrado(f, Alcanzables(f, p))
        BY <1>2, AlcanzablesCerrados, AlcanzablesAcotados
    <2>4. /\ Alcanzables(g, p) \in SUBSET Bloques /\ Alcanzables(g, p) \subseteq S
          /\ p \in Alcanzables(g, p) /\ Cerrado(g, Alcanzables(g, p))
        BY <1>2, <2>1, AlcanzablesCerrados, AlcanzablesAcotados
    <2>5. Alcanzables(g, p) \subseteq Alcanzables(f, p)
        BY <2>2, <2>3
    <2>6. Alcanzables(f, p) \subseteq Alcanzables(g, p)
        BY <2>2, <2>4
    <2> QED BY <2>5, <2>6
<1> QED BY <1>1, <1>2

(* A block linked to the end of a chain is reached, and so is the rest.    *)
LEMMA Alargar ==
    ASSUME NEW f \in [Bloques -> Punteros], NEW p, NEW b \in Bloques,
           b \in Alcanzables(f, p), f[b] = NIL, NEW v \in Bloques
    PROVE  Alcanzables(f, p) \cup {v} \subseteq
               Alcanzables([f EXCEPT ![b] = v], p)
<1> DEFINE g == [f EXCEPT ![b] = v]
<1>1. ASSUME NEW S \in SUBSET Bloques, p \in S, Cerrado(g, S)
      PROVE  Alcanzables(f, p) \subseteq S /\ v \in S
    <2>1. Cerrado(f, S)
        BY <1>1 DEF Cerrado
    <2>2. Alcanzables(f, p) \subseteq S
        BY <1>1, <2>1, AlcanzablesAcotados
    <2>3. b \in S /\ g[b] = v /\ v # NIL
        BY <2>2, ConstantesBloques
    <2> QED BY <1>1, <2>2, <2>3 DEF Cerrado
<1>2. p # NIL /\ Alcanzables(f, p) \subseteq Bloques
    BY DEF Alcanzables
<1> QED BY <1>1, <1>2 DEF Alcanzables

(* A chain that is cut falls into what its head still reaches and the tail *)
(* that was cut off.                                                       *)
LEMMA Partir ==
    ASSUME NEW f \in [Bloques -> Punteros], NEW p \in Punteros,
           NEW b \in Bloques
    PROVE  Alcanzables(f, p) \subseteq
               Alcanzables([f EXCEPT ![b] = NIL], p)
               \cup Alcanzables([f EXCEPT ![b] = NIL], f[b])
<1> DEFINE g == [f EXCEPT ![b] = NIL]
           U == Alcanzables(g, p) \cup Alcanzables(g, f[b])
<1>1. g \in [Bloques -> Punteros] /\ f[b] \in Punteros
    BY DEF Punteros
<1>2. /\ Cerrado(g, Alcanzables(g, p)) /\ Cerrado(g, Alcanzables(g, f[b]))
      /\ U \in SUBSET Bloques
      /\ p \in Bloques => p \in U
      /\ f[b] \in Bloques => f[b] \in U
    BY <1>1, AlcanzablesCerrados
<1>3. ASSUME NEW x \in U PROVE f[x] = NIL \/ f[x] \in U
    <2>1. CASE x = b
        BY <2>1, <1>1, <1>2 DEF Punteros
    <2>2. CASE x # b
        <3>1. g[x] = f[x]
            BY <1>2, <1>3, <2>2
        <3> QED BY <1>2, <3>1 DEF Cerrado
    <2> QED BY <2>1, <2>2
<1>4. Cerrado(f, U)
    BY <1>3 DEF Cerrado
<1>5. p = NIL \/ p \in U
    BY <1>2 DEF Punteros
<1>6. Alcanzables(f, p) \subseteq U
    <2> HIDE DEF U
    <2> QED BY <1>2, <1>4, <1>5, AlcanzablesAcotados
<1> QED BY <1>6

-----------------------------------------------------------------------------
(* A file in the hands of one client has one thread at most.               *)
LEMMA SoloUno ==
    ASSUME Base, CadaArchivoDeUno, NEW h \in Hilos, pc[h] # "libre",
           NEW g \in Hilos, Arch(g) = Arch(h)
    PROVE  g = h
<1>1. Arch(h) \in Entradas /\ ped[h] \in Pedidos /\ ped[h].hilo = h
    BY ConArchivo
<1>2. ped[g] # NoPed
    BY <1>1, ConstantesBloques DEF Arch, NoPed
<1>3. ped[g] \in Pedidos /\ ped[g].hilo = g
    BY <1>2 DEF Base, Control
<1> QED BY <1>1, <1>3 DEF CadaArchivoDeUno, Arch

LEMMA DeUnoSinRecortes ==
    ASSUME CadaArchivoDeUno PROVE SinRecortesCompartidos
BY DEF CadaArchivoDeUno, SinRecortesCompartidos

(* The blocks of a thread's file, as it sees them, are closed, and it      *)
(* starts from one of them.                                                *)
LEMMA VistaPropia ==
    ASSUME Base, CadaArchivoDeUno, NEW own, NEW h \in Hilos, pc[h] # "libre",
           Bien(own, Arch(h))
    PROVE  /\ Vista(h) \in [Bloques -> Punteros]
           /\ Suyos(own, Arch(h)) \in SUBSET Bloques
           /\ Cerrado(Vista(h), Suyos(own, Arch(h)))
           /\ ~CabezaVieja(h) => De(own, dPri[h], Arch(h))
           /\ Firmes(own, Arch(h)) = IF Pendiente(h)
                                     THEN Suyos(own, Arch(h)) \ {sig[h]}
                                     ELSE Suyos(own, Arch(h))
           /\ \A b \in Firmes(own, Arch(h)) : Vista(h)[b] = asig[b]
<1>1. asig \in [Bloques -> Punteros] /\ (Pendiente(h) => sig[h] \in Bloques)
    BY DEF Base, TypeOK, Control
<1>2. Vista(h) \in [Bloques -> Punteros]
    BY <1>1 DEF Vista, Punteros
<1>3. Suyos(own, Arch(h)) \in SUBSET Bloques
    BY DEF Suyos
<1>4. \A g \in Hilos : Arch(g) = Arch(h) => g = h
    BY SoloUno
<1>5. Firmes(own, Arch(h)) = IF Pendiente(h)
                             THEN Suyos(own, Arch(h)) \ {sig[h]}
                             ELSE Suyos(own, Arch(h))
    BY <1>4 DEF Firmes
<1>6. \A b \in Firmes(own, Arch(h)) : Vista(h)[b] = asig[b]
    BY <1>1, <1>3, <1>5 DEF Vista
<1>7. ASSUME NEW b \in Suyos(own, Arch(h))
      PROVE  Vista(h)[b] = NIL \/ Vista(h)[b] \in Suyos(own, Arch(h))
    <2>1. CASE b \in Firmes(own, Arch(h))
        BY <2>1, <1>6 DEF Bien, Encerrado, De
    <2>2. CASE b \notin Firmes(own, Arch(h))
        BY <2>2, <1>1, <1>3, <1>5 DEF Vista
    <2> QED BY <2>1, <2>2
<1>8. ~CabezaVieja(h) => De(own, dPri[h], Arch(h))
    BY DEF Bien, Cabezas
<1> QED BY <1>2, <1>3, <1>5, <1>6, <1>7, <1>8 DEF Cerrado

(* The tail that is about to be freed is of the file too.                  *)
LEMMA ColaPropia ==
    ASSUME Base, CadaArchivoDeUno, NEW own, NEW h \in Hilos,
           pc[h] = "liberar", Bien(own, Arch(h))
    PROVE  De(own, sig[h], Arch(h))
<1>1. modo[h] \in {"truncar", "eliminar"} /\ (modo[h] = "eliminar" => sig[h] = dPri[h])
    BY DEF Base, Control, ConSnap
<1>2. CASE modo[h] = "eliminar"
    BY <1>1, <1>2 DEF Bien, Cabezas, CabezaVieja
<1>3. CASE modo[h] = "truncar"
    <2>1. \E V \in SUBSET Bloques : Corte(own, h, V)
        BY <1>3 DEF Bien, Cortes, EnCorte
    <2> QED BY <2>1 DEF Corte, De
<1> QED BY <1>1, <1>2, <1>3

(* What other threads write is nothing to a thread and its file.           *)
LEMMA HiloAjeno ==
    ASSUME Base, CadaArchivoDeUno, NEW own, NEW g \in Hilos, pc[g] # "libre",
           pc[g] # "colgado", Bien(own, Arch(g)), asig' \in [Bloques -> Punteros],
           \A b \in Suyos(own, Arch(g)) : asig'[b] = asig[b],
           tabla'[Arch(g)] = tabla[Arch(g)],
           pc'[g] = pc[g], ped'[g] = ped[g], modo'[g] = modo[g],
           dPri'[g] = dPri[g], blq'[g] = blq[g], sig'[g] = sig[g]
    PROVE  /\ Fiel(g) => Fiel(g)'
           /\ \A b \in Bloques : EnCurso(g, b) => EnCurso(g, b)'
<1> DEFINE S == Suyos(own, Arch(g))
<1>1. /\ Vista(g) \in [Bloques -> Punteros] /\ S \in SUBSET Bloques
      /\ Cerrado(Vista(g), S)
      /\ ~CabezaVieja(g) => De(own, dPri[g], Arch(g))
      /\ Firmes(own, Arch(g)) = IF Pendiente(g) THEN S \ {sig[g]} ELSE S
    BY VistaPropia
<1>2. (Pendiente(g)' <=> Pendiente(g)) /\ Arch(g)' = Arch(g)
    BY DEF Pendiente, Arch
<1>3. asig \in [Bloques -> Punteros] /\ (Pendiente(g) => sig[g] \in Bloques)
    BY DEF Base, TypeOK, Control
<1>4. Vista(g)' \in [Bloques -> Punteros]
    BY <1>2, <1>3 DEF Vista, Punteros
<1>5. \A b \in S : Vista(g)[b] = Vista(g)'[b]
    BY <1>1, <1>2, <1>3 DEF Vista
<1>6. ~CabezaVieja(g) => Llega(g)' = Llega(g)
    <2>1. SUFFICES ASSUME ~CabezaVieja(g) PROVE Llega(g)' = Llega(g)
        OBVIOUS
    <2>2. dPri[g] = NIL \/ dPri[g] \in S
        BY <1>1, <2>1 DEF De
    <2>3. Alcanzables(Vista(g)', dPri[g]) = Alcanzables(Vista(g), dPri[g])
        <3> HIDE DEF S
        <3> QED BY <1>1, <1>4, <1>5, <2>2, AlcanzablesIguales
    <2> QED BY <2>3 DEF Llega
<1>7. pc[g] = "liberar" => Alcanzables(asig', sig[g]) = Alcanzables(asig, sig[g])
    <2>1. SUFFICES ASSUME pc[g] = "liberar"
                   PROVE  Alcanzables(asig', sig[g]) = Alcanzables(asig, sig[g])
        OBVIOUS
    <2>2. sig[g] = NIL \/ sig[g] \in S
        BY <2>1, ColaPropia DEF De
    <2>3. Cerrado(asig, S)
        BY <1>1, <2>1 DEF Vista, Pendiente
    <2>4. \A b \in S : asig[b] = asig'[b]
        OBVIOUS
    <2> HIDE DEF S
    <2> QED BY <1>1, <1>3, <2>2, <2>3, <2>4, AlcanzablesIguales
<1>8. pc[g] \in {"pedir", "enlazar"} => blq[g] \in S
    BY DEF Bien, Recorrido, Firmes
<1>9. Fiel(g) => Fiel(g)'
    <2>1. pc[g] \in {"escribir", "pedir", "enlazar", "terminar", "recorrer"} =>
              Llega(g)' = Llega(g)
        BY <1>6 DEF CabezaVieja
    <2>2. pc[g] \in {"pedir", "enlazar"} => asig'[blq[g]] = asig[blq[g]]
        BY <1>8
    <2> QED BY <1>2, <2>1, <2>2 DEF Fiel, SinTocar, Activa
<1>10. ASSUME NEW b \in Bloques, EnCurso(g, b) PROVE EnCurso(g, b)'
    <2>1. CASE b \in Llega(g) /\ ~(pc[g] = "reemplazar" /\ ped[g].op = "eliminar")
        <3>1. CASE CabezaVieja(g) /\ pc[g] # "colgado"
            <4>1. dPri[g] = NIL
                BY <2>1, <3>1 DEF CabezaVieja
            <4>2. Llega(g) = {}
                BY <4>1 DEF Llega, Alcanzables
            <4> QED BY <2>1, <4>2
        <3>2. CASE ~CabezaVieja(g)
            BY <1>6, <2>1, <3>2 DEF EnCurso
        <3> QED BY <3>1, <3>2
    <2>2. CASE pc[g] = "enlazar" /\ b = sig[g]
        BY <2>2 DEF EnCurso
    <2>3. CASE pc[g] = "liberar" /\ b \in Alcanzables(asig, sig[g])
        BY <1>7, <2>3 DEF EnCurso
    <2> QED BY <1>10, <2>1, <2>2, <2>3 DEF EnCurso
<1> QED BY <1>9, <1>10

(* What other threads write is nothing to a file at rest either.           *)
LEMMA ReposoAjeno ==
    ASSUME Base, NEW own, NEW d \in Entradas, Bien(own, d), EnReposo(d),
           asig' \in [Bloques -> Punteros],
           \A b \in Suyos(own, d) : asig'[b] = asig[b],
           tabla'[d] = tabla[d], \A g \in Hilos : Arch(g)' # d
    PROVE  EnReposo(d)' /\ Cadena(d)' = Cadena(d)
<1> DEFINE S == Suyos(own, d)
<1>1. asig \in [Bloques -> Punteros] /\ S \in SUBSET Bloques
    BY DEF Base, TypeOK, Suyos
<1>2. CabezaFirme(d) /\ Firmes(own, d) = S
    BY DEF EnReposo, CabezaFirme, Firmes
<1>3. Cerrado(asig, S)
    BY <1>2 DEF Bien, Encerrado, De, Cerrado
<1>4. tabla[d].first_block = NIL \/ tabla[d].first_block \in S
    BY <1>2 DEF Bien, Cabezas, De
<1>5. \A b \in S : asig[b] = asig'[b]
    OBVIOUS
<1>6. Alcanzables(asig', tabla[d].first_block) =
          Alcanzables(asig, tabla[d].first_block)
    <2> HIDE DEF S
    <2> QED BY <1>1, <1>3, <1>4, <1>5, AlcanzablesIguales
<1> QED BY <1>6 DEF EnReposo, Activa, Cadena

(* What a step of h owes to the blocks of its file e: it keeps them, gives *)
(* them back or leaves them in a file at rest, and it takes new blocks for *)
(* its own file only.                                                      *)
Responde(own, h, e) ==
    /\ SoloDe(h)
    /\ Arch(h)' \in {e, NIL} /\ (Arch(h)' = NIL => pc'[h] = "libre")
    /\ \A b \in Bloques : asig'[b] # asig[b] => own[b] = e
    /\ \A d \in Entradas \ {e} : tabla'[d] = tabla[d]
    /\ pc'[h] # "libre" => Fiel(h)'
    /\ \A b \in Bloques : bitmap'[b] /\ (bitmap[b] => EnCurso(h, b)) =>
           IF pc'[h] = "libre" THEN EnReposo(e)' /\ b \in Cadena(e)'
           ELSE EnCurso(h, b)'

LEMMA NadaSePierdePaso ==
    ASSUME Base, Base', CadaArchivoDeUno, NEW own, \A d \in Entradas : Bien(own, d),
           NadaSePierde, SinColgar, NEW h \in Hilos, pc[h] # "libre",
           NEW e \in Entradas, e = Arch(h), Responde(own, h, e)
    PROVE  NadaSePierde'
<1>1. asig' \in [Bloques -> Punteros]
    BY DEF Base, TypeOK
<1>2. \A d \in Entradas \ {e} : \A b \in Suyos(own, d) : asig'[b] = asig[b]
    BY DEF Responde, Suyos
<1>3. \A g \in Hilos \ {h} : Arch(g) # e /\ Arch(g)' = Arch(g)
    BY SoloUno DEF Responde, SoloDe, Arch
<1>4. ASSUME NEW g \in Hilos \ {h}, pc[g] # "libre"
      PROVE  /\ Fiel(g)'
             /\ \A b \in Bloques : EnCurso(g, b) => EnCurso(g, b)'
    <2>1. Arch(g) \in Entradas \ {e} /\ Bien(own, Arch(g))
        BY <1>3, <1>4, ConArchivo
    <2>2. Fiel(g) /\ pc[g] # "colgado"
        BY <1>4 DEF NadaSePierde, SinColgar
    <2>3. /\ pc'[g] = pc[g] /\ ped'[g] = ped[g] /\ modo'[g] = modo[g]
          /\ dPri'[g] = dPri[g] /\ blq'[g] = blq[g] /\ sig'[g] = sig[g]
          /\ tabla'[Arch(g)] = tabla[Arch(g)]
        BY <2>1 DEF Responde, SoloDe
    <2>4. \A b \in Suyos(own, Arch(g)) : asig'[b] = asig[b]
        BY <1>2, <2>1
    <2> QED BY <1>1, <1>4, <2>1, <2>2, <2>3, <2>4, HiloAjeno
<1>5. ASSUME NEW d \in Entradas, EnReposo(d)
      PROVE  EnReposo(d)' /\ Cadena(d)' = Cadena(d)
    <2>1. d # e
        BY <1>5 DEF EnReposo
    <2>2. tabla'[d] = tabla[d] /\ \A b \in Suyos(own, d) : asig'[b] = asig[b]
        BY <1>2, <2>1 DEF Responde
    <2>3. \A g \in Hilos : Arch(g)' # d
        BY <1>3, <1>5, <2>1, ConstantesBloques DEF EnReposo, Responde
    <2> QED BY <1>1, <1>5, <2>2, <2>3, ReposoAjeno
<1>6. ASSUME NEW g \in Hilos, pc'[g] # "libre" PROVE Fiel(g)'
    BY <1>4, <1>6 DEF Responde, SoloDe
<1>7. ASSUME NEW b \in Bloques, bitmap'[b] PROVE Sostenido(b)'
    <2>1. CASE bitmap[b] => EnCurso(h, b)
        <3>1. IF pc'[h] = "libre" THEN EnReposo(e)' /\ b \in Cadena(e)'
              ELSE EnCurso(h, b)'
            BY <1>7, <2>1 DEF Responde
        <3> QED BY <3>1 DEF Sostenido
    <2>2. CASE bitmap[b] /\ ~EnCurso(h, b)
        <3>1. Sostenido(b)
            BY <2>2 DEF NadaSePierde
        <3>2. CASE \E d \in Entradas : EnReposo(d) /\ b \in Cadena(d)
            BY <1>5, <3>2 DEF Sostenido
        <3>3. CASE \E g \in Hilos : pc[g] # "libre" /\ EnCurso(g, b)
            <4>1. PICK g \in Hilos \ {h} : pc[g] # "libre" /\ EnCurso(g, b)
                BY <2>2, <3>3
            <4>2. EnCurso(g, b)' /\ pc'[g] # "libre"
                BY <1>4, <4>1 DEF Responde, SoloDe
            <4> QED BY <4>1, <4>2 DEF Sostenido
        <3> QED BY <3>1, <3>2, <3>3 DEF Sostenido
    <2> QED BY <2>1, <2>2
<1> QED BY <1>6, <1>7 DEF NadaSePierde

(* Steps that leave the disk and the chain of the thread as they are.      *)
LEMMA RespondeLocal ==
    ASSUME Base, NEW own, NEW h \in Hilos, NEW e, e = Arch(h), SoloDe(h),
           UNCHANGED disco, ped'[h] = ped[h], dPri'[h] = dPri[h],
           ~Pendiente(h), ~Pendiente(h)', pc[h] # "liberar",
           pc'[h] # "libre", pc'[h] = "reemplazar" => ped[h].op # "eliminar",
           pc[h] # "libre", e \in Entradas, Fiel(h)'
    PROVE  Responde(own, h, e)
<1>1. Vista(h)' = Vista(h) /\ Llega(h)' = Llega(h)
    BY DEF disco, Vista, Llega
<1>2. ASSUME NEW b \in Bloques, EnCurso(h, b) PROVE EnCurso(h, b)'
    <2>1. b \in Llega(h)
        BY <1>2 DEF EnCurso, Pendiente
    <2> QED BY <1>1, <2>1 DEF EnCurso
<1>3. Arch(h)' = e
    BY DEF Arch
<1>4. UNCHANGED <<tabla, asig, bitmap>>
    BY DEF disco
<1> QED BY <1>2, <1>3, <1>4, ConstantesBloques DEF Responde

LEMMA FugasTomarLock ==
    ASSUME Base, NEW own, NEW h \in Hilos, NEW e \in Entradas, e = Arch(h),
           Fiel(h), TomarLock(h)
    PROVE  Responde(own, h, e)
<1>1. /\ SoloDe(h) /\ UNCHANGED disco /\ ped'[h] = ped[h]
      /\ dPri'[h] = dPri[h] /\ pc[h] = "lock" /\ pc'[h] = "espacio"
    BY DEF TomarLock, SoloDe, Base, TypeOK
<1>2. ~Pendiente(h) /\ ~Pendiente(h)'
    BY <1>1 DEF Pendiente
<1>3. Fiel(h)'
    BY <1>1 DEF Fiel, SinTocar, Activa, Arch, disco
<1> QED BY <1>1, <1>2, <1>3, RespondeLocal

LEMMA FugasComprobarEspacio ==
    ASSUME Base, NEW own, NEW h \in Hilos, NEW e \in Entradas, e = Arch(h),
           ComprobarEspacio(h)
    PROVE  Responde(own, h, e)
<1>1. /\ SoloDe(h) /\ UNCHANGED disco /\ ped'[h] = ped[h]
      /\ dPri'[h] = dPri[h] /\ pc[h] = "espacio" /\ pc'[h] = "asignaciones"
    BY DEF ComprobarEspacio, SoloDe, Base, TypeOK
<1>2. ~Pendiente(h) /\ ~Pendiente(h)'
    BY <1>1 DEF Pendiente
<1>3. Fiel(h)'
    BY <1>1 DEF Fiel, SinTocar
<1> QED BY <1>1, <1>2, <1>3, RespondeLocal

LEMMA FugasObtenerTablaAsignaciones ==
    ASSUME Base, Base', NEW own, NEW h \in Hilos, NEW e \in Entradas, e = Arch(h),
           ObtenerTablaAsignaciones(h)
    PROVE  Responde(own, h, e)
<1>1. /\ SoloDe(h) /\ UNCHANGED disco /\ ped'[h] = ped[h]
      /\ dPri'[h] = dPri[h] /\ pc[h] = "asignaciones"
      /\ pc'[h] \in {"primero", "escribir", "recorrer", "liberar"}
      /\ blq'[h] = dPri[h] /\ sig'[h] = dPri[h]
      /\ asig \in [Bloques -> Punteros] /\ dPri[h] \in Punteros
    BY DEF ObtenerTablaAsignaciones, TrasAsignaciones, SoloDe, Base, TypeOK
<1>2. ~Pendiente(h) /\ ~Pendiente(h)'
    BY <1>1 DEF Pendiente
<1>3. Llega(h)' = Alcanzables(asig, dPri[h])
    BY <1>1, <1>2 DEF Llega, Vista, disco
<1>4. dPri[h] \in Llega(h)' \cup {NIL}
    BY <1>1, <1>3, AlcanzablesCerrados DEF Punteros
<1>5. Fiel(h)'
    BY <1>1, <1>4 DEF Fiel, SinTocar
<1> QED BY <1>1, <1>2, <1>5, RespondeLocal

LEMMA FugasEscribirBloque ==
    ASSUME Base, CadaArchivoDeUno, NEW own, \A d \in Entradas : Bien(own, d),
           NEW h \in Hilos, NEW e \in Entradas, e = Arch(h), Fiel(h),
           EscribirBloque(h)
    PROVE  Responde(own, h, e)
<1>1. /\ SoloDe(h) /\ UNCHANGED disco /\ ped'[h] = ped[h]
      /\ dPri'[h] = dPri[h] /\ pc[h] = "escribir"
      /\ pc'[h] \in {"escribir", "pedir", "reemplazar"}
      /\ blq'[h] \in {blq[h], snap[h][blq[h]]}
      /\ pc'[h] = "pedir" => snap[h][blq[h]] = NIL /\ blq'[h] = blq[h]
    BY DEF EscribirBloque, SoloDe, Base, TypeOK
<1>2. ~Pendiente(h) /\ ~Pendiente(h)' /\ pc[h] \in ConSnap
    BY <1>1 DEF Pendiente, ConSnap
<1>3. blq[h] \in Bloques /\ snap[h][blq[h]] = asig[blq[h]]
    BY <1>1, <1>2 DEF Bien, Recorrido, Firmes, Suyos
<1>4. blq[h] \in Llega(h)
    BY <1>1, <1>3, ConstantesBloques DEF Fiel
<1>5. asig \in [Bloques -> Punteros] /\ Llega(h) = Alcanzables(asig, dPri[h])
    BY <1>2 DEF Base, TypeOK, Llega, Vista
<1>6. asig[blq[h]] \in Llega(h) \cup {NIL}
    BY <1>4, <1>5, AlcanzablesCerrados DEF Cerrado
<1>7. Llega(h)' = Llega(h)
    BY <1>1, <1>2 DEF Llega, Vista, disco
<1>8. Fiel(h)'
    BY <1>1, <1>3, <1>4, <1>6, <1>7 DEF Fiel, SinTocar, disco
<1>9. ped[h].op # "eliminar"
    BY <1>1 DEF Base, Control
<1> QED BY <1>1, <1>2, <1>8, <1>9, RespondeLocal

LEMMA FugasRecorrer ==
    ASSUME Base, CadaArchivoDeUno, NEW own, \A d \in Entradas : Bien(own, d),
           NEW h \in Hilos, NEW e \in Entradas, e = Arch(h), Fiel(h),
           Recorrer(h)
    PROVE  Responde(own, h, e)
<1>1. /\ SoloDe(h) /\ UNCHANGED disco /\ ped'[h] = ped[h]
      /\ dPri'[h] = dPri[h] /\ pc[h] = "recorrer"
      /\ \/ pc'[h] = "pedir" /\ ini[h] > 0 /\ sig[h] = NIL /\ blq'[h] = blq[h]
         \/ /\ pc'[h] = "recorrer" /\ sig[h] # NIL /\ blq'[h] = sig[h]
            /\ sig'[h] = snap[h][sig[h]]
         \/ pc'[h] = "cortar"
    BY DEF Recorrer, QuedaPorRecorrer, SoloDe, Base, TypeOK
<1>2. ~Pendiente(h) /\ ~Pendiente(h)' /\ pc[h] \in ConSnap
    BY <1>1 DEF Pendiente, ConSnap
<1>3. EnCorte(h)
    BY <1>1, SoloTruncar, DeUnoSinRecortes
<1>4. PICK V \in SUBSET Bloques : Corte(own, h, V)
    BY <1>3 DEF Bien, Cortes
<1>5. Firmes(own, Arch(h)) = Suyos(own, Arch(h))
    BY <1>1, <1>2, VistaPropia
<1>6. sig[h] # NIL => sig[h] \in Bloques /\ snap[h][sig[h]] = asig[sig[h]]
    <2>1. sig[h] # NIL => sig[h] \in Firmes(own, Arch(h))
        BY <1>4, <1>5 DEF Corte
    <2> QED BY <1>2, <2>1 DEF Bien, Recorrido, Firmes, Suyos
<1>7. /\ asig \in [Bloques -> Punteros] /\ Llega(h) = Alcanzables(asig, dPri[h])
      /\ Llega(h)' = Llega(h)
    BY <1>1, <1>2 DEF Base, TypeOK, Llega, Vista, disco
<1>8. blq[h] \in Llega(h) \cup {NIL} /\ sig[h] \in Llega(h) \cup {NIL}
    BY <1>1 DEF Fiel
<1>9. sig[h] # NIL => asig[sig[h]] \in Llega(h) \cup {NIL}
    BY <1>7, <1>8, AlcanzablesCerrados DEF Cerrado
<1>10. pc'[h] = "pedir" => asig[blq[h]] = NIL
    <2>1. SUFFICES ASSUME pc'[h] = "pedir" PROVE asig[blq[h]] = NIL
        OBVIOUS
    <2>2. ini[h] > 0 /\ sig[h] = NIL /\ ini[h] \in Int
        BY <1>1, <2>1 DEF Base, TypeOK
    <2>3. V # {}
        BY <1>1, <1>4, <2>2 DEF Corte
    <2> QED BY <1>1, <1>4, <2>2, <2>3 DEF Corte
<1>11. Fiel(h)'
    BY <1>1, <1>6, <1>7, <1>8, <1>9, <1>10 DEF Fiel, SinTocar, disco
<1> QED BY <1>1, <1>2, <1>11, RespondeLocal

LEMMA FugasPedirPrimero ==
    ASSUME Base, Base', NEW own, NEW h \in Hilos, NEW e \in Entradas, e = Arch(h),
           PedirPrimero(h)
    PROVE  Responde(own, h, e)
<1>1. PICK b \in Bloques : /\ ObtenerPrimerBloqueLibre(b)
                           /\ dPri' = [dPri EXCEPT ![h] = b]
                           /\ sig' = [sig EXCEPT ![h] = b]
    BY DEF PedirPrimero
<1>2. /\ SoloDe(h) /\ UNCHANGED <<tabla, asig>> /\ ped'[h] = ped[h]
      /\ pc[h] = "primero" /\ pc'[h] = "termPrimero"
      /\ dPri'[h] = b /\ sig'[h] = b
      /\ bitmap' = [bitmap EXCEPT ![b] = TRUE]
    BY <1>1 DEF PedirPrimero, ObtenerPrimerBloqueLibre, SoloDe, Base, TypeOK
<1>3. dPri[h] = NIL
    BY <1>2 DEF Base, Control
<1>4. Llega(h) = {}
    BY <1>3 DEF Llega, Alcanzables
<1>5. \A x \in Bloques : ~EnCurso(h, x)
    BY <1>2, <1>4 DEF EnCurso
<1>6. Fiel(h)'
    BY <1>2 DEF Fiel, SinTocar
<1>7. EnCurso(h, b)'
    <2>1. asig' \in [Bloques -> Punteros]
        BY DEF Base, TypeOK
    <2>2. Vista(h)' \in [Bloques -> Punteros]
        BY <1>2, <2>1 DEF Vista, Punteros
    <2>3. b \in Alcanzables(Vista(h)', b)
        BY <2>2, AlcanzablesCerrados
    <2> QED BY <1>2, <2>3 DEF EnCurso, Llega
<1>8. \A x \in Bloques : bitmap'[x] /\ (bitmap[x] => EnCurso(h, x)) => x = b
    BY <1>2, <1>5 DEF Base, TypeOK
<1>9. Arch(h)' = e
    BY <1>2 DEF Arch
<1> QED BY <1>2, <1>6, <1>7, <1>8, <1>9, ConstantesBloques DEF Responde

LEMMA FugasTerminarPrimero ==
    ASSUME Base, Base', CadaArchivoDeUno, NEW own, \A d \in Entradas : Bien(own, d),
           NEW h \in Hilos, NEW e \in Entradas, e = Arch(h), TerminarPrimero(h)
    PROVE  Responde(own, h, e)
<1>1. /\ SoloDe(h) /\ UNCHANGED <<tabla, bitmap>> /\ ped'[h] = ped[h]
      /\ pc[h] = "termPrimero" /\ pc'[h] \in {"escribir", "recorrer"}
      /\ dPri'[h] = dPri[h] /\ sig'[h] = sig[h] /\ blq'[h] = blq[h]
      /\ asig' = [asig EXCEPT ![sig[h]] = NIL]
    BY DEF TerminarPrimero, AsignarSiguienteBloque, SoloDe, Base, TypeOK
<1>2. /\ Pendiente(h) /\ ~Pendiente(h)'
      /\ dPri[h] = sig[h] /\ blq[h] = sig[h] /\ sig[h] \in Bloques
    BY <1>1 DEF Pendiente, Base, Control
<1>3. own[sig[h]] = e
    BY <1>2 DEF Bien, Recorrido, Suyos
<1>4. Vista(h)' = Vista(h) /\ Llega(h)' = Llega(h)
    BY <1>1, <1>2 DEF Vista, Llega
<1>5. sig[h] \in Llega(h)
    BY <1>1, <1>2, VistaPropia, AlcanzablesCerrados DEF Llega
<1>6. Fiel(h)'
    BY <1>1, <1>2, <1>4, <1>5 DEF Fiel, SinTocar
<1>7. ASSUME NEW b \in Bloques, EnCurso(h, b) PROVE EnCurso(h, b)'
    BY <1>1, <1>4, <1>7 DEF EnCurso
<1>8. \A b \in Bloques : asig'[b] # asig[b] => own[b] = e
    BY <1>1, <1>3 DEF Base, TypeOK
<1>9. Arch(h)' = e
    BY <1>1 DEF Arch
<1> QED BY <1>1, <1>6, <1>7, <1>8, <1>9, ConstantesBloques DEF Responde

LEMMA FugasPedirBloque ==
    ASSUME Base, Base', CadaArchivoDeUno, NEW own, \A d \in Entradas : Bien(own, d),
           NEW h \in Hilos, NEW e \in Entradas, e = Arch(h), Fiel(h),
           PedirBloque(h)
    PROVE  Responde(own, h, e)
<1>1. PICK b \in Bloques : /\ ObtenerPrimerBloqueLibre(b)
                           /\ sig' = [sig EXCEPT ![h] = b]
    BY DEF PedirBloque
<1>2. /\ SoloDe(h) /\ UNCHANGED <<tabla, asig>> /\ ped'[h] = ped[h]
      /\ pc[h] = "pedir" /\ pc'[h] = "enlazar"
      /\ dPri'[h] = dPri[h] /\ sig'[h] = b /\ blq'[h] = blq[h]
      /\ bitmap' = [bitmap EXCEPT ![b] = TRUE] /\ ~bitmap[b]
    BY <1>1 DEF PedirBloque, ObtenerPrimerBloqueLibre, Libres, SoloDe, Base, TypeOK
<1>3. ~Pendiente(h) /\ Pendiente(h)' /\ ~CabezaVieja(h)
    BY <1>2 DEF Pendiente, CabezaVieja
<1>4. /\ asig \in [Bloques -> Punteros] /\ Vista(h) = asig
      /\ Vista(h)' = [asig EXCEPT ![b] = NIL]
    BY <1>2, <1>3 DEF Vista, Base, TypeOK
<1>5. /\ Suyos(own, e) \in SUBSET Bloques /\ Cerrado(asig, Suyos(own, e))
      /\ dPri[h] = NIL \/ dPri[h] \in Suyos(own, e)
    BY <1>2, <1>3, <1>4, VistaPropia DEF De
<1>6. b \notin Suyos(own, e)
    BY <1>2 DEF Bien, Encerrado
<1>7. Llega(h)' = Llega(h)
    <2> DEFINE f == [asig EXCEPT ![b] = NIL]
               S == Suyos(own, e)
    <2>1. f \in [Bloques -> Punteros] /\ \A x \in S : asig[x] = f[x]
        BY <1>4, <1>5, <1>6 DEF Punteros
    <2>2. Alcanzables(f, dPri[h]) = Alcanzables(asig, dPri[h])
        <3>1. /\ S \in SUBSET Bloques /\ Cerrado(asig, S)
              /\ dPri[h] = NIL \/ dPri[h] \in S
            BY <1>5
        <3>2. asig \in [Bloques -> Punteros]
            BY <1>4
        <3> HIDE DEF f, S
        <3> QED BY ONLY <2>1, <3>1, <3>2, AlcanzablesIguales
    <2> QED BY <1>2, <1>4, <2>2 DEF Llega
<1>8. Fiel(h)'
    BY <1>2, <1>7 DEF Fiel, SinTocar
<1>9. ASSUME NEW x \in Bloques, bitmap'[x], bitmap[x] => EnCurso(h, x)
      PROVE  EnCurso(h, x)'
    <2>1. CASE x = b
        BY <1>2, <2>1 DEF EnCurso
    <2>2. CASE x # b
        <3>1. x \in Llega(h)
            BY <1>2, <1>9, <2>2 DEF EnCurso, Base, TypeOK
        <3> QED BY <1>2, <1>7, <3>1 DEF EnCurso
    <2> QED BY <2>1, <2>2
<1>10. Arch(h)' = e
    BY <1>2 DEF Arch
<1> QED BY <1>2, <1>8, <1>9, <1>10, ConstantesBloques DEF Responde

LEMMA FugasEnlazar ==
    ASSUME Base, Base', CadaArchivoDeUno, NEW own, \A d \in Entradas : Bien(own, d),
           NEW h \in Hilos, NEW e \in Entradas, e = Arch(h), Fiel(h),
           Enlazar(h)
    PROVE  Responde(own, h, e)
<1>1. /\ SoloDe(h) /\ UNCHANGED <<tabla, bitmap>> /\ ped'[h] = ped[h]
      /\ pc[h] = "enlazar" /\ pc'[h] = "terminar"
      /\ dPri'[h] = dPri[h] /\ sig'[h] = sig[h] /\ blq'[h] = blq[h]
      /\ asig' = [asig EXCEPT ![blq[h]] = sig[h]]
    BY DEF Enlazar, AsignarSiguienteBloque, SoloDe, Base, TypeOK
<1>2. Pendiente(h) /\ Pendiente(h)' /\ sig[h] \in Bloques
    BY <1>1 DEF Pendiente, Base, Control
<1>3. /\ blq[h] \in Firmes(own, e) /\ blq[h] \in Bloques /\ own[blq[h]] = e
      /\ blq[h] # sig[h]
    BY <1>1, <1>2, VistaPropia DEF Bien, Recorrido, Firmes, Suyos
<1>4. /\ Vista(h) \in [Bloques -> Punteros]
      /\ Vista(h)[blq[h]] = NIL
    BY <1>1, <1>3, VistaPropia DEF Fiel
<1>5. Vista(h)' = [Vista(h) EXCEPT ![blq[h]] = sig[h]]
    BY <1>1, <1>2, <1>3 DEF Vista, Base, TypeOK
<1>6. blq[h] \in Llega(h)
    BY <1>1, <1>3, ConstantesBloques DEF Fiel
<1>7. Llega(h) \cup {sig[h]} \subseteq Llega(h)'
    <2>1. blq[h] \in Alcanzables(Vista(h), dPri[h])
        BY <1>6 DEF Llega
    <2>2. Alcanzables(Vista(h), dPri[h]) \cup {sig[h]} \subseteq
              Alcanzables([Vista(h) EXCEPT ![blq[h]] = sig[h]], dPri[h])
        BY <1>2, <1>3, <1>4, <2>1, Alargar
    <2> QED BY <1>1, <1>5, <2>2 DEF Llega
<1>8. Fiel(h)'
    BY <1>1, <1>6, <1>7 DEF Fiel, SinTocar
<1>9. ASSUME NEW x \in Bloques, EnCurso(h, x)
      PROVE  EnCurso(h, x)'
    BY <1>1, <1>7, <1>9 DEF EnCurso
<1>10. \A b \in Bloques : asig'[b] # asig[b] => own[b] = e
    BY <1>1, <1>3 DEF Base, TypeOK
<1>11. Arch(h)' = e
    BY <1>1 DEF Arch
<1> QED BY <1>1, <1>8, <1>9, <1>10, <1>11, ConstantesBloques DEF Responde

LEMMA FugasTerminar ==
    ASSUME Base, Base', CadaArchivoDeUno, NEW own, \A d \in Entradas : Bien(own, d),
           NEW h \in Hilos, NEW e \in Entradas, e = Arch(h), Fiel(h),
           Terminar(h)
    PROVE  Responde(own, h, e)
<1>1. /\ SoloDe(h) /\ UNCHANGED <<tabla, bitmap>> /\ ped'[h] = ped[h]
      /\ pc[h] = "terminar" /\ pc'[h] \in {"escribir", "recorrer"}
      /\ dPri'[h] = dPri[h] /\ sig'[h] = sig[h] /\ blq'[h] \in {blq[h], sig[h]}
      /\ asig' = [asig EXCEPT ![sig[h]] = NIL]
    BY DEF Terminar, AsignarSiguienteBloque, SoloDe, Base, TypeOK
<1>2. Pendiente(h) /\ ~Pendiente(h)' /\ sig[h] \in Bloques
    BY <1>1 DEF Pendiente, Base, Control
<1>3. own[sig[h]] = e
    BY <1>2 DEF Bien, Recorrido, Suyos
<1>4. Vista(h)' = Vista(h) /\ Llega(h)' = Llega(h)
    BY <1>1, <1>2 DEF Vista, Llega
<1>5. sig[h] \in Llega(h) \cup {NIL} /\ blq[h] \in Llega(h) \cup {NIL}
    BY <1>1 DEF Fiel
<1>6. Fiel(h)'
    BY <1>1, <1>4, <1>5 DEF Fiel, SinTocar
<1>7. ASSUME NEW b \in Bloques, EnCurso(h, b) PROVE EnCurso(h, b)'
    BY <1>1, <1>4, <1>7 DEF EnCurso
<1>8. \A b \in Bloques : asig'[b] # asig[b] => own[b] = e
    BY <1>1, <1>3 DEF Base, TypeOK
<1>9. Arch(h)' = e
    BY <1>1 DEF Arch
<1> QED BY <1>1, <1>6, <1>7, <1>8, <1>9, ConstantesBloques DEF Responde

LEMMA FugasCortar ==
    ASSUME Base, Base', CadaArchivoDeUno, NEW own, \A d \in Entradas : Bien(own, d),
           NEW h \in Hilos, NEW e \in Entradas, e = Arch(h), Cortar(h)
    PROVE  Responde(own, h, e)
<1>1. /\ SoloDe(h) /\ UNCHANGED <<tabla, bitmap>> /\ ped'[h] = ped[h]
      /\ pc[h] = "cortar" /\ pc'[h] = "liberar"
      /\ sig'[h] = sig[h] /\ blq'[h] = blq[h]
      /\ \/ /\ sig[h] # dPri[h] /\ dPri'[h] = dPri[h]
            /\ asig' = [asig EXCEPT ![blq[h]] = NIL]
         \/ sig[h] = dPri[h] /\ dPri'[h] = NIL /\ asig' = asig
    BY DEF Cortar, NuevoPrimero, AsignarSiguienteBloque, SoloDe, Base, TypeOK
<1>2. ~Pendiente(h) /\ ~Pendiente(h)'
    BY <1>1 DEF Pendiente
<1>3. EnCorte(h)
    BY <1>1, SoloTruncar, DeUnoSinRecortes
<1>4. PICK V \in SUBSET Bloques : Corte(own, h, V)
    BY <1>3 DEF Bien, Cortes
<1>5. /\ asig \in [Bloques -> Punteros] /\ dPri[h] \in Punteros
      /\ Llega(h) = Alcanzables(asig, dPri[h])
      /\ Llega(h)' = Alcanzables(asig', dPri'[h])
    BY <1>2 DEF Base, TypeOK, Llega, Vista
<1>6. sig[h] # dPri[h] =>
          blq[h] \in Bloques /\ own[blq[h]] = e /\ asig[blq[h]] = sig[h]
    <2>1. SUFFICES ASSUME sig[h] # dPri[h]
                   PROVE  blq[h] \in Firmes(own, e) /\ asig[blq[h]] = sig[h]
        BY DEF Firmes, Suyos
    <2>2. V # {}
        BY <1>1, <1>4, <2>1 DEF Corte
    <2> QED BY <1>1, <1>4, <2>2 DEF Corte
<1>7. ASSUME NEW b \in Bloques, EnCurso(h, b) PROVE EnCurso(h, b)'
    <2>1. b \in Llega(h)
        BY <1>1, <1>7 DEF EnCurso
    <2>2. CASE sig[h] = dPri[h]
        <3>1. b \in Alcanzables(asig', sig'[h])
            BY <1>1, <1>5, <2>1, <2>2
        <3> QED BY <1>1, <3>1 DEF EnCurso
    <2>3. CASE sig[h] # dPri[h]
        <3>1. Alcanzables(asig, dPri[h]) \subseteq
                  Alcanzables([asig EXCEPT ![blq[h]] = NIL], dPri[h])
                  \cup Alcanzables([asig EXCEPT ![blq[h]] = NIL], asig[blq[h]])
            BY <1>5, <1>6, <2>3, Partir
        <3>2. b \in Llega(h)' \/ b \in Alcanzables(asig', sig'[h])
            BY <1>1, <1>5, <1>6, <2>1, <2>3, <3>1
        <3> QED BY <1>1, <3>2 DEF EnCurso
    <2> QED BY <2>2, <2>3
<1>8. \A b \in Bloques : asig'[b] # asig[b] => own[b] = e
    BY <1>1, <1>5, <1>6
<1>9. Fiel(h)'
    BY <1>1 DEF Fiel, SinTocar
<1>10. Arch(h)' = e
    BY <1>1 DEF Arch
<1> QED BY <1>1, <1>7, <1>8, <1>9, <1>10, ConstantesBloques DEF Responde

LEMMA FugasLiberar ==
    ASSUME Base, Base', CadaArchivoDeUno, NEW own, \A d \in Entradas : Bien(own, d),
           NEW h \in Hilos, NEW e \in Entradas, e = Arch(h), Liberar(h)
    PROVE  Responde(own, h, e)
<1>1. /\ SoloDe(h) /\ UNCHANGED <<tabla, asig>> /\ ped'[h] = ped[h]
      /\ pc[h] = "liberar" /\ pc'[h] \in {"colgado", "espacio", "reemplazar"}
      /\ pc'[h] = "espacio" => modo[h] = "truncar" /\ modo'[h] = "editar"
      /\ dPri'[h] = dPri[h]
      /\ bitmap' = [b \in Bloques |->
                       bitmap[b] /\ b \notin Alcanzables(snap[h], sig[h])]
    BY DEF Liberar, Liberados, SoloDe, Base, TypeOK
<1>2. ~Pendiente(h) /\ ~Pendiente(h)' /\ pc[h] \in ConSnap
    BY <1>1 DEF Pendiente, ConSnap
<1>3. /\ modo[h] \in {"truncar", "eliminar"} /\ ped[h].op = modo[h]
      /\ modo[h] = "eliminar" => sig[h] = dPri[h]
    BY <1>1, <1>2 DEF Base, Control
<1>4. /\ asig \in [Bloques -> Punteros] /\ snap[h] \in [Bloques -> Punteros]
      /\ Llega(h) = Alcanzables(asig, dPri[h]) /\ Llega(h)' = Llega(h)
    BY <1>1, <1>2 DEF Base, TypeOK, Llega, Vista
<1>5. Alcanzables(snap[h], sig[h]) = Alcanzables(asig, sig[h])
    <2> DEFINE S == Suyos(own, e)
    <2>1. /\ S \in SUBSET Bloques /\ Firmes(own, e) = S
          /\ Cerrado(Vista(h), S) /\ Vista(h) = asig
        BY <1>1, <1>2, VistaPropia DEF Vista
    <2>2. \A b \in S : asig[b] = snap[h][b]
        BY <1>2, <2>1 DEF Bien, Recorrido
    <2>3. sig[h] = NIL \/ sig[h] \in S
        BY <1>1, ColaPropia DEF De
    <2> HIDE DEF S
    <2> QED BY <1>4, <2>1, <2>2, <2>3, AlcanzablesIguales
<1>6. ASSUME NEW b \in Bloques, bitmap'[b], EnCurso(h, b) PROVE EnCurso(h, b)'
    <2>1. b \notin Alcanzables(asig, sig[h])
        BY <1>1, <1>5, <1>6
    <2>2. b \in Llega(h)
        BY <1>1, <1>6, <2>1 DEF EnCurso
    <2>3. modo[h] = "truncar"
        BY <1>3, <1>4, <2>1, <2>2
    <2> QED BY <1>1, <1>3, <1>4, <2>2, <2>3 DEF EnCurso
<1>7. Fiel(h)'
    BY <1>1, <1>3 DEF Fiel, SinTocar
<1>8. Arch(h)' = e
    BY <1>1 DEF Arch
<1>9. \A b \in Bloques : bitmap'[b] => bitmap[b]
    BY <1>1
<1> QED BY <1>1, <1>6, <1>7, <1>8, <1>9, ConstantesBloques DEF Responde

(* The blocks of the file pass from the thread that ends to the file.      *)
LEMMA FugasTerminado ==
    ASSUME Base, CadaArchivoDeUno, NEW own, NEW h \in Hilos,
           NEW e \in Entradas, e = Arch(h), Terminado(h),
           pc[h] \in {"espacio", "reemplazar"}, UNCHANGED <<bitmap, asig>>,
           \A d \in Entradas \ {e} : tabla'[d] = tabla[d],
           \/ pc[h] = "reemplazar" /\ ped[h].op = "eliminar"
           \/ tabla'[e].state = "REGULAR" /\ tabla'[e].first_block = dPri[h]
    PROVE  Responde(own, h, e)
<1>1. SoloDe(h) /\ pc'[h] = "libre" /\ ped'[h] = NoPed
    BY DEF Terminado, SoloDe, Base, TypeOK
<1>2. Arch(h)' = NIL
    BY <1>1 DEF Arch, NoPed
<1>3. \A g \in Hilos : Arch(g)' # e
    <2>1. \A g \in Hilos \ {h} : Arch(g) # e
        BY SoloUno
    <2> QED BY <1>1, <1>2, <2>1, ConstantesBloques DEF SoloDe, Arch
<1>4. ASSUME NEW b \in Bloques, EnCurso(h, b)
      PROVE  EnReposo(e)' /\ b \in Cadena(e)'
    <2>1. /\ b \in Llega(h)
          /\ ~(pc[h] = "reemplazar" /\ ped[h].op = "eliminar")
        BY <1>4 DEF EnCurso
    <2>2. b \in Alcanzables(asig, dPri[h])
        BY <2>1 DEF Llega, Vista, Pendiente
    <2> QED BY <1>3, <2>1, <2>2 DEF EnReposo, Activa, Cadena
<1> QED BY <1>1, <1>2, <1>4 DEF Responde

LEMMA FugasRechazarPorEspacio ==
    ASSUME Base, CadaArchivoDeUno, NEW own,
           NEW h \in Hilos, NEW e \in Entradas, e = Arch(h), Fiel(h),
           RechazarPorEspacio(h)
    PROVE  Responde(own, h, e)
<1>1. CASE modo[h] = ped[h].op /\ Terminado(h)
    <2>1. pc[h] = "espacio" /\ UNCHANGED disco
        BY DEF RechazarPorEspacio
    <2>2. tabla[e].state = "REGULAR" /\ tabla[e].first_block = dPri[h]
        BY <1>1, <2>1 DEF Fiel, SinTocar, Activa
    <2> QED BY <1>1, <2>1, <2>2, FugasTerminado DEF disco
<1>2. CASE /\ modo[h] # ped[h].op
           /\ pc' = [pc EXCEPT ![h] = "reemplazar"]
           /\ UNCHANGED <<lock, ped, modo, dTam, dPri, snap, ini, res, blq, sig>>
    <2>1. /\ SoloDe(h) /\ UNCHANGED disco /\ ped'[h] = ped[h]
          /\ dPri'[h] = dPri[h] /\ pc[h] = "espacio" /\ pc'[h] = "reemplazar"
        BY <1>2 DEF RechazarPorEspacio, SoloDe, Base, TypeOK
    <2>2. ~Pendiente(h) /\ ~Pendiente(h)'
        BY <2>1 DEF Pendiente
    <2>3. Fiel(h)'
        BY <2>1 DEF Fiel, SinTocar
    <2>4. ped[h].op # "eliminar"
        BY <1>2 DEF Base, Control
    <2> QED BY <2>1, <2>2, <2>3, <2>4, RespondeLocal
<1> QED BY <1>1, <1>2 DEF RechazarPorEspacio

LEMMA FugasReemplazarEstructuraDeArchivo ==
    ASSUME Base, CadaArchivoDeUno, NEW own, NEW h \in Hilos,
           NEW e \in Entradas, e = Arch(h), ReemplazarEstructuraDeArchivo(h)
    PROVE  Responde(own, h, e)
<1>1. /\ pc[h] = "reemplazar" /\ Terminado(h) /\ UNCHANGED <<bitmap, asig>>
      /\ \A d \in Entradas \ {e} : tabla'[d] = tabla[d]
    BY DEF ReemplazarEstructuraDeArchivo, Base, TypeOK
<1>2. \/ ped[h].op = "eliminar"
      \/ tabla'[e].state = "REGULAR" /\ tabla'[e].first_block = dPri[h]
    BY DEF ReemplazarEstructuraDeArchivo, Base, TypeOK
<1> QED BY <1>1, <1>2, FugasTerminado

(* The blocks of a file at rest pass to the thread that starts on it.      *)
LEMMA FugasLeerPath ==
    ASSUME Base, Base', CadaArchivoDeUno, NEW own, \A d \in Entradas : Bien(own, d),
           NadaSePierde, SinColgar, NEW h \in Hilos, NEW p \in Pedidos,
           LeerPath(h, p)
    PROVE  NadaSePierde'
<1>1. /\ SoloDe(h) /\ UNCHANGED disco /\ ped'[h] = p /\ pc[h] = "libre"
      /\ p.hilo = h /\ p.arch \in Entradas /\ Activa(p.arch)
      /\ dPri'[h] = tabla[p.arch].first_block
      /\ pc'[h] \in {"lock", "asignaciones", "reemplazar"}
      /\ p.op = "eliminar" => pc'[h] # "reemplazar"
    BY ConstantesBloques
       DEF LeerPath, PrimerPaso, SoloDe, Activa, Base, TypeOK
<1>2. /\ Arch(h)' = p.arch
      /\ \A g \in Hilos \ {h} : Arch(g)' = Arch(g)
    BY <1>1 DEF SoloDe, Arch
<1>3. ASSUME NEW g \in Hilos, Arch(g) = p.arch PROVE FALSE
    <2>1. ped[g] # NoPed
        BY <1>1, <1>3, ConstantesBloques DEF Arch, NoPed
    <2>2. ped[g] \in Pedidos /\ ped[g].hilo = g /\ pc[g] # "libre"
        BY <2>1 DEF Base, Control
    <2>3. g = h
        BY <1>1, <1>3, <2>2 DEF CadaArchivoDeUno, Arch
    <2> QED BY <1>1, <2>2, <2>3
<1>4. asig' = asig /\ bitmap' = bitmap /\ tabla' = tabla /\ asig' \in [Bloques -> Punteros]
    BY <1>1 DEF disco, Base, TypeOK
<1>5. ASSUME NEW g \in Hilos \ {h}, pc[g] # "libre"
      PROVE  /\ Fiel(g)'
             /\ \A b \in Bloques : EnCurso(g, b) => EnCurso(g, b)'
    <2>1. Arch(g) \in Entradas /\ Bien(own, Arch(g))
        BY <1>5, ConArchivo
    <2>2. Fiel(g) /\ pc[g] # "colgado"
        BY <1>5 DEF NadaSePierde, SinColgar
    <2>3. /\ pc'[g] = pc[g] /\ ped'[g] = ped[g] /\ modo'[g] = modo[g]
          /\ dPri'[g] = dPri[g] /\ blq'[g] = blq[g] /\ sig'[g] = sig[g]
        BY <1>1 DEF SoloDe
    <2> QED BY <1>4, <1>5, <2>1, <2>2, <2>3, HiloAjeno
<1>6. Fiel(h)'
    BY <1>1, <1>2, <1>4 DEF Fiel, SinTocar, Activa
<1>7. ASSUME NEW g \in Hilos, pc'[g] # "libre" PROVE Fiel(g)'
    BY <1>1, <1>5, <1>6, <1>7 DEF SoloDe
<1>8. ASSUME NEW b \in Bloques, bitmap'[b] PROVE Sostenido(b)'
    <2>1. Sostenido(b)
        BY <1>4, <1>8 DEF NadaSePierde
    <2>2. CASE \E g \in Hilos : pc[g] # "libre" /\ EnCurso(g, b)
        <3>1. PICK g \in Hilos \ {h} : pc[g] # "libre" /\ EnCurso(g, b)
            BY <1>1, <2>2
        <3> QED BY <1>1, <1>5, <3>1 DEF SoloDe, Sostenido
    <2>3. ASSUME NEW d \in Entradas, EnReposo(d), b \in Cadena(d)
          PROVE  Sostenido(b)'
        <3>1. CASE d = p.arch
            <4>1. b \in Llega(h)'
                BY <1>1, <1>4, <2>3, <3>1
                   DEF Llega, Vista, Pendiente, Cadena
            <4> QED BY <1>1, <4>1 DEF EnCurso, Sostenido
        <3>2. CASE d # p.arch
            <4>1. \A g \in Hilos : Arch(g)' # d
                BY <1>2, <2>3, <3>2 DEF EnReposo
            <4>2. EnReposo(d)' /\ b \in Cadena(d)'
                BY <1>4, <2>3, <4>1 DEF EnReposo, Activa, Cadena
            <4> QED BY <4>2 DEF Sostenido
        <3> QED BY <3>1, <3>2
    <2> QED BY <2>1, <2>2, <2>3 DEF Sostenido
<1> QED BY <1>7, <1>8 DEF NadaSePierde

LEMMA NadaSePierdeInicial == Init => NadaSePierde
BY DEF Init, NadaSePierde

(* Every step that does not kill the process answers for its blocks.       *)
LEMMA FugasResponde ==
    ASSUME Base, Base', CadaArchivoDeUno, NEW own, \A d \in Entradas : Bien(own, d),
           NEW h \in Hilos, Paso(h), ~QuedarseSinBloque(h), Fiel(h),
           NEW e \in Entradas, e = Arch(h)
    PROVE  Responde(own, h, e)
<1>1. CASE TomarLock(h)
    BY <1>1, FugasTomarLock
<1>2. CASE ComprobarEspacio(h)
    BY <1>2, FugasComprobarEspacio
<1>3. CASE RechazarPorEspacio(h)
    BY <1>3, FugasRechazarPorEspacio
<1>4. CASE ObtenerTablaAsignaciones(h)
    BY <1>4, FugasObtenerTablaAsignaciones
<1>5. CASE PedirPrimero(h)
    BY <1>5, FugasPedirPrimero
<1>6. CASE TerminarPrimero(h)
    BY <1>6, FugasTerminarPrimero
<1>7. CASE EscribirBloque(h)
    BY <1>7, FugasEscribirBloque
<1>8. CASE PedirBloque(h)
    BY <1>8, FugasPedirBloque
<1>9. CASE Enlazar(h)
    BY <1>9, FugasEnlazar
<1>10. CASE Terminar(h)
    BY <1>10, FugasTerminar
<1>11. CASE QuedarseSinBloque(h)
    BY <1>11 DEF QuedarseSinBloque
<1>12. CASE Recorrer(h)
    BY <1>12, FugasRecorrer
<1>13. CASE Cortar(h)
    BY <1>13, FugasCortar
<1>14. CASE Liberar(h)
    BY <1>14, FugasLiberar
<1>15. CASE ReemplazarEstructuraDeArchivo(h)
    BY <1>15, FugasReemplazarEstructuraDeArchivo
<1> QED BY <1>1, <1>2, <1>3, <1>4, <1>5, <1>6, <1>7, <1>8, <1>9, <1>10,
           <1>11, <1>12, <1>13, <1>14, <1>15 DEF Paso

LEMMA FugasPaso ==
    ASSUME Base, CadaArchivoDeUno, NEW own, \A d \in Entradas : Bien(own, d),
           NadaSePierde, SinColgar, NEW h \in Hilos, Paso(h), vivo'
    PROVE  NadaSePierde'
<1>1. Base'
    BY BasePaso
<1>2. pc[h] # "libre"
    BY DEF Paso, TomarLock, ComprobarEspacio, RechazarPorEspacio,
           ObtenerTablaAsignaciones, PedirPrimero, TerminarPrimero,
           EscribirBloque, PedirBloque, Enlazar, Terminar, QuedarseSinBloque,
           Recorrer, Cortar, Liberar, ReemplazarEstructuraDeArchivo
<1>3. PICK e \in Entradas : e = Arch(h)
    BY <1>2, ConArchivo
<1>4. Fiel(h)
    BY <1>2 DEF NadaSePierde
<1>5. ~QuedarseSinBloque(h)
    BY DEF QuedarseSinBloque
<1>6. Responde(own, h, e)
    BY <1>1, <1>3, <1>4, <1>5, FugasResponde
<1> QED BY <1>1, <1>2, <1>3, <1>6, NadaSePierdePaso

(* A hung thread stays hung, and a process that died stays dead.           *)
LEMMA SinColgarAntes ==
    ASSUME Base, [Next]_vars, SinColgar'
    PROVE  SinColgar
<1>1. ASSUME NEW g \in Hilos, pc[g] = "colgado" PROVE pc'[g] = "colgado"
    BY <1>1 DEF Base, TypeOK, vars, Next, LeerPath, PathInexistente, Paso,
       TomarLock, ComprobarEspacio, RechazarPorEspacio,
       ObtenerTablaAsignaciones, PedirPrimero, TerminarPrimero,
       EscribirBloque, PedirBloque, Enlazar, Terminar, QuedarseSinBloque,
       Recorrer, Cortar, Liberar, ReemplazarEstructuraDeArchivo, Terminado
<1>2. vivo' => vivo
    BY DEF Next, vars
<1> QED BY <1>1, <1>2 DEF SinColgar

LEMMA FugasInductivo ==
    ASSUME CadaArchivoDeUno, IInv, NadaSePierde, [Next]_vars
    PROVE  NadaSePierde'
<1>1. Base
    BY DEF IInv, Base
<1>2. PICK own \in Duenios : \A e \in Entradas : Bien(own, e)
    BY DEF IInv
<1>3. SUFFICES ASSUME SinColgar' PROVE NadaSePierde'
    BY DEF NadaSePierde
<1>4. SinColgar /\ vivo'
    BY <1>1, <1>3, SinColgarAntes DEF SinColgar
<1>5. CASE UNCHANGED vars
    BY <1>5 DEF vars, NadaSePierde, SinColgar, Fiel, SinTocar, Activa, Arch,
       Llega, Vista, Pendiente, Sostenido, EnReposo, Cadena, EnCurso
<1>6. ASSUME NEW h \in Hilos, NEW p \in Pedidos, LeerPath(h, p)
      PROVE  NadaSePierde'
    <2>1. Base'
        BY <1>1, <1>6, BaseLeerPath
    <2> QED BY <1>1, <1>2, <1>4, <1>6, <2>1, FugasLeerPath
<1>7. ASSUME NEW h \in Hilos, Paso(h) PROVE NadaSePierde'
    BY <1>1, <1>2, <1>4, <1>7, FugasPaso
<1> QED BY <1>5, <1>6, <1>7 DEF Next, PathInexistente

(* While no thread hangs and the process lives, every marked block is in a *)
(* file at rest or in the hands of the thread that serves its file.  It    *)
(* asks that each file be in the hands of one client: with two, the stale  *)
(* copy of a descriptor drops the blocks the other client added.           *)
THEOREM NadaSePierdeNunca ==
    ASSUME CadaArchivoDeUno
    PROVE  Spec => []NadaSePierde
<1>1. SinRecortesCompartidos
    BY DeUnoSinRecortes
<1>2. Spec => []IInv
    BY <1>1, RepartoSiempre
<1>3. IInv /\ NadaSePierde /\ [Next]_vars => NadaSePierde'
    BY FugasInductivo
<1> QED BY <1>2, <1>3, NadaSePierdeInicial, PTL DEF Spec

(* No block leaks: when every request has been answered, a block marked in *)
(* the bitmap is in the chain of a file that still exists.                 *)
THEOREM SinFugasNunca ==
    ASSUME CadaArchivoDeUno
    PROVE  Spec => []SinFugas
<1>1. NadaSePierde => SinFugas
    BY DEF NadaSePierde, SinFugas, Quieto, SinColgar, Sostenido, EnReposo
<1> QED BY <1>1, NadaSePierdeNunca, PTL

-----------------------------------------------------------------------------
(* Two tables that agree on a closed set end the same walks.               *)
LEMMA NoTerminaIgual ==
    ASSUME NEW f \in [Bloques -> Punteros], NEW g \in [Bloques -> Punteros],
           NEW S \in SUBSET Bloques, Cerrado(f, S), \A b \in S : f[b] = g[b],
           NEW p, p = NIL \/ p \in S, ~NoTermina(f, p)
    PROVE  ~NoTermina(g, p)
<1>1. Alcanzables(g, p) = Alcanzables(f, p)
    BY AlcanzablesIguales
<1>2. Alcanzables(f, p) \subseteq S
    BY AlcanzablesAcotados
<1> QED BY <1>1, <1>2 DEF NoTermina

(* While a walk goes on, what it has left behind is part of the set V of   *)
(* the invariant of owners, and the block it is going to is not.           *)
LEMMA CorteEnMarcha ==
    ASSUME Base, CadaArchivoDeUno, NEW own, NEW h \in Hilos,
           Bien(own, Arch(h)), EnCorte(h), pc[h] # "liberar",
           sig[h] # dPri[h] \/ pc[h] \in {"pedir", "enlazar", "terminar"}
    PROVE  /\ sig[h] # dPri[h] /\ dPri[h] \in Recorridos(h)
           /\ blq[h] \in Suyos(own, Arch(h)) /\ blq[h] \in Bloques
           /\ Recorridos(h) \subseteq Suyos(own, Arch(h))
           /\ sig[h] \notin Recorridos(h)
           /\ asig[blq[h]] = IF pc[h] = "enlazar" THEN NIL ELSE sig[h]
           /\ Cerrado([asig EXCEPT ![blq[h]] = NIL], Recorridos(h))
           /\ [asig EXCEPT ![blq[h]] = NIL] \in [Bloques -> Punteros]
           /\ Recorridos(h) \in SUBSET Bloques
<1>1. PICK V \in SUBSET Bloques : Corte(own, h, V)
    BY DEF Bien, Cortes
<1>2. V # {}
    BY <1>1 DEF Corte, EnCorte
<1>3. /\ V \subseteq Suyos(own, Arch(h)) /\ dPri[h] \in V /\ blq[h] \in V
      /\ asig[blq[h]] = IF pc[h] = "enlazar" THEN NIL ELSE sig[h]
      /\ sig[h] # NIL => sig[h] \notin V
      /\ \A b \in V : b # blq[h] => asig[b] = NIL \/ asig[b] \in V
    BY <1>1, <1>2 DEF Corte, Firmes
<1>4. NIL \notin V
    BY <1>1, ConstantesBloques
<1> DEFINE f == [asig EXCEPT ![blq[h]] = NIL]
<1>5. f \in [Bloques -> Punteros] /\ asig \in [Bloques -> Punteros]
    BY DEF Base, TypeOK, Punteros
<1>6. Cerrado(f, V)
    BY <1>3, <1>5 DEF Cerrado
<1>7. Alcanzables(f, dPri[h]) \subseteq V
    <2> HIDE DEF f
    <2> QED BY <1>3, <1>6, AlcanzablesAcotados
<1>8. /\ Cerrado(f, Alcanzables(f, dPri[h]))
      /\ dPri[h] \in Alcanzables(f, dPri[h])
    <2> HIDE DEF f
    <2> QED BY <1>3, <1>5, AlcanzablesCerrados
<1> QED BY <1>1, <1>3, <1>4, <1>5, <1>7, <1>8 DEF Recorridos

(* What other threads write closes no circle in the file of a thread.      *)
LEMMA CiclosAjenos ==
    ASSUME Base, CadaArchivoDeUno, NEW own, NEW g \in Hilos, pc[g] # "libre",
           pc[g] # "colgado", Bien(own, Arch(g)), SinCiclos(g),
           asig' \in [Bloques -> Punteros],
           \A b \in Suyos(own, Arch(g)) : asig'[b] = asig[b],
           pc'[g] = pc[g], ped'[g] = ped[g], modo'[g] = modo[g],
           dPri'[g] = dPri[g], blq'[g] = blq[g], sig'[g] = sig[g]
    PROVE  SinCiclos(g)'
<1> DEFINE S == Suyos(own, Arch(g))
<1>1. /\ Vista(g) \in [Bloques -> Punteros] /\ S \in SUBSET Bloques
      /\ Cerrado(Vista(g), S)
      /\ ~CabezaVieja(g) => De(own, dPri[g], Arch(g))
    BY VistaPropia
<1>2. (Pendiente(g)' <=> Pendiente(g)) /\ (EnCorte(g)' <=> EnCorte(g))
    BY DEF Pendiente, EnCorte
<1>3. asig \in [Bloques -> Punteros] /\ (Pendiente(g) => sig[g] \in Bloques)
    BY DEF Base, TypeOK, Control
<1>4. Vista(g)' \in [Bloques -> Punteros]
    BY <1>2, <1>3 DEF Vista, Punteros
<1>5. \A b \in S : Vista(g)[b] = Vista(g)'[b]
    BY <1>1, <1>2, <1>3 DEF Vista
<1>6. ASSUME ~(pc[g] = "reemplazar" /\ ped[g].op = "eliminar")
      PROVE  ~NoTermina(Vista(g)', dPri[g])
    <2>1. ~NoTermina(Vista(g), dPri[g])
        BY <1>6 DEF SinCiclos
    <2>2. dPri[g] = NIL \/ dPri[g] \in S
        BY <1>1, <1>6 DEF De, CabezaVieja
    <2> HIDE DEF S
    <2> QED BY <1>1, <1>4, <1>5, <2>1, <2>2, NoTerminaIgual
<1>7. ASSUME pc[g] = "liberar"
      PROVE  ~NoTermina(asig', sig[g])
    <2>1. ~NoTermina(asig, sig[g])
        BY <1>7 DEF SinCiclos
    <2>2. sig[g] = NIL \/ sig[g] \in S
        BY <1>7, ColaPropia DEF De
    <2>3. Cerrado(asig, S)
        BY <1>1, <1>7 DEF Vista, Pendiente
    <2>4. \A b \in S : asig[b] = asig'[b]
        OBVIOUS
    <2> HIDE DEF S
    <2> QED BY <1>1, <1>3, <2>1, <2>2, <2>3, <2>4, NoTerminaIgual
<1>8. ASSUME EnCorte(g), pc[g] # "liberar", sig[g] # dPri[g]
      PROVE  /\ blq[g] \in Recorridos(g)'
             /\ \A b \in Recorridos(g)' \ {blq[g]} : asig'[b] # NIL
    <2> DEFINE f == [asig EXCEPT ![blq[g]] = NIL]
               k == [asig' EXCEPT ![blq[g]] = NIL]
    <2>1. /\ dPri[g] \in Recorridos(g) /\ blq[g] \in Bloques
          /\ Recorridos(g) \subseteq S /\ Recorridos(g) \in SUBSET Bloques
          /\ Cerrado(f, Recorridos(g)) /\ f \in [Bloques -> Punteros]
        BY <1>8, CorteEnMarcha
    <2>2. k \in [Bloques -> Punteros]
        BY DEF Punteros
    <2>3. \A b \in Recorridos(g) : f[b] = k[b]
        BY <1>3, <2>1
    <2>4. Alcanzables(k, dPri[g]) = Alcanzables(f, dPri[g])
        <3> HIDE DEF f, k, S
        <3> QED BY <2>1, <2>2, <2>3, AlcanzablesIguales
    <2>5. Recorridos(g)' = Recorridos(g)
        BY <2>4 DEF Recorridos
    <2>6. /\ blq[g] \in Recorridos(g)
          /\ \A b \in Recorridos(g) \ {blq[g]} : asig[b] # NIL
        BY <1>8 DEF SinCiclos
    <2> QED BY <2>1, <2>5, <2>6
<1> QED BY <1>2, <1>6, <1>7, <1>8 DEF SinCiclos

(* What a step of h owes to the chain of its file e: it leaves one that    *)
(* ends.                                                                   *)
SinVueltas(h, e) ==
    /\ pc'[h] # "libre" => pc'[h] # "colgado" /\ SinCiclos(h)'
    /\ pc'[h] = "libre" /\ Activa(e)' =>
           ~NoTermina(asig', tabla'[e].first_block)

LEMMA NadieSeCuelgaPaso ==
    ASSUME Base, Base', CadaArchivoDeUno, NEW own, \A d \in Entradas : Bien(own, d),
           NadieSeCuelga, NEW h \in Hilos, pc[h] # "libre",
           NEW e \in Entradas, e = Arch(h), Responde(own, h, e),
           SinVueltas(h, e)
    PROVE  NadieSeCuelga'
<1>1. asig' \in [Bloques -> Punteros] /\ asig \in [Bloques -> Punteros]
    BY DEF Base, TypeOK
<1>2. \A d \in Entradas \ {e} : \A b \in Suyos(own, d) : asig'[b] = asig[b]
    BY DEF Responde, Suyos
<1>3. \A g \in Hilos \ {h} : Arch(g) # e /\ Arch(g)' = Arch(g)
    BY SoloUno DEF Responde, SoloDe, Arch
<1>4. ASSUME NEW g \in Hilos \ {h}, pc[g] # "libre"
      PROVE  pc'[g] # "colgado" /\ SinCiclos(g)'
    <2>1. Arch(g) \in Entradas \ {e} /\ Bien(own, Arch(g))
        BY <1>3, <1>4, ConArchivo
    <2>2. SinCiclos(g) /\ pc[g] # "colgado"
        BY <1>4 DEF NadieSeCuelga
    <2>3. /\ pc'[g] = pc[g] /\ ped'[g] = ped[g] /\ modo'[g] = modo[g]
          /\ dPri'[g] = dPri[g] /\ blq'[g] = blq[g] /\ sig'[g] = sig[g]
        BY DEF Responde, SoloDe
    <2>4. \A b \in Suyos(own, Arch(g)) : asig'[b] = asig[b]
        BY <1>2, <2>1
    <2> QED BY <1>1, <1>4, <2>1, <2>2, <2>3, <2>4, CiclosAjenos
<1>5. ASSUME NEW g \in Hilos, pc'[g] # "libre"
      PROVE  pc'[g] # "colgado" /\ SinCiclos(g)'
    BY <1>4, <1>5 DEF SinVueltas, Responde, SoloDe
<1>6. ASSUME NEW d \in Entradas, EnReposo(d)'
      PROVE  ~NoTermina(asig', tabla'[d].first_block)
    <2>1. CASE d = e
        <3>1. pc'[h] = "libre"
            BY <1>6, <2>1 DEF Responde, EnReposo
        <3> QED BY <1>6, <2>1, <3>1 DEF SinVueltas, EnReposo
    <2>2. CASE d # e
        <3>1. tabla'[d] = tabla[d] /\ EnReposo(d)
            BY <1>3, <1>6, <2>2 DEF Responde, EnReposo, Activa
        <3>2. /\ Suyos(own, d) \in SUBSET Bloques
              /\ Firmes(own, d) = Suyos(own, d) /\ CabezaFirme(d)
            BY <3>1 DEF EnReposo, CabezaFirme, Firmes, Suyos
        <3>3. /\ Cerrado(asig, Suyos(own, d))
              /\ tabla[d].first_block = NIL
                 \/ tabla[d].first_block \in Suyos(own, d)
            BY <3>2 DEF Bien, Encerrado, Cabezas, De, Cerrado
        <3>4. \A b \in Suyos(own, d) : asig[b] = asig'[b]
            BY <1>2, <2>2
        <3>5. ~NoTermina(asig, tabla[d].first_block)
            BY <3>1 DEF NadieSeCuelga
        <3>6. ~NoTermina(asig', tabla[d].first_block)
            BY <1>1, <3>2, <3>3, <3>4, <3>5, NoTerminaIgual
        <3> QED BY <3>1, <3>6
    <2> QED BY <2>1, <2>2
<1> QED BY <1>5, <1>6 DEF NadieSeCuelga

(* Steps that leave the disk, the chain and the walk as they are.          *)
LEMMA CiclosLocal ==
    ASSUME Base, NEW h \in Hilos, NEW e, pc[h] \notin {"libre", "reemplazar"},
           SinCiclos(h), UNCHANGED <<asig>>, dPri'[h] = dPri[h],
           ~Pendiente(h), ~Pendiente(h)', pc'[h] \notin {"libre", "colgado"},
           pc'[h] = "liberar" => sig'[h] = dPri[h],
           EnCorte(h)' /\ sig'[h] # dPri[h] =>
               EnCorte(h) /\ pc[h] # "liberar" /\ sig[h] # dPri[h] /\ blq'[h] = blq[h]
    PROVE  SinVueltas(h, e)
<1>1. Vista(h) = asig /\ Vista(h)' = asig
    BY DEF Vista
<1>2. ~NoTermina(asig, dPri[h])
    BY <1>1 DEF SinCiclos
<1>3. ASSUME EnCorte(h)', pc'[h] # "liberar", sig'[h] # dPri[h]
      PROVE  /\ blq'[h] \in Recorridos(h)'
             /\ \A b \in Recorridos(h)' \ {blq'[h]} : asig[b] # NIL
    <2>1. EnCorte(h) /\ pc[h] # "liberar" /\ sig[h] # dPri[h] /\ blq'[h] = blq[h]
        BY <1>3
    <2>2. Recorridos(h)' = Recorridos(h)
        BY <2>1 DEF Recorridos
    <2> QED BY <2>1, <2>2 DEF SinCiclos
<1>4. SinCiclos(h)'
    BY <1>1, <1>2, <1>3 DEF SinCiclos
<1> QED BY <1>4 DEF SinVueltas

LEMMA CiclosTomarLock ==
    ASSUME Base, NEW h \in Hilos, NEW e, SinCiclos(h), TomarLock(h)
    PROVE  SinVueltas(h, e)
<1>1. /\ asig' = asig /\ dPri'[h] = dPri[h]
      /\ pc[h] = "lock" /\ pc'[h] = "espacio"
    BY DEF TomarLock, disco, Base, TypeOK
<1> QED BY <1>1, CiclosLocal DEF Pendiente, EnCorte

LEMMA CiclosComprobarEspacio ==
    ASSUME Base, NEW h \in Hilos, NEW e, SinCiclos(h), ComprobarEspacio(h)
    PROVE  SinVueltas(h, e)
<1>1. /\ asig' = asig /\ dPri'[h] = dPri[h]
      /\ pc[h] = "espacio" /\ pc'[h] = "asignaciones"
    BY DEF ComprobarEspacio, disco, Base, TypeOK
<1> QED BY <1>1, CiclosLocal DEF Pendiente, EnCorte

LEMMA CiclosObtenerTablaAsignaciones ==
    ASSUME Base, NEW h \in Hilos, NEW e, SinCiclos(h),
           ObtenerTablaAsignaciones(h)
    PROVE  SinVueltas(h, e)
<1>1. /\ asig' = asig /\ dPri'[h] = dPri[h] /\ sig'[h] = dPri[h]
      /\ pc[h] = "asignaciones"
      /\ pc'[h] \in {"primero", "escribir", "recorrer", "liberar"}
    BY DEF ObtenerTablaAsignaciones, TrasAsignaciones, disco, Base, TypeOK
<1> QED BY <1>1, CiclosLocal DEF Pendiente, EnCorte

LEMMA CiclosEscribirBloque ==
    ASSUME Base, NEW h \in Hilos, NEW e, SinCiclos(h), EscribirBloque(h)
    PROVE  SinVueltas(h, e)
<1>1. /\ asig' = asig /\ dPri'[h] = dPri[h] /\ modo'[h] = modo[h]
      /\ pc[h] = "escribir" /\ pc'[h] \in {"escribir", "pedir", "reemplazar"}
    BY DEF EscribirBloque, disco, Base, TypeOK
<1>2. modo[h] = "editar"
    BY <1>1, ModoEscribir DEF Base
<1> QED BY <1>1, <1>2, CiclosLocal DEF Pendiente, EnCorte

LEMMA CiclosPedirPrimero ==
    ASSUME Base, Base', NEW h \in Hilos, NEW e, SinCiclos(h), PedirPrimero(h)
    PROVE  SinVueltas(h, e)
<1>1. PICK b \in Bloques : dPri'[h] = b /\ sig'[h] = b /\ pc'[h] = "termPrimero"
    BY DEF PedirPrimero, Base, TypeOK
<1>2. Vista(h)' = [asig' EXCEPT ![b] = NIL] /\ asig' \in [Bloques -> Punteros]
    BY <1>1 DEF Vista, Pendiente, Base, TypeOK
<1>3. Vista(h)' \in [Bloques -> Punteros] /\ Vista(h)'[b] = NIL
    BY <1>2 DEF Punteros
<1>4. b \in Alcanzables(Vista(h)', b)
    BY <1>3, AlcanzablesCerrados
<1>5. ~NoTermina(Vista(h)', b)
    BY <1>3, <1>4 DEF NoTermina
<1>6. SinCiclos(h)'
    BY <1>1, <1>5 DEF SinCiclos, EnCorte
<1> QED BY <1>1, <1>6 DEF SinVueltas

LEMMA CiclosTerminarPrimero ==
    ASSUME Base, NEW h \in Hilos, NEW e, SinCiclos(h), TerminarPrimero(h)
    PROVE  SinVueltas(h, e)
<1>1. /\ pc[h] = "termPrimero" /\ pc'[h] \in {"escribir", "recorrer"}
      /\ dPri'[h] = dPri[h] /\ sig'[h] = sig[h]
      /\ asig' = [asig EXCEPT ![sig[h]] = NIL]
    BY DEF TerminarPrimero, AsignarSiguienteBloque, Base, TypeOK
<1>2. dPri[h] = sig[h]
    BY <1>1 DEF Base, Control
<1>3. Vista(h)' = Vista(h)
    BY <1>1 DEF Vista, Pendiente
<1>4. SinCiclos(h)'
    BY <1>1, <1>2, <1>3 DEF SinCiclos
<1> QED BY <1>1, <1>4 DEF SinVueltas

LEMMA CiclosPedirBloque ==
    ASSUME Base, CadaArchivoDeUno, NEW own, \A d \in Entradas : Bien(own, d),
           NEW h \in Hilos, NEW e \in Entradas, e = Arch(h), SinCiclos(h),
           PedirBloque(h)
    PROVE  SinVueltas(h, e)
<1>1. PICK b \in Bloques : /\ ~bitmap[b]
                           /\ sig' = [sig EXCEPT ![h] = b]
    BY DEF PedirBloque, ObtenerPrimerBloqueLibre, Libres
<1>2. /\ asig' = asig /\ modo'[h] = modo[h]
      /\ pc[h] = "pedir" /\ pc'[h] = "enlazar"
      /\ dPri'[h] = dPri[h] /\ sig'[h] = b /\ blq'[h] = blq[h]
    BY <1>1 DEF PedirBloque, Base, TypeOK
<1>3. ~Pendiente(h) /\ Pendiente(h)' /\ ~CabezaVieja(h)
    BY <1>2 DEF Pendiente, CabezaVieja
<1>4. /\ asig \in [Bloques -> Punteros] /\ Vista(h) = asig
      /\ Vista(h)' = [asig EXCEPT ![b] = NIL]
    BY <1>2, <1>3 DEF Vista, Base, TypeOK
<1>5. /\ Suyos(own, e) \in SUBSET Bloques /\ Cerrado(asig, Suyos(own, e))
      /\ dPri[h] = NIL \/ dPri[h] \in Suyos(own, e)
    BY <1>2, <1>3, <1>4, VistaPropia DEF De
<1>6. b \notin Suyos(own, e)
    BY <1>1 DEF Bien, Encerrado
<1>7. ~NoTermina(Vista(h)', dPri[h])
    <2> DEFINE f == [asig EXCEPT ![b] = NIL]
               S == Suyos(own, e)
    <2>1. f \in [Bloques -> Punteros] /\ \A x \in S : asig[x] = f[x]
        BY <1>4, <1>5, <1>6 DEF Punteros
    <2>2. ~NoTermina(asig, dPri[h])
        BY <1>2, <1>4 DEF SinCiclos
    <2>3. ~NoTermina(f, dPri[h])
        <3>1. /\ S \in SUBSET Bloques /\ Cerrado(asig, S)
              /\ dPri[h] = NIL \/ dPri[h] \in S
            BY <1>5
        <3>2. asig \in [Bloques -> Punteros]
            BY <1>4
        <3> HIDE DEF f, S
        <3> QED BY ONLY <2>1, <2>2, <3>1, <3>2, NoTerminaIgual
    <2> QED BY <1>4, <2>3
<1>8. ASSUME EnCorte(h)'
      PROVE  /\ blq[h] \in Recorridos(h)'
             /\ \A x \in Recorridos(h)' \ {blq[h]} : asig[x] # NIL
    <2>1. EnCorte(h)
        BY <1>2, <1>8 DEF EnCorte
    <2>2. sig[h] # dPri[h]
        BY <1>2, <2>1, CorteEnMarcha
    <2>3. Recorridos(h)' = Recorridos(h)
        BY <1>2 DEF Recorridos
    <2> QED BY <1>2, <2>1, <2>2, <2>3 DEF SinCiclos
<1>9. SinCiclos(h)'
    BY <1>2, <1>7, <1>8 DEF SinCiclos
<1> QED BY <1>2, <1>9 DEF SinVueltas

LEMMA CiclosEnlazar ==
    ASSUME Base, Base', CadaArchivoDeUno, NEW own, \A d \in Entradas : Bien(own, d),
           NEW h \in Hilos, NEW e \in Entradas, e = Arch(h), Fiel(h),
           SinCiclos(h), Enlazar(h)
    PROVE  SinVueltas(h, e)
<1>1. /\ pc[h] = "enlazar" /\ pc'[h] = "terminar" /\ modo'[h] = modo[h]
      /\ dPri'[h] = dPri[h] /\ sig'[h] = sig[h] /\ blq'[h] = blq[h]
      /\ asig' = [asig EXCEPT ![blq[h]] = sig[h]]
    BY DEF Enlazar, AsignarSiguienteBloque, Base, TypeOK
<1>2. Pendiente(h) /\ Pendiente(h)' /\ sig[h] \in Bloques
    BY <1>1 DEF Pendiente, Base, Control
<1>3. blq[h] \in Firmes(own, e) /\ blq[h] \in Bloques /\ blq[h] # sig[h]
    BY <1>1, <1>2, VistaPropia DEF Bien, Recorrido, Firmes, Suyos
<1>4. Vista(h) \in [Bloques -> Punteros] /\ Vista(h)[blq[h]] = NIL
    BY <1>1, <1>3, VistaPropia DEF Fiel
<1>5. Vista(h)' = [Vista(h) EXCEPT ![blq[h]] = sig[h]]
    BY <1>1, <1>2, <1>3 DEF Vista, Base, TypeOK
<1>6. blq[h] \in Alcanzables(Vista(h), dPri[h])
    BY <1>1, <1>3, ConstantesBloques DEF Fiel, Llega
<1>7. sig[h] \in Alcanzables(Vista(h)', dPri[h])
    BY <1>2, <1>3, <1>4, <1>5, <1>6, Alargar
<1>8. Vista(h)'[sig[h]] = NIL
    BY <1>1, <1>2 DEF Vista, Base, TypeOK
<1>9. ~NoTermina(Vista(h)', dPri[h])
    BY <1>7, <1>8 DEF NoTermina
<1>10. ASSUME EnCorte(h)'
       PROVE  /\ blq[h] \in Recorridos(h)'
              /\ \A x \in Recorridos(h)' \ {blq[h]} : asig'[x] # NIL
    <2>1. EnCorte(h)
        BY <1>1, <1>10 DEF EnCorte
    <2>2. /\ sig[h] # dPri[h] /\ Recorridos(h) \in SUBSET Bloques
        BY <1>1, <2>1, CorteEnMarcha
    <2>3. [asig' EXCEPT ![blq[h]] = NIL] = [asig EXCEPT ![blq[h]] = NIL]
        BY <1>1, <1>3 DEF Base, TypeOK
    <2>4. Recorridos(h)' = Recorridos(h)
        BY <1>1, <2>3 DEF Recorridos
    <2>5. /\ blq[h] \in Recorridos(h)
          /\ \A x \in Recorridos(h) \ {blq[h]} : asig[x] # NIL
        BY <1>1, <2>1, <2>2 DEF SinCiclos
    <2>6. \A x \in Bloques \ {blq[h]} : asig'[x] = asig[x]
        BY <1>1 DEF Base, TypeOK
    <2> QED BY <2>2, <2>4, <2>5, <2>6
<1>11. SinCiclos(h)'
    BY <1>1, <1>9, <1>10 DEF SinCiclos
<1> QED BY <1>1, <1>11 DEF SinVueltas

LEMMA CiclosTerminar ==
    ASSUME Base, Base', CadaArchivoDeUno, NEW own, \A d \in Entradas : Bien(own, d),
           NEW h \in Hilos, NEW e \in Entradas, e = Arch(h),
           SinCiclos(h), Terminar(h)
    PROVE  SinVueltas(h, e)
<1>1. /\ pc[h] = "terminar" /\ pc'[h] \in {"escribir", "recorrer"}
      /\ modo'[h] = modo[h] /\ (modo[h] # "editar" => blq'[h] = blq[h])
      /\ dPri'[h] = dPri[h] /\ sig'[h] = sig[h]
      /\ asig' = [asig EXCEPT ![sig[h]] = NIL]
    BY DEF Terminar, AsignarSiguienteBloque, Base, TypeOK
<1>2. Pendiente(h) /\ ~Pendiente(h)' /\ sig[h] \in Bloques
    BY <1>1 DEF Pendiente, Base, Control
<1>3. Vista(h)' = Vista(h)
    BY <1>1, <1>2 DEF Vista
<1>4. ~NoTermina(Vista(h)', dPri[h])
    BY <1>1, <1>3 DEF SinCiclos
<1>5. ASSUME EnCorte(h)'
      PROVE  /\ blq'[h] \in Recorridos(h)'
             /\ \A x \in Recorridos(h)' \ {blq'[h]} : asig'[x] # NIL
    <2>1. EnCorte(h) /\ modo[h] = "truncar" /\ blq'[h] = blq[h]
        BY <1>1, <1>5 DEF EnCorte
    <2> DEFINE f == [asig EXCEPT ![blq[h]] = NIL]
               k == [asig' EXCEPT ![blq[h]] = NIL]
    <2>2. /\ sig[h] # dPri[h] /\ dPri[h] \in Recorridos(h)
          /\ blq[h] \in Bloques /\ sig[h] \notin Recorridos(h)
          /\ Cerrado(f, Recorridos(h)) /\ f \in [Bloques -> Punteros]
          /\ Recorridos(h) \in SUBSET Bloques
        BY <1>1, <2>1, CorteEnMarcha
    <2>3. /\ asig \in [Bloques -> Punteros] /\ asig' \in [Bloques -> Punteros]
          /\ k \in [Bloques -> Punteros]
        BY DEF Base, TypeOK, Punteros
    <2>4. \A x \in Recorridos(h) : asig'[x] = asig[x]
        BY <1>1, <2>2, <2>3
    <2>5. \A x \in Recorridos(h) : f[x] = k[x]
        BY <2>2, <2>3, <2>4
    <2>6. Alcanzables(k, dPri[h]) = Alcanzables(f, dPri[h])
        <3> HIDE DEF f, k
        <3> QED BY <2>2, <2>3, <2>5, AlcanzablesIguales
    <2>7. Recorridos(h)' = Recorridos(h)
        BY <1>1, <2>1, <2>6 DEF Recorridos
    <2>8. /\ blq[h] \in Recorridos(h)
          /\ \A x \in Recorridos(h) \ {blq[h]} : asig[x] # NIL
        BY <1>1, <2>1, <2>2 DEF SinCiclos
    <2> QED BY <2>1, <2>4, <2>7, <2>8
<1>6. SinCiclos(h)'
    BY <1>1, <1>4, <1>5 DEF SinCiclos
<1> QED BY <1>1, <1>6 DEF SinVueltas

(* The walk of a truncation moves on: it leaves one more block behind.     *)
LEMMA CiclosRecorrer ==
    ASSUME Base, CadaArchivoDeUno, NEW own, \A d \in Entradas : Bien(own, d),
           NEW h \in Hilos, NEW e \in Entradas, e = Arch(h), SinCiclos(h),
           Recorrer(h)
    PROVE  SinVueltas(h, e)
<1>1. /\ asig' = asig /\ dPri'[h] = dPri[h] /\ modo'[h] = modo[h]
      /\ pc[h] = "recorrer" /\ pc'[h] \in {"pedir", "recorrer", "cortar"}
      /\ \/ blq'[h] = blq[h] /\ sig'[h] = sig[h]
         \/ sig[h] # NIL /\ blq'[h] = sig[h]
    BY DEF Recorrer, disco, Base, TypeOK
<1>2. ~Pendiente(h) /\ ~Pendiente(h)' /\ EnCorte(h)
    BY <1>1, SoloTruncar, DeUnoSinRecortes DEF Pendiente
<1>3. asig \in [Bloques -> Punteros] /\ sig[h] \in Punteros
    BY DEF Base, TypeOK
<1>4. CASE blq'[h] = blq[h] /\ sig'[h] = sig[h]
    BY <1>1, <1>2, <1>4, CiclosLocal
<1>5. CASE sig[h] # NIL /\ blq'[h] = sig[h]
    <2> DEFINE k == [asig EXCEPT ![sig[h]] = NIL]
               R == Alcanzables(k, dPri[h])
    <2>1. /\ sig[h] \in Bloques /\ k \in [Bloques -> Punteros]
          /\ k[sig[h]] = NIL
        BY <1>3, <1>5 DEF Punteros
    <2>2. Recorridos(h)' = R
        BY <1>1, <1>5 DEF Recorridos
    <2>3. sig[h] \in R /\ \A x \in R \ {sig[h]} : asig[x] # NIL
        <3>1. CASE sig[h] = dPri[h]
            <4>1. Cerrado(k, {sig[h]}) /\ {sig[h]} \in SUBSET Bloques
                BY <2>1 DEF Cerrado
            <4>2. sig[h] \in R
                <5> HIDE DEF k
                <5> QED BY <2>1, <3>1, AlcanzablesCerrados
            <4>3. R \subseteq {sig[h]}
                <5> HIDE DEF k
                <5> QED BY <3>1, <4>1, AlcanzablesAcotados
            <4> QED BY <4>2, <4>3
        <3>2. CASE sig[h] # dPri[h]
            <4> DEFINE f == [asig EXCEPT ![blq[h]] = NIL]
                       A == Recorridos(h)
            <4>1. /\ dPri[h] \in A /\ blq[h] \in Bloques
                  /\ sig[h] \notin A /\ asig[blq[h]] = sig[h]
                  /\ Cerrado(f, A) /\ f \in [Bloques -> Punteros]
                  /\ A \in SUBSET Bloques
                BY <1>1, <1>2, <3>2, CorteEnMarcha
            <4>2. blq[h] \in A /\ \A x \in A \ {blq[h]} : asig[x] # NIL
                BY <1>1, <1>2, <3>2 DEF SinCiclos
            <4>3. \A x \in A \ {blq[h]} : asig[x] \in A
                BY <1>3, <4>1, <4>2 DEF Cerrado
            <4>4. R \subseteq A \cup {sig[h]}
                <5>1. Cerrado(k, A \cup {sig[h]})
                    BY <1>3, <2>1, <4>1, <4>3 DEF Cerrado
                <5>2. A \cup {sig[h]} \in SUBSET Bloques
                    BY <2>1, <4>1
                <5> HIDE DEF k, A
                <5> QED BY <4>1, <5>1, <5>2, AlcanzablesAcotados
            <4>5. \A x \in R \ {sig[h]} : asig[x] # NIL
                BY <1>5, <4>1, <4>2, <4>4
            <4>6. sig[h] \in R
                <5>1. /\ Cerrado(k, R) /\ R \in SUBSET Bloques /\ dPri[h] \in R
                    <6> HIDE DEF k
                    <6> QED BY <2>1, <4>1, AlcanzablesCerrados
                <5>2. A \subseteq R
                    <6> DEFINE T == R \cap A
                    <6>1. Cerrado(f, T)
                        <7> SUFFICES ASSUME NEW x \in T
                                     PROVE  f[x] = NIL \/ f[x] \in T
                            BY DEF Cerrado
                        <7>1. CASE x = blq[h]
                            BY <1>3, <4>1, <7>1
                        <7>2. CASE x # blq[h]
                            <8>1. f[x] = asig[x] /\ asig[x] \in A
                                BY <1>3, <4>1, <4>3, <7>2
                            <8>2. x # sig[h] /\ k[x] = asig[x]
                                BY <1>3, <4>1
                            <8>3. asig[x] \in R \/ asig[x] = NIL
                                BY <5>1, <8>2 DEF Cerrado
                            <8> QED BY <8>1, <8>3
                        <7> QED BY <7>1, <7>2
                    <6>2. T \in SUBSET Bloques /\ dPri[h] \in T
                        BY <4>1, <5>1
                    <6>3. Alcanzables(f, dPri[h]) \subseteq T
                        <7> HIDE DEF f, T
                        <7> QED BY <6>1, <6>2, AlcanzablesAcotados
                    <6> QED BY <6>3 DEF Recorridos
                <5>3. blq[h] \in R /\ k[blq[h]] = sig[h]
                    BY <1>3, <4>1, <4>2, <5>2
                <5> QED BY <1>5, <5>1, <5>3 DEF Cerrado
            <4> QED BY <4>5, <4>6
        <3> QED BY <3>1, <3>2
    <2>4. ~NoTermina(asig, dPri[h])
        BY <1>1, <1>2 DEF SinCiclos, Vista
    <2>5. Vista(h)' = asig
        BY <1>1, <1>2 DEF Vista
    <2>6. SinCiclos(h)'
        BY <1>1, <1>5, <2>2, <2>3, <2>4, <2>5 DEF SinCiclos
    <2> QED BY <1>1, <2>6 DEF SinVueltas
<1> QED BY <1>1, <1>4, <1>5

(* The cut: what was left behind now ends at the block of the walk, and    *)
(* the end of the old chain is in the tail.                                *)
LEMMA CiclosCortar ==
    ASSUME Base, Base', CadaArchivoDeUno, NEW own, \A d \in Entradas : Bien(own, d),
           NEW h \in Hilos, NEW e \in Entradas, e = Arch(h), SinCiclos(h),
           Cortar(h)
    PROVE  SinVueltas(h, e)
<1>1. /\ pc[h] = "cortar" /\ pc'[h] = "liberar"
      /\ sig'[h] = sig[h] /\ blq'[h] = blq[h]
      /\ \/ /\ sig[h] # dPri[h] /\ dPri'[h] = dPri[h]
            /\ asig' = [asig EXCEPT ![blq[h]] = NIL]
         \/ sig[h] = dPri[h] /\ dPri'[h] = NIL /\ asig' = asig
    BY DEF Cortar, NuevoPrimero, AsignarSiguienteBloque, Base, TypeOK
<1>2. ~Pendiente(h) /\ ~Pendiente(h)' /\ EnCorte(h)
    BY <1>1, SoloTruncar, DeUnoSinRecortes DEF Pendiente
<1>3. /\ asig \in [Bloques -> Punteros] /\ dPri[h] \in Punteros
      /\ Vista(h) = asig /\ Vista(h)' = asig'
    BY <1>2 DEF Base, TypeOK, Vista
<1>4. ~NoTermina(asig, dPri[h])
    BY <1>1, <1>3 DEF SinCiclos
<1>5. ~NoTermina(asig', dPri'[h]) /\ ~NoTermina(asig', sig[h])
    <2>1. CASE sig[h] = dPri[h]
        BY <1>1, <1>4, <2>1 DEF NoTermina, Alcanzables
    <2>2. CASE sig[h] # dPri[h]
        <3>1. /\ dPri[h] \in Recorridos(h) /\ blq[h] \in Bloques
              /\ asig[blq[h]] = sig[h] /\ Recorridos(h) \in SUBSET Bloques
            BY <1>1, <1>2, <2>2, CorteEnMarcha
        <3>2. blq[h] \in Recorridos(h)
              /\ \A x \in Recorridos(h) \ {blq[h]} : asig[x] # NIL
            BY <1>1, <1>2, <2>2 DEF SinCiclos
        <3>3. Recorridos(h) = Alcanzables(asig', dPri[h])
            BY <1>1, <2>2 DEF Recorridos
        <3>4. asig'[blq[h]] = NIL
            BY <1>1, <1>3, <2>2, <3>1
        <3>5. ~NoTermina(asig', dPri[h])
            BY <3>2, <3>3, <3>4 DEF NoTermina
        <3>6. CASE sig[h] = NIL
            BY <1>1, <2>2, <3>5, <3>6 DEF NoTermina, Alcanzables
        <3>7. CASE sig[h] # NIL
            <4>1. dPri[h] \in Alcanzables(asig, dPri[h])
                BY <1>3, <3>1, AlcanzablesCerrados
            <4>2. PICK x \in Alcanzables(asig, dPri[h]) : asig[x] = NIL
                BY <1>4, <4>1 DEF NoTermina
            <4>3. x \notin Alcanzables(asig', dPri[h])
                BY <3>1, <3>2, <3>3, <3>7, <4>2
            <4>4. Alcanzables(asig, dPri[h]) \subseteq
                      Alcanzables([asig EXCEPT ![blq[h]] = NIL], dPri[h])
                      \cup Alcanzables([asig EXCEPT ![blq[h]] = NIL], asig[blq[h]])
                BY <1>3, <3>1, Partir
            <4>5. x \in Alcanzables(asig', sig[h])
                BY <1>1, <2>2, <3>1, <4>2, <4>3, <4>4
            <4>6. asig'[x] = NIL
                BY <1>1, <1>3, <2>2, <4>2, <4>5 DEF Alcanzables
            <4> QED BY <1>1, <2>2, <3>5, <4>5, <4>6 DEF NoTermina
        <3> QED BY <1>1, <2>2, <3>5, <3>6, <3>7
    <2> QED BY <2>1, <2>2
<1>6. SinCiclos(h)'
    BY <1>1, <1>3, <1>5 DEF SinCiclos
<1> QED BY <1>1, <1>6 DEF SinVueltas

(* The tail that is freed ends, in the copy of the thread too: its loop is *)
(* left.                                                                   *)
LEMMA CiclosLiberar ==
    ASSUME Base, CadaArchivoDeUno, NEW own, \A d \in Entradas : Bien(own, d),
           NEW h \in Hilos, NEW e \in Entradas, e = Arch(h), SinCiclos(h),
           Liberar(h)
    PROVE  SinVueltas(h, e)
<1>1. /\ asig' = asig /\ ped'[h] = ped[h] /\ dPri'[h] = dPri[h]
      /\ pc[h] = "liberar"
      /\ \/ NoTermina(snap[h], sig[h])
         \/ pc'[h] \in {"espacio", "reemplazar"}
    BY DEF Liberar, Base, TypeOK
<1>2. ~Pendiente(h) /\ pc[h] \in ConSnap
    BY <1>1 DEF Pendiente, ConSnap
<1>3. asig \in [Bloques -> Punteros] /\ snap[h] \in [Bloques -> Punteros]
    BY DEF Base, TypeOK
<1>4. ~NoTermina(snap[h], sig[h])
    <2> DEFINE S == Suyos(own, e)
    <2>1. /\ S \in SUBSET Bloques /\ Firmes(own, e) = S
          /\ Cerrado(Vista(h), S) /\ Vista(h) = asig
        BY <1>1, <1>2, VistaPropia DEF Vista
    <2>2. \A b \in S : asig[b] = snap[h][b]
        BY <1>2, <2>1 DEF Bien, Recorrido
    <2>3. sig[h] = NIL \/ sig[h] \in S
        BY <1>1, ColaPropia DEF De
    <2>4. ~NoTermina(asig, sig[h])
        BY <1>1 DEF SinCiclos
    <2> HIDE DEF S
    <2> QED BY <1>3, <2>1, <2>2, <2>3, <2>4, NoTerminaIgual
<1>5. pc'[h] \in {"espacio", "reemplazar"}
    BY <1>1, <1>4
<1>6. Vista(h) = asig /\ Vista(h)' = asig
    BY <1>1, <1>5 DEF Vista, Pendiente
<1>7. SinCiclos(h)'
    BY <1>1, <1>5, <1>6 DEF SinCiclos, EnCorte
<1> QED BY <1>5, <1>7 DEF SinVueltas

LEMMA CiclosTerminado ==
    ASSUME Base, NEW h \in Hilos, NEW e \in Entradas, e = Arch(h),
           Terminado(h), SinCiclos(h), asig' = asig,
           pc[h] \in {"espacio", "reemplazar"},
           \/ pc[h] = "reemplazar" /\ ped[h].op = "eliminar" /\ ~Activa(e)'
           \/ ~(pc[h] = "reemplazar" /\ ped[h].op = "eliminar")
              /\ tabla'[e].first_block = dPri[h]
    PROVE  SinVueltas(h, e)
<1>1. pc'[h] = "libre"
    BY DEF Terminado, Base, TypeOK
<1>2. Vista(h) = asig
    BY DEF Vista, Pendiente
<1> QED BY <1>1, <1>2 DEF SinVueltas, SinCiclos

LEMMA CiclosRechazarPorEspacio ==
    ASSUME Base, NEW h \in Hilos, NEW e \in Entradas, e = Arch(h), Fiel(h),
           SinCiclos(h), RechazarPorEspacio(h)
    PROVE  SinVueltas(h, e)
<1>0. pc[h] = "espacio" /\ UNCHANGED <<tabla, asig>>
    BY DEF RechazarPorEspacio, disco
<1>1. CASE modo[h] = ped[h].op /\ Terminado(h)
    <2>1. tabla[e].first_block = dPri[h]
        BY <1>0, <1>1 DEF Fiel, SinTocar
    <2> QED BY <1>0, <1>1, <2>1, CiclosTerminado
<1>2. CASE /\ modo[h] # ped[h].op
           /\ pc' = [pc EXCEPT ![h] = "reemplazar"]
           /\ UNCHANGED <<lock, ped, modo, dTam, dPri, snap, ini, res, blq, sig>>
    <2>1. dPri'[h] = dPri[h] /\ pc'[h] = "reemplazar"
        BY <1>2 DEF Base, TypeOK
    <2> QED BY <1>0, <2>1, CiclosLocal DEF Pendiente, EnCorte
<1> QED BY <1>1, <1>2 DEF RechazarPorEspacio

LEMMA CiclosReemplazarEstructuraDeArchivo ==
    ASSUME Base, NEW h \in Hilos, NEW e \in Entradas, e = Arch(h),
           SinCiclos(h), ReemplazarEstructuraDeArchivo(h)
    PROVE  SinVueltas(h, e)
<1>1. /\ pc[h] = "reemplazar" /\ Terminado(h) /\ asig' = asig
      /\ tabla'[e].first_block = dPri[h]
      /\ ped[h].op = "eliminar" => tabla'[e].state = "DELETED"
    BY DEF ReemplazarEstructuraDeArchivo, Base, TypeOK
<1> QED BY <1>1, CiclosTerminado DEF Activa

LEMMA CiclosLeerPath ==
    ASSUME Base, Base', CadaArchivoDeUno, NadieSeCuelga, NEW h \in Hilos,
           NEW p \in Pedidos, LeerPath(h, p)
    PROVE  NadieSeCuelga'
<1>1. /\ SoloDe(h) /\ UNCHANGED disco /\ ped'[h] = p /\ pc[h] = "libre"
      /\ p.hilo = h /\ p.arch \in Entradas /\ Activa(p.arch)
      /\ dPri'[h] = tabla[p.arch].first_block
      /\ pc'[h] \in {"lock", "asignaciones", "reemplazar"}
    BY ConstantesBloques
       DEF LeerPath, PrimerPaso, SoloDe, Activa, Base, TypeOK
<1>2. Arch(h)' = p.arch /\ \A g \in Hilos \ {h} : Arch(g)' = Arch(g)
    BY <1>1 DEF SoloDe, Arch
<1>3. \A g \in Hilos : Arch(g) # p.arch
    <2> SUFFICES ASSUME NEW g \in Hilos, Arch(g) = p.arch PROVE FALSE
        OBVIOUS
    <2>1. ped[g] # NoPed
        BY <1>1, ConstantesBloques DEF Arch, NoPed
    <2>2. ped[g] \in Pedidos /\ ped[g].hilo = g /\ pc[g] # "libre"
        BY <2>1 DEF Base, Control
    <2>3. g = h
        BY <1>1, <2>2 DEF CadaArchivoDeUno, Arch
    <2> QED BY <1>1, <2>2, <2>3
<1>4. asig' = asig /\ tabla' = tabla
    BY <1>1 DEF disco
<1>5. ~NoTermina(asig, tabla[p.arch].first_block)
    BY <1>1, <1>3 DEF NadieSeCuelga, EnReposo
<1>6. SinCiclos(h)'
    BY <1>1, <1>4, <1>5 DEF SinCiclos, Vista, Pendiente, EnCorte
<1>7. ASSUME NEW g \in Hilos \ {h}, pc'[g] # "libre"
      PROVE  pc'[g] # "colgado" /\ SinCiclos(g)'
    <2>1. /\ pc'[g] = pc[g] /\ ped'[g] = ped[g] /\ modo'[g] = modo[g]
          /\ dPri'[g] = dPri[g] /\ blq'[g] = blq[g] /\ sig'[g] = sig[g]
        BY <1>1 DEF SoloDe
    <2>2. pc[g] # "colgado" /\ SinCiclos(g)
        BY <1>7, <2>1 DEF NadieSeCuelga
    <2> QED BY <1>4, <2>1, <2>2
            DEF SinCiclos, Vista, Pendiente, EnCorte, Recorridos
<1>8. ASSUME NEW d \in Entradas, EnReposo(d)'
      PROVE  ~NoTermina(asig', tabla'[d].first_block)
    <2>1. Activa(d) /\ \A g \in Hilos : Arch(g)' # d
        BY <1>4, <1>8 DEF EnReposo, Activa
    <2>2. ped[h] = NoPed
        BY <1>1 DEF Base, Control
    <2>3. Arch(h) # d
        BY <2>2, ConstantesBloques DEF Arch, NoPed
    <2>4. EnReposo(d)
        BY <1>2, <2>1, <2>3 DEF EnReposo
    <2> QED BY <1>4, <2>4 DEF NadieSeCuelga
<1> QED BY <1>1, <1>6, <1>7, <1>8 DEF NadieSeCuelga

LEMMA NadieSeCuelgaInicial == Init => NadieSeCuelga
BY DEF Init, NadieSeCuelga, NoTermina, Alcanzables

LEMMA CiclosPaso ==
    ASSUME Base, CadaArchivoDeUno, NEW own, \A d \in Entradas : Bien(own, d),
           NadaSePierde, NadieSeCuelga, NEW h \in Hilos, Paso(h), vivo
    PROVE  NadieSeCuelga'
<1>1. Base'
    BY BasePaso
<1>2. pc[h] # "libre"
    BY DEF Paso, TomarLock, ComprobarEspacio, RechazarPorEspacio,
           ObtenerTablaAsignaciones, PedirPrimero, TerminarPrimero,
           EscribirBloque, PedirBloque, Enlazar, Terminar, QuedarseSinBloque,
           Recorrer, Cortar, Liberar, ReemplazarEstructuraDeArchivo
<1>3. PICK e \in Entradas : e = Arch(h)
    BY <1>2, ConArchivo
<1>4. SinColgar
    BY DEF NadieSeCuelga, SinColgar
<1>5. Fiel(h) /\ SinCiclos(h)
    BY <1>2, <1>4 DEF NadaSePierde, NadieSeCuelga
<1>6. CASE QuedarseSinBloque(h)
    <2>1. /\ UNCHANGED <<tabla, pc, ped, modo, dPri, blq, sig>>
          /\ \/ asig' = asig
             \/ pc[h] = "pedir" /\ asig' = [asig EXCEPT ![blq[h]] = NIL]
        BY <1>6 DEF QuedarseSinBloque, AsignarSiguienteBloque
    <2>2. asig' = asig
        BY <1>5, <2>1 DEF Fiel, Base, TypeOK
    <2> QED BY <2>1, <2>2 DEF NadieSeCuelga, SinCiclos, Vista, Pendiente,
                             EnCorte, Recorridos, EnReposo, Activa, Arch
<1>7. CASE ~QuedarseSinBloque(h)
    <2>0. Responde(own, h, e)
        BY <1>1, <1>2, <1>3, <1>4, <1>5, <1>7, FugasResponde
    <2>1. SinVueltas(h, e)
        <3>1. CASE TomarLock(h)
            BY <1>5, <3>1, CiclosTomarLock
        <3>2. CASE ComprobarEspacio(h)
            BY <1>5, <3>2, CiclosComprobarEspacio
        <3>3. CASE RechazarPorEspacio(h)
            BY <1>3, <1>5, <3>3, CiclosRechazarPorEspacio
        <3>4. CASE ObtenerTablaAsignaciones(h)
            BY <1>5, <3>4, CiclosObtenerTablaAsignaciones
        <3>5. CASE PedirPrimero(h)
            BY <1>1, <1>5, <3>5, CiclosPedirPrimero
        <3>6. CASE TerminarPrimero(h)
            BY <1>5, <3>6, CiclosTerminarPrimero
        <3>7. CASE EscribirBloque(h)
            BY <1>5, <3>7, CiclosEscribirBloque
        <3>8. CASE PedirBloque(h)
            BY <1>3, <1>5, <3>8, CiclosPedirBloque
        <3>9. CASE Enlazar(h)
            BY <1>1, <1>3, <1>5, <3>9, CiclosEnlazar
        <3>10. CASE Terminar(h)
            BY <1>1, <1>3, <1>5, <3>10, CiclosTerminar
        <3>12. CASE Recorrer(h)
            BY <1>3, <1>5, <3>12, CiclosRecorrer
        <3>13. CASE Cortar(h)
            BY <1>1, <1>3, <1>5, <3>13, CiclosCortar
        <3>14. CASE Liberar(h)
            BY <1>3, <1>5, <3>14, CiclosLiberar
        <3>15. CASE ReemplazarEstructuraDeArchivo(h)
            BY <1>3, <1>5, <3>15, CiclosReemplazarEstructuraDeArchivo
        <3> QED BY <1>7, <3>1, <3>2, <3>3, <3>4, <3>5, <3>6, <3>7, <3>8, <3>9,
                   <3>10, <3>12, <3>13, <3>14, <3>15 DEF Paso
    <2> QED BY <1>1, <1>2, <1>3, <2>0, <2>1, NadieSeCuelgaPaso
<1> QED BY <1>6, <1>7

LEMMA CiclosInductivo ==
    ASSUME CadaArchivoDeUno, IInv, NadaSePierde, NadieSeCuelga, [Next]_vars
    PROVE  NadieSeCuelga'
<1>1. Base
    BY DEF IInv, Base
<1>2. PICK own \in Duenios : \A e \in Entradas : Bien(own, e)
    BY DEF IInv
<1>3. CASE UNCHANGED vars
    BY <1>3 DEF vars, NadieSeCuelga, SinCiclos, Vista, Pendiente, EnCorte,
                Recorridos, EnReposo, Activa, Arch
<1>4. ASSUME NEW h \in Hilos, NEW p \in Pedidos, LeerPath(h, p)
      PROVE  NadieSeCuelga'
    <2>1. Base'
        BY <1>1, <1>4, BaseLeerPath
    <2> QED BY <1>1, <1>4, <2>1, CiclosLeerPath
<1>5. ASSUME NEW h \in Hilos, Paso(h), vivo PROVE NadieSeCuelga'
    BY <1>1, <1>2, <1>5, CiclosPaso
<1> QED BY <1>3, <1>4, <1>5 DEF Next, PathInexistente

(* Every chain ends and every walk with it, as long as each file is in the *)
(* hands of one client.                                                    *)
THEOREM NadieSeCuelgaNunca ==
    ASSUME CadaArchivoDeUno
    PROVE  Spec => []NadieSeCuelga
<1>1. Spec => []IInv
    BY DeUnoSinRecortes, RepartoSiempre
<1>2. Spec => []NadaSePierde
    BY NadaSePierdeNunca
<1>3. IInv /\ NadaSePierde /\ NadieSeCuelga /\ [Next]_vars => NadieSeCuelga'
    BY CiclosInductivo
<1> QED BY <1>1, <1>2, <1>3, NadieSeCuelgaInicial, PTL DEF Spec

(* No loop over a chain runs for ever: neither that of a reader of a file  *)
(* nobody is working on, nor the one that frees blocks under lockBitmap.   *)
THEOREM SinBuclesNunca ==
    ASSUME CadaArchivoDeUno
    PROVE  Spec => []SinBucles
<1>1. Base /\ NadieSeCuelga => SinBucles
    <2> SUFFICES ASSUME Base, NadieSeCuelga PROVE SinBucles
        OBVIOUS
    <2>1. \A e \in Entradas : Activa(e) /\ ~EnUso(e) => EnReposo(e)
        <3> SUFFICES ASSUME NEW e \in Entradas, ~EnUso(e), NEW h \in Hilos,
                            Arch(h) = e
                     PROVE  FALSE
            BY DEF EnReposo
        <3>1. pc[h] = "libre" /\ ped[h] = NoPed
            BY DEF EnUso, Base, Control
        <3> QED BY <3>1, ConstantesBloques DEF Arch, NoPed
    <2> QED BY <2>1 DEF NadieSeCuelga, SinBucles
<1> QED BY <1>1, BaseSiempre, NadieSeCuelgaNunca, PTL
-----------------------------------------------------------------------------
(* Sets of blocks are finite, and a block more makes one more.             *)
LEMMA CuentaDeBloques ==
    ASSUME NEW S \in SUBSET Bloques
    PROVE  /\ IsFiniteSet(S) /\ Cardinality(S) \in Nat
           /\ \A b \in Bloques \ S :
                  Cardinality(S \cup {b}) = Cardinality(S) + 1
           /\ \A b \in S : Cardinality(S \ {b}) = Cardinality(S) - 1
           /\ \A R \in SUBSET S : Cardinality(R) <= Cardinality(S)
<1>1. IsFiniteSet(Bloques)
    BY ConstantesBloques, FS_Interval DEF Bloques
<1>2. IsFiniteSet(S) /\ Cardinality(S) \in Nat
    BY <1>1, FS_Subset, FS_CardinalityType
<1> QED BY <1>2, FS_AddElement, FS_RemoveElement, FS_Subset

(* A walk visits its first block and then what the next one reaches.       *)
LEMMA Desenrollar ==
    ASSUME NEW f \in [Bloques -> Punteros], NEW b \in Bloques
    PROVE  Alcanzables(f, b) = {b} \cup Alcanzables(f, f[b])
<1> DEFINE S == Alcanzables(f, b)
           R == Alcanzables(f, f[b])
<1>1. f[b] \in Punteros
    OBVIOUS
<1>2. Cerrado(f, S) /\ S \in SUBSET Bloques /\ b \in S
    BY AlcanzablesCerrados
<1>3. /\ Cerrado(f, R) /\ R \in SUBSET Bloques
      /\ f[b] \in Bloques => f[b] \in R
    BY AlcanzablesCerrados
<1>4. f[b] = NIL \/ f[b] \in S
    BY <1>2 DEF Cerrado
<1>5. R \subseteq S
    <2> HIDE DEF S
    <2> QED BY <1>2, <1>4, AlcanzablesAcotados
<1>6. Cerrado(f, {b} \cup R)
    BY <1>1, <1>3 DEF Cerrado, Punteros
<1>7. S \subseteq {b} \cup R
    BY <1>3, <1>6, AlcanzablesAcotados
<1> QED BY <1>2, <1>5, <1>7

(* A walk that ends does not come back to the block it starts at.          *)
LEMMA Aciclico ==
    ASSUME NEW f \in [Bloques -> Punteros], NEW b \in Bloques,
           ~NoTermina(f, b)
    PROVE  b \notin Alcanzables(f, f[b])
<1> SUFFICES ASSUME b \in Alcanzables(f, f[b]) PROVE FALSE
    OBVIOUS
<1> DEFINE P == {y \in Alcanzables(f, b) :
                     f[y] # NIL /\ b \in Alcanzables(f, f[y])}
<1>1. /\ b \in Alcanzables(f, b) /\ Alcanzables(f, b) \subseteq Bloques
      /\ Cerrado(f, Alcanzables(f, b))
    BY AlcanzablesCerrados
<1>2. f[b] # NIL
    BY DEF Alcanzables
<1>3. ASSUME NEW y \in P PROVE f[y] \in P
    <2>1. /\ y \in Bloques /\ f[y] \in Bloques /\ f[y] \in Alcanzables(f, b)
          /\ b \in Alcanzables(f, f[y])
        BY <1>1, <1>3 DEF Cerrado, Punteros
    <2>2. CASE f[y] = b
        BY <1>1, <1>2, <2>1, <2>2
    <2>3. CASE f[y] # b
        <3>1. b \in Alcanzables(f, f[f[y]])
            BY <2>1, <2>3, Desenrollar
        <3>2. f[f[y]] # NIL
            BY <3>1 DEF Alcanzables
        <3> QED BY <2>1, <3>1, <3>2
    <2> QED BY <2>2, <2>3
<1>4. Cerrado(f, P) /\ P \in SUBSET Bloques /\ b \in P
    BY <1>1, <1>2, <1>3 DEF Cerrado
<1>5. Alcanzables(f, b) \subseteq P
    <2> HIDE DEF P
    <2> QED BY <1>4, AlcanzablesAcotados
<1> QED BY <1>1, <1>5 DEF NoTermina

(* From every block of a walk that ends the walk ends.                     *)
LEMMA TodosLlegan ==
    ASSUME NEW f \in [Bloques -> Punteros], NEW p \in Punteros,
           ~NoTermina(f, p), NEW y \in Alcanzables(f, p)
    PROVE  ~NoTermina(f, y)
<1>1. PICK x \in Alcanzables(f, p) : f[x] = NIL
    BY DEF NoTermina
<1> DEFINE P == {z \in Alcanzables(f, p) : x \in Alcanzables(f, z)}
<1>2. /\ Alcanzables(f, p) \subseteq Bloques
      /\ Cerrado(f, Alcanzables(f, p))
      /\ p \in Alcanzables(f, p)
    BY <1>1, AlcanzablesCerrados DEF Punteros
<1>3. ASSUME NEW z \in P, f[z] # NIL PROVE f[z] \in P
    <2>1. z \in Bloques /\ f[z] \in Alcanzables(f, p) /\ z # x
        BY <1>1, <1>2, <1>3 DEF Cerrado
    <2>2. x \in Alcanzables(f, f[z])
        BY <2>1, Desenrollar
    <2> QED BY <2>1, <2>2
<1>4. Cerrado(f, P) /\ P \in SUBSET Bloques
    BY <1>2, <1>3 DEF Cerrado
<1>5. p \in P
    BY <1>1, <1>2
<1>6. Alcanzables(f, p) \subseteq P
    <2> HIDE DEF P
    <2> QED BY <1>4, <1>5, AlcanzablesAcotados
<1> QED BY <1>1, <1>6 DEF NoTermina

(* One turn of a walk that ends leaves one block less to go.               *)
LEMMA UnaVuelta ==
    ASSUME NEW f \in [Bloques -> Punteros], NEW b \in Bloques,
           ~NoTermina(f, b)
    PROVE  /\ Cardinality(Alcanzables(f, b)) =
                  Cardinality(Alcanzables(f, f[b])) + 1
           /\ Cardinality(Alcanzables(f, f[b])) \in Nat
           /\ f[b] = NIL => Cardinality(Alcanzables(f, f[b])) = 0
<1>1. Alcanzables(f, f[b]) \in SUBSET Bloques
    BY AlcanzablesCerrados
<1>2. b \notin Alcanzables(f, f[b])
    BY Aciclico
<1>3. Alcanzables(f, b) = Alcanzables(f, f[b]) \cup {b}
    BY Desenrollar
<1>4. f[b] = NIL => Alcanzables(f, f[b]) = {}
    BY DEF Alcanzables
<1> QED BY <1>1, <1>2, <1>3, <1>4, CuentaDeBloques, FS_EmptySet

(* A block linked to the end of a chain makes it one block longer.         *)
LEMMA AlargarExacto ==
    ASSUME NEW f \in [Bloques -> Punteros], NEW p, NEW b \in Bloques,
           b \in Alcanzables(f, p), f[b] = NIL,
           NEW v \in Bloques, v \notin Alcanzables(f, p), f[v] = NIL,
           NEW g \in [Bloques -> Punteros], g[b] = v,
           \A x \in Bloques \ {b} : g[x] = f[x]
    PROVE  Alcanzables(g, p) = Alcanzables(f, p) \cup {v}
<1> DEFINE R == Alcanzables(f, p) \cup {v}
<1>1. /\ Alcanzables(f, p) \subseteq Bloques /\ p # NIL
      /\ Cerrado(f, Alcanzables(f, p))
    BY AlcanzablesCerrados DEF Alcanzables
<1>2. R \in SUBSET Bloques /\ Cerrado(g, R)
    BY <1>1 DEF Cerrado
<1>3. p \in R
    <2>1. Alcanzables(f, p) \in SUBSET Bloques
        BY <1>1
    <2>2. p \in Bloques
        BY <1>1 DEF Alcanzables
    <2> QED BY <1>1, <2>2, AlcanzablesCerrados
<1>4. Alcanzables(g, p) \subseteq R
    <2> HIDE DEF R
    <2> QED BY <1>2, <1>3, AlcanzablesAcotados
<1>5. Alcanzables(f, p) \cup {v} \subseteq
          Alcanzables([f EXCEPT ![b] = v], p)
    BY Alargar
<1>6. g = [f EXCEPT ![b] = v]
    OBVIOUS
<1> QED BY <1>4, <1>5, <1>6

(* The blocks a number of them hold.                                       *)
LEMMA CuentaDeBytes ==
    /\ Bytes(0) = 0 /\ Bytes(1) = TamBloque
    /\ \A n \in Nat : Bytes(n) \in Nat /\ Bytes(n + 1) = Bytes(n) + TamBloque
    /\ \A m, n \in Nat : m <= n => Bytes(m) <= Bytes(n)
    /\ \A m, n \in Nat : m < n => Bytes(m) + TamBloque <= Bytes(n)
    /\ TamBloque \in Nat /\ TamBloque > 0
<1>1. TamBloque \in Nat /\ TamBloque > 0
    BY ConstantesBloques
<1>2. \A n \in Nat : Bytes(n) \in Nat /\ Bytes(n + 1) = Bytes(n) + TamBloque
    BY <1>1 DEF Bytes
<1>3. ASSUME NEW m \in Nat, NEW n \in Nat, m <= n PROVE Bytes(m) <= Bytes(n)
    BY <1>1, <1>3 DEF Bytes
<1>4. ASSUME NEW m \in Nat, NEW n \in Nat, m < n
      PROVE  Bytes(m) + TamBloque <= Bytes(n)
    BY <1>2, <1>3, <1>4
<1> QED BY <1>1, <1>2, <1>3, <1>4 DEF Bytes

(* A size fixes the number of blocks that fit it.                          *)
LEMMA JustaUnica ==
    ASSUME NEW n \in Nat, NEW x \in Nat, Justa(n, x)
    PROVE  n = BloquesDe(x)
<1>1. TamBloque \in Nat /\ TamBloque > 0
    BY ConstantesBloques
<1>2. x <= TamBloque * n /\ TamBloque * n < x + TamBloque
    BY DEF Justa, Bytes
<1>3. TamBloque * n <= x + TamBloque - 1 /\ x + TamBloque - 1 < TamBloque * n + TamBloque
    BY <1>1, <1>2
<1> QED BY <1>1, <1>3 DEF BloquesDe

(* Blocks that hold a size are at least those the size asks for.           *)
LEMMA BloquesQueAlcanzan ==
    ASSUME NEW n \in Nat, NEW x \in Nat, x <= Bytes(n)
    PROVE  BloquesDe(x) <= n
<1>1. TamBloque \in Nat /\ TamBloque > 0
    BY ConstantesBloques
<1>2. x <= TamBloque * n
    BY DEF Bytes
<1>3. x + TamBloque - 1 < TamBloque * n + TamBloque
    BY <1>1, <1>2
<1> QED BY <1>1, <1>3 DEF BloquesDe

-----------------------------------------------------------------------------
(* What other threads write leaves the chain of a thread as long as it was.*)
LEMMA CuentasAjenas ==
    ASSUME Base, CadaArchivoDeUno, NEW own, NEW g \in Hilos, pc[g] # "libre",
           pc[g] # "colgado", Bien(own, Arch(g)),
           asig' \in [Bloques -> Punteros],
           \A b \in Suyos(own, Arch(g)) : asig'[b] = asig[b],
           pc'[g] = pc[g], ped'[g] = ped[g], modo'[g] = modo[g],
           dPri'[g] = dPri[g], blq'[g] = blq[g], sig'[g] = sig[g]
    PROVE  /\ ~(pc[g] = "reemplazar" /\ ped[g].op = "eliminar") =>
                  Largo(g)' = Largo(g)
           /\ pc[g] = "escribir" => PorEscribir(g)' = PorEscribir(g)
           /\ EnCorte(g) /\ pc[g] # "liberar" => Dejados(g)' = Dejados(g)
<1> DEFINE S == Suyos(own, Arch(g))
<1>1. /\ Vista(g) \in [Bloques -> Punteros] /\ S \in SUBSET Bloques
      /\ Cerrado(Vista(g), S)
      /\ ~CabezaVieja(g) => De(own, dPri[g], Arch(g))
      /\ Firmes(own, Arch(g)) \subseteq S
    BY VistaPropia DEF Firmes
<1>2. Pendiente(g)' <=> Pendiente(g)
    BY DEF Pendiente
<1>3. asig \in [Bloques -> Punteros] /\ (Pendiente(g) => sig[g] \in Bloques)
    BY DEF Base, TypeOK, Control
<1>4. Vista(g)' \in [Bloques -> Punteros]
    BY <1>2, <1>3 DEF Vista, Punteros
<1>5. \A b \in S : Vista(g)[b] = Vista(g)'[b]
    BY <1>1, <1>2, <1>3 DEF Vista
<1>6. ASSUME ~(pc[g] = "reemplazar" /\ ped[g].op = "eliminar")
      PROVE  Largo(g)' = Largo(g)
    <2>1. dPri[g] = NIL \/ dPri[g] \in S
        BY <1>1, <1>6 DEF De, CabezaVieja
    <2>2. Alcanzables(Vista(g)', dPri[g]) = Alcanzables(Vista(g), dPri[g])
        <3> HIDE DEF S
        <3> QED BY <1>1, <1>4, <1>5, <2>1, AlcanzablesIguales
    <2> QED BY <2>2 DEF Largo, Llega
<1>7. ASSUME pc[g] = "escribir"
      PROVE  PorEscribir(g)' = PorEscribir(g)
    <2>1. blq[g] \in S
        BY <1>1, <1>7 DEF Bien, Recorrido
    <2>2. Vista(g) = asig /\ Vista(g)' = asig'
        BY <1>2, <1>7 DEF Vista, Pendiente
    <2>3. Alcanzables(Vista(g)', blq[g]) = Alcanzables(Vista(g), blq[g])
        <3> HIDE DEF S
        <3> QED BY <1>1, <1>4, <1>5, <2>1, AlcanzablesIguales
    <2> QED BY <2>2, <2>3 DEF PorEscribir
<1>8. ASSUME EnCorte(g), pc[g] # "liberar", sig[g] # dPri[g]
      PROVE  Recorridos(g)' = Recorridos(g)
    <2> DEFINE f == [asig EXCEPT ![blq[g]] = NIL]
               k == [asig' EXCEPT ![blq[g]] = NIL]
    <2>1. /\ dPri[g] \in Recorridos(g) /\ blq[g] \in Bloques
          /\ Recorridos(g) \subseteq S /\ Recorridos(g) \in SUBSET Bloques
          /\ Cerrado(f, Recorridos(g)) /\ f \in [Bloques -> Punteros]
        BY <1>8, CorteEnMarcha
    <2>2. k \in [Bloques -> Punteros]
        BY DEF Punteros
    <2>3. \A b \in Recorridos(g) : f[b] = k[b]
        BY <1>3, <2>1
    <2>4. Alcanzables(k, dPri[g]) = Alcanzables(f, dPri[g])
        <3> HIDE DEF f, k, S
        <3> QED BY <2>1, <2>2, <2>3, AlcanzablesIguales
    <2> QED BY <2>4 DEF Recorridos
<1> QED BY <1>6, <1>7, <1>8 DEF Dejados

(* A thread that does nothing while its chain stays as long as it was.     *)
LEMMA MedidaAjena ==
    ASSUME Base, NEW g \in Hilos, pc[g] # "libre", Medida(g),
           pc'[g] = pc[g], ped'[g] = ped[g], modo'[g] = modo[g],
           dTam'[g] = dTam[g], ini'[g] = ini[g], res'[g] = res[g],
           tabla'[Arch(g)] = tabla[Arch(g)],
           Arch(g) \in huecos' <=> Arch(g) \in huecos,
           ~(pc[g] = "reemplazar" /\ ped[g].op = "eliminar") =>
               Largo(g)' = Largo(g),
           pc[g] = "escribir" => PorEscribir(g)' = PorEscribir(g),
           EnCorte(g) /\ pc[g] # "liberar" => Dejados(g)' = Dejados(g)
    PROVE  Medida(g)'
<1>1. /\ EnCorte(g)' = EnCorte(g) /\ SinTocar(g)' = SinTocar(g)
      /\ Arch(g)' = Arch(g) /\ Meta(g)' = Meta(g) /\ Tope(g)' = Tope(g)
      /\ Exacta(g)' = Exacta(g)
    BY DEF EnCorte, SinTocar, Arch, Meta, Tope, Exacta
<1>2. CASE pc[g] = "reemplazar" /\ ped[g].op = "eliminar"
    BY <1>1, <1>2 DEF Medida, MedidaAlEditar, EnCorte, SinTocar
<1>3. CASE ~(pc[g] = "reemplazar" /\ ped[g].op = "eliminar")
    <2>1. Largo(g)' = Largo(g)
        BY <1>3
    <2>2. modo[g] = "editar" => MedidaAlEditar(g)'
        BY <1>1, <2>1 DEF Medida, MedidaAlEditar, Justa
    <2>3. EnCorte(g) /\ pc[g] # "liberar" => MedidaAlTruncar(g)'
        BY DEF Medida, MedidaAlTruncar
    <2> QED BY <1>1, <2>1, <2>2, <2>3 DEF Medida, Justa, Ajustada
<1> QED BY <1>2, <1>3

(* What a step of h owes to the size of its file e.                        *)
SinDesajuste(h, e) ==
    /\ pc'[h] # "libre" => Medida(h)'
    /\ pc'[h] = "libre" /\ Activa(e)' => MedidaDe(e)'

LEMMA MedidasPaso ==
    ASSUME Base, Base', CadaArchivoDeUno, NEW own, \A d \in Entradas : Bien(own, d),
           NadieSeCuelga, Medidas, NEW h \in Hilos, pc[h] # "libre",
           NEW e \in Entradas, e = Arch(h), Responde(own, h, e),
           \A d \in Entradas \ {e} : d \in huecos' <=> d \in huecos,
           SinDesajuste(h, e)
    PROVE  Medidas'
<1>1. asig' \in [Bloques -> Punteros] /\ asig \in [Bloques -> Punteros]
    BY DEF Base, TypeOK
<1>2. \A d \in Entradas \ {e} : \A b \in Suyos(own, d) : asig'[b] = asig[b]
    BY DEF Responde, Suyos
<1>3. \A g \in Hilos \ {h} : Arch(g) # e /\ Arch(g)' = Arch(g)
    BY SoloUno DEF Responde, SoloDe, Arch
<1>4. ASSUME NEW g \in Hilos \ {h}, pc[g] # "libre"
      PROVE  Medida(g)'
    <2>1. Arch(g) \in Entradas \ {e} /\ Bien(own, Arch(g))
        BY <1>3, <1>4, ConArchivo
    <2>2. Medida(g) /\ pc[g] # "colgado"
        BY <1>4 DEF NadieSeCuelga, Medidas
    <2>3. /\ pc'[g] = pc[g] /\ ped'[g] = ped[g] /\ modo'[g] = modo[g]
          /\ dPri'[g] = dPri[g] /\ blq'[g] = blq[g] /\ sig'[g] = sig[g]
          /\ dTam'[g] = dTam[g] /\ ini'[g] = ini[g] /\ res'[g] = res[g]
        BY DEF Responde, SoloDe
    <2>4. \A b \in Suyos(own, Arch(g)) : asig'[b] = asig[b]
        BY <1>2, <2>1
    <2>5. /\ tabla'[Arch(g)] = tabla[Arch(g)]
          /\ Arch(g) \in huecos' <=> Arch(g) \in huecos
        BY <2>1 DEF Responde
    <2>6. /\ ~(pc[g] = "reemplazar" /\ ped[g].op = "eliminar") =>
                 Largo(g)' = Largo(g)
          /\ pc[g] = "escribir" => PorEscribir(g)' = PorEscribir(g)
          /\ EnCorte(g) /\ pc[g] # "liberar" => Dejados(g)' = Dejados(g)
        BY <1>1, <1>4, <2>1, <2>2, <2>3, <2>4, CuentasAjenas
    <2> QED BY <1>4, <2>2, <2>3, <2>5, <2>6, MedidaAjena
<1>5. ASSUME NEW g \in Hilos, pc'[g] # "libre" PROVE Medida(g)'
    BY <1>4, <1>5 DEF SinDesajuste, Responde, SoloDe
<1>6. ASSUME NEW d \in Entradas, EnReposo(d)' PROVE MedidaDe(d)'
    <2>1. CASE d = e
        <3>1. pc'[h] = "libre"
            BY <1>6, <2>1 DEF Responde, EnReposo
        <3> QED BY <1>6, <2>1, <3>1 DEF SinDesajuste, EnReposo
    <2>2. CASE d # e
        <3>1. tabla'[d] = tabla[d] /\ EnReposo(d)
            BY <1>3, <1>6, <2>2 DEF Responde, EnReposo, Activa
        <3>2. \A g \in Hilos : Arch(g)' # d
            BY <1>6 DEF EnReposo
        <3>3. \A b \in Suyos(own, d) : asig'[b] = asig[b]
            BY <1>2, <2>2
        <3>4. Cadena(d)' = Cadena(d)
            BY <1>1, <3>1, <3>2, <3>3, ReposoAjeno
        <3> QED BY <2>2, <3>1, <3>4 DEF Medidas, MedidaDe, Ajustada
    <2> QED BY <2>1, <2>2
<1> QED BY <1>5, <1>6 DEF Medidas

(* The chain of a thread that leaves the allocation table and its first    *)
(* block alone is as long as it was.                                       *)
LEMMA LargoLocal ==
    ASSUME NEW h, asig' = asig, dPri'[h] = dPri[h], ~Pendiente(h), ~Pendiente(h)'
    PROVE  /\ Largo(h)' = Largo(h)
           /\ Llega(h) = Alcanzables(asig, dPri[h])
           /\ Llega(h)' = Alcanzables(asig, dPri[h])
BY DEF Largo, Llega, Vista

(* The numbers of blocks are numbers.                                      *)
LEMMA CuentaDeAlcanzables ==
    ASSUME NEW f, NEW p
    PROVE  /\ Cardinality(Alcanzables(f, p)) \in Nat
           /\ Bytes(Cardinality(Alcanzables(f, p))) \in Nat
<1>1. Alcanzables(f, p) \in SUBSET Bloques
    BY DEF Alcanzables
<1> QED BY <1>1, CuentaDeBloques, CuentaDeBytes

LEMMA CuentasTipos ==
    ASSUME Base, NEW h \in Hilos
    PROVE  /\ Largo(h) \in Nat /\ Dejados(h) \in Nat /\ PorEscribir(h) \in Nat
           /\ Bytes(Largo(h)) \in Nat /\ Bytes(Dejados(h)) \in Nat
           /\ Bytes(PorEscribir(h)) \in Nat
           /\ ini[h] \in Int /\ res[h] \in Nat /\ dTam[h] \in Nat
           /\ TamBloque \in Nat /\ TamBloque > 0
<1>1. \A f, p : Alcanzables(f, p) \in SUBSET Bloques
    BY DEF Alcanzables
<1>2. Largo(h) \in Nat /\ Dejados(h) \in Nat /\ PorEscribir(h) \in Nat
    BY <1>1, CuentaDeBloques DEF Largo, Llega, Dejados, Recorridos, PorEscribir
<1>3. ini[h] \in Int /\ res[h] \in Nat /\ dTam[h] \in Nat
    BY DEF Base, TypeOK
<1> QED BY <1>2, <1>3, CuentaDeBytes

(* What a request asks for, in numbers.                                    *)
LEMMA MetasTipos ==
    ASSUME Base, NEW h \in Hilos, pc[h] # "libre"
    PROVE  /\ Meta(h) \in Nat /\ Tope(h) \in Nat
           /\ ped[h].ini \in Nat /\ ped[h].bytes \in Nat
           /\ ped[h].op \in {"editar", "truncar"} => Meta(h) <= Tope(h)
           /\ ped[h].op = "editar" => dTam[h] <= Tope(h)
<1>1. ped[h].ini \in Nat /\ ped[h].bytes \in Nat
    BY ConArchivo, ConstantesBloques
<1>2. dTam[h] \in Nat
    BY DEF Base, TypeOK
<1>3. Meta(h) \in Nat
    BY <1>1 DEF Meta
<1> QED BY <1>1, <1>2, <1>3 DEF Tope

LEMMA MedidasTomarLock ==
    ASSUME Base, NEW h \in Hilos, NEW e, Medida(h), TomarLock(h)
    PROVE  SinDesajuste(h, e)
<1>1. /\ pc[h] = "lock" /\ pc'[h] = "espacio" /\ UNCHANGED <<tabla, asig, huecos>>
      /\ dPri'[h] = dPri[h] /\ ped'[h] = ped[h] /\ modo'[h] = modo[h]
      /\ dTam'[h] = dTam[h]
      /\ ini'[h] = IF modo[h] = "editar" THEN ped[h].ini ELSE ped[h].bytes
      /\ res'[h] = IF modo[h] = "editar" THEN ped[h].bytes ELSE 0
    BY DEF TomarLock, disco, Base, TypeOK
<1>2. Largo(h)' = Largo(h)
    BY <1>1, LargoLocal DEF Pendiente
<1>3. /\ Arch(h)' = Arch(h) /\ Meta(h)' = Meta(h)
      /\ modo[h] = ped[h].op
    BY <1>1 DEF Arch, Meta, Medida
<1>4. ped[h].ini \in Nat /\ ped[h].bytes \in Nat
    BY <1>1, MetasTipos
<1>5. modo[h] = "editar" => MedidaAlEditar(h)'
    BY <1>1, <1>3, <1>4 DEF MedidaAlEditar, Medida, Meta
<1>6. Medida(h)'
    BY <1>1, <1>2, <1>3, <1>5 DEF Medida, SinTocar, EnCorte, Justa, Ajustada
<1> QED BY <1>1, <1>6 DEF SinDesajuste

LEMMA MedidasComprobarEspacio ==
    ASSUME Base, NEW h \in Hilos, NEW e, Medida(h), ComprobarEspacio(h)
    PROVE  SinDesajuste(h, e)
<1>1. /\ pc[h] = "espacio" /\ pc'[h] = "asignaciones"
      /\ UNCHANGED <<tabla, asig, dPri, ped, modo, dTam, ini, res, huecos>>
    BY DEF ComprobarEspacio, disco, Base, TypeOK
<1>2. Largo(h)' = Largo(h)
    BY <1>1, LargoLocal DEF Pendiente
<1>3. Meta(h)' = Meta(h) /\ Arch(h)' = Arch(h)
    BY <1>1 DEF Meta, Arch
<1>4. modo[h] = "editar" => MedidaAlEditar(h)'
    BY <1>1, <1>2, <1>3 DEF MedidaAlEditar, Medida, Justa
<1>5. Medida(h)'
    BY <1>1, <1>2, <1>3, <1>4 DEF Medida, SinTocar, EnCorte, Justa, Ajustada
<1> QED BY <1>1, <1>5 DEF SinDesajuste

LEMMA MedidasObtenerTablaAsignaciones ==
    ASSUME Base, NEW h \in Hilos, NEW e, Medida(h),
           ObtenerTablaAsignaciones(h)
    PROVE  SinDesajuste(h, e)
<1>1. /\ pc[h] = "asignaciones" /\ pc'[h] = TrasAsignaciones(h)
      /\ UNCHANGED <<tabla, asig, dPri, ped, modo, dTam, ini, res, huecos>>
      /\ blq'[h] = dPri[h] /\ sig'[h] = dPri[h]
    BY DEF ObtenerTablaAsignaciones, disco, Base, TypeOK
<1>2. pc'[h] \in {"primero", "escribir", "recorrer", "liberar"}
    BY <1>1 DEF TrasAsignaciones
<1>3. /\ Largo(h)' = Largo(h) /\ Llega(h) = Alcanzables(asig, dPri[h])
    BY <1>1, <1>2, LargoLocal DEF Pendiente
<1>4. /\ Meta(h)' = Meta(h) /\ Tope(h)' = Tope(h) /\ Arch(h)' = Arch(h)
      /\ Exacta(h)' = Exacta(h)
    BY <1>1 DEF Meta, Tope, Arch, Exacta
<1>5. modo[h] = "editar" =>
          pc'[h] \in {"primero", "escribir"} /\ ped[h].op \in {"editar", "truncar"}
    BY <1>1 DEF TrasAsignaciones, Base, Control
<1>6. modo[h] = "editar" => MedidaAlEditar(h)'
    <2> SUFFICES ASSUME modo[h] = "editar" PROVE MedidaAlEditar(h)'
        OBVIOUS
    <2>1. res[h] > 0 /\ ini[h] >= 0 /\ ini[h] + res[h] = Meta(h)
        BY <1>1 DEF Medida, MedidaAlEditar
    <2>2. ASSUME pc'[h] = "escribir"
          PROVE  /\ PorEscribir(h)' = Largo(h)
                 /\ Exacta(h) => Bytes(Largo(h)) < Tope(h) + TamBloque
        <3>1. PorEscribir(h)' = Largo(h)
            BY <1>1, <1>3 DEF PorEscribir, Largo
        <3>2. CASE ped[h].op = "editar"
            <4>1. Exacta(h) => Bytes(Largo(h)) < dTam[h] + TamBloque
                BY <1>1, <3>2 DEF Medida, Justa, Ajustada, Exacta, Base, Control
            <4>2. dTam[h] <= Tope(h)
                BY <1>1, <3>2, MetasTipos
            <4> QED BY <1>1, <3>1, <4>1, <4>2, CuentasTipos, MetasTipos
        <3>3. CASE ped[h].op = "truncar"
            <4>1. Bytes(Largo(h)) < ped[h].bytes + TamBloque
                BY <1>1, <3>3 DEF Medida, MedidaAlEditar, Justa
            <4> QED BY <3>1, <3>3, <4>1 DEF Tope, Meta
        <3> QED BY <1>5, <3>2, <3>3
    <2>3. Bytes(Largo(h)) + ini[h] + res[h] = Meta(h) + Bytes(Largo(h))
        BY <1>1, <2>1, CuentasTipos, MetasTipos
    <2> QED BY <1>1, <1>3, <1>4, <1>5, <2>1, <2>2, <2>3 DEF MedidaAlEditar
<1>7. EnCorte(h)' /\ pc'[h] # "liberar" => MedidaAlTruncar(h)'
    <2> SUFFICES ASSUME EnCorte(h)', pc'[h] # "liberar"
                 PROVE  MedidaAlTruncar(h)'
        OBVIOUS
    <2>1. modo[h] = "truncar" /\ pc'[h] = "recorrer"
        BY <1>1, <1>2 DEF EnCorte
    <2>2. ini[h] = ped[h].bytes
        BY <1>1, <2>1 DEF Base, Control
    <2>3. Dejados(h)' = 0
        BY <1>1 DEF Dejados
    <2>4. Bytes(Dejados(h))' = 0 /\ TamBloque \in Nat /\ TamBloque > 0
        BY <2>3, CuentaDeBytes DEF Bytes
    <2>5. ini'[h] = ped[h].bytes /\ ped[h].bytes \in Nat
        BY <1>1, <2>2, MetasTipos
    <2>6. ini'[h] > -TamBloque
        BY <2>4, <2>5
    <2> QED BY <1>1, <2>1, <2>4, <2>5, <2>6 DEF MedidaAlTruncar
<1>8. ~(EnCorte(h)' /\ pc'[h] = "liberar")
    BY <1>1 DEF EnCorte, TrasAsignaciones
<1>9. pc'[h] = "primero" /\ modo[h] = ped[h].op =>
          Ajustada(Arch(h), Largo(h), dTam[h])
    BY <1>1 DEF Medida
<1>10. Medida(h)'
    <2>1. /\ dTam[h] < Modulo
          /\ ped[h].op = "editar" => ped[h].bytes > 0 /\ dTam[h] <= Bytes(Largo(h))
        BY DEF Medida
    <2>2. ~SinTocar(h)' /\ pc'[h] # "lock" /\ pc'[h] # "asignaciones"
          /\ pc'[h] # "reemplazar"
        BY <1>2 DEF SinTocar
    <2> QED BY <1>1, <1>3, <1>4, <1>6, <1>7, <1>8, <1>9, <2>1, <2>2
            DEF Medida, Justa, Ajustada
<1> QED BY <1>2, <1>10 DEF SinDesajuste

LEMMA MedidasPedirPrimero ==
    ASSUME Base, Base', NEW h \in Hilos, NEW e, Medida(h), PedirPrimero(h)
    PROVE  SinDesajuste(h, e)
<1>1. /\ pc[h] = "primero" /\ pc'[h] = "termPrimero"
      /\ UNCHANGED <<tabla, asig, ped, modo, dTam, ini, res>>
    BY DEF PedirPrimero, Base, TypeOK
<1>2. Meta(h)' = Meta(h)
    BY <1>1 DEF Meta
<1>3. modo[h] = "editar" => MedidaAlEditar(h)'
    BY <1>1, <1>2 DEF MedidaAlEditar, Medida
<1>4. ped[h].op = "editar" => dTam[h] <= Bytes(Largo(h))'
    <2> SUFFICES ASSUME ped[h].op = "editar" PROVE dTam[h] <= Bytes(Largo(h))'
        OBVIOUS
    <2>1. modo[h] = "editar" /\ dPri[h] = NIL
        BY <1>1 DEF Base, Control, ConSnap
    <2>2. Largo(h) = 0
        BY <1>1, <2>1, FS_EmptySet DEF Largo, Llega, Alcanzables
    <2>3. dTam[h] <= 0
        BY <1>1, <2>1, <2>2, CuentaDeBytes DEF Medida, Justa, Ajustada
    <2>4. Bytes(Largo(h))' \in Nat
        BY CuentaDeAlcanzables DEF Largo, Llega
    <2> QED BY <2>3, <2>4, CuentasTipos
<1>5. Medida(h)'
    BY <1>1, <1>3, <1>4 DEF Medida, SinTocar, EnCorte
<1> QED BY <1>1, <1>5 DEF SinDesajuste

LEMMA MedidasTerminarPrimero ==
    ASSUME Base, NEW h \in Hilos, NEW e, Medida(h), TerminarPrimero(h)
    PROVE  SinDesajuste(h, e)
<1>1. /\ pc[h] = "termPrimero" /\ pc'[h] \in {"escribir", "recorrer"}
      /\ pc'[h] = "escribir" <=> modo[h] = "editar"
      /\ UNCHANGED <<tabla, dPri, ped, modo, dTam, ini, res, blq, sig, huecos>>
      /\ asig' = [asig EXCEPT ![sig[h]] = NIL]
    BY DEF TerminarPrimero, AsignarSiguienteBloque, Base, TypeOK
<1>2. /\ Pendiente(h) /\ ~Pendiente(h)' /\ sig[h] \in Bloques
      /\ dPri[h] = sig[h] /\ blq[h] = sig[h]
    BY <1>1 DEF Pendiente, Base, Control
<1>3. Vista(h)' = asig' /\ Vista(h) = asig'
    BY <1>1, <1>2 DEF Vista
<1>4. asig' \in [Bloques -> Punteros] /\ asig'[sig[h]] = NIL
    BY <1>1, <1>2 DEF Base, TypeOK, Punteros
<1>5. Cardinality(Alcanzables(asig', sig[h])) = 1
    <2> DEFINE f == asig'
    <2>1. f[sig[h]] = NIL /\ f \in [Bloques -> Punteros]
        BY <1>4
    <2>2. sig[h] \in Alcanzables(f, sig[h])
        <3> HIDE DEF f
        <3> QED BY <1>2, <2>1, AlcanzablesCerrados
    <2>3. ~NoTermina(f, sig[h])
        BY <2>1, <2>2 DEF NoTermina
    <2>4. Cardinality(Alcanzables(f, sig[h])) = 1
        <3> HIDE DEF f
        <3> QED BY <1>2, <2>1, <2>3, UnaVuelta
    <2> QED BY <2>4
<1>6. Largo(h)' = 1 /\ Largo(h) = 1 /\ PorEscribir(h)' = 1 /\ Dejados(h)' = 0
    BY <1>1, <1>2, <1>3, <1>5 DEF Largo, Llega, PorEscribir, Dejados
<1>7. Meta(h)' = Meta(h) /\ Tope(h)' = Tope(h)
    BY <1>1 DEF Meta, Tope
<1>8. modo[h] = "editar" => MedidaAlEditar(h)'
    <2> SUFFICES ASSUME modo[h] = "editar" PROVE MedidaAlEditar(h)'
        OBVIOUS
    <2>1. res[h] > 0 /\ ini[h] >= 0 /\ ini[h] + res[h] = Meta(h)
        BY <1>1 DEF Medida, MedidaAlEditar
    <2>2. ped[h].op \in {"editar", "truncar"}
        BY DEF Base, Control
    <2>3. Meta(h) <= Tope(h) /\ Meta(h) \in Nat /\ Tope(h) \in Nat
        BY <1>1, <2>2, MetasTipos
    <2>4. ini[h] \in Int /\ res[h] \in Nat
        BY CuentasTipos
    <2>5. /\ Bytes(1) + ini[h] + res[h] = Meta(h) + Bytes(1)
          /\ Bytes(1) < Tope(h) + TamBloque
        <3>1. Bytes(1) = TamBloque /\ TamBloque \in Nat
            BY CuentaDeBytes
        <3> QED BY <2>1, <2>3, <2>4, <3>1
    <2> QED BY <1>1, <1>6, <1>7, <2>1, <2>5 DEF MedidaAlEditar
<1>9. EnCorte(h)' /\ pc'[h] # "liberar" => MedidaAlTruncar(h)'
    <2> SUFFICES ASSUME EnCorte(h)' PROVE MedidaAlTruncar(h)'
        OBVIOUS
    <2>1. modo[h] = "truncar" /\ pc'[h] = "recorrer"
        BY <1>1 DEF EnCorte
    <2>2. ini[h] = ped[h].bytes /\ ped[h].bytes \in Nat
        BY <1>1, <2>1, MetasTipos DEF Base, Control
    <2>3. Bytes(0) = 0 /\ TamBloque \in Nat /\ TamBloque > 0
        BY CuentaDeBytes
    <2>4. Bytes(Dejados(h))' = 0
        BY <1>6, <2>3 DEF Bytes
    <2>5. ini'[h] = ped[h].bytes /\ ini'[h] > -TamBloque
        BY <1>1, <2>2, <2>3
    <2> QED BY <1>1, <2>1, <2>2, <2>4, <2>5 DEF MedidaAlTruncar
<1>10. Medida(h)'
    BY <1>1, <1>6, <1>8, <1>9 DEF Medida, SinTocar
<1> QED BY <1>1, <1>10 DEF SinDesajuste

(* One turn of the loop of a write, in numbers.                            *)
LEMMA CuentaDeEscritura ==
    ASSUME NEW i \in Int, NEW r \in Nat, NEW t \in Nat, t > 0, i >= 0, r > 0,
           NEW w, w = IF i >= t THEN 0 ELSE IF r + i >= t THEN t - i ELSE r,
           NEW j, j = IF i < t THEN 0 ELSE i - t
    PROVE  /\ j >= 0 /\ j \in Int
           /\ r - w <= 0 => i + r <= t
           /\ r - w > 0 => j + (r - w) = i + r - t
BY Z3

LEMMA MedidasEscribirBloque ==
    ASSUME Base, Base', CadaArchivoDeUno, NEW own, \A d \in Entradas : Bien(own, d),
           NEW h \in Hilos, NEW e \in Entradas, e = Arch(h), Fiel(h),
           SinCiclos(h), Medida(h), EscribirBloque(h)
    PROVE  SinDesajuste(h, e)
<1>1. /\ pc[h] = "escribir" /\ pc'[h] \in {"escribir", "pedir", "reemplazar"}
      /\ UNCHANGED <<tabla, asig, dPri, ped, modo, dTam, huecos>>
      /\ res'[h] = res[h] - Escritos(h)
      /\ ini'[h] = IF ini[h] < TamBloque THEN 0 ELSE ini[h] - TamBloque
      /\ pc'[h] = "reemplazar" => res'[h] <= 0
      /\ pc'[h] # "reemplazar" => res'[h] > 0
      /\ pc'[h] = "pedir" => snap[h][blq[h]] = NIL
      /\ pc'[h] = "escribir" => blq'[h] = snap[h][blq[h]]
    BY DEF EscribirBloque, disco, Base, TypeOK
<1>2. ~Pendiente(h) /\ ~Pendiente(h)' /\ pc[h] \in ConSnap /\ modo[h] = "editar"
    BY <1>1, ModoEscribir DEF Pendiente, ConSnap, Base
<1>3. blq[h] \in Bloques /\ snap[h][blq[h]] = asig[blq[h]]
    BY <1>1, <1>2 DEF Bien, Recorrido, Firmes, Suyos
<1>4. /\ Largo(h)' = Largo(h) /\ Llega(h) = Alcanzables(asig, dPri[h])
    BY <1>1, <1>2, LargoLocal
<1>5. /\ Meta(h)' = Meta(h) /\ Tope(h)' = Tope(h)
      /\ ped[h].op \in {"editar", "truncar"} /\ Exacta(h)' = Exacta(h)
    BY <1>1, <1>2 DEF Meta, Tope, Exacta, Arch, Base, Control
<1>6. /\ PorEscribir(h) = Cardinality(Alcanzables(asig, asig[blq[h]])) + 1
      /\ Cardinality(Alcanzables(asig, asig[blq[h]])) \in Nat
      /\ asig[blq[h]] = NIL => Cardinality(Alcanzables(asig, asig[blq[h]])) = 0
    <2>1. asig \in [Bloques -> Punteros] /\ dPri[h] \in Punteros
        BY DEF Base, TypeOK
    <2>2. blq[h] \in Alcanzables(asig, dPri[h])
        BY <1>1, <1>3, <1>4, ConstantesBloques DEF Fiel
    <2>3. ~NoTermina(asig, dPri[h])
        BY <1>1, <1>2 DEF SinCiclos, Vista
    <2>4. ~NoTermina(asig, blq[h])
        BY <2>1, <2>2, <2>3, TodosLlegan
    <2> QED BY <1>3, <2>1, <2>4, UnaVuelta DEF PorEscribir
<1>7. /\ res[h] > 0 /\ ini[h] >= 0
      /\ Bytes(Largo(h)) + ini[h] + res[h] = Meta(h) + Bytes(PorEscribir(h))
      /\ Exacta(h) => Bytes(Largo(h)) < Tope(h) + TamBloque
    BY <1>1, <1>2 DEF Medida, MedidaAlEditar
<1>8. /\ Meta(h) \in Nat /\ Tope(h) \in Nat /\ Meta(h) <= Tope(h)
      /\ Bytes(Largo(h)) \in Nat /\ ini[h] \in Int /\ res[h] \in Nat
      /\ TamBloque \in Nat /\ TamBloque > 0 /\ dTam[h] \in Nat
    BY <1>1, <1>5, MetasTipos, CuentasTipos
<1>9. /\ ini'[h] >= 0 /\ ini'[h] \in Int
      /\ pc'[h] = "reemplazar" => ini[h] + res[h] <= TamBloque
      /\ pc'[h] # "reemplazar" =>
             ini'[h] + res'[h] = ini[h] + res[h] - TamBloque
    <2>1. Escritos(h) = IF ini[h] >= TamBloque THEN 0
                        ELSE IF res[h] + ini[h] >= TamBloque
                             THEN TamBloque - ini[h] ELSE res[h]
        BY DEF Escritos
    <2> QED BY <1>1, <1>7, <1>8, <2>1, CuentaDeEscritura
<1> DEFINE n == Cardinality(Alcanzables(asig, asig[blq[h]]))
<1>10. Bytes(PorEscribir(h)) = Bytes(n) + TamBloque /\ Bytes(n) \in Nat
    <2> HIDE DEF n
    <2> QED BY <1>6, CuentaDeBytes DEF n
<1>11. res'[h] \in Nat
    BY DEF Base, TypeOK
<1>12. ASSUME pc'[h] = "reemplazar" 
       PROVE  /\ Tope(h) <= Bytes(Largo(h))
              /\ Exacta(h) => Justa(Largo(h), Tope(h))
    <2>1. Meta(h) <= Bytes(Largo(h))
        BY <1>7, <1>8, <1>9, <1>10, <1>12
    <2>2. ped[h].op = "editar" => dTam[h] <= Bytes(Largo(h))
        BY DEF Medida
    <2>3. Tope(h) <= Bytes(Largo(h))
        BY <1>5, <2>1, <2>2 DEF Tope
    <2> QED BY <1>7, <2>3 DEF Justa
<1>13. ASSUME pc'[h] = "escribir"
       PROVE  Bytes(Largo(h)) + ini'[h] + res'[h]
                  = Meta(h) + Bytes(PorEscribir(h))'
    <2>1. Bytes(PorEscribir(h))' = Bytes(n)
        BY <1>1, <1>3, <1>13 DEF PorEscribir, Bytes
    <2> QED BY <1>7, <1>8, <1>9, <1>10, <1>11, <1>13, <2>1
<1>14. ASSUME pc'[h] = "pedir"
       PROVE  Bytes(Largo(h)) + ini'[h] + res'[h] = Meta(h)
    <2>1. Bytes(n) = 0
        BY <1>1, <1>3, <1>6, <1>14, CuentaDeBytes
    <2> QED BY <1>7, <1>8, <1>9, <1>10, <1>11, <1>14, <2>1
<1>15. MedidaAlEditar(h)'
    BY <1>1, <1>4, <1>5, <1>7, <1>9, <1>13, <1>14 DEF MedidaAlEditar
<1>16. ~EnCorte(h)' /\ ~SinTocar(h)'
    BY <1>1, <1>2 DEF EnCorte, SinTocar
<1>17. Medida(h)'
    BY <1>1, <1>4, <1>5, <1>12, <1>15, <1>16 DEF Medida, Justa
<1> QED BY <1>1, <1>17 DEF SinDesajuste

(* A block that is taken adds nothing to the chain until it is linked ...   *)
LEMMA LargoPedirBloque ==
    ASSUME Base, CadaArchivoDeUno, NEW own, \A d \in Entradas : Bien(own, d),
           NEW h \in Hilos, NEW e \in Entradas, e = Arch(h), PedirBloque(h)
    PROVE  Largo(h)' = Largo(h)
<1>1. PICK b \in Bloques : /\ ~bitmap[b]
                           /\ sig' = [sig EXCEPT ![h] = b]
    BY DEF PedirBloque, ObtenerPrimerBloqueLibre, Libres
<1>2. /\ UNCHANGED <<asig, dPri>>
      /\ pc[h] = "pedir" /\ pc'[h] = "enlazar" /\ sig'[h] = b
    BY <1>1 DEF PedirBloque, Base, TypeOK
<1>3. ~Pendiente(h) /\ Pendiente(h)' /\ ~CabezaVieja(h)
    BY <1>2 DEF Pendiente, CabezaVieja
<1>4. /\ asig \in [Bloques -> Punteros] /\ Vista(h) = asig
      /\ Vista(h)' = [asig EXCEPT ![b] = NIL]
    BY <1>2, <1>3 DEF Vista, Base, TypeOK
<1>5. /\ Suyos(own, e) \in SUBSET Bloques /\ Cerrado(asig, Suyos(own, e))
      /\ dPri[h] = NIL \/ dPri[h] \in Suyos(own, e)
    BY <1>2, <1>3, <1>4, VistaPropia DEF De
<1>6. b \notin Suyos(own, e)
    BY <1>1 DEF Bien, Encerrado
<1> DEFINE f == [asig EXCEPT ![b] = NIL]
           S == Suyos(own, e)
<1>7. f \in [Bloques -> Punteros] /\ \A x \in S : asig[x] = f[x]
    BY <1>4, <1>5, <1>6 DEF Punteros
<1>8. Alcanzables(f, dPri[h]) = Alcanzables(asig, dPri[h])
    <2>1. /\ S \in SUBSET Bloques /\ Cerrado(asig, S)
          /\ dPri[h] = NIL \/ dPri[h] \in S
        BY <1>5
    <2>2. asig \in [Bloques -> Punteros]
        BY <1>4
    <2> HIDE DEF f, S
    <2> QED BY ONLY <1>7, <2>1, <2>2, AlcanzablesIguales
<1> QED BY <1>2, <1>4, <1>8 DEF Largo, Llega

LEMMA MedidasPedirBloque ==
    ASSUME Base, Base', CadaArchivoDeUno, NEW own, \A d \in Entradas : Bien(own, d),
           NEW h \in Hilos, NEW e \in Entradas, e = Arch(h), Medida(h),
           PedirBloque(h)
    PROVE  SinDesajuste(h, e)
<1>1. PICK b \in Bloques : /\ ~bitmap[b]
                           /\ sig' = [sig EXCEPT ![h] = b]
    BY DEF PedirBloque, ObtenerPrimerBloqueLibre, Libres
<1>2. /\ UNCHANGED <<tabla, asig, dPri, ped, modo, dTam, ini, res, blq>>
      /\ pc[h] = "pedir" /\ pc'[h] = "enlazar" /\ sig'[h] = b
    BY <1>1 DEF PedirBloque, Base, TypeOK
<1>6. b \notin Suyos(own, e)
    BY <1>1 DEF Bien, Encerrado
<1>7. Largo(h)' = Largo(h)
    BY LargoPedirBloque
<1>8. Meta(h)' = Meta(h)
    BY <1>2 DEF Meta
<1>9. modo[h] = "editar" => MedidaAlEditar(h)'
    BY <1>2, <1>7, <1>8 DEF Medida, MedidaAlEditar
<1>10. EnCorte(h)' /\ pc'[h] # "liberar" => MedidaAlTruncar(h)'
    <2> SUFFICES ASSUME EnCorte(h)' PROVE MedidaAlTruncar(h)'
        OBVIOUS
    <2>1. EnCorte(h) /\ modo[h] = "truncar"
        BY <1>2 DEF EnCorte
    <2>2. sig[h] # dPri[h] /\ dPri[h] \in Suyos(own, e)
        BY <1>2, <2>1, CorteEnMarcha
    <2>3. b # dPri[h]
        BY <1>6, <2>2
    <2>4. Dejados(h)' = Dejados(h)
        BY <1>2, <2>2, <2>3 DEF Dejados, Recorridos
    <2> QED BY <1>2, <2>1, <2>4 DEF Medida, MedidaAlTruncar
<1>11. Medida(h)'
    BY <1>2, <1>7, <1>9, <1>10 DEF Medida, SinTocar
<1> QED BY <1>2, <1>11 DEF SinDesajuste

(* ... and then it adds one.                                               *)
LEMMA LargoEnlazar ==
    ASSUME Base, CadaArchivoDeUno, NEW own, \A d \in Entradas : Bien(own, d),
           NEW h \in Hilos, NEW e \in Entradas, e = Arch(h), Fiel(h),
           Enlazar(h)
    PROVE  Largo(h)' = Largo(h) + 1
<1>1. /\ pc[h] = "enlazar" /\ pc'[h] = "terminar"
      /\ UNCHANGED <<dPri, sig>>
      /\ asig' = [asig EXCEPT ![blq[h]] = sig[h]]
    BY DEF Enlazar, AsignarSiguienteBloque, Base, TypeOK
<1>2. /\ Pendiente(h) /\ Pendiente(h)' /\ sig[h] \in Bloques
      /\ ~CabezaVieja(h)
    BY <1>1 DEF Pendiente, CabezaVieja, Base, Control
<1>3. blq[h] \in Firmes(own, e) /\ blq[h] \in Bloques /\ blq[h] # sig[h]
    BY <1>1, <1>2, VistaPropia DEF Bien, Recorrido, Firmes, Suyos
<1>4. /\ Vista(h) \in [Bloques -> Punteros] /\ Vista(h)[blq[h]] = NIL
      /\ Vista(h)[sig[h]] = NIL
    BY <1>1, <1>2, <1>3, VistaPropia DEF Fiel, Vista, Base, TypeOK
<1>5. Vista(h)' = [Vista(h) EXCEPT ![blq[h]] = sig[h]]
    BY <1>1, <1>2, <1>3 DEF Vista, Base, TypeOK
<1>6. blq[h] \in Alcanzables(Vista(h), dPri[h])
    BY <1>1, <1>3, ConstantesBloques DEF Fiel, Llega
<1>7. sig[h] \notin Alcanzables(Vista(h), dPri[h])
    <2> DEFINE F == Firmes(own, e)
    <2>1. /\ F = Suyos(own, e) \ {sig[h]} /\ F \in SUBSET Bloques
          /\ De(own, dPri[h], e)
          /\ \A b \in F : Vista(h)[b] = asig[b]
        BY <1>1, <1>2, VistaPropia
    <2>2. \A b \in F : asig[b] # sig[h] /\ De(own, asig[b], e)
        BY <1>1 DEF Bien, Nuevo, Encerrado
    <2>3. dPri[h] # sig[h]
        BY <1>1 DEF Bien, Nuevo
    <2>4. Cerrado(Vista(h), F) /\ (dPri[h] = NIL \/ dPri[h] \in F)
        BY <2>1, <2>2, <2>3 DEF Cerrado, De
    <2>5. Alcanzables(Vista(h), dPri[h]) \subseteq F
        <3> HIDE DEF F
        <3> QED BY <2>1, <2>4, AlcanzablesAcotados
    <2> QED BY <2>1, <2>5
<1>8. Alcanzables(Vista(h)', dPri[h]) =
          Alcanzables(Vista(h), dPri[h]) \cup {sig[h]}
    <2> DEFINE f == Vista(h)
               g == Vista(h)'
    <2>1. /\ f \in [Bloques -> Punteros] /\ g \in [Bloques -> Punteros]
          /\ g[blq[h]] = sig[h] /\ \A x \in Bloques \ {blq[h]} : g[x] = f[x]
          /\ blq[h] \in Alcanzables(f, dPri[h]) /\ f[blq[h]] = NIL
          /\ sig[h] \notin Alcanzables(f, dPri[h]) /\ f[sig[h]] = NIL
          /\ blq[h] \in Bloques /\ sig[h] \in Bloques
        BY <1>2, <1>3, <1>4, <1>5, <1>6, <1>7 DEF Punteros
    <2> HIDE DEF f, g
    <2>2. Alcanzables(g, dPri[h]) = Alcanzables(f, dPri[h]) \cup {sig[h]}
        BY ONLY <2>1, AlargarExacto
    <2> QED BY <2>2 DEF f, g
<1>9. Alcanzables(Vista(h), dPri[h]) \in SUBSET Bloques
    BY DEF Alcanzables
<1> QED BY <1>1, <1>2, <1>7, <1>8, <1>9, CuentaDeBloques DEF Largo, Llega

LEMMA MedidasEnlazar ==
    ASSUME Base, Base', CadaArchivoDeUno, NEW own, \A d \in Entradas : Bien(own, d),
           NEW h \in Hilos, NEW e \in Entradas, e = Arch(h), Fiel(h),
           Medida(h), Enlazar(h)
    PROVE  SinDesajuste(h, e)
<1>1. /\ pc[h] = "enlazar" /\ pc'[h] = "terminar"
      /\ UNCHANGED <<tabla, dPri, ped, modo, dTam, ini, res, blq, sig>>
      /\ asig' = [asig EXCEPT ![blq[h]] = sig[h]]
    BY DEF Enlazar, AsignarSiguienteBloque, Base, TypeOK
<1>3. blq[h] \in Bloques
    BY <1>1 DEF Bien, Recorrido, Firmes, Suyos
<1>8. Largo(h)' = Largo(h) + 1
    BY LargoEnlazar
<1>9. /\ Bytes(Largo(h))' = Bytes(Largo(h)) + TamBloque
      /\ Bytes(Largo(h)) \in Nat /\ TamBloque \in Nat
      /\ ini[h] \in Int /\ res[h] \in Nat /\ dTam[h] \in Nat
    <2>1. \A n \in Nat : Bytes(n + 1) = Bytes(n) + TamBloque
        BY CuentaDeBytes
    <2>2. Bytes(Largo(h))' = Bytes(Largo(h) + 1)
        BY <1>8 DEF Bytes
    <2> QED BY <2>1, <2>2, CuentasTipos
<1>10. Meta(h)' = Meta(h) /\ Meta(h) \in Nat
    BY <1>1, MetasTipos DEF Meta
<1>11. modo[h] = "editar" => MedidaAlEditar(h)'
    <2> SUFFICES ASSUME modo[h] = "editar" PROVE MedidaAlEditar(h)'
        OBVIOUS
    <2>1. /\ res[h] > 0 /\ ini[h] >= 0
          /\ Bytes(Largo(h)) + ini[h] + res[h] = Meta(h)
        BY <1>1 DEF Medida, MedidaAlEditar
    <2>2. Bytes(Largo(h))' + ini[h] + res[h] = Meta(h) + TamBloque
        BY <1>9, <1>10, <2>1
    <2> QED BY <1>1, <1>10, <2>1, <2>2 DEF MedidaAlEditar
<1>12. EnCorte(h)' /\ pc'[h] # "liberar" => MedidaAlTruncar(h)'
    <2> SUFFICES ASSUME EnCorte(h)' PROVE MedidaAlTruncar(h)'
        OBVIOUS
    <2>1. EnCorte(h) /\ modo[h] = "truncar"
        BY <1>1 DEF EnCorte
    <2>2. [asig' EXCEPT ![blq[h]] = NIL] = [asig EXCEPT ![blq[h]] = NIL]
        BY <1>1, <1>3 DEF Base, TypeOK
    <2>3. Dejados(h)' = Dejados(h)
        BY <1>1, <2>2 DEF Dejados, Recorridos
    <2> QED BY <1>1, <2>1, <2>3 DEF Medida, MedidaAlTruncar
<1>13. ped[h].op = "editar" => dTam[h] <= Bytes(Largo(h))'
    BY <1>9 DEF Medida
<1>14. Medida(h)'
    BY <1>1, <1>11, <1>12, <1>13 DEF Medida, SinTocar
<1> QED BY <1>1, <1>14 DEF SinDesajuste

LEMMA MedidasTerminar ==
    ASSUME Base, Base', CadaArchivoDeUno, NEW own, \A d \in Entradas : Bien(own, d),
           NEW h \in Hilos, NEW e \in Entradas, e = Arch(h),
           Medida(h), Terminar(h)
    PROVE  SinDesajuste(h, e)
<1>1. /\ pc[h] = "terminar" /\ pc'[h] \in {"escribir", "recorrer"}
      /\ UNCHANGED <<tabla, dPri, ped, modo, dTam, ini, res, sig, huecos>>
      /\ asig' = [asig EXCEPT ![sig[h]] = NIL]
      /\ pc'[h] = "escribir" => modo[h] = "editar" /\ blq'[h] = sig[h]
      /\ pc'[h] = "recorrer" => modo[h] # "editar" /\ blq'[h] = blq[h]
    BY DEF Terminar, AsignarSiguienteBloque, Base, TypeOK
<1>2. /\ Pendiente(h) /\ ~Pendiente(h)' /\ sig[h] \in Bloques
    BY <1>1 DEF Pendiente, Base, Control
<1>3. Vista(h)' = Vista(h)
    BY <1>1, <1>2 DEF Vista
<1>4. asig' \in [Bloques -> Punteros] /\ asig'[sig[h]] = NIL
    BY <1>1, <1>2 DEF Base, TypeOK, Punteros
<1>5. Largo(h)' = Largo(h)
    BY <1>1, <1>3 DEF Largo, Llega
<1>6. Cardinality(Alcanzables(asig', sig[h])) = 1
    <2> DEFINE f == asig'
    <2>1. f[sig[h]] = NIL /\ f \in [Bloques -> Punteros]
        BY <1>4
    <2>2. sig[h] \in Alcanzables(f, sig[h])
        <3> HIDE DEF f
        <3> QED BY <1>2, <2>1, AlcanzablesCerrados
    <2>3. ~NoTermina(f, sig[h])
        BY <2>1, <2>2 DEF NoTermina
    <2>4. Cardinality(Alcanzables(f, sig[h])) = 1
        <3> HIDE DEF f
        <3> QED BY <1>2, <2>1, <2>3, UnaVuelta
    <2> QED BY <2>4
<1>7. Meta(h)' = Meta(h) /\ Tope(h)' = Tope(h)
    BY <1>1 DEF Meta, Tope
<1>8. modo[h] = "editar" => MedidaAlEditar(h)'
    <2> SUFFICES ASSUME modo[h] = "editar" PROVE MedidaAlEditar(h)'
        OBVIOUS
    <2>1. /\ res[h] > 0 /\ ini[h] >= 0
          /\ Bytes(Largo(h)) + ini[h] + res[h] = Meta(h) + TamBloque
        BY <1>1 DEF Medida, MedidaAlEditar
    <2>2. ped[h].op \in {"editar", "truncar"}
        BY DEF Base, Control
    <2>3. Meta(h) <= Tope(h) /\ Meta(h) \in Nat /\ Tope(h) \in Nat
        BY <1>1, <2>2, MetasTipos
    <2>4. /\ ini[h] \in Int /\ res[h] \in Nat /\ Bytes(Largo(h)) \in Nat
          /\ TamBloque \in Nat
        BY CuentasTipos
    <2>5. Bytes(Largo(h)) < Tope(h) + TamBloque
        BY <2>1, <2>3, <2>4
    <2>6. pc'[h] = "escribir" /\ Bytes(PorEscribir(h))' = TamBloque
        <3>1. pc'[h] = "escribir" /\ PorEscribir(h)' = 1
            BY <1>1, <1>6 DEF PorEscribir
        <3>2. Bytes(1) = TamBloque
            BY CuentaDeBytes
        <3> QED BY <3>1, <3>2 DEF Bytes
    <2> QED BY <1>1, <1>5, <1>7, <2>1, <2>5, <2>6 DEF MedidaAlEditar
<1>9. EnCorte(h)' /\ pc'[h] # "liberar" => MedidaAlTruncar(h)'
    <2> SUFFICES ASSUME EnCorte(h)' PROVE MedidaAlTruncar(h)'
        OBVIOUS
    <2>1. /\ EnCorte(h) /\ modo[h] = "truncar" /\ pc'[h] = "recorrer"
          /\ blq'[h] = blq[h]
        BY <1>1 DEF EnCorte
    <2> DEFINE f == [asig EXCEPT ![blq[h]] = NIL]
               k == [asig' EXCEPT ![blq[h]] = NIL]
    <2>2. /\ sig[h] # dPri[h] /\ dPri[h] \in Recorridos(h)
          /\ blq[h] \in Bloques /\ sig[h] \notin Recorridos(h)
          /\ Cerrado(f, Recorridos(h)) /\ f \in [Bloques -> Punteros]
          /\ Recorridos(h) \in SUBSET Bloques
        BY <1>1, <2>1, CorteEnMarcha
    <2>3. k \in [Bloques -> Punteros] /\ \A b \in Recorridos(h) : f[b] = k[b]
        BY <1>1, <1>4, <2>2 DEF Base, TypeOK, Punteros
    <2>4. Alcanzables(k, dPri[h]) = Alcanzables(f, dPri[h])
        <3> HIDE DEF f, k
        <3> QED BY <2>2, <2>3, AlcanzablesIguales
    <2>5. Dejados(h)' = Dejados(h)
        BY <1>1, <2>1, <2>4 DEF Dejados, Recorridos
    <2> QED BY <1>1, <2>1, <2>5 DEF Medida, MedidaAlTruncar
<1>10. Medida(h)'
    BY <1>1, <1>5, <1>8, <1>9 DEF Medida, SinTocar
<1> QED BY <1>1, <1>10 DEF SinDesajuste

(* The walk of a truncation leaves one block more behind at each turn.     *)
LEMMA UnoMasDejado ==
    ASSUME Base, CadaArchivoDeUno, NEW own, NEW h \in Hilos,
           Bien(own, Arch(h)), pc[h] = "recorrer", EnCorte(h), Fiel(h),
           SinCiclos(h), sig[h] # NIL, asig' = asig, dPri'[h] = dPri[h],
           blq'[h] = sig[h], sig'[h] = asig[sig[h]]
    PROVE  Dejados(h)' = Dejados(h) + 1
<1> DEFINE k == [asig EXCEPT ![sig[h]] = NIL]
           R == Alcanzables(k, dPri[h])
<1>1. asig \in [Bloques -> Punteros] /\ dPri[h] \in Punteros /\ sig[h] \in Bloques
    BY DEF Base, TypeOK, Punteros
<1>2. k \in [Bloques -> Punteros] /\ k[sig[h]] = NIL
    BY <1>1 DEF Punteros
<1>3. Recorridos(h)' = R
    BY DEF Recorridos
<1>4. /\ Llega(h) = Alcanzables(asig, dPri[h])
      /\ sig[h] \in Alcanzables(asig, dPri[h])
      /\ ~NoTermina(asig, dPri[h])
    BY DEF Llega, Vista, Pendiente, Fiel, SinCiclos
<1>5. sig'[h] # dPri[h]
    <2>1. sig[h] \notin Alcanzables(asig, asig[sig[h]])
        BY <1>1, <1>4, TodosLlegan, Aciclico
    <2> QED BY <1>4, <2>1
<1>6. Dejados(h)' = Cardinality(R)
    BY <1>3, <1>5 DEF Dejados
<1>7. CASE sig[h] = dPri[h]
    <2>1. sig[h] \in R
        <3> HIDE DEF k
        <3> QED BY <1>1, <1>2, <1>7, AlcanzablesCerrados
    <2>2. ~NoTermina(k, dPri[h])
        BY <1>2, <2>1 DEF NoTermina
    <2>3. Cardinality(R) = 1
        <3> HIDE DEF k
        <3> QED BY <1>1, <1>2, <1>7, <2>2, UnaVuelta
    <2> QED BY <1>6, <1>7, <2>3 DEF Dejados
<1>8. CASE sig[h] # dPri[h]
    <2> DEFINE f == [asig EXCEPT ![blq[h]] = NIL]
               g == [f EXCEPT ![sig[h]] = NIL]
               A == Alcanzables(f, dPri[h])
    <2>1. /\ dPri[h] \in A /\ blq[h] \in Bloques
          /\ sig[h] \notin A /\ asig[blq[h]] = sig[h]
          /\ Cerrado(f, A) /\ f \in [Bloques -> Punteros]
          /\ A \in SUBSET Bloques /\ Recorridos(h) = A
        BY <1>8, CorteEnMarcha DEF Recorridos
    <2>2. blq[h] \in A /\ blq[h] # sig[h]
        BY <1>8, <2>1 DEF SinCiclos
    <2>3. /\ g \in [Bloques -> Punteros] /\ \A x \in A : f[x] = g[x]
          /\ g[blq[h]] = NIL /\ g[sig[h]] = NIL
          /\ k[blq[h]] = sig[h]
          /\ \A x \in Bloques \ {blq[h]} : k[x] = g[x]
        BY <1>1, <2>1, <2>2 DEF Punteros
    <2>4. Alcanzables(g, dPri[h]) = A
        <3> HIDE DEF f, g
        <3> QED BY <2>1, <2>3, AlcanzablesIguales
    <2>5. R = Alcanzables(g, dPri[h]) \cup {sig[h]}
        <3>1. /\ blq[h] \in Alcanzables(g, dPri[h])
              /\ sig[h] \notin Alcanzables(g, dPri[h])
            BY <2>1, <2>2, <2>4
        <3> HIDE DEF f, g, k, A
        <3> QED BY ONLY <1>1, <1>2, <2>1, <2>3, <3>1, AlargarExacto
    <2>6. Cardinality(R) = Cardinality(A) + 1
        <3> HIDE DEF A, R
        <3> QED BY <1>1, <2>1, <2>4, <2>5, CuentaDeBloques
    <2> QED BY <1>6, <1>8, <2>1, <2>6 DEF Dejados
<1> QED BY <1>7, <1>8

LEMMA MedidasRecorrer ==
    ASSUME Base, Base', CadaArchivoDeUno, NEW own, \A d \in Entradas : Bien(own, d),
           NEW h \in Hilos, NEW e \in Entradas, e = Arch(h), Fiel(h),
           SinCiclos(h), Medida(h), Recorrer(h)
    PROVE  SinDesajuste(h, e)
<1>1. /\ pc[h] = "recorrer" /\ pc'[h] \in {"pedir", "recorrer", "cortar"}
      /\ UNCHANGED <<tabla, asig, dPri, ped, modo, dTam, res>>
      /\ \/ /\ pc'[h] # "recorrer" /\ blq'[h] = blq[h] /\ sig'[h] = sig[h]
            /\ ini'[h] = ini[h]
         \/ /\ pc'[h] = "recorrer" /\ ini[h] > 0 /\ sig[h] # NIL
            /\ blq'[h] = sig[h] /\ sig'[h] = snap[h][sig[h]]
            /\ ini'[h] = ini[h] - TamBloque
      /\ pc'[h] = "pedir" => ini[h] > 0
      /\ pc'[h] = "cortar" => ~(ini[h] > 0)
    BY DEF Recorrer, QuedaPorRecorrer, disco, Base, TypeOK
<1>2. /\ ~Pendiente(h) /\ ~Pendiente(h)' /\ pc[h] \in ConSnap
      /\ EnCorte(h) /\ modo[h] = "truncar" /\ ped[h].op = "truncar"
    <2>1. modo[h] = "truncar" /\ EnCorte(h)
        BY <1>1, SoloTruncar, DeUnoSinRecortes
    <2> QED BY <1>1, <2>1 DEF Pendiente, ConSnap, Base, Control
<1>3. Largo(h)' = Largo(h)
    BY <1>1, <1>2, LargoLocal
<1>4. /\ Bytes(Dejados(h)) + ini[h] = ped[h].bytes /\ ini[h] > -TamBloque
    BY <1>1, <1>2 DEF Medida, MedidaAlTruncar
<1>5. /\ Dejados(h) \in Nat /\ Bytes(Dejados(h)) \in Nat /\ ini[h] \in Int
      /\ TamBloque \in Nat /\ TamBloque > 0
    BY CuentasTipos
<1>6. ASSUME pc'[h] # "recorrer" PROVE MedidaAlTruncar(h)'
    <2>1. Dejados(h)' = Dejados(h)
        BY <1>1, <1>6 DEF Dejados, Recorridos
    <2>2. pc'[h] = "cortar" => ini'[h] <= 0
        BY <1>1, <1>5, <1>6
    <2> QED BY <1>1, <1>4, <1>6, <2>1, <2>2 DEF MedidaAlTruncar
<1>7. ASSUME pc'[h] = "recorrer" PROVE MedidaAlTruncar(h)'
    <2>1. snap[h][sig[h]] = asig[sig[h]]
        <3>1. /\ Firmes(own, e) = Suyos(own, e)
              /\ Suyos(own, e) \in SUBSET Bloques
            BY <1>1, <1>2, VistaPropia
        <3>2. PICK V \in SUBSET Bloques : Corte(own, h, V)
            BY <1>2 DEF Bien, Cortes
        <3>3. sig[h] \in Suyos(own, e)
            BY <1>1, <1>7, <3>2 DEF Corte
        <3> QED BY <1>2, <3>1, <3>3 DEF Bien, Recorrido
    <2>2. Dejados(h)' = Dejados(h) + 1
        BY <1>1, <1>2, <1>7, <2>1, UnoMasDejado
    <2>3. Bytes(Dejados(h))' = Bytes(Dejados(h)) + TamBloque
        <3>1. Bytes(Dejados(h))' = Bytes(Dejados(h) + 1)
            BY <2>2 DEF Bytes
        <3>2. \A n \in Nat : Bytes(n + 1) = Bytes(n) + TamBloque
            BY CuentaDeBytes
        <3> QED BY <1>5, <3>1, <3>2
    <2>4. Bytes(Dejados(h))' + ini'[h] = ped[h].bytes /\ ini'[h] > -TamBloque
        BY <1>1, <1>4, <1>5, <1>7, <2>3
    <2> QED BY <1>1, <1>7, <2>4 DEF MedidaAlTruncar
<1>8. Medida(h)'
    BY <1>1, <1>2, <1>3, <1>6, <1>7 DEF Medida, SinTocar
<1> QED BY <1>1, <1>8 DEF SinDesajuste

LEMMA MedidasCortar ==
    ASSUME Base, CadaArchivoDeUno, NEW h \in Hilos, NEW e \in Entradas,
           e = Arch(h), Medida(h), Cortar(h)
    PROVE  SinDesajuste(h, e)
<1>1. /\ pc[h] = "cortar" /\ pc'[h] = "liberar"
      /\ UNCHANGED <<tabla, ped, modo, dTam, ini, res, blq, sig>>
      /\ \/ /\ sig[h] # dPri[h] /\ dPri'[h] = dPri[h]
            /\ asig' = [asig EXCEPT ![blq[h]] = NIL]
         \/ sig[h] = dPri[h] /\ dPri'[h] = NIL /\ asig' = asig
    BY DEF Cortar, NuevoPrimero, AsignarSiguienteBloque, Base, TypeOK
<1>2. /\ ~Pendiente(h)' /\ EnCorte(h) /\ modo[h] = "truncar"
      /\ ped[h].op = "truncar"
    <2>1. modo[h] = "truncar" /\ EnCorte(h)
        BY <1>1, SoloTruncar, DeUnoSinRecortes
    <2> QED BY <1>1, <2>1 DEF Pendiente, Base, Control
<1>3. Largo(h)' = Dejados(h)
    <2>1. Vista(h)' = asig'
        BY <1>2 DEF Vista
    <2>2. CASE sig[h] = dPri[h]
        <3>1. Llega(h)' = {}
            BY <1>1, <2>2 DEF Llega, Alcanzables
        <3> QED BY <2>2, <3>1, FS_EmptySet DEF Largo, Dejados
    <2>3. CASE sig[h] # dPri[h]
        BY <1>1, <2>1, <2>3 DEF Largo, Llega, Dejados, Recorridos
    <2> QED BY <2>2, <2>3
<1>4. /\ Bytes(Dejados(h)) + ini[h] = ped[h].bytes /\ ini[h] > -TamBloque
      /\ ini[h] <= 0
    BY <1>1, <1>2 DEF Medida, MedidaAlTruncar
<1>5. /\ Bytes(Dejados(h)) \in Nat /\ ini[h] \in Int
      /\ TamBloque \in Nat
    BY CuentasTipos
<1>6. Justa(Dejados(h), ped[h].bytes)
    BY <1>4, <1>5 DEF Justa
<1>7. Justa(Largo(h)', ped[h].bytes)
    BY <1>3, <1>6
<1>8. Medida(h)'
    BY <1>1, <1>2, <1>7 DEF Medida, SinTocar, Justa, Bytes
<1> QED BY <1>1, <1>8 DEF SinDesajuste

LEMMA MedidasLiberar ==
    ASSUME Base, NEW h \in Hilos, NEW e \in Entradas, e = Arch(h),
           Medida(h), Liberar(h), pc'[h] # "colgado"
    PROVE  SinDesajuste(h, e)
<1>1. /\ pc[h] = "liberar" /\ UNCHANGED <<tabla, asig, ped, dTam, dPri, huecos>>
      /\ \/ /\ pc'[h] = "espacio" /\ modo[h] = "truncar"
            /\ ped[h].bytes > dTam[h] /\ modo'[h] = "editar"
            /\ ini'[h] = dTam[h] /\ res'[h] = ped[h].bytes - dTam[h]
         \/ pc'[h] = "reemplazar" /\ modo'[h] = modo[h]
    BY DEF Liberar, Base, TypeOK
<1>2. /\ ~Pendiente(h) /\ ~Pendiente(h)' /\ ~EnCorte(h)'
      /\ modo[h] \in {"truncar", "eliminar"} /\ ped[h].op = modo[h]
    BY <1>1 DEF Pendiente, EnCorte, Base, Control, ConSnap
<1>3. Largo(h)' = Largo(h)
    BY <1>1, <1>2, LargoLocal
<1>4. modo[h] = "truncar" => Justa(Largo(h), ped[h].bytes)
    BY <1>1, <1>2 DEF Medida, EnCorte
<1>5. Meta(h)' = Meta(h) /\ Tope(h)' = Tope(h)
    BY <1>1 DEF Meta, Tope
<1>6. CASE pc'[h] = "espacio"
    <2>1. /\ modo[h] = "truncar" /\ Meta(h) = ped[h].bytes
          /\ ped[h].bytes \in Nat /\ dTam[h] \in Nat
        BY <1>1, <1>2, <1>6, MetasTipos, CuentasTipos DEF Meta
    <2>2. res'[h] > 0 /\ ini'[h] >= 0 /\ ini'[h] + res'[h] = Meta(h)
        BY <1>1, <1>6, <2>1
    <2>3. MedidaAlEditar(h)'
        BY <1>1, <1>3, <1>4, <1>5, <1>6, <2>1, <2>2 DEF MedidaAlEditar, Justa
    <2>4. ~SinTocar(h)'
        BY <1>1, <1>2, <1>6 DEF SinTocar
    <2>5. Medida(h)'
        BY <1>1, <1>2, <1>3, <1>6, <2>1, <2>3, <2>4 DEF Medida
    <2> QED BY <1>6, <2>5 DEF SinDesajuste
<1>7. CASE pc'[h] = "reemplazar"
    <2>1. ped[h].op # "eliminar" => Justa(Largo(h), Tope(h))
        BY <1>2, <1>4 DEF Tope, Meta
    <2>2. Medida(h)'
        BY <1>1, <1>2, <1>3, <1>5, <1>7, <2>1 DEF Medida, SinTocar, Justa
    <2> QED BY <1>7, <2>2 DEF SinDesajuste
<1> QED BY <1>1, <1>6, <1>7

(* A request that ends leaves its file at rest with the chain of the       *)
(* thread.                                                                 *)
LEMMA MedidasTerminado ==
    ASSUME Base, NEW h \in Hilos, NEW e \in Entradas, e = Arch(h),
           Terminado(h), asig' = asig, pc[h] \in {"espacio", "reemplazar"},
           Activa(e)' => /\ tabla'[e].first_block = dPri[h]
                         /\ tabla'[e].file_size < Modulo
                         /\ tabla'[e].file_size <= Bytes(Largo(h))
                         /\ e \notin huecos' => Justa(Largo(h), tabla'[e].file_size)
    PROVE  SinDesajuste(h, e)
<1>1. pc'[h] = "libre"
    BY DEF Terminado, Base, TypeOK
<1>2. Llega(h) = Alcanzables(asig, dPri[h])
    BY DEF Llega, Vista, Pendiente
<1>3. Activa(e)' => Cardinality(Cadena(e))' = Largo(h)
    BY <1>2 DEF Cadena, Largo
<1>4. Activa(e)' => MedidaDe(e)'
    BY <1>3 DEF MedidaDe, Ajustada, Justa, Bytes
<1> QED BY <1>1, <1>4 DEF SinDesajuste

LEMMA MedidasRechazarPorEspacio ==
    ASSUME Base, NEW h \in Hilos, NEW e \in Entradas, e = Arch(h), Fiel(h),
           Medida(h), RechazarPorEspacio(h)
    PROVE  SinDesajuste(h, e)
<1>0. pc[h] = "espacio" /\ UNCHANGED <<tabla, asig, huecos>>
    BY DEF RechazarPorEspacio, disco
<1>1. CASE modo[h] = ped[h].op /\ Terminado(h)
    <2>1. SinTocar(h)
        BY <1>0, <1>1 DEF SinTocar
    <2>2. /\ tabla[e].first_block = dPri[h] /\ tabla[e].file_size = dTam[h]
          /\ dTam[h] < Modulo /\ dTam[h] <= Bytes(Largo(h))
          /\ e \notin huecos => Justa(Largo(h), dTam[h])
        BY <2>1 DEF Fiel, Medida, Ajustada
    <2> QED BY <1>0, <1>1, <2>2, MedidasTerminado
<1>2. CASE /\ modo[h] # ped[h].op
           /\ pc' = [pc EXCEPT ![h] = "reemplazar"]
           /\ UNCHANGED <<lock, ped, modo, dTam, dPri, snap, ini, res, blq, sig>>
    <2>1. pc'[h] = "reemplazar"
        BY <1>2 DEF Base, TypeOK
    <2>2. modo[h] = "editar" /\ ped[h].op = "truncar"
        BY <1>0, <1>2 DEF Base, Control, Operaciones
    <2>3. Justa(Largo(h), ped[h].bytes)
        BY <1>0, <2>2 DEF Medida, MedidaAlEditar
    <2>4. Largo(h)' = Largo(h)
        BY <1>0, <1>2, <2>1, LargoLocal DEF Pendiente
    <2>5. Tope(h)' = ped[h].bytes
        BY <1>2, <2>2 DEF Tope, Meta
    <2>6. Medida(h)'
        BY <1>2, <2>1, <2>2, <2>3, <2>4, <2>5
           DEF Medida, MedidaAlEditar, SinTocar, EnCorte, Justa
    <2> QED BY <2>1, <2>6 DEF SinDesajuste
<1> QED BY <1>1, <1>2 DEF RechazarPorEspacio

(* A value that fits its width is not changed by the width.                *)
LEMMA RestoDeUnMenor ==
    ASSUME NEW a \in Nat, NEW m \in Nat, a < m
    PROVE  a % m = a
<1>1. m \in Nat \ {0}
    OBVIOUS
<1>2. a = m * (a \div m) + (a % m) /\ a \div m \in Nat /\ a % m \in 0 .. m - 1
    BY <1>1
<1>3. CASE a \div m = 0
    BY <1>2, <1>3
<1>4. CASE a \div m # 0
    <2>1. PICK k \in Nat : a \div m = k + 1
        <3>1. (a \div m) - 1 \in Nat
            BY <1>2, <1>4
        <3> QED BY <1>2, <3>1
    <2>2. m * (k + 1) >= m
        <3>1. m * (k + 1) = m * k + m /\ m * k >= 0
            OBVIOUS
        <3> QED BY <3>1
    <2> QED BY <1>2, <2>1, <2>2
<1> QED BY <1>3, <1>4

(* The size written back is the one the copy of the descriptor leads to,   *)
(* in the unsigned arithmetic of the code, unless the write started past   *)
(* the end of the file: then it may be left as it was.                     *)
LEMMA TamanioSinVuelta ==
    ASSUME Base, SinDesborde, NEW h \in Hilos, pc[h] # "libre", Medida(h)
    PROVE  /\ NuevoTamanio(h) \in Nat /\ NuevoTamanio(h) < Modulo
           /\ NuevoTamanio(h) <= Tope(h)
           /\ ~PasadoDelFinal(h) => NuevoTamanio(h) = Tope(h)
<1>1. /\ ped[h].ini \in Nat /\ ped[h].bytes \in Nat
      /\ ped[h].ini + ped[h].bytes < Modulo
    BY ConArchivo, MetasTipos DEF SinDesborde
<1>2. dTam[h] \in Nat /\ dTam[h] < Modulo /\ Modulo \in Nat
    BY ConstantesBloques DEF Base, TypeOK, Medida
<1>3. CASE PasadoDelFinal(h)
    <2>1. ped[h].op = "editar"
        BY <1>3 DEF PasadoDelFinal
    <2>2. NuevoTamanio(h) \in {Meta(h), dTam[h]} /\ Meta(h) = ped[h].ini + ped[h].bytes
        BY <1>1, <2>1 DEF NuevoTamanio, Meta
    <2>3. Meta(h) <= Tope(h) /\ dTam[h] <= Tope(h)
        BY <2>1, MetasTipos
    <2> QED BY <1>1, <1>2, <1>3, <2>2, <2>3
<1>4. CASE ped[h].op = "editar" /\ ~PasadoDelFinal(h)
    <2>1. ped[h].ini <= dTam[h]
        BY <1>1, <1>2, <1>4 DEF PasadoDelFinal
    <2>2. dTam[h] - ped[h].ini \in Nat /\ dTam[h] - ped[h].ini < Modulo
        BY <1>1, <1>2, <2>1
    <2>3. (dTam[h] - ped[h].ini) % Modulo = dTam[h] - ped[h].ini
        BY <1>2, <2>2, RestoDeUnMenor
    <2> QED BY <1>1, <1>2, <1>4, <2>1, <2>2, <2>3 DEF NuevoTamanio, Tope, Meta
<1>5. CASE ped[h].op # "editar"
    BY <1>1, <1>2, <1>5 DEF NuevoTamanio, Tope, Meta
<1> QED BY <1>3, <1>4, <1>5

LEMMA MedidasReemplazarEstructuraDeArchivo ==
    ASSUME Base, SinDesborde, NEW h \in Hilos, NEW e \in Entradas, e = Arch(h),
           Medida(h), ReemplazarEstructuraDeArchivo(h)
    PROVE  SinDesajuste(h, e)
<1>1. /\ pc[h] = "reemplazar" /\ Terminado(h) /\ asig' = asig
      /\ tabla'[e].first_block = dPri[h]
      /\ tabla'[e].file_size = NuevoTamanio(h)
      /\ ped[h].op = "eliminar" => tabla'[e].state = "DELETED"
    BY DEF ReemplazarEstructuraDeArchivo, Base, TypeOK
<1>2. /\ NuevoTamanio(h) \in Nat /\ NuevoTamanio(h) < Modulo
      /\ NuevoTamanio(h) <= Tope(h)
      /\ ~PasadoDelFinal(h) => NuevoTamanio(h) = Tope(h)
    BY <1>1, TamanioSinVuelta
<1>3. Activa(e)' => /\ Tope(h) <= Bytes(Largo(h))
                    /\ Exacta(h) => Justa(Largo(h), Tope(h))
    BY <1>1 DEF Activa, Medida
<1>4. e \notin huecos' => Exacta(h) /\ ~PasadoDelFinal(h)
    <2>1. CASE PasadoDelFinal(h)
        <3>1. huecos' = huecos \cup {Arch(h)}
            BY <2>1 DEF ReemplazarEstructuraDeArchivo, PasadoDelFinal
        <3> QED BY <3>1
    <2>2. CASE ~PasadoDelFinal(h) /\ ped[h].op = "truncar"
        BY <2>2 DEF Exacta
    <2>3. CASE ~PasadoDelFinal(h) /\ ped[h].op # "truncar"
        BY <2>3 DEF ReemplazarEstructuraDeArchivo, Exacta
    <2> QED BY <2>1, <2>2, <2>3
<1>5. Tope(h) \in Nat /\ Bytes(Largo(h)) \in Nat
    BY <1>1, MetasTipos, CuentasTipos
<1>6. Activa(e)' =>
          /\ NuevoTamanio(h) <= Bytes(Largo(h))
          /\ e \notin huecos' => Justa(Largo(h), NuevoTamanio(h))
    BY <1>2, <1>3, <1>4, <1>5
<1> QED BY <1>1, <1>2, <1>6, MedidasTerminado

(* Only the file of the thread that steps joins or leaves the files that   *)
(* were written past their end.                                            *)
LEMMA HuecosAjenos ==
    ASSUME NEW h \in Hilos, Paso(h), NEW d \in Entradas, d # Arch(h)
    PROVE  d \in huecos' <=> d \in huecos
<1>1. CASE ReemplazarEstructuraDeArchivo(h)
    BY <1>1 DEF ReemplazarEstructuraDeArchivo
<1>2. CASE ~ReemplazarEstructuraDeArchivo(h)
    <2>1. huecos' = huecos
        BY <1>2 DEF Paso, TomarLock, ComprobarEspacio, RechazarPorEspacio,
           ObtenerTablaAsignaciones, PedirPrimero, TerminarPrimero,
           EscribirBloque, PedirBloque, Enlazar, Terminar, QuedarseSinBloque,
           Recorrer, Cortar, Liberar
    <2> QED BY <2>1
<1> QED BY <1>1, <1>2

LEMMA MedidasLeerPath ==
    ASSUME Base, Base', CadaArchivoDeUno, Medidas,
           NEW h \in Hilos, NEW p \in Pedidos, LeerPath(h, p)
    PROVE  Medidas'
<1>1. /\ SoloDe(h) /\ UNCHANGED disco /\ ped'[h] = p /\ pc[h] = "libre"
      /\ p.hilo = h /\ p.arch \in Entradas /\ Activa(p.arch)
      /\ p.ini \in Nat /\ p.bytes \in Nat /\ p.op \in Operaciones
      /\ dPri'[h] = tabla[p.arch].first_block
      /\ dTam'[h] = tabla[p.arch].file_size
      /\ pc'[h] = PrimerPaso(p.op) /\ modo'[h] = p.op
      /\ p.op = "editar" => p.bytes > 0
      /\ huecos' = huecos
    <2>1. /\ p.hilo = h /\ p.arch \in Entradas /\ p.ini \in Nat
          /\ p.bytes \in Nat /\ p.op \in Operaciones
        BY ConstantesBloques DEF LeerPath
    <2>2. tabla[p.arch].file_size \in Nat
        BY <2>1 DEF Base, TypeOK
    <2> QED BY <2>1, <2>2 DEF LeerPath, SoloDe, Activa, Base, TypeOK
<1>2. Arch(h)' = p.arch /\ \A g \in Hilos \ {h} : Arch(g)' = Arch(g)
    BY <1>1 DEF SoloDe, Arch
<1>3. \A g \in Hilos : Arch(g) # p.arch
    <2> SUFFICES ASSUME NEW g \in Hilos, Arch(g) = p.arch PROVE FALSE
        OBVIOUS
    <2>1. ped[g] # NoPed
        BY <1>1, ConstantesBloques DEF Arch, NoPed
    <2>2. ped[g] \in Pedidos /\ ped[g].hilo = g /\ pc[g] # "libre"
        BY <2>1 DEF Base, Control
    <2>3. g = h
        BY <1>1, <2>2 DEF CadaArchivoDeUno, Arch
    <2> QED BY <1>1, <2>2, <2>3
<1>4. asig' = asig /\ tabla' = tabla
    BY <1>1 DEF disco
<1>5. MedidaDe(p.arch)
    BY <1>1, <1>3 DEF Medidas, EnReposo
<1>6. /\ pc'[h] \in {"lock", "asignaciones", "reemplazar"}
      /\ pc'[h] = "lock" => p.op \in {"editar", "truncar"}
      /\ pc'[h] = "asignaciones" => p.op = "eliminar"
      /\ pc'[h] = "reemplazar" => p.op = "utimens"
    BY <1>1 DEF PrimerPaso, Operaciones
<1>7. Largo(h)' = Cardinality(Cadena(p.arch))
    BY <1>1, <1>4, <1>6 DEF Largo, Llega, Vista, Pendiente, Cadena
<1>8. Ajustada(p.arch, Largo(h)', dTam'[h]) /\ dTam'[h] < Modulo
    BY <1>1, <1>5, <1>7 DEF MedidaDe
<1>9. Medida(h)'
    <2>1. modo'[h] = "editar" => MedidaAlEditar(h)'
        BY <1>1, <1>6 DEF MedidaAlEditar
    <2>2. ~EnCorte(h)'
        BY <1>6 DEF EnCorte
    <2>3. SinTocar(h)' => dTam'[h] = tabla'[Arch(h)'].file_size
        BY <1>1, <1>2, <1>4
    <2>4. pc'[h] = "reemplazar" => Tope(h)' = dTam'[h]
        BY <1>1, <1>6 DEF Tope
    <2>5. Ajustada(Arch(h), Largo(h), dTam[h])'
        BY <1>1, <1>2, <1>8 DEF Ajustada, Justa, Bytes
    <2>6. dTam'[h] <= Bytes(Largo(h))'
        BY <2>5 DEF Ajustada
    <2>7. pc'[h] = "reemplazar" => Tope(h)' <= Bytes(Largo(h))'
                                 /\ (Exacta(h) => Justa(Largo(h), Tope(h)))'
        BY <1>1, <1>6, <2>4, <2>5, <2>6 DEF Exacta, Ajustada, Justa
    <2> QED BY <1>1, <1>6, <1>8, <2>1, <2>2, <2>3, <2>5, <2>6, <2>7
            DEF Medida
<1>10. ASSUME NEW g \in Hilos \ {h}, pc'[g] # "libre" PROVE Medida(g)'
    <2>1. /\ pc'[g] = pc[g] /\ ped'[g] = ped[g] /\ modo'[g] = modo[g]
          /\ dPri'[g] = dPri[g] /\ blq'[g] = blq[g] /\ sig'[g] = sig[g]
          /\ dTam'[g] = dTam[g] /\ ini'[g] = ini[g] /\ res'[g] = res[g]
        BY <1>1 DEF SoloDe
    <2>2. Medida(g)
        BY <1>10, <2>1 DEF Medidas
    <2>3. /\ Largo(g)' = Largo(g) /\ PorEscribir(g)' = PorEscribir(g)
          /\ Dejados(g)' = Dejados(g)
        BY <1>4, <2>1 DEF Largo, Llega, Vista, Pendiente, PorEscribir,
                          Dejados, Recorridos
    <2> QED BY <1>1, <1>4, <1>10, <2>1, <2>2, <2>3, MedidaAjena
<1>11. ASSUME NEW d \in Entradas, EnReposo(d)' PROVE MedidaDe(d)'
    <2>1. Activa(d) /\ \A g \in Hilos : Arch(g)' # d
        BY <1>4, <1>11 DEF EnReposo, Activa
    <2>2. ped[h] = NoPed
        BY <1>1 DEF Base, Control
    <2>3. Arch(h) # d
        BY <2>2, ConstantesBloques DEF Arch, NoPed
    <2>4. EnReposo(d)
        BY <1>2, <2>1, <2>3 DEF EnReposo
    <2> QED BY <1>1, <1>4, <2>4 DEF Medidas, MedidaDe, Ajustada, Justa, Cadena
<1> QED BY <1>9, <1>10, <1>11 DEF Medidas

LEMMA MedidasInicial == Init => Medidas
<1> SUFFICES ASSUME Init PROVE Medidas
    OBVIOUS
<1>1. \A h \in Hilos : pc[h] = "libre"
    BY DEF Init
<1>2. \A e \in Entradas : tabla[e].file_size = 0 /\ tabla[e].first_block = NIL
    BY DEF Init
<1>3. Bytes(0) = 0 /\ TamBloque > 0 /\ TamBloque \in Nat
    BY CuentaDeBytes
<1>4. 0 < Modulo
    BY ConstantesBloques
<1>5. \A e \in Entradas : Cardinality(Cadena(e)) = 0
    BY <1>2, FS_EmptySet DEF Cadena, Alcanzables
<1>6. \A e \in Entradas : Ajustada(e, 0, 0)
    BY <1>3 DEF Ajustada, Justa
<1> QED BY <1>1, <1>2, <1>4, <1>5, <1>6 DEF Medidas, MedidaDe

LEMMA MedidasPasoCualquiera ==
    ASSUME Base, CadaArchivoDeUno, SinDesborde, NEW own,
           \A d \in Entradas : Bien(own, d),
           NadaSePierde, NadieSeCuelga, NadieSeCuelga', Medidas,
           NEW h \in Hilos, Paso(h), vivo
    PROVE  Medidas'
<1>1. Base'
    BY BasePaso
<1>2. pc[h] # "libre"
    BY DEF Paso, TomarLock, ComprobarEspacio, RechazarPorEspacio,
           ObtenerTablaAsignaciones, PedirPrimero, TerminarPrimero,
           EscribirBloque, PedirBloque, Enlazar, Terminar, QuedarseSinBloque,
           Recorrer, Cortar, Liberar, ReemplazarEstructuraDeArchivo
<1>3. PICK e \in Entradas : e = Arch(h)
    BY <1>2, ConArchivo
<1>4. SinColgar
    BY DEF NadieSeCuelga, SinColgar
<1>5. Fiel(h) /\ SinCiclos(h) /\ Medida(h)
    BY <1>2, <1>4 DEF NadaSePierde, NadieSeCuelga, Medidas
<1>6. CASE QuedarseSinBloque(h)
    <2>1. /\ UNCHANGED <<tabla, pc, ped, modo, dTam, dPri, ini, res, blq, sig,
                       huecos>>
          /\ \/ asig' = asig
             \/ pc[h] = "pedir" /\ asig' = [asig EXCEPT ![blq[h]] = NIL]
        BY <1>6 DEF QuedarseSinBloque, AsignarSiguienteBloque
    <2>2. asig' = asig
        BY <1>5, <2>1 DEF Fiel, Base, TypeOK
    <2>3. ASSUME NEW g \in Hilos, pc'[g] # "libre" PROVE Medida(g)'
        <3>1. Medida(g)
            BY <2>1, <2>3 DEF Medidas
        <3>2. /\ Largo(g)' = Largo(g) /\ PorEscribir(g)' = PorEscribir(g)
              /\ Dejados(g)' = Dejados(g)
            BY <2>1, <2>2 DEF Largo, Llega, Vista, Pendiente, PorEscribir,
                              Dejados, Recorridos
        <3> QED BY <2>1, <2>3, <3>1, <3>2, MedidaAjena
    <2>4. ASSUME NEW d \in Entradas, EnReposo(d)' PROVE MedidaDe(d)'
        BY <2>1, <2>2, <2>4 DEF Medidas, MedidaDe, Ajustada, EnReposo, Activa,
                                Arch, Cadena
    <2> QED BY <2>3, <2>4 DEF Medidas
<1>7. CASE ~QuedarseSinBloque(h)
    <2>0. Responde(own, h, e)
        BY <1>1, <1>2, <1>3, <1>4, <1>5, <1>7, FugasResponde
    <2>1. SinDesajuste(h, e)
        <3>1. CASE TomarLock(h)
            BY <1>5, <3>1, MedidasTomarLock
        <3>2. CASE ComprobarEspacio(h)
            BY <1>5, <3>2, MedidasComprobarEspacio
        <3>3. CASE RechazarPorEspacio(h)
            BY <1>3, <1>5, <3>3, MedidasRechazarPorEspacio
        <3>4. CASE ObtenerTablaAsignaciones(h)
            BY <1>5, <3>4, MedidasObtenerTablaAsignaciones
        <3>5. CASE PedirPrimero(h)
            BY <1>1, <1>5, <3>5, MedidasPedirPrimero
        <3>6. CASE TerminarPrimero(h)
            BY <1>5, <3>6, MedidasTerminarPrimero
        <3>7. CASE EscribirBloque(h)
            BY <1>1, <1>3, <1>5, <3>7, MedidasEscribirBloque
        <3>8. CASE PedirBloque(h)
            BY <1>1, <1>3, <1>5, <3>8, MedidasPedirBloque
        <3>9. CASE Enlazar(h)
            BY <1>1, <1>3, <1>5, <3>9, MedidasEnlazar
        <3>10. CASE Terminar(h)
            BY <1>1, <1>3, <1>5, <3>10, MedidasTerminar
        <3>12. CASE Recorrer(h)
            BY <1>1, <1>3, <1>5, <3>12, MedidasRecorrer
        <3>13. CASE Cortar(h)
            BY <1>3, <1>5, <3>13, MedidasCortar
        <3>14. CASE Liberar(h)
            <4>1. pc'[h] # "colgado"
                BY DEF NadieSeCuelga
            <4> QED BY <1>3, <1>5, <3>14, <4>1, MedidasLiberar
        <3>15. CASE ReemplazarEstructuraDeArchivo(h)
            BY <1>3, <1>5, <3>15, MedidasReemplazarEstructuraDeArchivo
        <3> QED BY <1>7, <3>1, <3>2, <3>3, <3>4, <3>5, <3>6, <3>7, <3>8, <3>9,
                   <3>10, <3>12, <3>13, <3>14, <3>15 DEF Paso
    <2>2. \A d \in Entradas \ {e} : d \in huecos' <=> d \in huecos
        BY <1>3, HuecosAjenos
    <2> QED BY <1>1, <1>2, <1>3, <2>0, <2>1, <2>2, MedidasPaso
<1> QED BY <1>6, <1>7

LEMMA MedidasInductivo ==
    ASSUME CadaArchivoDeUno, SinDesborde, IInv, NadaSePierde,
           NadieSeCuelga, NadieSeCuelga', Medidas, [Next]_vars
    PROVE  Medidas'
<1>1. Base
    BY DEF IInv, Base
<1>2. PICK own \in Duenios : \A e \in Entradas : Bien(own, e)
    BY DEF IInv
<1>3. CASE UNCHANGED vars
    <2>1. UNCHANGED <<tabla, asig, pc, ped, modo, dTam, dPri, ini, res, blq, sig,
                      huecos>>
        BY <1>3 DEF vars
    <2>2. ASSUME NEW g \in Hilos, pc'[g] # "libre" PROVE Medida(g)'
        <3>1. Medida(g)
            BY <2>1, <2>2 DEF Medidas
        <3>2. /\ Largo(g)' = Largo(g) /\ PorEscribir(g)' = PorEscribir(g)
              /\ Dejados(g)' = Dejados(g)
            BY <2>1 DEF Largo, Llega, Vista, Pendiente, PorEscribir,
                        Dejados, Recorridos
        <3> QED BY <1>1, <2>1, <2>2, <3>1, <3>2, MedidaAjena
    <2>3. ASSUME NEW d \in Entradas, EnReposo(d)' PROVE MedidaDe(d)'
        BY <2>1, <2>3 DEF Medidas, MedidaDe, Ajustada, EnReposo, Activa, Arch,
                           Cadena
    <2> QED BY <2>2, <2>3 DEF Medidas
<1>4. ASSUME NEW h \in Hilos, NEW p \in Pedidos, LeerPath(h, p)
      PROVE  Medidas'
    <2>1. Base'
        BY <1>1, <1>4, BaseLeerPath
    <2> QED BY <1>1, <1>4, <2>1, MedidasLeerPath
<1>5. ASSUME NEW h \in Hilos, Paso(h), vivo PROVE Medidas'
    BY <1>1, <1>2, <1>5, MedidasPasoCualquiera
<1> QED BY <1>3, <1>4, <1>5 DEF Next, PathInexistente

(* The chains keep the lengths that the sizes ask for, and each thread     *)
(* knows how far its own is from that.                                     *)
THEOREM MedidasSiempre ==
    ASSUME CadaArchivoDeUno, SinDesborde
    PROVE  Spec => []Medidas
<1>1. Spec => []IInv
    BY DeUnoSinRecortes, RepartoSiempre
<1>2. Spec => []NadaSePierde
    BY NadaSePierdeNunca
<1>3. Spec => []NadieSeCuelga
    BY NadieSeCuelgaNunca
<1>4. IInv /\ NadaSePierde /\ NadieSeCuelga /\ NadieSeCuelga' /\ Medidas
          /\ [Next]_vars => Medidas'
    BY MedidasInductivo
<1> QED BY <1>1, <1>2, <1>3, <1>4, MedidasInicial, PTL DEF Spec

(* A file nobody is working on rests, in the sense of the invariants.      *)
LEMMA SinUsoEnReposo ==
    ASSUME Base, NEW e \in Entradas, Activa(e), ~EnUso(e)
    PROVE  EnReposo(e)
<1> SUFFICES ASSUME NEW h \in Hilos, Arch(h) = e PROVE FALSE
    BY DEF EnReposo
<1>1. pc[h] = "libre" /\ ped[h] = NoPed
    BY DEF EnUso, Base, Control
<1> QED BY <1>1, ConstantesBloques DEF Arch, NoPed

(* A file nobody is working on, and that was not written past its end      *)
(* since it was last truncated, has the blocks its size asks for and no    *)
(* other, whatever sequence of writes, truncations and refusals led to it. *)
(* Each file is in the hands of one client, and no request goes beyond     *)
(* what 32 bits can say, as the int32_t offset and length of the code do   *)
(* not.                                                                    *)
THEOREM CadenaSiempreJusta ==
    ASSUME CadaArchivoDeUno, SinDesborde
    PROVE  Spec => []CadenaJusta
<1>1. Base /\ Medidas => CadenaJusta
    <2> SUFFICES ASSUME Base, Medidas, NEW e \in Entradas, Activa(e), ~EnUso(e),
                        e \notin huecos
                 PROVE  Cardinality(Cadena(e)) = BloquesDe(tabla[e].file_size)
        BY DEF CadenaJusta
    <2>1. Justa(Cardinality(Cadena(e)), tabla[e].file_size)
        BY SinUsoEnReposo DEF Medidas, MedidaDe, Ajustada
    <2>2. Cardinality(Cadena(e)) \in Nat /\ tabla[e].file_size \in Nat
        BY CuentaDeAlcanzables DEF Cadena, Base, TypeOK
    <2> QED BY <2>1, <2>2, JustaUnica
<1> QED BY <1>1, BaseSiempre, MedidasSiempre, PTL

(* A file nobody is working on, one written past its end included, has a   *)
(* block for each of its bytes, and a reader of it comes to the end of the *)
(* chain, when each file is in the hands of one client.                    *)
THEOREM TamanioSiempreCubierto ==
    ASSUME CadaArchivoDeUno, SinDesborde
    PROVE  Spec => []TamanioCubierto
<1>1. Base /\ Medidas /\ SinBucles => TamanioCubierto
    <2> SUFFICES ASSUME Base, Medidas, SinBucles,
                        NEW e \in Entradas, Activa(e), ~EnUso(e)
                 PROVE  /\ BloquesDe(tabla[e].file_size) <= Cardinality(Cadena(e))
                        /\ ~NoTermina(asig, tabla[e].first_block)
        BY DEF TamanioCubierto
    <2>1. tabla[e].file_size <= Bytes(Cardinality(Cadena(e)))
        BY SinUsoEnReposo DEF Medidas, MedidaDe, Ajustada
    <2>2. Cardinality(Cadena(e)) \in Nat /\ tabla[e].file_size \in Nat
        BY CuentaDeAlcanzables DEF Cadena, Base, TypeOK
    <2>3. ~NoTermina(asig, tabla[e].first_block)
        BY DEF SinBucles
    <2> QED BY <2>1, <2>2, <2>3, BloquesQueAlcanzan
<1> QED BY <1>1, BaseSiempre, MedidasSiempre, SinBuclesNunca, PTL

-----------------------------------------------------------------------------
(* Room: with one client, nobody takes the blocks that were counted.       *)

(* The room of a thread is a number, and so is what it can hold.           *)
LEMMA CupoTipos ==
    ASSUME Base, NEW h \in Hilos
    PROVE  /\ ObtenerBloquesLibres \in Nat /\ Cupo(h) \in Nat
           /\ Bytes(Cupo(h)) \in Nat
           /\ Bytes(Cupo(h)) = Bytes(Largo(h)) + ObtenerBloquesLibres * TamBloque
                               + Bytes(Reservado(h))
           /\ Bytes(Largo(h)) \in Nat /\ Bytes(Reservado(h)) \in Nat
           /\ pc[h] # "enlazar" => Bytes(Reservado(h)) = 0
<1>1. Libres \in SUBSET Bloques
    BY DEF Libres
<1>2. ObtenerBloquesLibres \in Nat
    BY <1>1, CuentaDeBloques DEF ObtenerBloquesLibres
<1>3. /\ Largo(h) \in Nat /\ TamBloque \in Nat /\ Reservado(h) \in {0, 1}
      /\ pc[h] # "enlazar" => Reservado(h) = 0
    BY CuentasTipos DEF Reservado
<1>4. ASSUME NEW a \in Nat, NEW b \in Nat, NEW c \in Nat, NEW t \in Nat
      PROVE  /\ t * (a + b + c) = t * a + b * t + t * c
             /\ t * a \in Nat /\ t * c \in Nat /\ t * 0 = 0
             /\ t * (a + b + c) \in Nat
    OBVIOUS
<1> QED BY <1>2, <1>3, <1>4 DEF Cupo, Bytes

(* A block that is taken is one free block less.                           *)
LEMMA UnoLibreMenos ==
    ASSUME Base, NEW b \in Bloques, ObtenerPrimerBloqueLibre(b)
    PROVE  ObtenerBloquesLibres' = ObtenerBloquesLibres - 1
<1>1. Libres \in SUBSET Bloques /\ b \in Libres
    BY DEF Libres, ObtenerPrimerBloqueLibre
<1>2. Libres' = Libres \ {b}
    BY DEF Libres, ObtenerPrimerBloqueLibre, Base, TypeOK
<1> QED BY <1>1, <1>2, CuentaDeBloques DEF ObtenerBloquesLibres

(* Steps that leave the room and the request alone.                        *)
LEMMA CabeIgual ==
    ASSUME NEW h \in Hilos, Cabe(h), Cupo(h)' = Cupo(h),
           ped'[h] = ped[h], modo'[h] = modo[h],
           pc[h] \in ConLugar, pc'[h] \in ConLugar \cup {"cortar", "reemplazar"},
           pc'[h] = "primero" => Meta(h) > 0,
           pc'[h] = "pedir" /\ modo[h] = "truncar" => sig'[h] = NIL
    PROVE  Cabe(h)'
<1>1. Meta(h)' = Meta(h)
    BY DEF Meta
<1>2. Bytes(Cupo(h))' = Bytes(Cupo(h))
    BY DEF Bytes
<1>3. modo[h] # "eliminar" => Meta(h) <= Bytes(Cupo(h))
    BY DEF Cabe
<1> QED BY <1>1, <1>2, <1>3 DEF Cabe, ConLugar

LEMMA CabeTomarLock ==
    ASSUME Base, NEW h \in Hilos, Medida(h), TomarLock(h)
    PROVE  Cabe(h)'
<1>1. /\ pc[h] = "lock" /\ pc'[h] = "espacio"
      /\ UNCHANGED <<ped, modo>>
      /\ ini'[h] = IF modo[h] = "editar" THEN ped[h].ini ELSE ped[h].bytes
    BY DEF TomarLock, Base, TypeOK
<1>2. modo[h] = ped[h].op
    BY <1>1 DEF Medida
<1> QED BY <1>1, <1>2 DEF Cabe, ConLugar

(* The test for room, in the arithmetic of the code, means what it should. *)
LEMMA CabeComprobarEspacio ==
    ASSUME Base, NEW h \in Hilos, Medida(h), Cabe(h), ~PasadoDelFinal(h),
           ComprobarEspacio(h)
    PROVE  Cabe(h)'
<1>1. /\ pc[h] = "espacio" /\ pc'[h] = "asignaciones" /\ ~NoHayEspacio(h)
      /\ UNCHANGED <<bitmap, asig, dPri, ped, modo>>
    BY DEF ComprobarEspacio, disco, Base, TypeOK
<1>2. Largo(h)' = Largo(h)
    BY <1>1, LargoLocal DEF Pendiente
<1>3. Cupo(h)' = Cupo(h) /\ Bytes(Cupo(h))' = Bytes(Cupo(h))
    BY <1>1, <1>2 DEF Cupo, Reservado, ObtenerBloquesLibres, Libres, Bytes
<1>4. Meta(h)' = Meta(h) /\ Meta(h) \in Nat /\ ped[h].bytes \in Nat
    BY <1>1, MetasTipos DEF Meta
<1>5. modo[h] \in {"editar", "truncar"}
      /\ (modo[h] = "truncar" => ped[h].op = "truncar" /\ ini[h] = ped[h].bytes)
      /\ (modo[h] = "editar" => ped[h].op \in {"editar", "truncar"})
    BY <1>1 DEF Base, Control, Operaciones
<1> DEFINE L == ObtenerBloquesLibres * TamBloque
<1>6. /\ L \in Nat /\ Bytes(Largo(h)) \in Nat
      /\ Bytes(Cupo(h)) = Bytes(Largo(h)) + L
    <2>1. ObtenerBloquesLibres \in Nat /\ TamBloque \in Nat
        BY CupoTipos, CuentasTipos
    <2>2. ASSUME NEW a \in Nat, NEW b \in Nat PROVE a * b \in Nat
        OBVIOUS
    <2>3. L \in Nat
        BY <2>1, <2>2
    <2>4. /\ Bytes(Cupo(h)) = Bytes(Largo(h)) + L + Bytes(Reservado(h))
          /\ Bytes(Largo(h)) \in Nat /\ Bytes(Reservado(h)) = 0
        BY <1>1, CupoTipos
    <2> HIDE DEF L
    <2> QED BY <2>3, <2>4
<1>7. dTam[h] \in Nat /\ ini[h] \in Int /\ res[h] \in Nat
      /\ Modulo \in Nat \ {0}
    BY CuentasTipos, ConstantesBloques
<1>8. Meta(h) <= Bytes(Cupo(h))
    <2>1. CASE modo[h] = "editar" /\ ped[h].op = "editar"
        <3>1. /\ ini[h] + res[h] = Meta(h) /\ ini[h] = ped[h].ini
              /\ ini[h] <= dTam[h] /\ dTam[h] <= Bytes(Largo(h))
            BY <1>1, <1>7, <2>1 DEF Medida, MedidaAlEditar, Cabe, PasadoDelFinal
        <3>2. res[h] <= (dTam[h] - ini[h] + L) % Modulo
            <4>1. ~(res[h] > (dTam[h] - ini[h] + L) % Modulo)
                BY <1>1, <2>1 DEF NoHayEspacio
            <4>2. dTam[h] - ini[h] + L \in Nat
                BY <1>6, <1>7, <3>1
            <4>3. (dTam[h] - ini[h] + L) % Modulo <= dTam[h] - ini[h] + L
                BY <1>7, <4>2, RestoAcotado
            <4> DEFINE x == (dTam[h] - ini[h] + L) % Modulo
            <4>4. x \in Int
                BY <1>7, <4>2
            <4> HIDE DEF x, L
            <4> QED BY <1>7, <4>1, <4>4 DEF x
        <3>3. (dTam[h] - ini[h] + L) % Modulo <= dTam[h] - ini[h] + L
              /\ (dTam[h] - ini[h] + L) % Modulo \in Int
            <4>1. dTam[h] - ini[h] + L \in Nat
                BY <1>6, <1>7, <3>1
            <4> QED BY <1>7, <4>1, RestoAcotado
        <3> DEFINE x == (dTam[h] - ini[h] + L) % Modulo
        <3> HIDE DEF x, L
        <3> QED BY <1>4, <1>6, <1>7, <3>1, <3>2, <3>3 DEF x
    <2>2. CASE modo[h] = "editar" /\ ped[h].op = "truncar"
        <3>1. ped[h].bytes <= Bytes(Largo(h)) /\ Meta(h) = ped[h].bytes
            BY <1>1, <2>2 DEF Medida, MedidaAlEditar, Justa, Meta
        <3> HIDE DEF L
        <3> QED BY <1>4, <1>6, <3>1
    <2>3. CASE modo[h] = "truncar"
        <3>1. /\ ini[h] = Meta(h) /\ dTam[h] <= Bytes(Largo(h))
            BY <1>1, <1>5, <2>3 DEF Medida, SinTocar, Ajustada, Meta
        <3>2. ~(ini[h] > (dTam[h] + L) % Modulo)
            BY <1>1, <2>3 DEF NoHayEspacio
        <3>3. /\ (dTam[h] + L) % Modulo <= dTam[h] + L
              /\ (dTam[h] + L) % Modulo \in Int
            <4>1. dTam[h] + L \in Nat
                BY <1>6, <1>7
            <4> QED BY <1>7, <4>1, RestoAcotado
        <3> DEFINE x == (dTam[h] + L) % Modulo
        <3> HIDE DEF x, L
        <3> QED BY <1>4, <1>6, <1>7, <3>1, <3>2, <3>3 DEF x
    <2> QED BY <1>5, <2>1, <2>2, <2>3
<1> QED BY <1>1, <1>3, <1>4, <1>8 DEF Cabe


LEMMA CabeObtenerTablaAsignaciones ==
    ASSUME Base, NEW h \in Hilos, Medida(h), Cabe(h),
           ObtenerTablaAsignaciones(h)
    PROVE  Cabe(h)'
<1>1. /\ pc[h] = "asignaciones" /\ pc'[h] = TrasAsignaciones(h)
      /\ UNCHANGED <<bitmap, asig, dPri, ped, modo>>
    BY DEF ObtenerTablaAsignaciones, disco, Base, TypeOK
<1>2. pc'[h] \in {"primero", "escribir", "recorrer", "liberar"}
    BY <1>1 DEF TrasAsignaciones
<1>3. Largo(h)' = Largo(h)
    BY <1>1, <1>2, LargoLocal DEF Pendiente
<1>4. Cupo(h)' = Cupo(h)
    BY <1>1, <1>2, <1>3 DEF Cupo, Reservado, ObtenerBloquesLibres, Libres
<1>5. CASE pc'[h] = "liberar"
    BY <1>5 DEF Cabe, ConLugar
<1>6. CASE pc'[h] = "primero"
    <2>1. \/ modo[h] = "editar"
          \/ modo[h] = "truncar" /\ ini[h] # 0
        BY <1>1, <1>6 DEF TrasAsignaciones
    <2>2. Meta(h) \in Nat /\ ped[h].bytes \in Nat /\ ini[h] \in Int /\ res[h] \in Nat
        BY <1>1, MetasTipos, CuentasTipos
    <2>3. CASE modo[h] = "editar"
        <3>1. res[h] > 0 /\ ini[h] >= 0 /\ ini[h] + res[h] = Meta(h)
            BY <1>1, <2>3 DEF Medida, MedidaAlEditar
        <3>2. Meta(h) > 0
            BY <2>2, <3>1
        <3> QED BY <1>1, <1>4, <1>6, <3>2, CabeIgual DEF ConLugar
    <2>4. CASE modo[h] = "truncar" /\ ini[h] # 0
        <3>1. Meta(h) = ini[h]
            BY <1>1, <2>4 DEF Base, Control, Meta
        <3>2. Meta(h) > 0
            BY <2>2, <2>4, <3>1
        <3> QED BY <1>1, <1>4, <1>6, <3>2, CabeIgual DEF ConLugar
    <2> QED BY <2>1, <2>3, <2>4
<1>7. CASE pc'[h] \in {"escribir", "recorrer"}
    BY <1>1, <1>4, <1>7, CabeIgual DEF ConLugar
<1> QED BY <1>2, <1>5, <1>6, <1>7

(* The first block of a file ...                                           *)
LEMMA CabePedirPrimero ==
    ASSUME Base, NEW h \in Hilos, Cabe(h), PedirPrimero(h)
    PROVE  Cabe(h)'
<1>1. PICK b \in Bloques : /\ ObtenerPrimerBloqueLibre(b)
                           /\ dPri' = [dPri EXCEPT ![h] = b]
                           /\ sig' = [sig EXCEPT ![h] = b]
    BY DEF PedirPrimero
<1>2. /\ pc[h] = "primero" /\ pc'[h] = "termPrimero" /\ dPri[h] = NIL
      /\ UNCHANGED <<asig, ped, modo>> /\ dPri'[h] = b /\ sig'[h] = b
    BY <1>1 DEF PedirPrimero, Base, Control, TypeOK
<1>3. Largo(h) = 0
    BY <1>2, FS_EmptySet DEF Largo, Llega, Alcanzables
<1>4. Largo(h)' = 1
    <2> DEFINE f == [asig EXCEPT ![b] = NIL]
    <2>1. Vista(h)' = f
        BY <1>2 DEF Vista, Pendiente
    <2>2. f[b] = NIL /\ f \in [Bloques -> Punteros]
        BY DEF Base, TypeOK, Punteros
    <2>3. b \in Alcanzables(f, b)
        <3> HIDE DEF f
        <3> QED BY <2>2, AlcanzablesCerrados
    <2>4. ~NoTermina(f, b)
        BY <2>2, <2>3 DEF NoTermina
    <2>5. Cardinality(Alcanzables(f, b)) = 1
        <3> HIDE DEF f
        <3> QED BY <2>2, <2>4, UnaVuelta
    <2> QED BY <1>2, <2>1, <2>5 DEF Largo, Llega
<1>5. ObtenerBloquesLibres' = ObtenerBloquesLibres - 1
    BY <1>1, UnoLibreMenos
<1>6. Cupo(h)' = Cupo(h)
    <2>1. ObtenerBloquesLibres \in Nat
        BY CupoTipos
    <2> QED BY <1>2, <1>3, <1>4, <1>5, <2>1 DEF Cupo, Reservado
<1> QED BY <1>2, <1>6, CabeIgual DEF ConLugar

LEMMA CabeTerminarPrimero ==
    ASSUME Base, NEW h \in Hilos, Cabe(h), TerminarPrimero(h)
    PROVE  Cabe(h)'
<1>1. /\ pc[h] = "termPrimero" /\ pc'[h] \in {"escribir", "recorrer"}
      /\ UNCHANGED <<bitmap, dPri, ped, modo, sig>>
      /\ asig' = [asig EXCEPT ![sig[h]] = NIL]
    BY DEF TerminarPrimero, AsignarSiguienteBloque, Base, TypeOK
<1>2. Vista(h)' = Vista(h)
    BY <1>1 DEF Vista, Pendiente
<1>3. Cupo(h)' = Cupo(h)
    BY <1>1, <1>2 DEF Cupo, Reservado, ObtenerBloquesLibres, Libres, Largo, Llega
<1> QED BY <1>1, <1>3, CabeIgual DEF ConLugar

LEMMA CabeEscribirBloque ==
    ASSUME Base, NEW h \in Hilos, Cabe(h), EscribirBloque(h)
    PROVE  Cabe(h)'
<1>1. /\ pc[h] = "escribir" /\ pc'[h] \in {"escribir", "pedir", "reemplazar"}
      /\ UNCHANGED <<bitmap, asig, dPri, ped, modo>> /\ modo[h] # "truncar"
    BY DEF EscribirBloque, disco, Base, Control, TypeOK
<1>2. Largo(h)' = Largo(h)
    BY <1>1, LargoLocal DEF Pendiente
<1>3. Cupo(h)' = Cupo(h)
    BY <1>1, <1>2 DEF Cupo, Reservado, ObtenerBloquesLibres, Libres
<1> QED BY <1>1, <1>3, CabeIgual DEF ConLugar

(* ... and one more block are taken out of what was free and added to the  *)
(* chain.                                                                  *)
LEMMA CabePedirBloque ==
    ASSUME Base, CadaArchivoDeUno, NEW own, \A d \in Entradas : Bien(own, d),
           NEW h \in Hilos, NEW e \in Entradas, e = Arch(h), Cabe(h),
           PedirBloque(h)
    PROVE  Cabe(h)'
<1>1. PICK b \in Bloques : ObtenerPrimerBloqueLibre(b)
    BY DEF PedirBloque
<1>2. /\ pc[h] = "pedir" /\ pc'[h] = "enlazar" /\ UNCHANGED <<ped, modo>>
    BY DEF PedirBloque, Base, TypeOK
<1>3. Largo(h)' = Largo(h)
    BY LargoPedirBloque
<1>4. ObtenerBloquesLibres' = ObtenerBloquesLibres - 1
    BY <1>1, UnoLibreMenos
<1>5. Cupo(h)' = Cupo(h)
    <2>1. ObtenerBloquesLibres \in Nat /\ Largo(h) \in Nat
        BY CupoTipos, CuentasTipos
    <2> QED BY <1>2, <1>3, <1>4, <2>1 DEF Cupo, Reservado
<1> QED BY <1>2, <1>5, CabeIgual DEF ConLugar

LEMMA CabeEnlazar ==
    ASSUME Base, CadaArchivoDeUno, NEW own, \A d \in Entradas : Bien(own, d),
           NEW h \in Hilos, NEW e \in Entradas, e = Arch(h), Fiel(h), Cabe(h),
           Enlazar(h)
    PROVE  Cabe(h)'
<1>1. /\ pc[h] = "enlazar" /\ pc'[h] = "terminar"
      /\ UNCHANGED <<bitmap, ped, modo>>
    BY DEF Enlazar, Base, TypeOK
<1>2. Largo(h)' = Largo(h) + 1
    BY LargoEnlazar
<1>3. Cupo(h)' = Cupo(h)
    <2>1. ObtenerBloquesLibres \in Nat /\ Largo(h) \in Nat
        BY CupoTipos, CuentasTipos
    <2>2. ObtenerBloquesLibres' = ObtenerBloquesLibres
        BY <1>1 DEF ObtenerBloquesLibres, Libres
    <2> QED BY <1>1, <1>2, <2>1, <2>2 DEF Cupo, Reservado
<1> QED BY <1>1, <1>3, CabeIgual DEF ConLugar

LEMMA CabeTerminar ==
    ASSUME Base, NEW h \in Hilos, Cabe(h), Terminar(h)
    PROVE  Cabe(h)'
<1>1. /\ pc[h] = "terminar" /\ pc'[h] \in {"escribir", "recorrer"}
      /\ UNCHANGED <<bitmap, dPri, ped, modo, sig>>
      /\ asig' = [asig EXCEPT ![sig[h]] = NIL]
    BY DEF Terminar, AsignarSiguienteBloque, Base, TypeOK
<1>2. Vista(h)' = Vista(h)
    BY <1>1 DEF Vista, Pendiente
<1>3. Cupo(h)' = Cupo(h)
    BY <1>1, <1>2 DEF Cupo, Reservado, ObtenerBloquesLibres, Libres, Largo, Llega
<1> QED BY <1>1, <1>3, CabeIgual DEF ConLugar

LEMMA CabeRecorrer ==
    ASSUME Base, NEW h \in Hilos, Cabe(h), Recorrer(h)
    PROVE  Cabe(h)'
<1>1. /\ pc[h] = "recorrer" /\ pc'[h] \in {"recorrer", "pedir", "cortar"}
      /\ UNCHANGED <<bitmap, asig, dPri, ped, modo>>
      /\ pc'[h] = "pedir" => sig'[h] = NIL
    BY DEF Recorrer, disco, Base, TypeOK
<1>2. Largo(h)' = Largo(h)
    BY <1>1, LargoLocal DEF Pendiente
<1>3. Cupo(h)' = Cupo(h)
    BY <1>1, <1>2 DEF Cupo, Reservado, ObtenerBloquesLibres, Libres
<1> QED BY <1>1, <1>3, CabeIgual DEF ConLugar

(* The other steps leave the part of an operation that takes blocks, or    *)
(* never enter it.                                                         *)
LEMMA CabeElResto ==
    ASSUME Base, NEW h \in Hilos,
           \/ Cortar(h) \/ Liberar(h) \/ RechazarPorEspacio(h)
           \/ ReemplazarEstructuraDeArchivo(h)
    PROVE  pc'[h] # "libre" => Cabe(h)'
<1>1. pc'[h] \in {"libre", "liberar", "colgado", "espacio", "reemplazar"}
    BY DEF Cortar, Liberar, RechazarPorEspacio, ReemplazarEstructuraDeArchivo,
           Terminado, Base, TypeOK
<1>2. pc'[h] = "espacio" => ped'[h].op = "truncar"
    BY DEF Cortar, Liberar, RechazarPorEspacio, ReemplazarEstructuraDeArchivo,
           Terminado, Base, TypeOK, Control
<1> QED BY <1>1, <1>2 DEF Cabe, ConLugar

LEMMA CabeLeerPath ==
    ASSUME Base, NEW h \in Hilos, NEW p \in Pedidos, LeerPath(h, p)
    PROVE  Cabe(h)'
<1>1. pc'[h] = PrimerPaso(p.op) /\ modo'[h] = p.op
    BY DEF LeerPath, Base, TypeOK
<1>2. \/ pc'[h] \in {"lock", "reemplazar"}
      \/ pc'[h] = "asignaciones" /\ modo'[h] = "eliminar"
    BY <1>1 DEF PrimerPaso
<1> QED BY <1>2 DEF Cabe, ConLugar


(* A thread that has room is never left without a block: where it asks for *)
(* one, the blocks of its chain do not yet hold what it was promised.      *)
LEMMA SinBloqueImposible ==
    ASSUME Base, NEW h \in Hilos, Fiel(h), Medida(h), Cabe(h),
           QuedarseSinBloque(h)
    PROVE  FALSE
<1>1. pc[h] \in {"primero", "pedir"} /\ Libres = {}
    BY DEF QuedarseSinBloque
<1>2. modo[h] \in {"editar", "truncar"}
      /\ (modo[h] = "truncar" => ped[h].op = "truncar")
      /\ (pc[h] = "primero" => dPri[h] = NIL)
    BY <1>1 DEF Base, Control, ConSnap
<1>3. ObtenerBloquesLibres = 0
    BY <1>1, FS_EmptySet DEF ObtenerBloquesLibres
<1>4. Meta(h) <= Bytes(Largo(h))
    <2>1. Meta(h) <= Bytes(Cupo(h))
        BY <1>1, <1>2 DEF Cabe, ConLugar
    <2>2. Reservado(h) = 0 /\ Largo(h) \in Nat
        BY <1>1, CuentasTipos DEF Reservado
    <2>3. Cupo(h) = Largo(h)
        BY <1>3, <2>2 DEF Cupo
    <2> QED BY <2>1, <2>3
<1>5. /\ Meta(h) \in Nat /\ Bytes(Largo(h)) \in Nat
      /\ ini[h] \in Int /\ res[h] \in Nat
    BY <1>1, MetasTipos, CuentasTipos
<1>6. CASE pc[h] = "primero"
    <2>1. Largo(h) = 0
        BY <1>2, <1>6, FS_EmptySet DEF Largo, Llega, Alcanzables
    <2>2. Bytes(Largo(h)) = 0 /\ Meta(h) > 0
        BY <1>6, <2>1, CuentaDeBytes DEF Cabe, Bytes
    <2> QED BY <1>4, <1>5, <2>2
<1>7. CASE pc[h] = "pedir" /\ modo[h] = "editar"
    <2>1. /\ Bytes(Largo(h)) + ini[h] + res[h] = Meta(h)
          /\ res[h] > 0 /\ ini[h] >= 0
        BY <1>7 DEF Medida, MedidaAlEditar
    <2> QED BY <1>4, <1>5, <2>1
<1>8. CASE pc[h] = "pedir" /\ modo[h] = "truncar"
    <2>1. EnCorte(h)
        BY <1>8 DEF EnCorte
    <2>2. /\ Bytes(Dejados(h)) + ini[h] = Meta(h) /\ ini[h] > 0
        BY <1>2, <1>8, <2>1 DEF Medida, MedidaAlTruncar, Meta
    <2>3. sig[h] = NIL /\ asig[blq[h]] = NIL
        BY <1>8 DEF Cabe, Fiel
    <2>4. Vista(h) = asig /\ [asig EXCEPT ![blq[h]] = NIL] = asig
        BY <1>8, <2>3 DEF Vista, Pendiente, Base, TypeOK
    <2>5. Largo(h) = Dejados(h)
        <3>1. CASE dPri[h] = NIL
            <4>1. Largo(h) = 0
                BY <3>1, FS_EmptySet DEF Largo, Llega, Alcanzables
            <4> QED BY <2>3, <3>1, <4>1 DEF Dejados
        <3>2. CASE dPri[h] # NIL
            BY <2>3, <2>4, <3>2 DEF Largo, Llega, Dejados, Recorridos
        <3> QED BY <3>1, <3>2
    <2> QED BY <1>4, <1>5, <2>2, <2>5
<1> QED BY <1>1, <1>2, <1>6, <1>7, <1>8

LEMMA UnSoloClienteDeUno ==
    ASSUME UnSoloCliente PROVE CadaArchivoDeUno
BY ConstantesBloques DEF UnSoloCliente, CadaArchivoDeUno

(* Where a write starts, and the size its copy has, do not change while it *)
(* is served.                                                              *)
LEMMA PasadoFijo ==
    ASSUME Base, NEW h \in Hilos, Paso(h), pc'[h] # "libre"
    PROVE  PasadoDelFinal(h)' <=> PasadoDelFinal(h)
<1>1. ped'[h] = ped[h] /\ dTam'[h] = dTam[h]
    BY DEF Paso, TomarLock, ComprobarEspacio, RechazarPorEspacio,
           ObtenerTablaAsignaciones, PedirPrimero, TerminarPrimero,
           EscribirBloque, PedirBloque, Enlazar, Terminar, QuedarseSinBloque,
           Recorrer, Cortar, Liberar, ReemplazarEstructuraDeArchivo,
           Terminado, Base, TypeOK
<1> QED BY <1>1 DEF PasadoDelFinal

LEMMA HayLugarPaso ==
    ASSUME Base, UnSoloCliente, NEW own, \A d \in Entradas : Bien(own, d),
           NadaSePierde, NadieSeCuelga, Medidas, HayLugar,
           NEW h \in Hilos, Paso(h), vivo
    PROVE  HayLugar'
<1>1. CadaArchivoDeUno
    BY UnSoloClienteDeUno
<1>2. pc[h] # "libre"
    BY DEF Paso, TomarLock, ComprobarEspacio, RechazarPorEspacio,
           ObtenerTablaAsignaciones, PedirPrimero, TerminarPrimero,
           EscribirBloque, PedirBloque, Enlazar, Terminar, QuedarseSinBloque,
           Recorrer, Cortar, Liberar, ReemplazarEstructuraDeArchivo
<1>3. PICK e \in Entradas : e = Arch(h)
    BY <1>2, ConArchivo
<1>4. Fiel(h) /\ Medida(h) /\ (~PasadoDelFinal(h) => Cabe(h))
    BY <1>2 DEF HayLugar, NadaSePierde, NadieSeCuelga, Medidas, SinColgar
<1>5. QuedarseSinBloque(h) => PasadoDelFinal(h)
    BY <1>4, SinBloqueImposible
<1>6. vivo' \/ (QuedarseSinBloque(h) /\ PasadoDelFinal(h)')
    BY <1>5 DEF PasadoDelFinal, Paso, TomarLock, ComprobarEspacio, RechazarPorEspacio,
           ObtenerTablaAsignaciones, PedirPrimero, TerminarPrimero,
           EscribirBloque, PedirBloque, Enlazar, Terminar, QuedarseSinBloque,
           Recorrer, Cortar, Liberar, ReemplazarEstructuraDeArchivo
<1>7. ASSUME pc'[h] # "libre", ~PasadoDelFinal(h)' PROVE Cabe(h)'
    <2>0. ~PasadoDelFinal(h)
        BY <1>7, PasadoFijo
    <2>12. Cabe(h) /\ ~QuedarseSinBloque(h)
        BY <1>4, <1>5, <2>0
    <2>1. CASE TomarLock(h)
        BY <1>4, <2>12, <2>1, CabeTomarLock
    <2>2. CASE ComprobarEspacio(h)
        BY <1>4, <2>0, <2>12, <2>2, CabeComprobarEspacio
    <2>3. CASE ObtenerTablaAsignaciones(h)
        BY <1>4, <2>12, <2>3, CabeObtenerTablaAsignaciones
    <2>4. CASE PedirPrimero(h)
        BY <1>4, <2>12, <2>4, CabePedirPrimero
    <2>5. CASE TerminarPrimero(h)
        BY <1>4, <2>12, <2>5, CabeTerminarPrimero
    <2>6. CASE EscribirBloque(h)
        BY <1>4, <2>12, <2>6, CabeEscribirBloque
    <2>7. CASE PedirBloque(h)
        BY <1>1, <1>3, <1>4, <2>12, <2>7, CabePedirBloque
    <2>8. CASE Enlazar(h)
        BY <1>1, <1>3, <1>4, <2>12, <2>8, CabeEnlazar
    <2>9. CASE Terminar(h)
        BY <1>4, <2>12, <2>9, CabeTerminar
    <2>10. CASE Recorrer(h)
        BY <1>4, <2>12, <2>10, CabeRecorrer
    <2>11. CASE \/ Cortar(h) \/ Liberar(h) \/ RechazarPorEspacio(h)
                \/ ReemplazarEstructuraDeArchivo(h)
        BY <1>7, <2>11, CabeElResto
    <2> QED BY <2>12, <2>1, <2>2, <2>3, <2>4, <2>5, <2>6, <2>7, <2>8, <2>9,
               <2>10, <2>11 DEF Paso
<1>8. \A g \in Hilos : g = h
    BY DEF UnSoloCliente
<1> QED BY <1>6, <1>7, <1>8 DEF HayLugar, NuncaSinBloque

LEMMA HayLugarInductivo ==
    ASSUME UnSoloCliente, IInv, NadaSePierde, NadieSeCuelga, Medidas, HayLugar,
           [Next]_vars
    PROVE  HayLugar'
<1>1. Base
    BY DEF IInv, Base
<1>2. PICK own \in Duenios : \A e \in Entradas : Bien(own, e)
    BY DEF IInv
<1>3. CASE UNCHANGED vars
    BY <1>3 DEF vars, HayLugar, NuncaSinBloque, PasadoDelFinal, Cabe, Cupo, Reservado, Largo, Llega, Vista,
                Pendiente, Meta, ObtenerBloquesLibres, Libres, Bytes, ConLugar
<1>4. ASSUME NEW h \in Hilos, NEW p \in Pedidos, LeerPath(h, p), vivo
      PROVE  HayLugar'
    <2>1. Cabe(h)'
        BY <1>1, <1>4, CabeLeerPath
    <2>2. vivo'
        BY <1>4 DEF LeerPath, HayLugar
    <2> QED BY <2>1, <2>2 DEF HayLugar, NuncaSinBloque, UnSoloCliente
<1>5. ASSUME NEW h \in Hilos, Paso(h), vivo PROVE HayLugar'
    BY <1>1, <1>2, <1>5, HayLugarPaso
<1> QED BY <1>3, <1>4, <1>5 DEF Next, PathInexistente

(* One client at work: from the test for room on, the blocks of its chain  *)
(* and the free ones hold what it asked for, unless it writes past the end *)
(* of its file, and with that the whole invariant of one client.           *)
THEOREM SiempreOrdenado ==
    ASSUME UnSoloCliente, SinDesborde
    PROVE  Spec => []Ordenado
<1>1. CadaArchivoDeUno
    BY UnSoloClienteDeUno
<1>2. Spec => []IInv
    BY <1>1, DeUnoSinRecortes, RepartoSiempre
<1>3. Spec => []NadaSePierde
    BY <1>1, NadaSePierdeNunca
<1>4. Spec => []NadieSeCuelga
    BY <1>1, NadieSeCuelgaNunca
<1>5. Spec => []Medidas
    BY <1>1, MedidasSiempre
<1>6. Init => HayLugar
    BY DEF Init, HayLugar, NuncaSinBloque
<1>7. IInv /\ NadaSePierde /\ NadieSeCuelga /\ Medidas /\ HayLugar
          /\ [Next]_vars => HayLugar'
    BY HayLugarInductivo
<1> QED BY <1>2, <1>3, <1>4, <1>5, <1>6, <1>7, PTL DEF Spec, Ordenado

(* The test for room keeps its promise to a client that works alone and    *)
(* does not write past the end of a file: the server runs out of blocks in *)
(* the middle of no other request.                                         *)
THEOREM NuncaSinBloqueDeUno ==
    ASSUME UnSoloCliente, SinDesborde
    PROVE  Spec => []NuncaSinBloque
<1>1. Ordenado => NuncaSinBloque
    BY DEF Ordenado, HayLugar, NuncaSinBloque
<1> QED BY <1>1, SiempreOrdenado, PTL
=============================================================================
