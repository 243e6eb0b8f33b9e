------------------------- MODULE JuegoOrden_proofs -------------------------
(***************************************************************************)
(* The lists of the map and the connections of the trainers, for any number*)
(* of them: who is in which list (ListasSiempre), what each connection may *)
(* carry and what both sides know of it (OrdenSiempre), and what the runs  *)
(* check that follows from that: nobody has two places, each trainer finds *)
(* the answer it waits for, both sides agree on where it is, and the files *)
(* of the pokemons agree with what the map counts of them (CuadraSiempre), *)
(* none is lost and each signal duplicates one at most                     *)
(* (StockConservadoSiempre).  Each says where it holds: without battles,   *)
(* and most of it while no descriptor of a blocked trainer is used again.  *)
(***************************************************************************)
EXTENDS Juego_proofs

-----------------------------------------------------------------------------
(* What stays of the t_pcb that are allocated.                              *)

DelMismo(p, q) == p.fd = q.fd /\ p.quien = q.quien /\ p.lista = q.lista
EnElMismo(p, q) == DelMismo(p, q) /\ p.punto = q.punto /\ p.pide = q.pide

Perduran == Len(pcb) <= Len(pcb') /\ \A i \in 1 .. Len(pcb) : DelMismo(pcb'[i], pcb[i])
Quietos == Len(pcb) <= Len(pcb') /\ \A i \in 1 .. Len(pcb) : EnElMismo(pcb'[i], pcb[i])

(* That the direction is known is not looked at here.                       *)
LEMMA ConocidaIgual ==
    ASSUME NEW P \in Seq(Pcbs), pl.corre \in 1 .. Len(P)
    PROVE  Len(Conocida(P)) = Len(P) /\ \A i \in 1 .. Len(P) : EnElMismo(Conocida(P)[i], P[i])
<1>1. Len(Conocida(P)) = Len(P)
    BY ConocidaEs
<1>2. ASSUME NEW i \in 1 .. Len(P) PROVE EnElMismo(Conocida(P)[i], P[i])
  <2>1. Conocida(P)[i] = IF i = pl.corre /\ pl.vez = 2
                         THEN [P[i] EXCEPT !.desc = FALSE] ELSE P[i]
      BY ConocidaEs
  <2>2. P[i] \in Pcbs
      OBVIOUS
  <2>3. EnElMismo([P[i] EXCEPT !.desc = FALSE], P[i])
      BY <2>2 DEF EnElMismo, DelMismo, Pcbs
  <2>4. EnElMismo(P[i], P[i])
      BY DEF EnElMismo, DelMismo
  <2> QED BY <2>1, <2>3, <2>4
<1> QED BY <1>1, <1>2

(* One t_pcb written in what does not say whose it is or where.             *)
LEMMA UnoQuieto ==
    ASSUME pcb \in Seq(Pcbs), NEW q \in 1 .. Len(pcb), NEW r \in Pcbs, EnElMismo(r, pcb[q]),
           NEW P, P = [pcb EXCEPT ![q] = r]
    PROVE  P \in Seq(Pcbs) /\ Len(P) = Len(pcb) /\ \A i \in 1 .. Len(pcb) : EnElMismo(P[i], pcb[i])
<1>1. P \in Seq(Pcbs) /\ Len(P) = Len(pcb)
      /\ \A i \in 1 .. Len(pcb) : P[i] = IF i = q THEN r ELSE pcb[i]
    BY PcbCambiado
<1>2. \A i \in 1 .. Len(pcb) : EnElMismo(pcb[i], pcb[i])
    BY DEF EnElMismo, DelMismo
<1> QED BY <1>1, <1>2

(* The steps that read or write no t_pcb, or only that its direction is     *)
(* known.                                                                   *)
LEMMA QuietoConocida ==
    ASSUME Supuestos, Control, pl.pc \in Sirviendo, pcb' = Conocida(pcb)
    PROVE  Quietos
<1>1. pcb \in Seq(Pcbs) /\ pl.corre \in 1 .. Len(pcb) /\ Len(pcb) \in Nat
    BY Sirve, Tipos
<1>2. Len(pcb') = Len(pcb) /\ \A i \in 1 .. Len(pcb) : EnElMismo(pcb'[i], pcb[i])
    BY <1>1, ConocidaIgual
<1> QED BY <1>1, <1>2 DEF Quietos

(* A step that does not touch the t_pcb.                                    *)
LEMMA QuietoIgual ==
    ASSUME Control, pcb' = pcb
    PROVE  Quietos
BY Tipos DEF Quietos, EnElMismo, DelMismo

(* Accepting adds one, the others stay.                                     *)
LEMMA QuietoAceptar ==
    ASSUME Supuestos, Control, Control', Aceptar
    PROVE  /\ Quietos /\ Len(pcb') = Len(pcb) + 1 /\ Len(pcb) \in Nat
           /\ pcb'[Len(pcb) + 1] = Nuevo(Head(cola))
<1> DEFINE n == Nuevo(Head(cola))
<1>1. pcb \in Seq(Pcbs) /\ Len(pcb) \in Nat /\ pcb' = Append(pcb, n)
    BY Tipos DEF Aceptar
<1> HIDE DEF n
<1>2. Len(pcb') = Len(pcb) + 1 /\ pcb'[Len(pcb) + 1] = n
      /\ \A i \in 1 .. Len(pcb) : pcb'[i] = pcb[i]
    BY <1>1
<1>3. Quietos
    BY <1>1, <1>2 DEF Quietos, EnElMismo, DelMismo
<1> QED BY <1>1, <1>2, <1>3 DEF n

(* The screen forgets what it has drawn.                                    *)
LEMMA QuietoDibujar ==
    ASSUME Supuestos, Control, Dibujar
    PROVE  Quietos /\ Len(pcb') = Len(pcb)
<1> DEFINE vistos == {listos[i] : i \in {j \in DOMAIN listos :
                                  pcb[listos[j]].accion \in EnListos}}
           y(p) == IF p \in vistos THEN [pcb[p] EXCEPT !.accion = "NADA"] ELSE pcb[p]
<1>1. pcb \in Seq(Pcbs) /\ DOMAIN pcb = 1 .. Len(pcb) /\ Len(pcb) \in Nat
    BY Tipos
<1>2. pcb' = [p \in 1 .. Len(pcb) |-> y(p)]
    BY <1>1 DEF Dibujar
<1>3. ASSUME NEW p \in 1 .. Len(pcb) PROVE EnElMismo(y(p), pcb[p])
  <2> HIDE DEF vistos
  <2>1. pcb[p] \in Pcbs
      BY <1>1
  <2>2. EnElMismo([pcb[p] EXCEPT !.accion = "NADA"], pcb[p])
      BY <2>1 DEF EnElMismo, DelMismo, Pcbs
  <2>3. EnElMismo(pcb[p], pcb[p])
      BY DEF EnElMismo, DelMismo
  <2> QED BY <2>2, <2>3
<1> HIDE DEF y, vistos
<1>4. Len(pcb') = Len(pcb) /\ \A p \in 1 .. Len(pcb) : pcb'[p] = y(p)
    BY <1>1, <1>2
<1> QED BY <1>1, <1>3, <1>4 DEF Quietos

(* Changing what is pending to be drawn, or that the direction is known.    *)
LEMMA AccionQuieta ==
    ASSUME Control, NEW q \in 1 .. Len(pcb), NEW a \in Acciones,
           pcb' = [pcb EXCEPT ![q].accion = a]
    PROVE  Quietos /\ Len(pcb') = Len(pcb)
<1> DEFINE r == [pcb[q] EXCEPT !.accion = a]
<1>1. pcb \in Seq(Pcbs) /\ pcb[q] \in Pcbs /\ Len(pcb) \in Nat
    BY Tipos
<1>2. r \in Pcbs /\ EnElMismo(r, pcb[q])
    BY <1>1 DEF EnElMismo, DelMismo, Pcbs
<1>3. pcb' = [pcb EXCEPT ![q] = r]
    OBVIOUS
<1> HIDE DEF r
<1>4. Len(pcb') = Len(pcb) /\ \A i \in 1 .. Len(pcb) : EnElMismo(pcb'[i], pcb[i])
    BY <1>1, <1>2, <1>3, UnoQuieto
<1> QED BY <1>1, <1>4 DEF Quietos

(* The delivery only gives up the direction of the one that was served.     *)
LEMMA QuietoEntregado ==
    ASSUME Supuestos, Control, Entregado
    PROVE  Quietos /\ Len(pcb') = Len(pcb)
<1> DEFINE q == PcbEnListos(Fd)
           r == [pcb[q] EXCEPT !.desc = TRUE]
           P == [pcb EXCEPT ![q].desc = TRUE]
<1>1. pl.pc \in Sirviendo /\ pcb' = Conocida(P)
    BY DEF Entregado, Sirviendo, Pasos
<1>2. q \in 1 .. Len(pcb) /\ pl.corre \in 1 .. Len(pcb) /\ pcb \in Seq(Pcbs) /\ Len(pcb) \in Nat
    BY <1>1, Sirve
<1> HIDE DEF q
<1>3. pcb[q] \in Pcbs
    BY <1>2
<1>4. r \in Pcbs /\ EnElMismo(r, pcb[q])
    BY <1>3 DEF EnElMismo, DelMismo, Pcbs
<1>5. P = [pcb EXCEPT ![q] = r]
    OBVIOUS
<1> HIDE DEF r, P
<1>6. P \in Seq(Pcbs) /\ Len(P) = Len(pcb) /\ \A i \in 1 .. Len(pcb) : EnElMismo(P[i], pcb[i])
    BY <1>2, <1>4, <1>5, UnoQuieto
<1>7. Len(pcb') = Len(P) /\ \A i \in 1 .. Len(P) : EnElMismo(pcb'[i], P[i])
    BY <1>1, <1>2, <1>6, ConocidaIgual
<1> QED BY <1>2, <1>6, <1>7 DEF Quietos, EnElMismo, DelMismo

(* A pokenest was asked for: the map knows which.                           *)
LEMMA PcbObtener ==
    ASSUME Supuestos, Control, ObtenerPokenest
    PROVE  LET q == PcbEnListos(Fd) IN
           /\ Perduran /\ Len(pcb') = Len(pcb)
           /\ \A i \in 1 .. Len(pcb) :
                /\ pcb'[i].punto = pcb[i].punto
                /\ pcb'[i].pide = IF i = q THEN Head(aMapa[Fd]).dato ELSE pcb[i].pide
<1> DEFINE p == Head(aMapa[Fd]).dato
           q == PcbEnListos(Fd)
           r == [pcb[q] EXCEPT !.pide = p]
           P == [pcb EXCEPT ![q].pide = p]
<1>1. pcb' = Conocida(P) /\ Pedido("CONOCER_POKENEST")
    BY DEF ObtenerPokenest
<1>2. p \in Pokenests /\ pl.pc \in Sirviendo
    BY <1>1, PedidoEs DEF DatosAlMapa
<1>3. q \in 1 .. Len(pcb) /\ pl.corre \in 1 .. Len(pcb) /\ pcb \in Seq(Pcbs) /\ Len(pcb) \in Nat
    BY <1>2, Sirve
<1> HIDE DEF p, q
<1>4. pcb[q] \in Pcbs
    BY <1>3
<1>5. r \in Pcbs /\ DelMismo(r, pcb[q]) /\ r.punto = pcb[q].punto /\ r.pide = p
    BY <1>2, <1>4 DEF DelMismo, Pcbs
<1>6. P = [pcb EXCEPT ![q] = r]
    OBVIOUS
<1> HIDE DEF r, P
<1>7. P \in Seq(Pcbs) /\ Len(P) = Len(pcb)
      /\ \A i \in 1 .. Len(pcb) : P[i] = IF i = q THEN r ELSE pcb[i]
    BY <1>3, <1>5, <1>6, PcbCambiado
<1>8. Len(pcb') = Len(P) /\ \A i \in 1 .. Len(P) : EnElMismo(pcb'[i], P[i])
    BY <1>1, <1>3, <1>7, ConocidaIgual
<1>9. ASSUME NEW i \in 1 .. Len(pcb)
      PROVE  /\ DelMismo(pcb'[i], pcb[i]) /\ pcb'[i].punto = pcb[i].punto
             /\ pcb'[i].pide = IF i = q THEN p ELSE pcb[i].pide
  <2>1. EnElMismo(pcb'[i], P[i]) /\ P[i] = IF i = q THEN r ELSE pcb[i]
      BY <1>7, <1>8
  <2> QED BY <1>5, <2>1 DEF EnElMismo, DelMismo
<1> QED BY <1>3, <1>7, <1>8, <1>9 DEF Perduran, p, q

(* A move: the map knows where the trainer goes.                            *)
LEMMA PcbMover ==
    ASSUME Supuestos, Control, MoverPosicion
    PROVE  LET q == PcbEnListos(Fd) IN
           /\ Perduran /\ Len(pcb') = Len(pcb)
           /\ \A i \in 1 .. Len(pcb) :
                /\ pcb'[i].pide = pcb[i].pide
                /\ pcb'[i].punto = IF i = q THEN Paso(pcb[i].punto, Head(aMapa[Fd]).dato)
                                            ELSE pcb[i].punto
<1> DEFINE dir == Head(aMapa[Fd]).dato
           q == PcbEnListos(Fd)
           r == [pcb[q] EXCEPT !.punto = Paso(pcb[q].punto, dir), !.accion = "SE_MOVIO"]
<1>1. /\ Pedido("MOVER_POSICION")
      /\ pcb' = [pcb EXCEPT ![q].punto = Paso(@, dir), ![q].accion = "SE_MOVIO"]
    BY DEF MoverPosicion
<1>2. pl.pc \in Sirviendo
    BY <1>1, PedidoEs
<1>3. q \in 1 .. Len(pcb) /\ pcb \in Seq(Pcbs) /\ Len(pcb) \in Nat
    BY <1>2, Sirve
<1> HIDE DEF dir, q
<1>4. pcb[q] \in Pcbs
    BY <1>3
<1>5. Paso(pcb[q].punto, dir) \in Int \X Int
    BY <1>4 DEF Pcbs, Paso
<1>6. r \in Pcbs /\ DelMismo(r, pcb[q]) /\ r.punto = Paso(pcb[q].punto, dir) /\ r.pide = pcb[q].pide
    BY <1>4, <1>5 DEF DelMismo, Pcbs, Acciones
<1>7. pcb' = [pcb EXCEPT ![q] = r]
    BY <1>1, <1>3, <1>4 DEF Pcbs
<1> HIDE DEF r
<1>8. Len(pcb') = Len(pcb) /\ \A i \in 1 .. Len(pcb) : pcb'[i] = IF i = q THEN r ELSE pcb[i]
    BY <1>3, <1>6, <1>7, PcbCambiado
<1>9. ASSUME NEW i \in 1 .. Len(pcb)
      PROVE  /\ DelMismo(pcb'[i], pcb[i]) /\ pcb'[i].pide = pcb[i].pide
             /\ pcb'[i].punto = IF i = q THEN Paso(pcb[i].punto, dir) ELSE pcb[i].punto
    BY <1>6, <1>8 DEF DelMismo
<1> QED BY <1>3, <1>8, <1>9 DEF Perduran, q, dir

(* The other steps of the map.                                              *)
LEMMA QuietoMapa ==
    ASSUME Supuestos, Control, Control',
           \/ Aceptar \/ Aceptado \/ Dibujar \/ Elegir \/ Rotar \/ Moviendo \/ Entregar
           \/ Entregado \/ NoEntregado \/ Negar \/ Bloquear \/ Bloqueado \/ DarMedalla
           \/ Desconectado \/ LeerLoAjeno \/ Soltar \/ QuitarDeVacia \/ Quitar \/ YaNoEsta
           \/ QuitadoPorSi \/ QuitadoDelTurno
    PROVE  Quietos
<1>1. CASE Aceptar
    BY <1>1, QuietoAceptar
<1>2. CASE Dibujar
    BY <1>2, QuietoDibujar
<1>3. CASE Entregado
    BY <1>3, QuietoEntregado
<1>4. CASE Moviendo \/ NoEntregado \/ Bloqueado \/ QuitadoPorSi
  <2>1. pl.pc \in Sirviendo /\ pcb' = Conocida(pcb)
      BY <1>4 DEF Moviendo, NoEntregado, Bloqueado, QuitadoPorSi, Sirviendo, Pasos
  <2> QED BY <2>1, QuietoConocida
<1>5. CASE Desconectado
  <2>1. pl.pc \in Sirviendo
      BY <1>5 DEF Desconectado, Sirviendo, Pasos
  <2>2. pcb' = pcb \/ pcb' = Conocida(pcb)
      BY <1>5 DEF Desconectado
  <2> QED BY <2>1, <2>2, QuietoConocida, QuietoIgual
<1>6. CASE Soltar
  <2>1. pl.pc \in Sirviendo
      BY <1>6 DEF Soltar, Sirviendo, Pasos
  <2>2. PcbEnListos(Fd) \in 1 .. Len(pcb) /\ "SE_DESCONECTO" \in Acciones
      BY <2>1, Sirve DEF Acciones
  <2>3. pcb' = [pcb EXCEPT ![PcbEnListos(Fd)].accion = "SE_DESCONECTO"]
      BY <1>6 DEF Soltar
  <2> QED BY <2>2, <2>3, AccionQuieta
<1>7. CASE Quitar
  <2> DEFINE q == listos[Lugar(listos, Fd)]
  <2>1. Lugar(listos, Fd) # 0 /\ pcb' = [pcb EXCEPT ![q].accion = "SE_BLOQUEO"]
      BY <1>7 DEF Quitar
  <2>2. Lugar(listos, Fd) \in DOMAIN listos
    <3>1. MapaTypeOK /\ listos \in Seq(1 .. Len(pcb))
        BY Tipos
    <3> QED BY <2>1, <3>1, LugarEs
  <2>3. q \in 1 .. Len(pcb) /\ "SE_BLOQUEO" \in Acciones
      BY <2>2, Tipos DEF Acciones
  <2> HIDE DEF q
  <2> QED BY <2>1, <2>3, AccionQuieta
<1>8. CASE \/ Aceptado \/ Elegir \/ Rotar \/ Entregar \/ Negar \/ Bloquear \/ DarMedalla
           \/ LeerLoAjeno \/ QuitarDeVacia \/ YaNoEsta \/ QuitadoDelTurno
  <2>1. pcb' = pcb
      BY <1>8 DEF Aceptado, Elegir, Rotar, Entregar, Negar, Bloquear, DarMedalla, LeerLoAjeno,
                  QuitarDeVacia, YaNoEsta, QuitadoDelTurno, listas
  <2> QED BY <2>1, QuietoIgual
<1> QED BY <1>1, <1>2, <1>3, <1>4, <1>5, <1>6, <1>7, <1>8

(* ... and those of the detection, when there are no battles.               *)
LEMMA QuietoDeteccion ==
    ASSUME Supuestos, Control,
           \/ NoMirar \/ FinDeBatallas \/ Contar \/ PasarseDelFin \/ SigueBloqueado \/ Liberar
           \/ Liberado \/ FinDePasada
    PROVE  Quietos
<1>1. CASE Liberar
  <2>1. dd.i \in DOMAIN bloqueados
    <3>1. dd.i \in Nat /\ dd.i > 0 /\ Len(bloqueados) \in Nat
        BY TiposDD, Tipos DEF Ubicada
    <3>2. DOMAIN bloqueados = 1 .. Len(bloqueados)
        BY Tipos
    <3> QED BY <1>1, <3>1, <3>2 DEF Liberar
  <2>2. Este \in 1 .. Len(pcb) /\ "SE_DESBLOQUEO" \in Acciones
      BY <2>1, Tipos DEF Este, Acciones
  <2>3. pcb' = [pcb EXCEPT ![Este].accion = "SE_DESBLOQUEO"]
      BY <1>1 DEF Liberar
  <2> QED BY <2>2, <2>3, AccionQuieta
<1>2. CASE \/ NoMirar \/ FinDeBatallas \/ Contar \/ PasarseDelFin \/ SigueBloqueado \/ Liberado
           \/ FinDePasada
  <2>1. pcb' = pcb
      BY <1>2 DEF NoMirar, FinDeBatallas, Contar, PasarseDelFin, SigueBloqueado, Liberado,
                  FinDePasada, mapa, listas
  <2> QED BY <2>1, QuietoIgual
<1> QED BY <1>1, <1>2

(* Who keeps its data keeps its descriptor and its trainer.                 *)
LEMMA QuietosPerduran == Quietos => Perduran
BY DEF Quietos, Perduran, EnElMismo

-----------------------------------------------------------------------------
(* The lists.                                                               *)

(* What a step that keeps the t_pcb keeps of a list that does not change.   *)
LEMMA MismaLista ==
    ASSUME Control, Perduran, NEW l \in Seq(1 .. Len(pcb))
    PROVE  \A i \in DOMAIN l : /\ pcb'[l[i]].fd = pcb[l[i]].fd
                               /\ pcb'[l[i]].quien = pcb[l[i]].quien
                               /\ pcb'[l[i]].lista = pcb[l[i]].lista
<1> SUFFICES ASSUME NEW i \in DOMAIN l
             PROVE  DelMismo(pcb'[l[i]], pcb[l[i]])
    BY DEF DelMismo
<1>1. l[i] \in 1 .. Len(pcb)
    OBVIOUS
<1> QED BY <1>1 DEF Perduran

(* The planner goes on with the same descriptor.                            *)
LEMMA MismoFd ==
    ASSUME Control, Perduran, pl'.corre = pl.corre, pl.pc # "elegir"
    PROVE  Fd' = Fd
<1>1. pl.corre \in 1 .. Len(pcb)
    BY Tipos DEF ControlPlan
<1> QED BY <1>1 DEF Perduran, DelMismo, Fd

(* A step that changes neither the lists nor the connections says where the *)
(* planner is now and that nothing is left in a closed connection.          *)
LEMMA SerenoListos ==
    ASSUME Supuestos, Control, ListosOK, Perduran, UNCHANGED <<modo, listos, extremo>>,
           pl'.corre = pl.corre, pl.pc = "elegir" => pl'.pc = "elegir",
           modo.alg = "SRDF" => pl'.pc \notin {"rotar", "quitar", "cerrar"},
           pl'.pc \in {"quitando", "cerrar"} => FdEn(listos, pl'.sitio) = Fd,
           pl'.pc \in {"quitando", "cerrar"} => pl'.sitio \in DOMAIN listos,
           pl'.pc \in Sirviendo => pl.pc \in Sirviendo
    PROVE  ListosOK'
<1>1. \A i \in DOMAIN listos : pcb'[listos[i]].fd = pcb[listos[i]].fd
    BY Tipos, MismaLista
<1>2. pl'.pc # "elegir" => Fd' = Fd
    BY MismoFd
<1>3. SinParejas(listos)'
    BY <1>1 DEF ListosOK, SinParejas, FdEn
<1>4. \A i \in DOMAIN listos : extremo'[pcb'[listos[i]].fd] # "libre"
    BY <1>1 DEF ListosOK, FdEn
<1>5. pl'.pc \in {"quitando", "cerrar"} => pcb'[listos[pl'.sitio]].fd = Fd'
    BY <1>1, <1>2 DEF FdEn
<1>6. modo.alg = "RR" /\ pl'.pc \in Sirviendo => listos[1] = pl'.corre
    BY DEF ListosOK
<1> QED BY <1>3, <1>4, <1>5, <1>6 DEF ListosOK, FdEn

(* The lists of the ready and of who waits to be accepted do not change.    *)
LEMMA SerenoCola ==
    ASSUME Supuestos, Control, ColaOK, Perduran, UNCHANGED <<listos, cola, extremo>>
    PROVE  ColaOK'
<1>1. \A i \in DOMAIN listos : pcb'[listos[i]].fd = pcb[listos[i]].fd
    BY Tipos, MismaLista
<1> QED BY <1>1 DEF ColaOK, FdEn

(* Nor does that of the blocked ones, and the turn that ends is ending      *)
(* still.                                                                   *)
LEMMA SerenoBloqueados ==
    ASSUME Supuestos, Control, BloqueadosOK, Perduran,
           UNCHANGED <<modo, listos, bloqueados, cola, extremo>>,
           pl'.corre = pl.corre,
           \A i \in DOMAIN listos : TerminaElTurno(i) =>
             \/ pl'.pc \in {"bloqueando", "quitar"}
             \/ pl'.pc = "cerrar" /\ pl'.sitio = i
    PROVE  BloqueadosOK'
<1> SUFFICES ASSUME modo.alg = "RR" PROVE BloqueadosOK'
    BY DEF BloqueadosOK
<1>1. \A i \in DOMAIN listos : pcb'[listos[i]].fd = pcb[listos[i]].fd
    BY Tipos, MismaLista
<1>2. \A i \in DOMAIN bloqueados : pcb'[bloqueados[i]].fd = pcb[bloqueados[i]].fd
    BY Tipos, MismaLista
<1>3. SinParejas(bloqueados)'
    BY <1>2 DEF BloqueadosOK, SinParejas, FdEn
<1>4. /\ \A i \in DOMAIN bloqueados : extremo'[pcb'[bloqueados[i]].fd] # "libre"
      /\ \A i \in DOMAIN cola', j \in DOMAIN bloqueados : cola'[i].fd # pcb'[bloqueados[j]].fd
    BY <1>2 DEF BloqueadosOK, FdEn
<1>5. ASSUME NEW i \in DOMAIN listos, NEW j \in DOMAIN bloqueados,
             pcb'[listos[i]].fd = pcb'[bloqueados[j]].fd
      PROVE  /\ pcb'[listos[i]].fd = Fd'
             /\ pl'.pc \in {"bloqueando", "quitar"} \/ (pl'.pc = "cerrar" /\ pl'.sitio = i)
  <2>1. TerminaElTurno(i)
      BY <1>1, <1>2, <1>5 DEF BloqueadosOK, FdEn
  <2>2. pl.pc # "elegir" /\ pcb[listos[i]].fd = Fd
      BY <2>1 DEF TerminaElTurno, FdEn
  <2>3. Fd' = Fd
      BY <2>2, MismoFd
  <2> QED BY <1>1, <2>1, <2>2, <2>3
<1> QED BY <1>3, <1>4, <1>5 DEF BloqueadosOK, TerminaElTurno, FdEn

(* Nor do the connections, but for what is in their buffers.                *)
LEMMA SerenoSockets ==
    ASSUME Supuestos, Control, SocketsOK, Perduran, UNCHANGED <<listos, cola, extremo, sock>>,
           pl'.corre = pl.corre, pl.pc = "elegir" => pl'.pc = "elegir",
           pl'.pc \in {"soltar", "quitando"} /\ pl'.cierra
             => extremo[Fd] # "abierto" /\ aMapa'[Fd] = <<>>,
           \A s \in Fds : extremo[s] # "abierto" => aEntrenador'[s] = <<>>,
           \A s \in Fds : extremo[s] = "libre" => aMapa'[s] = <<>>
    PROVE  SocketsOK'
<1>1. \A i \in DOMAIN listos : /\ pcb'[listos[i]].fd = pcb[listos[i]].fd
                               /\ pcb'[listos[i]].quien = pcb[listos[i]].quien
    BY Tipos, MismaLista
<1>2. pl'.pc # "elegir" => Fd' = Fd
    BY MismoFd
<1>3. \A t \in Entrenadores, i \in DOMAIN listos' :
         FdEn(listos, i)' = sock'[t] => pcb'[listos'[i]].quien = t
    BY <1>1 DEF SocketsOK, FdEn
<1>4. pl'.pc \in {"soltar", "quitando"} /\ pl'.cierra
         => extremo'[Fd'] # "abierto" /\ aMapa'[Fd'] = <<>>
    BY <1>2
<1> QED BY <1>3, <1>4 DEF SocketsOK

(* Nothing is put in a connection the trainer closed, nor told to it.       *)
Callan ==
    /\ \A s \in Fds : extremo[s] # "abierto" => aEntrenador'[s] = <<>>
    /\ \A s \in Fds : extremo[s] # "abierto" /\ aMapa[s] = <<>> => aMapa'[s] = <<>>

(* Nothing is sent nor read.                                                *)
LEMMA CallanIgual ==
    ASSUME SocketsOK, UNCHANGED <<aMapa, aEntrenador>>
    PROVE  Callan
BY DEF SocketsOK, Callan

(* One message less for the map, and maybe an answer to an open connection. *)
LEMMA CallanServido ==
    ASSUME Supuestos, Control, SocketsOK,
           \/ aMapa' = aMapa
           \/ \E s \in Fds : aMapa[s] # <<>> /\ aMapa' = [aMapa EXCEPT ![s] = Tail(@)],
           \/ aEntrenador' = aEntrenador
           \/ \E s \in Fds : \E m : aEntrenador' = Enviado(aEntrenador, s, m)
    PROVE  Callan
<1>1. DOMAIN aMapa = Fds /\ DOMAIN aEntrenador = Fds
  <2>1. /\ aMapa = [s \in Fds |-> aMapa[s]]
        /\ aEntrenador = [s \in Fds |-> aEntrenador[s]]
      BY Tipos DEF MundoTypeOK, SonBuzones
  <2> QED BY <2>1
<1>2. ASSUME NEW s \in Fds, extremo[s] # "abierto" PROVE aEntrenador'[s] = <<>>
  <2>1. aEntrenador[s] = <<>>
      BY <1>2 DEF SocketsOK
  <2>2. CASE \E u \in Fds : \E m : aEntrenador' = Enviado(aEntrenador, u, m)
    <3>4. PICK u \in Fds : \E m : aEntrenador' = Enviado(aEntrenador, u, m)
        BY <2>2
    <3>1. PICK m : aEntrenador' = Enviado(aEntrenador, u, m)
        BY <3>4
    <3>2. CASE extremo[u] = "abierto"
      <4>1. u # s /\ aEntrenador' = [aEntrenador EXCEPT ![u] = Append(@, m)]
          BY <1>2, <3>1, <3>2 DEF Enviado
      <4> QED BY <1>1, <2>1, <4>1
    <3>3. CASE extremo[u] # "abierto"
        BY <2>1, <3>1, <3>3 DEF Enviado
    <3> QED BY <3>2, <3>3
  <2> QED BY <2>1, <2>2
<1>3. ASSUME NEW s \in Fds, aMapa[s] = <<>> PROVE aMapa'[s] = <<>>
  <2>1. CASE \E u \in Fds : aMapa[u] # <<>> /\ aMapa' = [aMapa EXCEPT ![u] = Tail(@)]
    <3>1. PICK u \in Fds : aMapa[u] # <<>> /\ aMapa' = [aMapa EXCEPT ![u] = Tail(@)]
        BY <2>1
    <3>2. u # s
        BY <1>3, <3>1
    <3> QED BY <1>1, <1>3, <3>1, <3>2
  <2> QED BY <1>3, <2>1
<1> QED BY <1>2, <1>3 DEF Callan

(* The planner stays where it is.                                           *)
LEMMA SerenoQuieto ==
    ASSUME Supuestos, Control, ~modo.batalla, ListasOK, Perduran, pl' = pl,
           UNCHANGED <<modo, listos, bloqueados, cola, extremo, sock>>, Callan, dd'.pc \in Paz
    PROVE  ListasOK'
<1>1. ListosOK /\ ColaOK /\ BloqueadosOK /\ SocketsOK
    BY DEF ListasOK
<1>2. ListosOK'
  <2>1. pl.pc \in {"quitando", "cerrar"} => FdEn(listos, pl.sitio) = Fd
        /\ (modo.alg = "SRDF" => pl.pc \notin {"rotar", "quitar", "cerrar"})
      BY <1>1 DEF ListosOK
  <2>2. pl.pc \in {"quitando", "cerrar"} => pl.sitio \in DOMAIN listos
      BY Tipos DEF ControlPlan
  <2>3. modo.alg = "SRDF" => pl.pc \notin {"rotar", "quitar", "cerrar"}
      BY <1>1 DEF ListosOK
  <2> QED BY <1>1, <2>1, <2>2, <2>3, SerenoListos
<1>3. ColaOK'
    BY <1>1, SerenoCola
<1>4. BloqueadosOK'
  <2>1. \A i \in DOMAIN listos : TerminaElTurno(i) =>
             \/ pl'.pc \in {"bloqueando", "quitar"}
             \/ pl'.pc = "cerrar" /\ pl'.sitio = i
      BY DEF TerminaElTurno
  <2> QED BY <1>1, <2>1, SerenoBloqueados
<1>5. SocketsOK'
  <2>1. ASSUME pl.pc \in {"soltar", "quitando"}, pl.cierra
        PROVE  extremo[Fd] # "abierto" /\ aMapa'[Fd] = <<>>
    <3>1. extremo[Fd] # "abierto" /\ aMapa[Fd] = <<>>
        BY <1>1, <2>1 DEF SocketsOK
    <3>2. Fd \in Fds
      <4>1. pl.pc \in Sirviendo
          BY <2>1 DEF Sirviendo, Pasos
      <4> QED BY <4>1, Sirve
    <3> QED BY <3>1, <3>2 DEF Callan
  <2>2. \A s \in Fds : extremo[s] = "libre" => aMapa'[s] = <<>>
      BY <1>1 DEF Callan, SocketsOK
  <2>3. \A s \in Fds : extremo[s] # "abierto" => aEntrenador'[s] = <<>>
      BY DEF Callan
  <2> QED BY <1>1, <2>1, <2>2, <2>3, SerenoSockets
<1> QED BY <1>2, <1>3, <1>4, <1>5 DEF ListasOK

(* The planner goes on, in the middle of what it serves or after it, to a   *)
(* place with nothing to close.                                             *)
LEMMA SerenoServido ==
    ASSUME Supuestos, Control, ~modo.batalla, ListasOK, Perduran, Callan,
           UNCHANGED <<modo, listos, bloqueados, cola, extremo, sock, dd>>,
           pl'.corre = pl.corre, pl.pc \in Sirviendo \ {"rotar"},
           pl'.pc \notin {"quitando", "cerrar", "bloqueando"},
           modo.alg = "SRDF" => pl'.pc \notin {"rotar", "quitar"},
           pl.pc = "bloqueando" /\ modo.alg = "RR" => pl'.pc = "quitar",
           pl'.pc = "soltar" /\ pl'.cierra => extremo[Fd] # "abierto" /\ aMapa'[Fd] = <<>>
    PROVE  ListasOK'
<1>1. ListosOK /\ ColaOK /\ BloqueadosOK /\ SocketsOK
    BY DEF ListasOK
<1>2. pl.pc \notin {"elegir", "quitar", "cerrar"}
    BY DEF Sirviendo
<1>3. ListosOK'
    BY <1>1, <1>2, SerenoListos
<1>4. ColaOK'
    BY <1>1, SerenoCola
<1>5. BloqueadosOK'
  <2>1. CASE modo.alg = "RR"
    <3>1. \A i \in DOMAIN listos : TerminaElTurno(i) =>
             \/ pl'.pc \in {"bloqueando", "quitar"}
             \/ pl'.pc = "cerrar" /\ pl'.sitio = i
        BY <1>2, <2>1 DEF TerminaElTurno
    <3> QED BY <1>1, <3>1, SerenoBloqueados
  <2>2. CASE modo.alg # "RR"
      BY <2>2 DEF BloqueadosOK
  <2> QED BY <2>1, <2>2
<1>6. SocketsOK'
  <2>2. \A s \in Fds : extremo[s] = "libre" => aMapa'[s] = <<>>
      BY <1>1 DEF Callan, SocketsOK
  <2>3. \A s \in Fds : extremo[s] # "abierto" => aEntrenador'[s] = <<>>
      BY DEF Callan
  <2> QED BY <1>1, <1>2, <2>2, <2>3, SerenoSockets
<1>7. dd'.pc \in Paz
    BY DEF ListasOK
<1> QED BY <1>3, <1>4, <1>5, <1>6, <1>7 DEF ListasOK

(* Where a service leaves the planner.                                      *)
LEMMA SigueAdonde ==
    ASSUME Supuestos, Control, pl.pc \in Sirviendo \ {"rotar"}, NEW res \in 0 .. 2, pl' = Sigue(res)
    PROVE  /\ pl'.corre = pl.corre
           /\ pl'.pc \in {"recibir", "elegir", "quitar", "rotar"}
           /\ modo.alg = "SRDF" => pl'.pc \in {"recibir", "elegir"}
           /\ modo.alg = "RR" /\ res = 1 => pl'.pc = "quitar"
<1>1. MapaAssumption /\ MapaTypeOK /\ pl.queda > 0 /\ pl \in Pls
    BY Tipos, Sirve DEF Supuestos
<1>2. pl'.corre = pl.corre /\ pl'.pc \in {"recibir", "elegir", "quitar", "rotar"}
    BY <1>1, SigueEs
<1>3. ASSUME modo.alg = "SRDF" PROVE pl'.pc \in {"recibir", "elegir"}
  <2> DEFINE x == IF res = 2 /\ pl.vez = 1 THEN "recibir" ELSE "elegir"
             v == IF res = 2 THEN 2 ELSE 1
  <2>1. pl' = [pl EXCEPT !.pc = x, !.vez = v]
      BY <1>3 DEF Sigue
  <2>2. x \in {"recibir", "elegir"}
      OBVIOUS
  <2> HIDE DEF x, v
  <2> QED BY <1>1, <2>1, <2>2 DEF Pls
<1>4. ASSUME modo.alg = "RR", res = 1 PROVE pl'.pc = "quitar"
  <2>1. pl' = [pl EXCEPT !.pc = "quitar"]
      BY <1>4 DEF Sigue
  <2> QED BY <1>1, <2>1 DEF Pls
<1> QED BY <1>2, <1>3, <1>4

(* What a request and its answer put in the connections.                    *)
LEMMA CallanPedido ==
    ASSUME Supuestos, Control, SocketsOK, NEW tipo, Pedido(tipo),
           aEntrenador' = aEntrenador \/ \E m : aEntrenador' = Enviado(aEntrenador, Fd, m)
    PROVE  Callan /\ pl.pc = "recibir" /\ pl.pc \in Sirviendo \ {"rotar"}
<1>1. pl.pc = "recibir" /\ pl.pc \in Sirviendo \ {"rotar"} /\ aMapa[Fd] # <<>>
      /\ aMapa' = [aMapa EXCEPT ![Fd] = Tail(@)]
    BY DEF Pedido, Hay, Sirviendo, Pasos
<1>2. Fd \in Fds
    BY <1>1, Sirve
<1>3. Callan
    BY <1>1, <1>2, CallanServido
<1> QED BY <1>1, <1>3

(* The requests: the planner goes on in the middle of them, or is done.     *)
LEMMA ListasPedidos ==
    ASSUME Supuestos, Control, Control', ~modo.batalla, ListasOK, UNCHANGED dd,
           ObtenerPokenest \/ MoverPosicion \/ Entregar \/ Negar \/ DarMedalla
    PROVE  ListasOK'
<1>1. SocketsOK
    BY DEF ListasOK
<1>2. UNCHANGED <<modo, listos, bloqueados, cola, extremo, sock>>
    BY DEF ObtenerPokenest, MoverPosicion, Entregar, Negar, DarMedalla, listas
<1>3. Perduran
    BY PcbObtener, PcbMover, QuietoMapa, QuietosPerduran
<1>4. Callan /\ pl.pc = "recibir" /\ pl.pc \in Sirviendo \ {"rotar"}
  <2>1. \E tipo : Pedido(tipo)
      BY DEF ObtenerPokenest, MoverPosicion, Entregar, Negar, DarMedalla
  <2>2. aEntrenador' = aEntrenador \/ \E m : aEntrenador' = Enviado(aEntrenador, Fd, m)
      BY DEF ObtenerPokenest, MoverPosicion, Entregar, Negar, DarMedalla, Responde
  <2> QED BY <1>1, <2>1, <2>2, CallanPedido
<1>5. CASE ObtenerPokenest
  <2>1. pl' = Sigue(2)
      BY <1>5 DEF ObtenerPokenest
  <2>2. /\ pl'.corre = pl.corre /\ pl'.pc \in {"recibir", "elegir", "quitar", "rotar"}
        /\ modo.alg = "SRDF" => pl'.pc \in {"recibir", "elegir"}
      BY <1>4, <2>1, SigueAdonde
  <2> QED BY <1>2, <1>3, <1>4, <2>2, SerenoServido
<1>6. CASE ~ObtenerPokenest
  <2>1. /\ pl'.corre = pl.corre /\ pl'.pc \in {"moviendo", "entregando", "bloquear", "soltar"}
        /\ pl'.pc = "soltar" => pl'.cierra = FALSE
    <3>1. pl \in Pls
        BY Tipos
    <3>2. \/ \E x \in {"moviendo", "entregando", "bloquear"} : pl' = [pl EXCEPT !.pc = x]
          \/ pl' = [pl EXCEPT !.pc = "soltar", !.cierra = FALSE]
        BY <1>6 DEF MoverPosicion, Entregar, Negar, DarMedalla
    <3> QED BY <3>1, <3>2 DEF Pls
  <2> QED BY <1>2, <1>3, <1>4, <2>1, SerenoServido
<1> QED BY <1>5, <1>6

(* The end of what was asked for.                                           *)
LEMMA ListasServido ==
    ASSUME Supuestos, Control, Control', ~modo.batalla, ListasOK, UNCHANGED dd,
           Moviendo \/ Entregado \/ NoEntregado \/ Bloqueado
    PROVE  ListasOK'
<1>1. SocketsOK
    BY DEF ListasOK
<1>2. UNCHANGED <<modo, listos, bloqueados, cola, extremo, sock>>
    BY DEF Moviendo, Entregado, NoEntregado, Bloqueado, mundo
<1>3. Perduran
    BY QuietoMapa, QuietosPerduran
<1>4. pl.pc \in {"moviendo", "entregando", "bloqueando"} /\ pl.pc \in Sirviendo \ {"rotar"}
    BY DEF Moviendo, Entregado, NoEntregado, Bloqueado, Sirviendo, Pasos
<1>5. Fd \in Fds
    BY <1>4, Sirve
<1>6. Callan
  <2>1. aMapa' = aMapa \/ \E s \in Fds : aMapa[s] # <<>> /\ aMapa' = [aMapa EXCEPT ![s] = Tail(@)]
      BY <1>5 DEF Moviendo, Entregado, NoEntregado, Bloqueado, mundo, Hay
  <2>2. aEntrenador' = aEntrenador \/ \E s \in Fds : \E m : aEntrenador' = Enviado(aEntrenador, s, m)
      BY <1>5 DEF Moviendo, Entregado, NoEntregado, Bloqueado, mundo, Responde
  <2> QED BY <1>1, <2>1, <2>2, CallanServido
<1>7. \E res \in 0 .. 2 : pl' = Sigue(res) /\ (pl.pc = "bloqueando" => res = 1)
  <2>1. 0 \in 0 .. 2 /\ 1 \in 0 .. 2
      OBVIOUS
  <2> QED BY <2>1 DEF Moviendo, Entregado, NoEntregado, Bloqueado
<1>8. /\ pl'.corre = pl.corre /\ pl'.pc \in {"recibir", "elegir", "quitar", "rotar"}
      /\ modo.alg = "SRDF" => pl'.pc \in {"recibir", "elegir"}
      /\ pl.pc = "bloqueando" /\ modo.alg = "RR" => pl'.pc = "quitar"
    BY <1>4, <1>7, SigueAdonde
<1> QED BY <1>2, <1>3, <1>4, <1>6, <1>8, SerenoServido

(* recv failed.                                                             *)
LEMMA ListasDesconectado ==
    ASSUME Supuestos, Control, Control', ~modo.batalla, ListasOK, UNCHANGED dd, Desconectado
    PROVE  ListasOK'
<1>1. SocketsOK /\ pl \in Pls
    BY Tipos DEF ListasOK
<1>2. UNCHANGED <<modo, listos, bloqueados, cola, extremo, sock, aMapa, aEntrenador>>
    BY DEF Desconectado, mundo
<1>3. Perduran
    BY QuietoMapa, QuietosPerduran
<1>4. pl.pc = "recibir" /\ pl.pc \in Sirviendo \ {"rotar"}
      /\ extremo[Fd] # "abierto" /\ aMapa'[Fd] = <<>>
    BY <1>2 DEF Desconectado, Sirviendo, Pasos, Cortado
<1>5. Callan
    BY <1>1, <1>2, CallanIgual
<1>6. /\ pl'.corre = pl.corre /\ pl'.pc \in {"recibir", "elegir", "quitar", "rotar", "soltar"}
      /\ modo.alg = "SRDF" => pl'.pc \in {"recibir", "elegir", "soltar"}
  <2>1. CASE pl' = Sigue(1)
      BY <1>4, <2>1, SigueAdonde
  <2>2. CASE \E c \in BOOLEAN : pl' = [pl EXCEPT !.pc = "soltar", !.cierra = c]
      BY <1>1, <2>2 DEF Pls
  <2> QED BY <2>1, <2>2 DEF Desconectado
<1> QED BY <1>2, <1>3, <1>4, <1>5, <1>6, SerenoServido

(* What the map does while the planner stays where it is.                   *)
LEMMA ListasAparte ==
    ASSUME Supuestos, Control, Control', ~modo.batalla, ListasOK, UNCHANGED dd,
           Aceptado \/ Dibujar \/ LeerLoAjeno
    PROVE  ListasOK'
<1>1. UNCHANGED <<modo, listos, bloqueados, cola, extremo, sock, pl, aMapa, aEntrenador>>
    BY DEF Aceptado, Dibujar, LeerLoAjeno, mundo, listas
<1>2. Perduran
    BY QuietoMapa, QuietosPerduran
<1>3. Callan /\ dd'.pc \in Paz
    BY <1>1, CallanIgual DEF ListasOK
<1> QED BY <1>1, <1>2, <1>3, SerenoQuieto

(* The detection without battles, but for who it takes out of the list.     *)
LEMMA ListasDeteccion ==
    ASSUME Supuestos, Control, Control', ~modo.batalla, ListasOK,
           NoMirar \/ Contar \/ PasarseDelFin \/ SigueBloqueado \/ Liberar \/ FinDePasada
    PROVE  ListasOK'
<1>1. UNCHANGED <<modo, listos, bloqueados, cola, extremo, sock, pl, aMapa>>
    BY DEF NoMirar, Contar, PasarseDelFin, SigueBloqueado, Liberar, FinDePasada, mundo, mapa,
           listas
<1>2. Perduran
    BY QuietoDeteccion, QuietosPerduran
<1>3. dd'.pc \in Paz
  <2>1. dd \in DDs /\ dd.pc \in Paz
      BY TiposDD DEF ListasOK
  <2>2. \/ dd' = dd
        \/ \E x \in Paz : dd'.pc = x
      BY <2>1 DEF NoMirar, Contar, PasarseDelFin, SigueBloqueado, Liberar, FinDePasada, Paz, DDs
  <2> QED BY <2>1, <2>2
<1>4. Callan
  <2>1. aEntrenador' = aEntrenador \/ \E s \in Fds : \E m : aEntrenador' = Enviado(aEntrenador, s, m)
    <3>1. CASE Liberar
      <4>1. dd.i \in DOMAIN bloqueados
        <5>1. dd.i \in Nat /\ dd.i > 0 /\ Len(bloqueados) \in Nat
            BY TiposDD, Tipos DEF Ubicada
        <5>2. DOMAIN bloqueados = 1 .. Len(bloqueados)
            BY Tipos
        <5> QED BY <3>1, <5>1, <5>2 DEF Liberar
      <4>2. pcb[Este] \in Pcbs
          BY <4>1, Tipos DEF Este
      <4>3. pcb[Este].fd \in Fds
          BY <4>2 DEF Pcbs
      <4> QED BY <3>1, <4>3 DEF Liberar
    <3>2. CASE ~Liberar
        BY <3>2 DEF NoMirar, Contar, PasarseDelFin, SigueBloqueado, FinDePasada, mundo
    <3> QED BY <3>1, <3>2
  <2> QED BY <1>1, <2>1, CallanServido DEF ListasOK
<1> QED BY <1>1, <1>2, <1>3, <1>4, SerenoQuieto

(* The first removal of a trainer is of its place in listaListos.           *)
LEMMA ListasSoltar ==
    ASSUME Supuestos, Control, Control', ~modo.batalla, ListasOK, UNCHANGED dd, Soltar
    PROVE  ListasOK'
<1>1. ListosOK /\ ColaOK /\ BloqueadosOK /\ SocketsOK /\ dd'.pc \in Paz /\ pl \in Pls
    BY Tipos DEF ListasOK
<1>2. UNCHANGED <<modo, listos, bloqueados, cola, extremo, sock, aMapa, aEntrenador>>
    BY DEF Soltar, conexiones
<1>3. Perduran
    BY QuietoMapa, QuietosPerduran
<1>4. /\ pl.pc = "soltar" /\ pl.pc \in Sirviendo
      /\ pl'.pc = "quitando" /\ pl'.corre = pl.corre /\ pl'.cierra = pl.cierra
      /\ pl'.sitio = Lugar(listos, Fd)
    BY <1>1 DEF Soltar, Sirviendo, Pasos, Pls
<1>5. pl'.sitio \in DOMAIN listos /\ FdEn(listos, pl'.sitio) = Fd
  <2>1. MapaTypeOK /\ listos \in Seq(1 .. Len(pcb)) /\ Lugar(listos, Fd) \in DOMAIN listos
      BY <1>4, Sirve, Tipos
  <2>2. Lugar(listos, Fd) # 0
      BY <2>1
  <2> QED BY <1>4, <2>1, <2>2, LugarEs DEF FdEn
<1>6. ListosOK'
    BY <1>1, <1>2, <1>3, <1>4, <1>5, SerenoListos
<1>7. ColaOK'
    BY <1>1, <1>2, <1>3, SerenoCola
<1>8. BloqueadosOK'
  <2>1. \A i \in DOMAIN listos : ~TerminaElTurno(i)
      BY <1>4 DEF TerminaElTurno
  <2> QED BY <1>1, <1>2, <1>3, <1>4, <2>1, SerenoBloqueados
<1>9. SocketsOK'
  <2>1. pl'.cierra => extremo[Fd] # "abierto" /\ aMapa'[Fd] = <<>>
      BY <1>1, <1>2, <1>4 DEF SocketsOK
  <2>2. /\ \A s \in Fds : extremo[s] # "abierto" => aEntrenador'[s] = <<>>
        /\ \A s \in Fds : extremo[s] = "libre" => aMapa'[s] = <<>>
      BY <1>1, <1>2 DEF SocketsOK
  <2> QED BY <1>1, <1>2, <1>3, <1>4, <2>1, <2>2, SerenoSockets
<1> QED BY <1>1, <1>6, <1>7, <1>8, <1>9 DEF ListasOK

(* The one at the end of its turn, if it is still there.                    *)
LEMMA ListasQuitar ==
    ASSUME Supuestos, Control, Control', ~modo.batalla, ListasOK, UNCHANGED dd,
           Quitar \/ YaNoEsta \/ QuitarDeVacia
    PROVE  ListasOK'
<1>1. ListosOK /\ ColaOK /\ BloqueadosOK /\ SocketsOK /\ dd'.pc \in Paz /\ pl \in Pls
    BY Tipos DEF ListasOK
<1>2. UNCHANGED <<modo, listos, bloqueados, cola, extremo, sock, aMapa, aEntrenador>>
    BY DEF Quitar, YaNoEsta, QuitarDeVacia, mundo, listas
<1>3. Perduran
    BY QuietoMapa, QuietosPerduran
<1>4. /\ pl.pc = "quitar" /\ modo.alg # "SRDF"
      /\ pl'.corre = pl.corre /\ pl'.pc \in {"cerrar", "elegir"}
      /\ pl'.pc = "cerrar" => Quitar /\ pl'.sitio = Lugar(listos, Fd)
      /\ pl'.pc = "elegir" => YaNoEsta \/ QuitarDeVacia
    BY <1>1 DEF Quitar, YaNoEsta, QuitarDeVacia, Pls, ListosOK
<1>0. MapaTypeOK /\ listos \in Seq(1 .. Len(pcb))
    BY Tipos
<1>5. pl'.pc = "cerrar" => pl'.sitio \in DOMAIN listos /\ FdEn(listos, pl'.sitio) = Fd
  <2> SUFFICES ASSUME pl'.pc = "cerrar"
               PROVE  pl'.sitio \in DOMAIN listos /\ FdEn(listos, pl'.sitio) = Fd
      OBVIOUS
  <2>1. Lugar(listos, Fd) # 0
      BY <1>4 DEF Quitar
  <2> QED BY <1>0, <1>4, <2>1, LugarEs DEF FdEn
<1>6. ListosOK'
  <2>1. pl'.pc \notin Sirviendo
      BY <1>4 DEF Sirviendo
  <2> QED BY <1>1, <1>2, <1>3, <1>4, <1>5, <2>1, SerenoListos
<1>7. ColaOK'
    BY <1>1, <1>2, <1>3, SerenoCola
<1>8. BloqueadosOK'
  <2>1. ASSUME NEW i \in DOMAIN listos, TerminaElTurno(i)
        PROVE  pl'.pc = "cerrar" /\ pl'.sitio = i
    <3>1. FdEn(listos, i) = Fd
        BY <2>1 DEF TerminaElTurno
    <3>2. pl'.pc = "cerrar"
      <4>1. ~QuitarDeVacia
        <5>1. listos # <<>>
            BY <1>0
        <5> QED BY <5>1 DEF QuitarDeVacia
      <4>2. ~YaNoEsta
          BY <1>0, <3>1, LugarEs DEF YaNoEsta, FdEn
      <4> QED BY <1>4, <4>1, <4>2
    <3> QED BY <1>1, <1>5, <3>1, <3>2 DEF ListosOK, SinParejas
  <2> QED BY <1>1, <1>2, <1>3, <1>4, <2>1, SerenoBloqueados
<1>9. SocketsOK'
  <2>2. /\ \A s \in Fds : extremo[s] # "abierto" => aEntrenador'[s] = <<>>
        /\ \A s \in Fds : extremo[s] = "libre" => aMapa'[s] = <<>>
      BY <1>1, <1>2 DEF SocketsOK
  <2> QED BY <1>1, <1>2, <1>3, <1>4, <2>2, SerenoSockets
<1> QED BY <1>1, <1>6, <1>7, <1>8, <1>9 DEF ListasOK

(* A new turn, of the first in round robin.                                 *)
LEMMA ListasElegir ==
    ASSUME Supuestos, Control, Control', ~modo.batalla, ListasOK, UNCHANGED dd, Elegir
    PROVE  ListasOK'
<1>1. ListosOK /\ ColaOK /\ BloqueadosOK /\ SocketsOK /\ dd'.pc \in Paz /\ pl \in Pls
    BY Tipos DEF ListasOK
<1>2. UNCHANGED <<modo, pcb, listos, bloqueados, cola, extremo, sock, aMapa, aEntrenador>>
    BY DEF Elegir, mundo, listas
<1>3. pl.pc = "elegir" /\ listos # <<>> /\ pl'.pc = "recibir" /\ pl'.corre = Elegido
    BY <1>1 DEF Elegir, Pls
<1>4. ListosOK'
  <2>1. modo.alg = "RR" => listos[1] = Elegido
    <3>1. modo.alg = "RR" => Elegido = Head(listos)
        BY DEF Elegido
    <3>2. Head(listos) = listos[1]
        OBVIOUS
    <3> QED BY <3>1, <3>2
  <2> QED BY <1>1, <1>2, <1>3, <2>1 DEF ListosOK, SinParejas, FdEn
<1>5. ColaOK'
    BY <1>1, <1>2 DEF ColaOK, FdEn
<1>6. BloqueadosOK'
  <2>1. \A i \in DOMAIN listos : ~TerminaElTurno(i)
      BY <1>3 DEF TerminaElTurno
  <2> QED BY <1>1, <1>2, <2>1 DEF BloqueadosOK, FdEn, SinParejas
<1>7. SocketsOK'
    BY <1>1, <1>2, <1>3 DEF SocketsOK, FdEn
<1> QED BY <1>1, <1>4, <1>5, <1>6, <1>7 DEF ListasOK

(* A trainer that was refused becomes blocked.                              *)
LEMMA ListasBloquear ==
    ASSUME Supuestos, Control, Control', ~modo.batalla, ListasOK, UNCHANGED dd, Bloquear
    PROVE  ListasOK'
<1>1. ListosOK /\ ColaOK /\ BloqueadosOK /\ SocketsOK /\ dd'.pc \in Paz /\ pl \in Pls
    BY Tipos DEF ListasOK
<1>2. UNCHANGED <<modo, pcb, listos, cola, extremo, sock, aMapa, aEntrenador>>
    BY DEF Bloquear, mundo
<1>3. /\ pl.pc = "bloquear" /\ pl.pc \in Sirviendo
      /\ pl'.pc = "bloqueando" /\ pl'.corre = pl.corre /\ Fd' = Fd
    BY <1>1, <1>2 DEF Bloquear, Pls, Sirviendo, Pasos, Fd
<1> DEFINE q == PcbEnListos(Fd)
           n == Len(bloqueados)
<1>4. bloqueados' = Append(bloqueados, q) /\ MapaTypeOK /\ listos \in Seq(1 .. Len(pcb))
      /\ bloqueados \in Seq(1 .. Len(pcb)) /\ Lugar(listos, Fd) \in DOMAIN listos
    BY <1>3, Sirve, Tipos DEF Bloquear
<1>5. q \in 1 .. Len(pcb) /\ pcb[q].fd = Fd /\ q = listos[Lugar(listos, Fd)]
  <2>1. Lugar(listos, Fd) # 0
      BY <1>4
  <2>2. q = listos[Lugar(listos, Fd)]
      BY <2>1 DEF PcbEnListos
  <2> QED BY <1>3, <1>4, <2>1, <2>2, LugarEs, Sirve
<1> HIDE DEF q
<1>6. /\ n \in Nat /\ DOMAIN bloqueados = 1 .. n /\ DOMAIN bloqueados' = 1 .. n + 1
      /\ bloqueados'[n + 1] = q
      /\ \A i \in 1 .. n : bloqueados'[i] = bloqueados[i]
    BY <1>4, <1>5
<1>7. ListosOK' /\ ColaOK' /\ SocketsOK'
  <2>1. ListosOK'
      BY <1>1, <1>2, <1>3 DEF ListosOK, SinParejas, FdEn
  <2>2. ColaOK'
      BY <1>1, <1>2 DEF ColaOK, FdEn
  <2>3. SocketsOK'
      BY <1>1, <1>2, <1>3 DEF SocketsOK, FdEn
  <2> QED BY <2>1, <2>2, <2>3
<1>8. ASSUME modo.alg = "RR" PROVE BloqueadosOK'
  <2>1. \A j \in 1 .. n : pcb[bloqueados[j]].fd # Fd
    <3>1. \A i \in DOMAIN listos : ~TerminaElTurno(i)
        BY <1>3 DEF TerminaElTurno
    <3>2. FdEn(listos, Lugar(listos, Fd)) = Fd
        BY <1>5 DEF FdEn
    <3> QED BY <1>4, <1>6, <1>8, <1>1, <3>1, <3>2 DEF BloqueadosOK, FdEn
  <2>2. \A j \in 1 .. n + 1 :
           FdEn(bloqueados, j)' = IF j = n + 1 THEN Fd ELSE FdEn(bloqueados, j)
      BY <1>2, <1>5, <1>6 DEF FdEn
  <2>3. SinParejas(bloqueados)'
    <3> SUFFICES ASSUME NEW i \in 1 .. n + 1, NEW j \in 1 .. n + 1,
                        FdEn(bloqueados, i)' = FdEn(bloqueados, j)'
                 PROVE  i = j
        BY <1>6 DEF SinParejas, FdEn
    <3>1. \A a, b \in 1 .. n : FdEn(bloqueados, a) = FdEn(bloqueados, b) => a = b
        BY <1>1, <1>6, <1>8 DEF BloqueadosOK, SinParejas
    <3> QED BY <1>6, <2>1, <2>2, <3>1 DEF FdEn
  <2>4. extremo[Fd] # "libre" /\ \A i \in DOMAIN cola : cola[i].fd # Fd
    <3>1. FdEn(listos, Lugar(listos, Fd)) = Fd
        BY <1>5 DEF FdEn
    <3> QED BY <1>1, <1>4, <3>1 DEF ListosOK, ColaOK
  <2>5. \A i \in DOMAIN bloqueados' : extremo'[FdEn(bloqueados, i)'] # "libre"
      BY <1>1, <1>2, <1>6, <1>8, <2>2, <2>4 DEF BloqueadosOK
  <2>6. \A i \in DOMAIN cola', j \in DOMAIN bloqueados' : cola'[i].fd # FdEn(bloqueados, j)'
      BY <1>1, <1>2, <1>6, <1>8, <2>2, <2>4 DEF BloqueadosOK
  <2>7. \A i \in DOMAIN listos', j \in DOMAIN bloqueados' :
           FdEn(listos, i)' = FdEn(bloqueados, j)' => TerminaElTurno(i)'
    <3> SUFFICES ASSUME NEW i \in DOMAIN listos, NEW j \in 1 .. n + 1,
                        FdEn(listos, i) = FdEn(bloqueados, j)'
                 PROVE  TerminaElTurno(i)'
        BY <1>2, <1>6 DEF FdEn
    <3>1. CASE j = n + 1
        BY <1>2, <1>3, <2>2, <3>1 DEF TerminaElTurno, FdEn
    <3>2. CASE j # n + 1
      <4>1. j \in 1 .. n
          BY <1>6, <3>2
      <4>2. FdEn(listos, i) = FdEn(bloqueados, j)
          BY <2>2, <3>2
      <4>3. TerminaElTurno(i)
          BY <1>1, <1>6, <1>8, <4>1, <4>2 DEF BloqueadosOK
      <4> QED BY <1>3, <4>3 DEF TerminaElTurno
    <3> QED BY <3>1, <3>2
  <2> QED BY <2>3, <2>5, <2>6, <2>7 DEF BloqueadosOK
<1>9. BloqueadosOK'
    BY <1>2, <1>8 DEF BloqueadosOK
<1> QED BY <1>1, <1>7, <1>9 DEF ListasOK

(* A list whose places are some of those it had.                            *)
Menos(m, l, k) ==
    \E f \in [DOMAIN m -> DOMAIN l] :
      /\ \A i, j \in DOMAIN m : f[i] = f[j] => i = j
      /\ \A i \in DOMAIN m : m[i] = l[f[i]] /\ f[i] # k

(* What taking one place out of a list leaves.                              *)
LEMMA SinUnLugar ==
    ASSUME NEW S, NEW l \in Seq(S), NEW k \in 1 .. Len(l)
    PROVE  Menos(RemoveAt(l, k), l, k)
<1> DEFINE n == Len(l)
           m == RemoveAt(l, k)
           f == [i \in 1 .. n - 1 |-> IF i < k THEN i ELSE i + 1]
<1>1. n \in Nat /\ DOMAIN l = 1 .. n /\ k \in 1 .. n
    OBVIOUS
<1>2. m \in Seq(S) /\ Len(m) = n - 1
      /\ \A j \in 1 .. n - 1 : m[j] = IF j < k THEN l[j] ELSE l[j + 1]
    BY SinElUno
<1> HIDE DEF m
<1>3. DOMAIN m = 1 .. n - 1
    BY <1>1, <1>2
<1> HIDE DEF n
<1>4. /\ f \in [1 .. n - 1 -> 1 .. n]
      /\ \A i, j \in 1 .. n - 1 : f[i] = f[j] => i = j
      /\ \A i \in 1 .. n - 1 : f[i] # k
    BY <1>1
<1>5. \A i \in 1 .. n - 1 : m[i] = l[f[i]]
    BY <1>1, <1>2
<1> HIDE DEF f
<1>6. Menos(m, l, k)
    BY <1>1, <1>3, <1>4, <1>5 DEF Menos
<1> QED BY <1>6 DEF m

(* A list whose places come from another one has its descriptors and        *)
(* trainers.                                                                *)
LEMMA Reindexada ==
    ASSUME Control, Perduran, NEW f \in [DOMAIN listos' -> DOMAIN listos],
           \A i \in DOMAIN listos' : listos'[i] = listos[f[i]]
    PROVE  \A i \in DOMAIN listos' : /\ FdEn(listos, i)' = FdEn(listos, f[i])
                                     /\ pcb'[listos'[i]].quien = pcb[listos[f[i]]].quien
<1>1. \A i \in DOMAIN listos : pcb'[listos[i]].fd = pcb[listos[i]].fd
                               /\ pcb'[listos[i]].quien = pcb[listos[i]].quien
    BY Tipos, MismaLista
<1> QED BY <1>1 DEF FdEn

(* The end of a turn puts the first last.                                   *)
LEMMA ListasRotar ==
    ASSUME Supuestos, Control, Control', ~modo.batalla, ListasOK, UNCHANGED dd, Rotar
    PROVE  ListasOK'
<1>1. ListosOK /\ ColaOK /\ BloqueadosOK /\ SocketsOK /\ dd'.pc \in Paz /\ pl \in Pls
    BY Tipos DEF ListasOK
<1>2. UNCHANGED <<modo, bloqueados, cola, extremo, sock, aMapa, aEntrenador>>
    BY DEF Rotar, mundo
<1>3. Perduran
    BY QuietoMapa, QuietosPerduran
<1>4. pl.pc = "rotar" /\ pl'.pc = "elegir" /\ modo.alg # "SRDF"
    BY <1>1 DEF Rotar, Pls, ListosOK
<1>5. listos \in Seq(1 .. Len(pcb)) /\ listos # <<>> /\ listos[1] = pl.corre /\ modo.alg = "RR"
  <2>1. modo.alg = "RR"
      BY <1>4, Tipos DEF Supuestos, MapaAssumption
  <2>2. pl.pc \in Sirviendo
      BY <1>4 DEF Sirviendo, Pasos
  <2> QED BY <1>1, <2>1, <2>2, Sirve DEF ListosOK
<1> DEFINE n == Len(listos)
           f == [i \in 1 .. n |-> IF i = n THEN 1 ELSE i + 1]
<1>6. /\ n \in Nat /\ n > 0 /\ DOMAIN listos = 1 .. n /\ DOMAIN listos' = 1 .. n
      /\ \A i \in 1 .. n : listos'[i] = IF i = n THEN pl.corre ELSE listos[i + 1]
  <2>1. n \in Nat /\ n > 0 /\ DOMAIN listos = 1 .. n
      BY <1>5, EmptySeq
  <2>2. /\ Tail(listos) \in Seq(1 .. Len(pcb)) /\ Len(Tail(listos)) = n - 1
        /\ \A i \in 1 .. n - 1 : Tail(listos)[i] = listos[i + 1]
      BY <1>5
  <2>3. listos' = Append(Tail(listos), pl.corre)
      BY DEF Rotar
  <2> QED BY <2>1, <2>2, <2>3
<1> HIDE DEF n
<1>7. f \in [DOMAIN listos' -> DOMAIN listos] /\ \A i, j \in DOMAIN listos' : f[i] = f[j] => i = j
    BY <1>6
<1>8. \A i \in DOMAIN listos' : listos'[i] = listos[f[i]]
    BY <1>5, <1>6
<1> HIDE DEF f
<1>9. \A i \in DOMAIN listos' : /\ FdEn(listos, i)' = FdEn(listos, f[i])
                                /\ pcb'[listos'[i]].quien = pcb[listos[f[i]]].quien
    BY <1>3, <1>7, <1>8, Reindexada
<1>10. ListosOK'
  <2>1. SinParejas(listos)'
      BY <1>1, <1>7, <1>9 DEF ListosOK, SinParejas, FdEn
  <2>2. pl'.pc \notin Sirviendo
      BY <1>4 DEF Sirviendo
  <2> QED BY <1>1, <1>2, <1>4, <1>7, <1>9, <2>1, <2>2 DEF ListosOK
<1>11. ColaOK'
    BY <1>1, <1>2, <1>7, <1>9 DEF ColaOK
<1>12. \A j \in DOMAIN bloqueados : FdEn(bloqueados, j)' = FdEn(bloqueados, j)
    BY <1>2, <1>3, Tipos, MismaLista DEF FdEn
<1>13. BloqueadosOK'
  <2>1. \A i \in DOMAIN listos : ~TerminaElTurno(i)
      BY <1>4 DEF TerminaElTurno
  <2>2. SinParejas(bloqueados)'
      BY <1>1, <1>2, <1>5, <1>12 DEF BloqueadosOK, SinParejas, FdEn
  <2> QED BY <1>1, <1>2, <1>5, <1>7, <1>9, <1>12, <2>1, <2>2 DEF BloqueadosOK
<1>14. SocketsOK'
    BY <1>1, <1>2, <1>4, <1>7, <1>9 DEF SocketsOK
<1> QED BY <1>1, <1>10, <1>11, <1>13, <1>14 DEF ListasOK

(* A removal from listaListos takes out who ran, and with it the connection *)
(* if it was gone.                                                          *)
LEMMA ListasQuitado ==
    ASSUME Supuestos, Control, Control', ~modo.batalla, ListasOK, UNCHANGED dd,
           QuitadoPorSi \/ QuitadoDelTurno
    PROVE  ListasOK'
<1>1. ListosOK /\ ColaOK /\ BloqueadosOK /\ SocketsOK /\ dd'.pc \in Paz /\ pl \in Pls
    BY Tipos DEF ListasOK
<1>2. UNCHANGED <<modo, bloqueados, cola, sock, aMapa, aEntrenador>>
    BY DEF QuitadoPorSi, QuitadoDelTurno, mundo
<1>3. Perduran
    BY QuietoMapa, QuietosPerduran
<1>4. /\ pl.pc \in {"quitando", "cerrar"} /\ listos' = RemoveAt(listos, pl.sitio)
      /\ pl.sitio \in DOMAIN listos /\ listos \in Seq(1 .. Len(pcb)) /\ FdEn(listos, pl.sitio) = Fd
    BY <1>1, Tipos DEF QuitadoPorSi, QuitadoDelTurno, Quitado, ControlPlan, ListosOK
<1>5. PICK f \in [DOMAIN listos' -> DOMAIN listos] :
             /\ \A i, j \in DOMAIN listos' : f[i] = f[j] => i = j
             /\ \A i \in DOMAIN listos' : listos'[i] = listos[f[i]] /\ f[i] # pl.sitio
  <2>1. pl.sitio \in 1 .. Len(listos) /\ listos \in Seq(1 .. Len(pcb))
      BY <1>4
  <2>2. Menos(listos', listos, pl.sitio)
      BY <2>1, SinUnLugar, <1>4
  <2> QED BY <2>2 DEF Menos
<1>6. \A i \in DOMAIN listos' : /\ FdEn(listos, i)' = FdEn(listos, f[i])
                                /\ pcb'[listos'[i]].quien = pcb[listos[f[i]]].quien
    BY <1>3, <1>5, Reindexada
<1>7. \A i \in DOMAIN listos' : FdEn(listos, f[i]) # Fd
    BY <1>1, <1>4, <1>5 DEF ListosOK, SinParejas
<1>8. /\ pl'.pc \in {"recibir", "elegir", "quitar", "rotar"}
      /\ modo.alg = "RR" => pl'.pc \notin Sirviendo
      /\ modo.alg = "SRDF" => pl'.pc \in {"recibir", "elegir"}
  <2>1. CASE pl.pc = "quitando"
    <3>1. pl.pc \in Sirviendo \ {"rotar"} /\ pl' = Sigue(1)
        BY <2>1 DEF Sirviendo, Pasos, QuitadoPorSi, QuitadoDelTurno
    <3> QED BY <3>1, SigueAdonde DEF Sirviendo
  <2>2. CASE pl.pc = "cerrar"
      BY <1>1, <2>2 DEF QuitadoPorSi, QuitadoDelTurno, Pls, Sirviendo
  <2> QED BY <1>4, <2>1, <2>2
<1>9. DOMAIN extremo = Fds /\ Fd \in Fds
  <2>1. pcb[listos[pl.sitio]] \in Pcbs
      BY <1>4, Tipos
  <2> QED BY <1>4, <2>1, Tipos DEF MundoTypeOK, FdEn, Pcbs
<1>10. /\ \A s : s # Fd => extremo'[s] = extremo[s]
       /\ extremo'[Fd] # extremo[Fd] =>
            pl.pc = "quitando" /\ extremo'[Fd] = "libre" /\ extremo[Fd] # "abierto"
            /\ aMapa[Fd] = <<>>
  <2>1. CASE pl.pc = "quitando" /\ pl.cierra
    <3>1. extremo' = [extremo EXCEPT ![Fd] = "libre"]
        BY <2>1 DEF QuitadoPorSi, QuitadoDelTurno
    <3>2. extremo[Fd] # "abierto" /\ aMapa[Fd] = <<>>
        BY <1>1, <2>1 DEF SocketsOK
    <3> QED BY <1>9, <2>1, <3>1, <3>2
  <2>2. CASE ~(pl.pc = "quitando" /\ pl.cierra)
    <3>1. extremo' = extremo
        BY <2>2 DEF QuitadoPorSi, QuitadoDelTurno, mundo
    <3> QED BY <3>1
  <2> QED BY <2>1, <2>2
<1>11. ListosOK'
  <2>1. SinParejas(listos)'
      BY <1>1, <1>5, <1>6 DEF ListosOK, SinParejas, FdEn
  <2>2. \A i \in DOMAIN listos' : extremo'[FdEn(listos, i)'] # "libre"
      BY <1>1, <1>5, <1>6, <1>7, <1>10 DEF ListosOK
  <2> QED BY <1>2, <1>8, <2>1, <2>2 DEF ListosOK
<1>12. ColaOK'
  <2>1. \A i \in DOMAIN cola : cola[i].fd # Fd
      BY <1>1, <1>4 DEF ColaOK
  <2> QED BY <1>1, <1>2, <1>5, <1>6, <1>10, <2>1 DEF ColaOK
<1>13. \A j \in DOMAIN bloqueados : FdEn(bloqueados, j)' = FdEn(bloqueados, j)
    BY <1>2, <1>3, Tipos, MismaLista DEF FdEn
<1>14. ASSUME modo.alg = "RR" PROVE BloqueadosOK'
  <2>1. \A i \in DOMAIN listos : TerminaElTurno(i) => FdEn(listos, i) = Fd
      BY DEF TerminaElTurno
  <2>2. SinParejas(bloqueados)'
      BY <1>1, <1>2, <1>13, <1>14 DEF BloqueadosOK, SinParejas, FdEn
  <2>3. pl.pc = "quitando" => \A j \in DOMAIN bloqueados : FdEn(bloqueados, j) # Fd
    <3>1. pl.pc = "quitando" => ~TerminaElTurno(pl.sitio)
        BY DEF TerminaElTurno
    <3> QED BY <1>1, <1>4, <1>14, <3>1 DEF BloqueadosOK
  <2>4. \A j \in DOMAIN bloqueados' : extremo'[FdEn(bloqueados, j)'] # "libre"
      BY <1>1, <1>2, <1>10, <1>13, <1>14, <2>3 DEF BloqueadosOK
  <2>5. \A i \in DOMAIN listos', j \in DOMAIN bloqueados' :
           FdEn(listos, i)' # FdEn(bloqueados, j)'
      BY <1>1, <1>2, <1>5, <1>6, <1>7, <1>13, <1>14, <2>1 DEF BloqueadosOK
  <2>6. \A i \in DOMAIN cola', j \in DOMAIN bloqueados' : cola'[i].fd # FdEn(bloqueados, j)'
      BY <1>1, <1>2, <1>13, <1>14 DEF BloqueadosOK
  <2> QED BY <2>2, <2>4, <2>5, <2>6 DEF BloqueadosOK
<1>15. BloqueadosOK'
    BY <1>2, <1>14 DEF BloqueadosOK
<1>16. SocketsOK'
  <2>1. \A t \in Entrenadores : sock'[t] # 0 => extremo'[sock'[t]] = "abierto"
      BY <1>1, <1>2, <1>10 DEF SocketsOK
  <2>2. \A t \in Entrenadores, i \in DOMAIN listos' :
         FdEn(listos, i)' = sock'[t] => pcb'[listos'[i]].quien = t
      BY <1>1, <1>2, <1>5, <1>6 DEF SocketsOK
  <2>3. /\ \A s \in Fds : extremo'[s] # "abierto" => aEntrenador'[s] = <<>>
        /\ \A s \in Fds : extremo'[s] = "libre" => aMapa'[s] = <<>>
      BY <1>1, <1>2, <1>10 DEF SocketsOK
  <2> QED BY <1>1, <1>2, <1>8, <2>1, <2>2, <2>3 DEF SocketsOK
<1> QED BY <1>1, <1>11, <1>12, <1>15, <1>16 DEF ListasOK

(* The first of those who wait is the last of the ready ones.               *)
LEMMA ListasAceptar ==
    ASSUME Supuestos, Control, Control', ~modo.batalla, ListasOK, UNCHANGED dd, Aceptar
    PROVE  ListasOK'
<1>1. ListosOK /\ ColaOK /\ BloqueadosOK /\ SocketsOK /\ dd'.pc \in Paz /\ pl \in Pls
    BY Tipos DEF ListasOK
<1>2. UNCHANGED <<modo, bloqueados, extremo, sock, aMapa, aEntrenador, pl>>
    BY DEF Aceptar
<1> DEFINE c == Head(cola)
           n == Len(listos)
           p == Len(pcb) + 1
<1>3. /\ Quietos /\ Perduran /\ Len(pcb') = p /\ Len(pcb) \in Nat
      /\ pcb'[p].fd = c.fd /\ pcb'[p].quien = c.quien
    BY QuietoAceptar, QuietosPerduran DEF Nuevo
<1>4. cola \in Seq([fd : Fds, quien : Entrenadores]) /\ cola # <<>> /\ cola' = Tail(cola)
      /\ listos' = Append(listos, p) /\ listos \in Seq(1 .. Len(pcb))
    BY Tipos DEF MundoTypeOK, Aceptar
<1>5. /\ n \in Nat /\ DOMAIN listos = 1 .. n /\ DOMAIN listos' = 1 .. n + 1
      /\ listos'[n + 1] = p /\ \A i \in 1 .. n : listos'[i] = listos[i]
    BY <1>4
<1>6. /\ 1 \in DOMAIN cola /\ cola[1] = c
      /\ \A i \in DOMAIN cola' : i + 1 \in DOMAIN cola /\ i + 1 # 1 /\ cola'[i] = cola[i + 1]
      /\ \A i, j \in DOMAIN cola' : i + 1 = j + 1 => i = j
  <2>1. Len(cola) \in Nat /\ Len(cola) > 0 /\ DOMAIN cola = 1 .. Len(cola)
      BY <1>4, EmptySeq
  <2>2. /\ Len(Tail(cola)) = Len(cola) - 1 /\ DOMAIN Tail(cola) = 1 .. Len(cola) - 1
        /\ \A i \in 1 .. Len(cola) - 1 : Tail(cola)[i] = cola[i + 1]
      BY <1>4, <2>1
  <2>3. cola[1] = Head(cola)
      BY <1>4
  <2> QED BY <1>4, <2>1, <2>2, <2>3
<1> HIDE DEF c, n, p
<1>7. \A i \in 1 .. n + 1 :
         /\ FdEn(listos, i)' = IF i = n + 1 THEN c.fd ELSE FdEn(listos, i)
         /\ pcb'[listos'[i]].quien = IF i = n + 1 THEN c.quien ELSE pcb[listos[i]].quien
  <2>1. \A i \in DOMAIN listos : pcb'[listos[i]].fd = pcb[listos[i]].fd
                                 /\ pcb'[listos[i]].quien = pcb[listos[i]].quien
      BY <1>3, <1>4, MismaLista
  <2> QED BY <1>3, <1>5, <2>1 DEF FdEn
<1>8. /\ \A i \in DOMAIN listos : FdEn(listos, i) # c.fd
      /\ \A j \in DOMAIN cola' : cola'[j].fd # c.fd
      /\ extremo[c.fd] # "libre"
    BY <1>1, <1>6 DEF ColaOK
<1>9. pl.pc # "elegir" => Fd' = Fd
    BY <1>2, <1>3, MismoFd
<1>10. ListosOK'
  <2>1. SinParejas(listos)'
    <3> SUFFICES ASSUME NEW i \in 1 .. n + 1, NEW j \in 1 .. n + 1,
                        FdEn(listos, i)' = FdEn(listos, j)'
                 PROVE  i = j
        BY <1>5 DEF SinParejas, FdEn
    <3>1. \A a, b \in 1 .. n : FdEn(listos, a) = FdEn(listos, b) => a = b
        BY <1>1, <1>5 DEF ListosOK, SinParejas
    <3> QED BY <1>5, <1>7, <1>8, <3>1
  <2>2. \A i \in DOMAIN listos' : extremo'[FdEn(listos, i)'] # "libre"
      BY <1>1, <1>2, <1>5, <1>7, <1>8 DEF ListosOK
  <2>3. pl.pc \in {"quitando", "cerrar"} => FdEn(listos, pl.sitio)' = Fd'
    <3> SUFFICES ASSUME pl.pc \in {"quitando", "cerrar"}
                 PROVE  FdEn(listos, pl.sitio)' = Fd'
        OBVIOUS
    <3>1. pl.sitio \in 1 .. n /\ FdEn(listos, pl.sitio) = Fd
        BY <1>1, <1>5, Tipos DEF ControlPlan, ListosOK
    <3>2. pl.sitio # n + 1 /\ pl.sitio \in 1 .. n + 1
        BY <1>5, <3>1
    <3> QED BY <1>2, <1>7, <1>9, <3>1, <3>2
  <2>4. modo'.alg = "RR" /\ pl'.pc \in Sirviendo => listos'[1] = pl'.corre
    <3>1. pl.pc \in Sirviendo => 1 \in 1 .. n
      <4>1. pl.pc \in Sirviendo => listos # <<>>
          BY Sirve
      <4> QED BY <1>4, <1>5, <4>1, EmptySeq DEF n
    <3> QED BY <1>1, <1>2, <1>5, <3>1 DEF ListosOK
  <2> QED BY <1>1, <1>2, <2>1, <2>2, <2>3, <2>4 DEF ListosOK
<1>11. ColaOK'
  <2>1. \A i, j \in DOMAIN cola' : cola'[i].fd = cola'[j].fd => i = j
      BY <1>1, <1>6 DEF ColaOK
  <2>2. \A i \in DOMAIN cola' : extremo'[cola'[i].fd] # "libre"
      BY <1>1, <1>2, <1>6 DEF ColaOK
  <2>3. \A i \in DOMAIN cola', j \in DOMAIN listos' : cola'[i].fd # FdEn(listos, j)'
      BY <1>1, <1>5, <1>6, <1>7, <1>8 DEF ColaOK
  <2> QED BY <2>1, <2>2, <2>3 DEF ColaOK
<1>12. \A j \in DOMAIN bloqueados : FdEn(bloqueados, j)' = FdEn(bloqueados, j)
    BY <1>2, <1>3, Tipos, MismaLista DEF FdEn
<1>13. ASSUME modo.alg = "RR" PROVE BloqueadosOK'
  <2>1. SinParejas(bloqueados)'
      BY <1>1, <1>2, <1>12, <1>13 DEF BloqueadosOK, SinParejas, FdEn
  <2>2. \A j \in DOMAIN bloqueados' : extremo'[FdEn(bloqueados, j)'] # "libre"
      BY <1>1, <1>2, <1>12, <1>13 DEF BloqueadosOK
  <2>3. \A i \in DOMAIN cola', j \in DOMAIN bloqueados' : cola'[i].fd # FdEn(bloqueados, j)'
      BY <1>1, <1>2, <1>6, <1>12, <1>13 DEF BloqueadosOK
  <2>4. \A j \in DOMAIN bloqueados : FdEn(bloqueados, j) # c.fd
      BY <1>1, <1>6, <1>13 DEF BloqueadosOK
  <2>5. ASSUME NEW i \in DOMAIN listos', NEW j \in DOMAIN bloqueados,
               FdEn(listos, i)' = FdEn(bloqueados, j)'
        PROVE  TerminaElTurno(i)'
    <3>1. i \in 1 .. n /\ i # n + 1
        BY <1>5, <1>7, <1>12, <2>4, <2>5
    <3>2. FdEn(listos, i) = FdEn(bloqueados, j)
        BY <1>5, <1>7, <1>12, <2>5, <3>1
    <3>3. TerminaElTurno(i)
        BY <1>1, <1>5, <1>13, <3>1, <3>2 DEF BloqueadosOK
    <3>4. pl.pc # "elegir" /\ FdEn(listos, i)' = FdEn(listos, i)
        BY <1>5, <1>7, <3>1, <3>3 DEF TerminaElTurno
    <3> QED BY <1>2, <1>9, <3>3, <3>4 DEF TerminaElTurno
  <2> QED BY <1>2, <2>1, <2>2, <2>3, <2>5 DEF BloqueadosOK
<1>14. BloqueadosOK'
    BY <1>2, <1>13 DEF BloqueadosOK
<1>15. SocketsOK'
  <2>1. \A t \in Entrenadores, i \in DOMAIN listos' :
         FdEn(listos, i)' = sock'[t] => pcb'[listos'[i]].quien = t
      BY <1>1, <1>2, <1>5, <1>6, <1>7 DEF SocketsOK
  <2>2. \A t \in Entrenadores, i \in DOMAIN cola' : cola'[i].fd = sock'[t] => cola'[i].quien = t
      BY <1>1, <1>2, <1>6 DEF SocketsOK
  <2>3. pl'.pc \in {"soltar", "quitando"} /\ pl'.cierra
         => extremo'[Fd'] # "abierto" /\ aMapa'[Fd'] = <<>>
      BY <1>1, <1>2, <1>9 DEF SocketsOK
  <2> QED BY <1>1, <1>2, <2>1, <2>2, <2>3 DEF SocketsOK
<1> QED BY <1>1, <1>10, <1>11, <1>14, <1>15 DEF ListasOK

(* Who was woken leaves the list of the blocked ones.                       *)
LEMMA ListasLiberado ==
    ASSUME Supuestos, Control, Control', ~modo.batalla, ListasOK, Liberado
    PROVE  ListasOK'
<1>1. ListosOK /\ ColaOK /\ BloqueadosOK /\ SocketsOK
    BY DEF ListasOK
<1>2. UNCHANGED <<modo, pcb, listos, cola, extremo, sock, aMapa, aEntrenador, pl>>
      /\ dd.pc = "liberando" /\ bloqueados' = RemoveAt(bloqueados, dd.i)
    BY DEF Liberado, mundo, SinEste
<1>3. dd'.pc \in Paz
    BY TiposDD DEF Liberado, DDs, Paz
<1>4. PICK f \in [DOMAIN bloqueados' -> DOMAIN bloqueados] :
             /\ \A i, j \in DOMAIN bloqueados' : f[i] = f[j] => i = j
             /\ \A i \in DOMAIN bloqueados' : bloqueados'[i] = bloqueados[f[i]]
  <2>1. bloqueados \in Seq(1 .. Len(pcb)) /\ dd.i \in 1 .. Len(bloqueados)
      BY <1>2, TiposDD, Tipos DEF ControlDD
  <2>2. Menos(bloqueados', bloqueados, dd.i)
      BY <2>1, SinUnLugar, <1>2
  <2> QED BY <2>2 DEF Menos
<1>5. \A i \in DOMAIN bloqueados' : FdEn(bloqueados, i)' = FdEn(bloqueados, f[i])
    BY <1>2, <1>4 DEF FdEn
<1>6. ListosOK' /\ ColaOK' /\ SocketsOK'
  <2>1. ListosOK'
      BY <1>1, <1>2 DEF ListosOK, SinParejas, FdEn, Fd
  <2>2. ColaOK'
      BY <1>1, <1>2 DEF ColaOK, FdEn
  <2>3. SocketsOK'
      BY <1>1, <1>2 DEF SocketsOK, FdEn, Fd
  <2> QED BY <2>1, <2>2, <2>3
<1>7. BloqueadosOK'
  <2> SUFFICES ASSUME modo.alg = "RR" PROVE BloqueadosOK'
      BY <1>2 DEF BloqueadosOK
  <2>1. SinParejas(bloqueados)'
      BY <1>1, <1>4, <1>5 DEF BloqueadosOK, SinParejas, FdEn
  <2>2. \A i \in DOMAIN listos, j \in DOMAIN bloqueados' :
           FdEn(listos, i)' = FdEn(bloqueados, j)' => TerminaElTurno(i)'
    <3> SUFFICES ASSUME NEW i \in DOMAIN listos, NEW j \in DOMAIN bloqueados',
                        FdEn(listos, i) = FdEn(bloqueados, f[j])
                 PROVE  TerminaElTurno(i)'
        BY <1>2, <1>5 DEF FdEn
    <3>1. TerminaElTurno(i)
        BY <1>1, <1>4 DEF BloqueadosOK
    <3> QED BY <1>2, <3>1 DEF TerminaElTurno, FdEn, Fd
  <2> QED BY <1>1, <1>2, <1>4, <1>5, <2>1, <2>2 DEF BloqueadosOK
<1> QED BY <1>3, <1>6, <1>7 DEF ListasOK

(* Whoever is in a list has a descriptor.                                   *)
LEMMA SonFds ==
    ASSUME Control
    PROVE  /\ \A i \in DOMAIN listos : FdEn(listos, i) \in Fds
           /\ \A i \in DOMAIN bloqueados : FdEn(bloqueados, i) \in Fds
           /\ \A i \in DOMAIN cola : cola[i].fd \in Fds /\ cola[i].quien \in Entrenadores
<1>1. \A p \in 1 .. Len(pcb) : pcb[p].fd \in Fds
  <2>1. ASSUME NEW p \in 1 .. Len(pcb) PROVE pcb[p].fd \in Fds
    <3>1. pcb[p] \in Pcbs
        BY Tipos
    <3> QED BY <3>1 DEF Pcbs
  <2> QED BY <2>1
<1>2. /\ \A i \in DOMAIN listos : listos[i] \in 1 .. Len(pcb)
      /\ \A i \in DOMAIN bloqueados : bloqueados[i] \in 1 .. Len(pcb)
    BY Tipos
<1>3. cola \in Seq([fd : Fds, quien : Entrenadores])
    BY Tipos DEF MundoTypeOK
<1>4. \A i \in DOMAIN cola : cola[i].fd \in Fds /\ cola[i].quien \in Entrenadores
  <2> DEFINE R == [fd : Fds, quien : Entrenadores]
  <2>1. \A r \in R : r.fd \in Fds /\ r.quien \in Entrenadores
      OBVIOUS
  <2>2. cola \in Seq(R)
      BY <1>3
  <2> HIDE DEF R
  <2>3. \A i \in DOMAIN cola : cola[i] \in R
      BY <2>2
  <2> QED BY <2>1, <2>3
<1> QED BY <1>1, <1>2, <1>4 DEF FdEn

-----------------------------------------------------------------------------
(* The trainers and the lists.                                              *)

(* What a trainer sends or reads goes through its own connection, open.     *)
LEMMA ListasMensaje ==
    ASSUME Supuestos, Control, Control', ~modo.batalla, ListasOK, UNCHANGED <<mapa, dd>>,
           NEW t \in Entrenadores, UNCHANGED <<extremo, sock, cola>>,
           aMapa' = aMapa \/ \E m : aMapa' = [aMapa EXCEPT ![sock[t]] = Append(@, m)],
           \/ aEntrenador' = aEntrenador
           \/ sock[t] # 0 /\ aEntrenador' = [aEntrenador EXCEPT ![sock[t]] = Tail(@)]
    PROVE  ListasOK'
<1>1. UNCHANGED <<modo, pcb, listos, bloqueados, pl>>
    BY DEF mapa
<1>2. Perduran
    BY <1>1, QuietoIgual, QuietosPerduran
<1>3. SocketsOK /\ dd'.pc \in Paz
    BY DEF ListasOK
<1>4. DOMAIN aMapa = Fds /\ DOMAIN aEntrenador = Fds
  <2>1. /\ aMapa = [s \in Fds |-> aMapa[s]]
        /\ aEntrenador = [s \in Fds |-> aEntrenador[s]]
      BY Tipos DEF MundoTypeOK, SonBuzones
  <2> QED BY <2>1
<1>5. ASSUME NEW s \in Fds, extremo[s] # "abierto"
      PROVE  aEntrenador'[s] = <<>> /\ aMapa'[s] = aMapa[s]
  <2>1. sock[t] # s
    <3>1. s # 0
        BY DEF Fds
    <3> QED BY <1>3, <1>5, <3>1 DEF SocketsOK
  <2>2. aEntrenador[s] = <<>>
      BY <1>3, <1>5 DEF SocketsOK
  <2>3. aMapa'[s] = aMapa[s]
      BY <1>4, <2>1
  <2>4. aEntrenador'[s] = aEntrenador[s]
      BY <1>4, <2>1
  <2> QED BY <2>2, <2>3, <2>4
<1>6. Callan
    BY <1>5 DEF Callan
<1> QED BY <1>1, <1>2, <1>3, <1>6, SerenoQuieto

(* It leaves its connection, if it has one.                                 *)
LEMMA ListasSeVa ==
    ASSUME Supuestos, Control, Control', ~modo.batalla, ListasOK, UNCHANGED <<mapa, dd>>,
           NEW t \in Entrenadores, UNCHANGED <<aMapa, cola>>,
           sock' = [sock EXCEPT ![t] = 0], extremo' = [extremo EXCEPT ![sock[t]] = "cortado"],
           aEntrenador' = [aEntrenador EXCEPT ![sock[t]] = <<>>]
    PROVE  ListasOK'
<1> DEFINE v == sock[t]
<1>1. UNCHANGED <<modo, pcb, listos, bloqueados, pl>> /\ Fd' = Fd
    BY DEF mapa, Fd
<1>2. ListosOK /\ ColaOK /\ BloqueadosOK /\ SocketsOK /\ dd'.pc \in Paz
    BY DEF ListasOK
<1>3. DOMAIN extremo = Fds /\ DOMAIN aEntrenador = Fds /\ DOMAIN sock = Entrenadores /\ 0 \notin Fds
  <2>1. /\ aEntrenador = [s \in Fds |-> aEntrenador[s]]
        /\ extremo \in [Fds -> {"libre", "abierto", "cortado"}]
        /\ sock \in [Entrenadores -> Fds \union {0}]
      BY Tipos DEF MundoTypeOK, SonBuzones
  <2> QED BY <2>1 DEF Fds
<1>4. /\ \A s : s # v => extremo'[s] = extremo[s] /\ aEntrenador'[s] = aEntrenador[s]
      /\ v # 0 => extremo[v] = "abierto" /\ extremo'[v] = "cortado" /\ aEntrenador'[v] = <<>>
      /\ \A u \in Entrenadores : sock'[u] = IF u = t THEN 0 ELSE sock[u]
  <2>1. v # 0 => extremo[v] = "abierto" /\ v \in Fds
      BY <1>2, Tipos DEF SocketsOK, MundoTypeOK
  <2> QED BY <1>3, <2>1
<1> HIDE DEF v
<1>5. \A s : extremo[s] # "libre" => extremo'[s] # "libre" \/ s = 0
    BY <1>4
<1>6. /\ \A i \in DOMAIN listos : FdEn(listos, i) \in Fds
      /\ \A i \in DOMAIN bloqueados : FdEn(bloqueados, i) \in Fds
      /\ \A i \in DOMAIN cola : cola[i].fd \in Fds
    BY SonFds
<1>7. ListosOK'
  <2>1. \A i \in DOMAIN listos : extremo'[FdEn(listos, i)] # "libre"
      BY <1>2, <1>3, <1>5, <1>6 DEF ListosOK
  <2> QED BY <1>1, <1>2, <2>1 DEF ListosOK, SinParejas, FdEn
<1>8. ColaOK'
  <2>1. \A i \in DOMAIN cola : extremo'[cola[i].fd] # "libre"
      BY <1>2, <1>3, <1>5, <1>6 DEF ColaOK
  <2> QED BY <1>1, <1>2, <2>1 DEF ColaOK, FdEn
<1>9. BloqueadosOK'
  <2>1. modo.alg = "RR" => \A i \in DOMAIN bloqueados : extremo'[FdEn(bloqueados, i)] # "libre"
      BY <1>2, <1>3, <1>5, <1>6 DEF BloqueadosOK
  <2> QED BY <1>1, <1>2, <2>1 DEF BloqueadosOK, SinParejas, FdEn, TerminaElTurno
<1>10. SocketsOK'
  <2>1. \A u \in Entrenadores : sock'[u] # 0 => extremo'[sock'[u]] = "abierto"
      BY <1>2, <1>4 DEF SocketsOK, v
  <2>2. \A u, w \in Entrenadores : sock'[u] = sock'[w] /\ sock'[u] # 0 => u = w
      BY <1>2, <1>4 DEF SocketsOK
  <2>3. /\ \A u \in Entrenadores, i \in DOMAIN listos :
             FdEn(listos, i) = sock'[u] => pcb[listos[i]].quien = u
        /\ \A u \in Entrenadores, i \in DOMAIN cola : cola[i].fd = sock'[u] => cola[i].quien = u
      BY <1>2, <1>3, <1>4, <1>6 DEF SocketsOK
  <2>4. /\ pl.pc \in {"soltar", "quitando"} /\ pl.cierra
             => extremo'[Fd] # "abierto" /\ aMapa[Fd] = <<>>
        /\ \A s \in Fds : extremo'[s] = "libre" => aMapa[s] = <<>>
        /\ \A s \in Fds : extremo'[s] # "abierto" => aEntrenador'[s] = <<>>
      BY <1>2, <1>3, <1>4 DEF SocketsOK
  <2> QED BY <1>1, <2>1, <2>2, <2>3, <2>4 DEF SocketsOK, FdEn
<1> QED BY <1>2, <1>7, <1>8, <1>9, <1>10 DEF ListasOK

(* It takes a new one, and leaves the one it had or forgets it.             *)
LEMMA ListasConecta ==
    ASSUME Supuestos, Control, Control', ~modo.batalla, ListasOK, UNCHANGED <<mapa, dd>>,
           NEW t \in Entrenadores, aMapa' = aMapa, Conectar(t),
           \/ /\ extremo' = [extremo EXCEPT ![sock'[t]] = "abierto"]
              /\ aEntrenador' = aEntrenador
           \/ /\ extremo' = [extremo EXCEPT ![sock[t]] = "cortado", ![sock'[t]] = "abierto"]
              /\ aEntrenador' = [aEntrenador EXCEPT ![sock[t]] = <<>>]
    PROVE  ListasOK'
<1> DEFINE v == sock[t]
           n == sock'[t]
           k == Len(cola)
<1>1. UNCHANGED <<modo, pcb, listos, bloqueados, pl>> /\ Fd' = Fd
    BY DEF mapa, Fd
<1>2. ListosOK /\ ColaOK /\ BloqueadosOK /\ SocketsOK /\ dd'.pc \in Paz
    BY DEF ListasOK
<1>3. DOMAIN extremo = Fds /\ DOMAIN aEntrenador = Fds /\ DOMAIN sock = Entrenadores /\ 0 \notin Fds
      /\ cola \in Seq([fd : Fds, quien : Entrenadores])
  <2>1. /\ aEntrenador = [s \in Fds |-> aEntrenador[s]]
        /\ extremo \in [Fds -> {"libre", "abierto", "cortado"}]
        /\ sock \in [Entrenadores -> Fds \union {0}]
        /\ cola \in Seq([fd : Fds, quien : Entrenadores])
      BY Tipos DEF MundoTypeOK, SonBuzones
  <2> QED BY <2>1 DEF Fds
<1>4. /\ n \in Fds /\ extremo[n] = "libre" /\ cola' = Append(cola, [fd |-> n, quien |-> t])
      /\ sock' = [sock EXCEPT ![t] = n]
    BY ConectarEs
<1>5. v # 0 => extremo[v] = "abierto" /\ v \in Fds /\ v # n
    BY <1>2, <1>4, Tipos DEF SocketsOK, MundoTypeOK
<1>6. \A u \in Entrenadores : sock'[u] = IF u = t THEN n ELSE sock[u]
    BY <1>3, <1>4
<1>7. /\ \A s \in Fds : s # v /\ s # n => extremo'[s] = extremo[s] /\ aEntrenador'[s] = aEntrenador[s]
      /\ extremo'[n] = "abierto"
      /\ v # 0 => \/ extremo'[v] = "cortado" /\ aEntrenador'[v] = <<>>
                  \/ extremo'[v] = extremo[v] /\ aEntrenador'[v] = aEntrenador[v]
    BY <1>3, <1>4, <1>5
<1>8. /\ k \in Nat /\ DOMAIN cola = 1 .. k /\ DOMAIN cola' = 1 .. k + 1
      /\ \A i \in 1 .. k : cola'[i] = cola[i]
      /\ cola'[k + 1].fd = n /\ cola'[k + 1].quien = t
  <2> DEFINE c == [fd |-> n, quien |-> t]
  <2>1. c.fd = n /\ c.quien = t /\ cola' = Append(cola, c)
      BY <1>4
  <2> HIDE DEF c
  <2> QED BY <1>3, <2>1
<1> HIDE DEF v, n, k
<1>9. \A s \in Fds : extremo[s] # "libre" => extremo'[s] # "libre" /\ s # n
    BY <1>3, <1>4, <1>5, <1>7
<1>10. /\ \A i \in DOMAIN listos : FdEn(listos, i) \in Fds
       /\ \A i \in DOMAIN bloqueados : FdEn(bloqueados, i) \in Fds
       /\ \A i \in DOMAIN cola : cola[i].fd \in Fds
    BY SonFds
<1>11. /\ \A i \in DOMAIN listos : extremo'[FdEn(listos, i)] # "libre" /\ FdEn(listos, i) # n
       /\ \A i \in DOMAIN cola : extremo'[cola[i].fd] # "libre" /\ cola[i].fd # n
    BY <1>2, <1>9, <1>10 DEF ListosOK, ColaOK
<1>12. ListosOK'
    BY <1>1, <1>2, <1>11 DEF ListosOK, SinParejas, FdEn
<1>13. ColaOK'
  <2>1. \A i, j \in 1 .. k + 1 : cola'[i].fd = cola'[j].fd => i = j
    <3>1. \A i, j \in 1 .. k : cola[i].fd = cola[j].fd => i = j
        BY <1>2, <1>8 DEF ColaOK
    <3> QED BY <1>8, <1>11, <3>1
  <2>2. \A i \in 1 .. k + 1 : extremo'[cola'[i].fd] # "libre"
      BY <1>7, <1>8, <1>11
  <2>3. \A i \in 1 .. k + 1, j \in DOMAIN listos : cola'[i].fd # FdEn(listos, j)
      BY <1>2, <1>8, <1>11 DEF ColaOK
  <2> QED BY <1>1, <1>8, <2>1, <2>2, <2>3 DEF ColaOK, FdEn
<1>14. ASSUME modo.alg = "RR" PROVE BloqueadosOK'
  <2>1. \A j \in DOMAIN bloqueados : extremo'[FdEn(bloqueados, j)] # "libre"
                                     /\ FdEn(bloqueados, j) # n
      BY <1>2, <1>9, <1>10, <1>14 DEF BloqueadosOK
  <2>2. \A i \in 1 .. k + 1, j \in DOMAIN bloqueados : cola'[i].fd # FdEn(bloqueados, j)
      BY <1>2, <1>8, <1>14, <2>1 DEF BloqueadosOK
  <2>3. \A i \in DOMAIN listos, j \in DOMAIN bloqueados :
           FdEn(listos, i) = FdEn(bloqueados, j) => TerminaElTurno(i)'
      BY <1>1, <1>2, <1>14 DEF BloqueadosOK, TerminaElTurno, FdEn
  <2>4. SinParejas(bloqueados)'
      BY <1>1, <1>2, <1>14 DEF BloqueadosOK, SinParejas, FdEn
  <2> QED BY <1>1, <1>8, <2>1, <2>2, <2>3, <2>4 DEF BloqueadosOK, FdEn
<1>15. BloqueadosOK'
    BY <1>1, <1>14 DEF BloqueadosOK
<1>16. SocketsOK'
  <2>1. \A u \in Entrenadores : sock'[u] # 0 => extremo'[sock'[u]] = "abierto"
    <3> SUFFICES ASSUME NEW u \in Entrenadores, u # t, sock[u] # 0
                 PROVE  extremo'[sock[u]] = "abierto"
        BY <1>6, <1>7
    <3>1. extremo[sock[u]] = "abierto" /\ sock[u] \in Fds /\ sock[u] # v
        BY <1>2, Tipos DEF SocketsOK, MundoTypeOK, v
    <3> QED BY <1>4, <1>7, <3>1
  <2>2. \A u \in Entrenadores : sock[u] # n
      BY <1>2, <1>3, <1>4 DEF SocketsOK
  <2>3. \A u, w \in Entrenadores : sock'[u] = sock'[w] /\ sock'[u] # 0 => u = w
      BY <1>2, <1>6, <2>2 DEF SocketsOK
  <2>4. \A u \in Entrenadores, i \in DOMAIN listos :
             FdEn(listos, i) = sock'[u] => pcb[listos[i]].quien = u
      BY <1>2, <1>6, <1>11 DEF SocketsOK
  <2>5. \A u \in Entrenadores, i \in 1 .. k + 1 : cola'[i].fd = sock'[u] => cola'[i].quien = u
      BY <1>2, <1>6, <1>8, <1>11, <2>2 DEF SocketsOK
  <2>6. ASSUME pl.pc \in {"soltar", "quitando"}, pl.cierra
        PROVE  extremo'[Fd] # "abierto" /\ aMapa[Fd] = <<>>
    <3>1. extremo[Fd] # "abierto" /\ aMapa[Fd] = <<>>
        BY <1>2, <2>6 DEF SocketsOK
    <3>2. PICK i \in DOMAIN listos : listos[i] = pl.corre
        BY <2>6, Tipos DEF ControlPlan, Sirviendo, Pasos
    <3>3. FdEn(listos, i) = Fd
        BY <3>2 DEF FdEn, Fd
    <3>4. Fd \in Fds /\ Fd # n
        BY <1>10, <1>11, <3>3
    <3>5. Fd # v
        BY <1>3, <1>5, <3>1, <3>4
    <3> QED BY <1>7, <3>1, <3>4, <3>5
  <2>7. \A s \in Fds : extremo'[s] # "abierto" => aEntrenador'[s] = <<>>
    <3> SUFFICES ASSUME NEW s \in Fds, extremo'[s] # "abierto" PROVE aEntrenador'[s] = <<>>
        OBVIOUS
    <3>1. s # n
        BY <1>7
    <3>2. CASE s = v
        BY <1>2, <1>3, <1>7, <3>2 DEF SocketsOK
    <3>3. CASE s # v
        BY <1>2, <1>7, <3>1, <3>3 DEF SocketsOK
    <3> QED BY <3>2, <3>3
  <2>8. \A s \in Fds : extremo'[s] = "libre" => aMapa[s] = <<>>
      BY <1>2, <1>9 DEF SocketsOK
  <2> QED BY <1>1, <1>8, <2>1, <2>3, <2>4, <2>5, <2>6, <2>7, <2>8 DEF SocketsOK, FdEn
<1> QED BY <1>2, <1>12, <1>13, <1>15, <1>16 DEF ListasOK

(* Every step of a trainer.                                                 *)
LEMMA ListasDeEntrenador ==
    ASSUME Supuestos, Control, Control', ~modo.batalla, ListasOK, UNCHANGED <<mapa, dd>>,
           NEW t \in Entrenadores, EntrenadorPaso(t) \/ EntrenadorSenial(t)
    PROVE  ListasOK'
<1>1. CASE Conocer(t) \/ Capturar(t) \/ NotificarFin(t) \/ Mover(t) \/ DarPokemon(t) \/ Acusar(t)
  <2>1. UNCHANGED <<extremo, sock, cola, aEntrenador>>
        /\ \E m : aMapa' = [aMapa EXCEPT ![sock[t]] = Append(@, m)]
      BY <1>1 DEF Conocer, Capturar, NotificarFin, Pide, Mover, DarPokemon, Acusar
  <2> QED BY <2>1, ListasMensaje
<1>2. CASE \/ RecibirCoordenada(t) \/ Movido(t) \/ Capturado(t) \/ QuedarBloqueado(t)
           \/ Despertar(t) \/ SeguirBloqueado(t) \/ LeerLoDeOtro(t)
  <2>1. UNCHANGED <<extremo, sock, cola, aMapa>> /\ \E r : Recibe(t, r)
      BY <1>2 DEF RecibirCoordenada, Movido, Capturado, QuedarBloqueado, Despertar,
                  SeguirBloqueado, LeerLoDeOtro
  <2>2. sock[t] # 0 /\ aEntrenador' = [aEntrenador EXCEPT ![sock[t]] = Tail(@)]
      BY <2>1 DEF Recibe
  <2> QED BY <2>1, <2>2, ListasMensaje
<1>3. CASE SIGUSR1(t) \/ SIGTERM(t)
  <2>1. UNCHANGED <<extremo, sock, cola, aMapa, aEntrenador>>
      BY <1>3 DEF SIGUSR1, SIGTERM, mundo
  <2> QED BY <2>1, ListasMensaje
<1>4. CASE MorirSinPokemons(t) \/ Completar(t) \/ SIGINT(t)
  <2>1. UNCHANGED <<aMapa, cola>> /\ Cerrar(sock[t]) /\ sock' = [sock EXCEPT ![t] = 0]
      BY <1>4 DEF MorirSinPokemons, Completar, SIGINT
  <2> QED BY <2>1, ListasSeVa DEF Cerrar
<1>5. CASE HandShake(t)
  <2>1. Conectar(t) /\ UNCHANGED <<aMapa, aEntrenador>>
        /\ extremo' = [extremo EXCEPT ![sock'[t]] = "abierto"]
      BY <1>5 DEF HandShake
  <2> QED BY <2>1, ListasConecta
<1>6. CASE ReiniciarEnLaSenial(t)
  <2>1. Conectar(t) /\ UNCHANGED <<aMapa, aEntrenador>>
        /\ extremo' = [extremo EXCEPT ![sock'[t]] = "abierto"]
      BY <1>6 DEF ReiniciarEnLaSenial, Reiniciar
  <2> QED BY <2>1, ListasConecta
<1>7. CASE FallecerPorDeadlock(t)
  <2>1. /\ Conectar(t) /\ aMapa' = aMapa
        /\ aEntrenador' = [aEntrenador EXCEPT ![sock[t]] = <<>>]
        /\ extremo' = [extremo EXCEPT ![sock[t]] = "cortado", ![sock'[t]] = "abierto"]
      BY <1>7 DEF FallecerPorDeadlock
  <2> QED BY <2>1, ListasConecta
<1>8. CASE UltimaMuerte(t)
  <2>1. aMapa' = aMapa /\ aEntrenador' = [aEntrenador EXCEPT ![sock[t]] = <<>>]
      BY <1>8 DEF UltimaMuerte
  <2>2. CASE Reiniciar(t) /\ extremo' = [extremo EXCEPT ![sock[t]] = "cortado",
                                                        ![sock'[t]] = "abierto"]
      BY <2>1, <2>2, ListasConecta DEF Reiniciar
  <2>3. CASE /\ extremo' = [extremo EXCEPT ![sock[t]] = "cortado"]
             /\ sock' = [sock EXCEPT ![t] = 0] /\ cola' = cola
      BY <2>1, <2>3, ListasSeVa
  <2> QED BY <1>8, <2>2, <2>3 DEF UltimaMuerte
<1> QED BY <1>1, <1>2, <1>3, <1>4, <1>5, <1>6, <1>7, <1>8 DEF EntrenadorPaso, EntrenadorSenial

(* The mode is read once.                                                   *)
LEMMA MismoModo == ASSUME [Next]_vars PROVE modo' = modo
<1>1. CASE MapaPaso
    BY <1>1 DEF MapaPaso, Aceptar, Aceptado, Dibujar, Elegir, Rotar, ObtenerPokenest,
           MoverPosicion, Moviendo, Entregar, Entregado, NoEntregado, Negar, Bloquear, Bloqueado,
           DarMedalla, Desconectado, LeerLoAjeno, Soltar, QuitarDeVacia, Quitar, YaNoEsta,
           QuitadoPorSi, QuitadoDelTurno
<1>2. CASE DeteccionPaso
    BY <1>2 DEF DeteccionPaso, NoMirar, Detectar, Retar, FinDeBatallas, EligePrimero,
           EligeSegundo, Elige, Pelear, PelearUltima, SumarRecursos, Morir, Contar,
           PasarseDelFin, SigueBloqueado, Liberar, Liberado, FinDePasada, mapa
<1>3. CASE UNCHANGED <<mapa, dd>> \/ UNCHANGED vars
    BY <1>3 DEF mapa, vars
<1> QED BY <1>1, <1>2, <1>3 DEF Next

(* A step of the detection, without battles.                                *)
LEMMA PasosEnPaz ==
    ASSUME Supuestos, Control, ~modo.batalla, dd.pc \in Paz, DeteccionPaso
    PROVE  \/ NoMirar \/ Contar \/ PasarseDelFin \/ SigueBloqueado \/ Liberar \/ Liberado
           \/ FinDePasada
BY DEF DeteccionPaso, Detectar, Retar, FinDeBatallas, EligePrimero, EligeSegundo, Elige,
       Pelear, PelearUltima, SumarRecursos, Morir, Paz

(* Nothing moves.                                                           *)
LEMMA ListasIguales ==
    ASSUME ListasOK, UNCHANGED <<mundo, mapa, dd>>
    PROVE  ListasOK'
<1>1. UNCHANGED <<modo, pcb, listos, bloqueados, cola, extremo, sock, aMapa, aEntrenador, pl, dd>>
    BY DEF mundo, mapa
<1> QED BY <1>1 DEF ListasOK, ListosOK, ColaOK, BloqueadosOK, SocketsOK, SinParejas, FdEn, Fd,
                    TerminaElTurno

(* Every step keeps the lists ...                                           *)
LEMMA ListasPaso ==
    ASSUME Supuestos, Control, Control', ListasOK, [Next]_vars
    PROVE  ListasOK'
<1>1. modo' = modo
    BY MismoModo
<1> SUFFICES ASSUME ~modo.batalla PROVE ListasOK'
    BY <1>1 DEF ListasOK
<1>2. CASE MapaPaso /\ UNCHANGED <<dd, ent, seniales>>
    BY <1>2, ListasAceptar, ListasAparte, ListasElegir, ListasRotar, ListasPedidos,
       ListasServido, ListasBloquear, ListasDesconectado, ListasSoltar, ListasQuitar,
       ListasQuitado DEF MapaPaso
<1>3. CASE DeteccionPaso /\ UNCHANGED <<ent, seniales>>
  <2>1. dd.pc \in Paz
      BY DEF ListasOK
  <2>2. \/ NoMirar \/ Contar \/ PasarseDelFin \/ SigueBloqueado \/ Liberar \/ Liberado
        \/ FinDePasada
      BY <1>3, <2>1, PasosEnPaz
  <2> QED BY <2>2, ListasDeteccion, ListasLiberado
<1>4. ASSUME NEW t \in Entrenadores, EntrenadorPaso(t) \/ EntrenadorSenial(t),
             UNCHANGED <<mapa, dd>>
      PROVE  ListasOK'
    BY <1>4, ListasDeEntrenador
<1>5. CASE UNCHANGED vars
  <2>1. UNCHANGED <<mundo, mapa, dd>>
      BY <1>5 DEF vars, deteccion
  <2> QED BY <2>1, ListasIguales
<1> QED BY <1>2, <1>3, <1>4, <1>5 DEF Next

(* ... which are empty at the start.                                        *)
LEMMA ListasInicial ==
    ASSUME Supuestos, Init
    PROVE  ListasOK
<1>1. /\ listos = <<>> /\ bloqueados = <<>> /\ cola = <<>> /\ pl.pc = "elegir" /\ dd.pc = "mirar"
      /\ \A s \in Fds : aMapa[s] = <<>> /\ aEntrenador[s] = <<>>
      /\ \A t \in Entrenadores : sock[t] = 0
    BY DEF Init, MundoInit, MapaInit, DeteccionInit
<1>2. DOMAIN listos = {} /\ DOMAIN bloqueados = {} /\ DOMAIN cola = {}
    BY <1>1
<1>3. ListosOK
    BY <1>1, <1>2 DEF ListosOK, SinParejas, Sirviendo
<1>4. ColaOK /\ BloqueadosOK /\ SocketsOK
    BY <1>1, <1>2 DEF ColaOK, BloqueadosOK, SinParejas, SocketsOK
<1> QED BY <1>1, <1>3, <1>4 DEF ListasOK, Paz

(* Without battles every ready, waiting or (in round robin) blocked trainer *)
(* has an open descriptor of its own, round robin serves the first of its   *)
(* list and has nobody both ready and blocked once the turn is over, and    *)
(* the map closes a connection only after the trainer did and has read      *)
(* everything that came through it.                                         *)
THEOREM ListasSiempre == Spec => []ListasOK
<1>1. Supuestos
    BY MundoAssumption, MapaAssumption, EntrenadorAssumption DEF Supuestos
<1>2. Init => Control /\ ListasOK
    BY <1>1, ControlInicial, ListasInicial
<1>3. Control /\ ListasOK /\ [Next]_vars => Control' /\ ListasOK'
    BY <1>1, ControlPaso, ListasPaso
<1>4. Spec => [](Control /\ ListasOK)
    BY <1>2, <1>3, PTL DEF Spec
<1> QED BY <1>4, PTL

-----------------------------------------------------------------------------
(* The conversations, without battles and while no descriptor of a blocked  *)
(* trainer is used again.                                                   *)

(* A step has nothing to do with a trainer, nor with what is in its         *)
(* connection.                                                              *)
Intacto(t) ==
    /\ ent'[t] = ent[t] /\ sock'[t] = sock[t]
    /\ sock[t] # 0 =>
         /\ aMapa'[sock[t]] = aMapa[sock[t]] /\ aEntrenador'[sock[t]] = aEntrenador[sock[t]]
         /\ Mueve(sock[t])' <=> Mueve(sock[t])
         /\ Entrega(sock[t])' <=> Entrega(sock[t])

(* It wants the same pokemon.                                               *)
LEMMA IntactoObjetivo ==
    ASSUME NEW t, Intacto(t)
    PROVE  Objetivo(t)' = Objetivo(t)
BY DEF Intacto, Objetivo

(* It waits for nothing, as before.                                         *)
LEMMA IntactoNada ==
    ASSUME NEW t, Intacto(t), sock[t] # 0, Nada(ent[t], sock[t], aEntrenador[sock[t]])
    PROVE  Nada(ent[t], sock[t], aEntrenador[sock[t]])'
BY DEF Intacto, Nada, Callado

(* It waits to know where its pokenest is, as before.                       *)
LEMMA IntactoCoordenada ==
    ASSUME NEW t, Intacto(t), sock[t] # 0,
           EsperaCoordenada(Objetivo(t), sock[t], aEntrenador[sock[t]])
    PROVE  EsperaCoordenada(Objetivo(t), sock[t], aEntrenador[sock[t]])'
BY IntactoObjetivo DEF Intacto, EsperaCoordenada, Callado, Pendiente, Solo, TrasAcuse

(* It waits for its move, as before.                                        *)
LEMMA IntactoOk ==
    ASSUME NEW t, Intacto(t), sock[t] # 0,
           EsperaOk(ent[t].ultima, sock[t], aEntrenador[sock[t]])
    PROVE  EsperaOk(ent[t].ultima, sock[t], aEntrenador[sock[t]])'
BY DEF Intacto, EsperaOk, Callado, Solo

(* It waits for its pokemon, as before.                                     *)
LEMMA IntactoCaptura ==
    ASSUME NEW t, Intacto(t), sock[t] # 0,
           EsperaCaptura(Objetivo(t), sock[t], aEntrenador[sock[t]])
    PROVE  EsperaCaptura(Objetivo(t), sock[t], aEntrenador[sock[t]])'
BY IntactoObjetivo DEF Intacto, EsperaCaptura, Callado, Solo

(* It waits for its medal, as before.                                       *)
LEMMA IntactoMedalla ==
    ASSUME NEW t, Intacto(t), sock[t] # 0, EsperaMedalla(sock[t], aEntrenador[sock[t]])
    PROVE  EsperaMedalla(sock[t], aEntrenador[sock[t]])'
BY DEF Intacto, EsperaMedalla, Callado, Pendiente, Solo, TrasAcuse

(* What each wait comes to.                                                 *)
LEMMA CharlaEs ==
    ASSUME NEW t
    PROVE  LET e == ent[t]
               s == sock[t]
               vuelta == aEntrenador[s]
           IN  Charla(t) <=>
                 \/ e.espera = "nada" /\ Nada(e, s, vuelta)
                 \/ e.espera = "coordenada" /\ EsperaCoordenada(Objetivo(t), s, vuelta)
                 \/ e.espera = "ok" /\ EsperaOk(e.ultima, s, vuelta)
                 \/ e.espera = "captura" /\ EsperaCaptura(Objetivo(t), s, vuelta)
                 \/ e.espera = "copia" /\ aMapa[s] = <<>> /\ Entrega(s) /\ vuelta = <<>>
                 \/ e.espera = "medalla" /\ EsperaMedalla(s, vuelta)
BY DEF Charla

(* A trainer with which the step has nothing to do goes on the same.        *)
LEMMA IntactoSigue ==
    ASSUME NEW t, Intacto(t), sock[t] # 0, Charla(t), Rumbo(t)
    PROVE  Charla(t)' /\ Rumbo(t)'
<1>1. Rumbo(t)'
    BY IntactoObjetivo DEF Intacto, Rumbo
<1>2. ent'[t] = ent[t] /\ sock'[t] = sock[t] /\ aEntrenador'[sock[t]] = aEntrenador[sock[t]]
      /\ aMapa'[sock[t]] = aMapa[sock[t]] /\ (Entrega(sock[t])' <=> Entrega(sock[t]))
    BY DEF Intacto
<1>3. Charla(t)'
  <2>1. CASE ent[t].espera = "nada"
      BY <1>2, <2>1, IntactoNada DEF Charla
  <2>2. CASE ent[t].espera = "coordenada"
      BY <1>2, <2>2, IntactoCoordenada DEF Charla
  <2>3. CASE ent[t].espera = "ok"
      BY <1>2, <2>3, IntactoOk DEF Charla
  <2>4. CASE ent[t].espera = "captura"
      BY <1>2, <2>4, IntactoCaptura DEF Charla
  <2>5. CASE ent[t].espera = "copia"
      BY <1>2, <2>5 DEF Charla
  <2>6. CASE ent[t].espera = "medalla"
      BY <1>2, <2>6, IntactoMedalla DEF Charla
  <2> QED BY <2>1, <2>2, <2>3, <2>4, <2>5, <2>6, CharlaEs
<1> QED BY <1>1, <1>3

(* And the map has the same of it, wherever its place went.                 *)
LEMMA IntactoAnotado ==
    ASSUME NEW t, NEW i, NEW j, Intacto(t), sock[t] # 0, Anotado(t, j),
           pcb'[listos'[i]].punto = pcb[listos[j]].punto,
           pcb'[listos'[i]].pide = pcb[listos[j]].pide,
           SeLeVa(t) => Despidiendo(sock[t])'
    PROVE  Anotado(t, i)'
<1>1. PuntoDe(t)' = PuntoDe(t) /\ (SabeQuePide(t)' <=> SabeQuePide(t))
      /\ (SeLeVa(t)' <=> SeLeVa(t))
    BY DEF Intacto, PuntoDe, SabeQuePide, SeLeVa
<1>2. Objetivo(t)' = Objetivo(t) /\ sock'[t] = sock[t]
    BY IntactoObjetivo DEF Intacto
<1> QED BY <1>1, <1>2 DEF Anotado

(* It has just arrived, as before.                                          *)
LEMMA IntactoLlegado ==
    ASSUME NEW t, Intacto(t), sock[t] # 0, RecienLlegado(t)
    PROVE  RecienLlegado(t)'
BY DEF Intacto, RecienLlegado, SabeQuePide

(* It is held, as before.                                                   *)
LEMMA IntactoDetenido ==
    ASSUME NEW t, Intacto(t), sock[t] # 0, Detenido(t)
    PROVE  Detenido(t)'
BY DEF Intacto, Detenido

(* Who is blocked has nothing sent that the map has not read, and the map   *)
(* is not serving it.                                                       *)
LEMMA DetenidoEs ==
    ASSUME NEW t, Charla(t), Detenido(t)
    PROVE  Callado(sock[t])
<1>1. CASE ent[t].espera = "captura" /\ aEntrenador[sock[t]] = Negado
  <2>1. EsperaCaptura(Objetivo(t), sock[t], aEntrenador[sock[t]])
      BY <1>1 DEF Charla
  <2>2. Negado # <<>> /\ Negado # <<Msg("TE_DOY", Objetivo(t))>>
      BY DEF Negado, Msg
  <2> QED BY <1>1, <2>1, <2>2 DEF EsperaCaptura
<1>2. CASE ent[t].espera = "nada" /\ ent[t].estado = "BLOQUEADO"
  <2>1. Nada(ent[t], sock[t], aEntrenador[sock[t]])
      BY <1>2 DEF Charla
  <2> QED BY <1>2, <2>1 DEF Nada
<1> QED BY <1>1, <1>2 DEF Detenido

(* What a step leaves of each part, when it does not change who has which   *)
(* connection.                                                              *)
LEMMA DialogosPaso ==
    ASSUME DialogosOK,
           \A t \in Entrenadores : sock'[t] # 0 => Intacto(t) \/ (Charla(t)' /\ Rumbo(t)')
    PROVE  DialogosOK'
<1> SUFFICES ASSUME NEW t \in Entrenadores, sock'[t] # 0
             PROVE  Charla(t)' /\ Rumbo(t)'
    BY DEF DialogosOK
<1>1. CASE Intacto(t)
  <2>1. sock[t] # 0 /\ Charla(t) /\ Rumbo(t)
      BY <1>1 DEF Intacto, DialogosOK
  <2> QED BY <1>1, <2>1, IntactoSigue
<1> QED BY <1>1

(* Nobody connects nor leaves.                                              *)
LEMMA ConectadosIgual ==
    ASSUME ConectadosOK, UNCHANGED <<ent, sock>>
    PROVE  ConectadosOK'
BY DEF ConectadosOK

(* Every ready one was ready, and what the map has of it is as true as      *)
(* before.                                                                  *)
LEMMA AnotadosPaso ==
    ASSUME AnotadosOK, UNCHANGED sock,
           \A i \in DOMAIN listos' : \E j \in DOMAIN listos :
              /\ FdEn(listos, i)' = FdEn(listos, j)
              /\ \A t \in Entrenadores :
                   sock[t] = FdEn(listos, j) /\ Anotado(t, j) => Anotado(t, i)'
    PROVE  AnotadosOK'
<1> SUFFICES ASSUME NEW t \in Entrenadores, NEW i \in DOMAIN listos', FdEn(listos, i)' = sock'[t]
             PROVE  Anotado(t, i)'
    BY DEF AnotadosOK
<1>1. PICK j \in DOMAIN listos :
              /\ FdEn(listos, i)' = FdEn(listos, j)
              /\ \A u \in Entrenadores :
                   sock[u] = FdEn(listos, j) /\ Anotado(u, j) => Anotado(u, i)'
    OBVIOUS
<1>2. sock[t] = FdEn(listos, j) /\ Anotado(t, j)
    BY <1>1 DEF AnotadosOK
<1> QED BY <1>1, <1>2

SonDeLaCola == \A i \in DOMAIN cola' : \E j \in DOMAIN cola : cola'[i] = cola[j]

(* Who waits to be accepted waited already, and nothing happened to it.     *)
LEMMA LlegadosPaso ==
    ASSUME Control, LlegadosOK, UNCHANGED sock, SonDeLaCola,
           \A t \in Entrenadores, j \in DOMAIN cola :
              cola[j].fd = sock[t] /\ RecienLlegado(t) => Intacto(t)
    PROVE  LlegadosOK'
<1> SUFFICES ASSUME NEW t \in Entrenadores, NEW i \in DOMAIN cola', cola'[i].fd = sock'[t]
             PROVE  RecienLlegado(t)'
    BY DEF LlegadosOK
<1>1. PICK j \in DOMAIN cola : cola'[i] = cola[j]
    BY DEF SonDeLaCola
<1>2. cola[j].fd = sock[t] /\ RecienLlegado(t)
    BY <1>1 DEF LlegadosOK
<1>3. sock[t] # 0
  <2>1. sock[t] \in Fds
      BY <1>2, SonFds
  <2> QED BY <2>1 DEF Fds
<1> QED BY <1>2, <1>3, IntactoLlegado

(* The connections: each keeps what it had, or loses the first.             *)
Consume ==
    \A s \in Fds : aMapa'[s] = aMapa[s] \/ (aMapa[s] # <<>> /\ aMapa'[s] = Tail(aMapa[s]))

CapturaLuego(s) == aMapa'[s] # <<>> /\ Head(aMapa'[s]).tipo = "CAPTURAR"

(* What is read leaves requests to capture where they were, alone.          *)
LEMMA CapturasConsume ==
    ASSUME Control, CapturasOK, Consume
    PROVE  /\ \A s \in Fds : \A k \in 2 .. Len(aMapa'[s]) : aMapa'[s][k].tipo # "CAPTURAR"
           /\ \A s \in Fds : CapturaLuego(s) => aMapa'[s] = aMapa[s] /\ EsCaptura(s)
<1>1. ASSUME NEW s \in Fds
      PROVE  /\ \A k \in 2 .. Len(aMapa'[s]) : aMapa'[s][k].tipo # "CAPTURAR"
             /\ CapturaLuego(s) => aMapa'[s] = aMapa[s] /\ EsCaptura(s)
  <2> DEFINE b == aMapa[s]
             n == Len(b)
  <2>1. \A k \in 2 .. n : b[k].tipo # "CAPTURAR"
      BY DEF CapturasOK
  <2>2. CASE aMapa'[s] = b
      BY <2>1, <2>2 DEF EsCaptura, CapturaLuego
  <2>3. CASE b # <<>> /\ aMapa'[s] = Tail(b)
    <3>1. n \in Nat /\ b = [i \in 1 .. n |-> b[i]]
        BY Tipos DEF MundoTypeOK, SonBuzones, SonMensajes
    <3> DEFINE m == [i \in 1 .. n |-> b[i]]
    <3>2. m \in Seq({b[i] : i \in 1 .. n}) /\ Len(m) = n /\ m = b
        BY <3>1
    <3> HIDE DEF m, n, b
    <3>3. n > 0 /\ Len(Tail(b)) = n - 1 /\ \A k \in 1 .. n - 1 : Tail(b)[k] = b[k + 1]
        BY <2>3, <3>1, <3>2
    <3>4. \A k \in 1 .. n - 1 : Tail(b)[k].tipo # "CAPTURAR"
        BY <2>1, <3>1, <3>3
    <3>5. \A k \in 2 .. Len(aMapa'[s]) : aMapa'[s][k].tipo # "CAPTURAR"
      <4>1. \A k \in 2 .. n - 1 : k \in 1 .. n - 1
          BY <3>1
      <4>2. aMapa'[s] = Tail(b) /\ Len(Tail(b)) = n - 1
          BY <2>3, <3>3
      <4> QED BY <3>4, <4>1, <4>2
    <3>6. ASSUME Tail(b) # <<>> PROVE Head(Tail(b)).tipo # "CAPTURAR"
      <4>1. Tail(b) \in Seq({b[i] : i \in 1 .. n})
          BY <2>3, <3>2
      <4>2. Len(Tail(b)) > 0 /\ Head(Tail(b)) = Tail(b)[1]
          BY <3>6, <4>1
      <4> QED BY <3>1, <3>3, <3>4, <4>2
    <3>7. ~CapturaLuego(s)
        BY <2>3, <3>6 DEF CapturaLuego
    <3> QED BY <3>5, <3>7
  <2> QED BY <2>2, <2>3 DEF Consume
<1> QED BY <1>1

(* The map knows who asks to capture: either the request was read, or the   *)
(* t_pcb is the same.                                                       *)
LEMMA CapturasPaso ==
    ASSUME Control, CapturasOK, Consume, SonDeLaCola,
           \A i \in DOMAIN listos' : \E j \in DOMAIN listos :
              /\ FdEn(listos, i)' = FdEn(listos, j)
              /\ \/ aMapa'[FdEn(listos, j)] # aMapa[FdEn(listos, j)]
                 \/ /\ pcb'[listos'[i]].punto = pcb[listos[j]].punto
                    /\ pcb'[listos'[i]].pide = pcb[listos[j]].pide
    PROVE  CapturasOK'
<1>1. /\ \A s \in Fds : \A k \in 2 .. Len(aMapa'[s]) : aMapa'[s][k].tipo # "CAPTURAR"
      /\ \A s \in Fds : CapturaLuego(s) => aMapa'[s] = aMapa[s] /\ EsCaptura(s)
    BY CapturasConsume
<1>2. ASSUME NEW i \in DOMAIN cola' PROVE ~CapturaLuego(cola'[i].fd)
  <2>1. PICK j \in DOMAIN cola : cola'[i] = cola[j]
      BY DEF SonDeLaCola
  <2>2. cola[j].fd \in Fds /\ ~EsCaptura(cola[j].fd)
      BY SonFds DEF CapturasOK
  <2> QED BY <1>1, <2>1, <2>2
<1>3. ASSUME NEW i \in DOMAIN listos', CapturaLuego(pcb'[listos'[i]].fd)
      PROVE  /\ pcb'[listos'[i]].punto = Coordenada[Head(aMapa'[pcb'[listos'[i]].fd]).dato]
             /\ pcb'[listos'[i]].pide = Head(aMapa'[pcb'[listos'[i]].fd]).dato
  <2>1. PICK j \in DOMAIN listos :
              /\ FdEn(listos, i)' = FdEn(listos, j)
              /\ \/ aMapa'[FdEn(listos, j)] # aMapa[FdEn(listos, j)]
                 \/ /\ pcb'[listos'[i]].punto = pcb[listos[j]].punto
                    /\ pcb'[listos'[i]].pide = pcb[listos[j]].pide
      OBVIOUS
  <2> DEFINE s == FdEn(listos, j)
  <2>2. s \in Fds /\ pcb'[listos'[i]].fd = s /\ s = pcb[listos[j]].fd
      BY <2>1, SonFds DEF FdEn
  <2>3. EsCaptura(s) /\ aMapa'[s] = aMapa[s]
      BY <1>1, <1>3, <2>2
  <2>4. /\ pcb[listos[j]].punto = Coordenada[Head(aMapa[s]).dato]
        /\ pcb[listos[j]].pide = Head(aMapa[s]).dato
      BY <2>2, <2>3 DEF CapturasOK
  <2> QED BY <2>1, <2>2, <2>3, <2>4
<1>4. /\ \A i \in DOMAIN cola' : ~EsCaptura(cola[i].fd)'
      /\ \A i \in DOMAIN listos' : EsCaptura(pcb[listos[i]].fd)' => CapturaLuego(pcb'[listos'[i]].fd)
    BY <1>2 DEF EsCaptura, CapturaLuego
<1> QED BY <1>1, <1>3, <1>4 DEF CapturasOK

(* Who is blocked, with the same list, is held still or is being released.  *)
LEMMA PresosPaso ==
    ASSUME Control, PresosOK, Perduran, UNCHANGED <<sock, bloqueados>>,
           \A j \in DOMAIN bloqueados : SeLibera(j) => SeLibera(j)',
           \A t \in Entrenadores, j \in DOMAIN bloqueados :
              FdEn(bloqueados, j) = sock[t] /\ ~SeLibera(j)' /\ Detenido(t) => Detenido(t)',
           \A j \in DOMAIN bloqueados : extremo'[FdEn(bloqueados, j)] # "libre",
           pl'.pc = "bloquear" =>
             /\ \A j \in DOMAIN bloqueados : FdEn(bloqueados, j) = Fd' => SeLibera(j)'
             /\ \A t \in Entrenadores : sock[t] = Fd' => Detenido(t)'
    PROVE  PresosOK'
<1>1. \A j \in DOMAIN bloqueados : FdEn(bloqueados, j)' = FdEn(bloqueados, j)
    BY Tipos, MismaLista DEF FdEn
<1>2. \A j \in DOMAIN bloqueados', t \in Entrenadores :
         FdEn(bloqueados, j)' = sock'[t] /\ ~SeLibera(j)' => Detenido(t)'
    BY <1>1 DEF PresosOK
<1>3. \A i, j \in DOMAIN bloqueados' :
         FdEn(bloqueados, i)' = FdEn(bloqueados, j)' /\ ~SeLibera(i)' /\ ~SeLibera(j)' => i = j
    BY <1>1 DEF PresosOK
<1>4. \A j \in DOMAIN bloqueados' : extremo'[FdEn(bloqueados, j)'] # "libre"
    BY <1>1
<1>5. pl'.pc = "bloquear" =>
         /\ \A j \in DOMAIN bloqueados' : FdEn(bloqueados, j)' = Fd' => SeLibera(j)'
         /\ \A t \in Entrenadores : sock'[t] = Fd' => Detenido(t)'
    BY <1>1
<1> QED BY <1>2, <1>3, <1>4, <1>5 DEF PresosOK

Despedido(s) == pl'.pc \in {"soltar", "quitando"} /\ Fd' = s

(* Who is ready or waits to be accepted is there still.                     *)
LEMMA PresentesPaso ==
    ASSUME Control, PresentesOK, UNCHANGED <<sock, seniales>>, SonDeLaCola,
           seniales = 0 => ~pl'.cierra,
           \A i \in DOMAIN listos' : \E j \in DOMAIN listos :
              /\ FdEn(listos, i)' = FdEn(listos, j)
              /\ pcb'[listos'[i]].quien = pcb[listos[j]].quien
              /\ Despidiendo(FdEn(listos, j)) => Despedido(FdEn(listos, j))
    PROVE  PresentesOK'
<1> SUFFICES ASSUME seniales = 0 PROVE PresentesOK'
    BY DEF PresentesOK
<1>1. ASSUME NEW i \in DOMAIN listos'
      PROVE  sock'[pcb'[listos'[i]].quien] = FdEn(listos, i)' \/ Despidiendo(FdEn(listos, i))'
  <2>1. PICK j \in DOMAIN listos :
              /\ FdEn(listos, i)' = FdEn(listos, j)
              /\ pcb'[listos'[i]].quien = pcb[listos[j]].quien
              /\ Despidiendo(FdEn(listos, j)) => Despedido(FdEn(listos, j))
      OBVIOUS
  <2>2. sock[pcb[listos[j]].quien] = FdEn(listos, j) \/ Despidiendo(FdEn(listos, j))
      BY DEF PresentesOK
  <2> QED BY <2>1, <2>2 DEF Despidiendo, Despedido
<1>2. ASSUME NEW i \in DOMAIN cola' PROVE sock'[cola'[i].quien] = cola'[i].fd
    BY DEF SonDeLaCola, PresentesOK
<1> QED BY <1>1, <1>2 DEF PresentesOK

(* A step that writes in no connection, and takes nobody to a list.         *)
Conservan ==
    \A i \in DOMAIN listos' : \E j \in DOMAIN listos :
       /\ listos'[i] = listos[j]
       /\ Despidiendo(FdEn(listos, j)) => Despedido(FdEn(listos, j))
Oyen ==
    \A s \in Fds : extremo[s] = "abierto" =>
       /\ (pl'.pc = "moviendo" /\ Fd' = s) <=> Mueve(s)
       /\ (pl'.pc = "entregando" /\ Fd' = s) <=> Entrega(s)

Salvo == /\ DialogosOK' /\ AnotadosOK' /\ LlegadosOK' /\ ConectadosOK'
         /\ CapturasOK' /\ PresentesOK'

(* A step that sends and reads nothing keeps all but what is said of the    *)
(* blocked.                                                                 *)
LEMMA CharlasSalvoPresos ==
    ASSUME Supuestos, Control, ~modo.batalla, ListasOK, Charlas, Quietos, SonDeLaCola,
           UNCHANGED <<aMapa, aEntrenador, sock, ent, seniales>>, Conservan, Oyen,
           seniales = 0 => ~pl'.cierra
    PROVE  Salvo /\ \A t \in Entrenadores : Intacto(t)
<1>1. ASSUME NEW t \in Entrenadores PROVE Intacto(t)
  <2>1. sock[t] # 0 => sock[t] \in Fds /\ extremo[sock[t]] = "abierto"
      BY Tipos DEF ListasOK, SocketsOK, MundoTypeOK
  <2> QED BY <2>1 DEF Intacto, Oyen, Mueve, Entrega
<1>2. Perduran
    BY QuietosPerduran
<1>3. /\ DialogosOK /\ AnotadosOK /\ LlegadosOK /\ ConectadosOK
      /\ CapturasOK /\ PresosOK /\ PresentesOK
    BY DEF Charlas
<1>4. ASSUME NEW i \in DOMAIN listos', NEW j \in DOMAIN listos, listos'[i] = listos[j]
      PROVE  /\ FdEn(listos, i)' = FdEn(listos, j)
             /\ pcb'[listos'[i]].quien = pcb[listos[j]].quien
             /\ pcb'[listos'[i]].punto = pcb[listos[j]].punto
             /\ pcb'[listos'[i]].pide = pcb[listos[j]].pide
  <2>1. listos[j] \in 1 .. Len(pcb)
      BY Tipos
  <2> QED BY <1>4, <2>1 DEF Quietos, EnElMismo, DelMismo, FdEn
<1>5. DialogosOK'
    BY <1>1, <1>3, DialogosPaso
<1>6. AnotadosOK'
  <2>1. ASSUME NEW i \in DOMAIN listos'
        PROVE  \E j \in DOMAIN listos :
                 /\ FdEn(listos, i)' = FdEn(listos, j)
                 /\ \A t \in Entrenadores :
                      sock[t] = FdEn(listos, j) /\ Anotado(t, j) => Anotado(t, i)'
    <3>1. PICK j \in DOMAIN listos :
             /\ listos'[i] = listos[j]
             /\ Despidiendo(FdEn(listos, j)) => Despedido(FdEn(listos, j))
        BY DEF Conservan
    <3>2. ASSUME NEW t \in Entrenadores, sock[t] = FdEn(listos, j), Anotado(t, j)
          PROVE  Anotado(t, i)'
      <4>1. sock[t] # 0
          BY <3>2, SonFds DEF Fds
      <4>2. SeLeVa(t) => Despedido(sock[t])
          BY <3>1, <3>2 DEF Anotado
      <4>3. SeLeVa(t) => Despidiendo(sock[t])'
          BY <4>2 DEF Despedido, Despidiendo
      <4> QED BY <1>1, <1>4, <3>1, <3>2, <4>1, <4>3, IntactoAnotado
    <3> QED BY <1>4, <3>1, <3>2
  <2> QED BY <1>3, <2>1, AnotadosPaso
<1>7. LlegadosOK'
    BY <1>1, <1>3, LlegadosPaso
<1>8. ConectadosOK'
    BY <1>3, ConectadosIgual
<1>9. CapturasOK'
  <2>1. Consume
      BY DEF Consume
  <2>2. ASSUME NEW i \in DOMAIN listos'
        PROVE  \E j \in DOMAIN listos :
              /\ FdEn(listos, i)' = FdEn(listos, j)
              /\ \/ aMapa'[FdEn(listos, j)] # aMapa[FdEn(listos, j)]
                 \/ /\ pcb'[listos'[i]].punto = pcb[listos[j]].punto
                    /\ pcb'[listos'[i]].pide = pcb[listos[j]].pide
      BY <1>4 DEF Conservan
  <2> QED BY <1>3, <2>1, <2>2, CapturasPaso
<1>10. PresentesOK'
  <2>1. ASSUME NEW i \in DOMAIN listos'
        PROVE  \E j \in DOMAIN listos :
              /\ FdEn(listos, i)' = FdEn(listos, j)
              /\ pcb'[listos'[i]].quien = pcb[listos[j]].quien
              /\ Despidiendo(FdEn(listos, j)) => Despedido(FdEn(listos, j))
      BY <1>4 DEF Conservan
  <2> QED BY <1>3, <2>1, PresentesPaso
<1> QED BY <1>1, <1>5, <1>6, <1>7, <1>8, <1>9, <1>10 DEF Salvo

(* And that too when the list of the blocked does not change.               *)
LEMMA CharlasAparte ==
    ASSUME Supuestos, Control, ~modo.batalla, ListasOK, Charlas, Quietos, SonDeLaCola,
           UNCHANGED <<aMapa, aEntrenador, sock, bloqueados, ent, seniales>>, Conservan, Oyen,
           \A j \in DOMAIN bloqueados : SeLibera(j) => SeLibera(j)',
           \A j \in DOMAIN bloqueados : extremo'[FdEn(bloqueados, j)] # "libre",
           seniales = 0 => ~pl'.cierra,
           pl'.pc = "bloquear" => pl.pc = "bloquear" /\ Fd' = Fd
    PROVE  Charlas'
<1>1. Salvo /\ \A t \in Entrenadores : Intacto(t)
    BY CharlasSalvoPresos
<1>2. Perduran
    BY QuietosPerduran
<1>3. PresosOK
    BY DEF Charlas
<1>4. PresosOK'
  <2>1. \A t \in Entrenadores, j \in DOMAIN bloqueados :
              FdEn(bloqueados, j) = sock[t] /\ ~SeLibera(j)' /\ Detenido(t) => Detenido(t)'
    <3> SUFFICES ASSUME NEW t \in Entrenadores, NEW j \in DOMAIN bloqueados,
                        FdEn(bloqueados, j) = sock[t], Detenido(t)
                 PROVE  Detenido(t)'
        OBVIOUS
    <3>1. sock[t] # 0
        BY SonFds DEF Fds
    <3> QED BY <1>1, <3>1, IntactoDetenido
  <2>2. ASSUME pl'.pc = "bloquear"
        PROVE  /\ \A j \in DOMAIN bloqueados : FdEn(bloqueados, j) = Fd' => SeLibera(j)'
               /\ \A t \in Entrenadores : sock[t] = Fd' => Detenido(t)'
    <3>1. pl.pc = "bloquear" /\ Fd' = Fd
        BY <2>2
    <3>2. Fd # 0
      <4>1. pl.pc \in Sirviendo
          BY <3>1 DEF Sirviendo, Pasos
      <4> QED BY <4>1, Sirve DEF Fds
    <3>3. \A t \in Entrenadores : sock[t] = Fd => Detenido(t)'
        BY <1>1, <1>3, <3>1, <3>2, IntactoDetenido DEF PresosOK
    <3> QED BY <1>3, <3>1, <3>3 DEF PresosOK
  <2> QED BY <1>2, <1>3, <2>1, <2>2, PresosPaso
<1> QED BY <1>1, <1>4 DEF Charlas, Salvo

(* ... and changes no list either.                                          *)
LEMMA CharlasPlan ==
    ASSUME Supuestos, Control, ~modo.batalla, ListasOK, Charlas, Quietos,
           UNCHANGED <<aMapa, aEntrenador, extremo, sock, cola, listos, bloqueados, ent, seniales>>,
           \A j \in DOMAIN bloqueados : SeLibera(j) => SeLibera(j)',
           seniales = 0 => ~pl'.cierra,
           \/ pl' = pl
           \/ /\ pl'.pc \notin {"moviendo", "entregando", "bloquear"}
              /\ pl.pc \in {"moviendo", "entregando"} => extremo[Fd] # "abierto"
              /\ pl.pc \in {"soltar", "quitando"} =>
                   pl'.pc \in {"soltar", "quitando"} /\ pl'.corre = pl.corre
    PROVE  Charlas'
<1>1. pl'.corre = pl.corre /\ pl.pc # "elegir" => Fd' = Fd
    BY QuietosPerduran, MismoFd
<1>2. Conservan
  <2>1. pl.pc \in {"soltar", "quitando"} => pl'.pc \in {"soltar", "quitando"} /\ Fd' = Fd
      BY <1>1
  <2> QED BY <2>1 DEF Conservan, Despidiendo, Despedido
<1>3. Oyen
  <2>1. CASE pl' = pl
      BY <1>1, <2>1 DEF Oyen, Mueve, Entrega
  <2>2. CASE /\ pl'.pc \notin {"moviendo", "entregando"}
             /\ pl.pc \in {"moviendo", "entregando"} => extremo[Fd] # "abierto"
      BY <2>2 DEF Oyen, Mueve, Entrega
  <2> QED BY <2>1, <2>2
<1>4. SonDeLaCola
    BY DEF SonDeLaCola
<1>5. \A j \in DOMAIN bloqueados : extremo'[FdEn(bloqueados, j)] # "libre"
    BY DEF Charlas, PresosOK
<1>6. pl'.pc = "bloquear" => pl.pc = "bloquear" /\ Fd' = Fd
    BY <1>1
<1> QED BY <1>2, <1>3, <1>4, <1>5, <1>6, CharlasAparte

(* Before any signal, who is served is there.                               *)
LEMMA Presente ==
    ASSUME Supuestos, Control, ListasOK, ~modo.batalla, PresentesOK, seniales = 0,
           pl.pc \in Sirviendo \ {"soltar", "quitando"}
    PROVE  extremo[Fd] = "abierto" /\ \E t \in Entrenadores : sock[t] = Fd
<1>1. PICK i \in DOMAIN listos : listos[i] = pl.corre
    BY Tipos DEF ControlPlan
<1>2. FdEn(listos, i) = Fd /\ ~Despidiendo(Fd) /\ Fd # 0 /\ listos[i] \in 1 .. Len(pcb)
    BY <1>1, Sirve DEF FdEn, Fd, Despidiendo, Fds
<1>3. pcb[listos[i]].quien \in Entrenadores
  <2>1. pcb[listos[i]] \in Pcbs
      BY <1>2, Tipos
  <2> QED BY <2>1 DEF Pcbs
<1>4. sock[pcb[listos[i]].quien] = Fd
    BY <1>2 DEF PresentesOK
<1> QED BY <1>2, <1>3, <1>4 DEF ListasOK, SocketsOK

(* What the map does while the planner stays where it is.                   *)
LEMMA CharlasMientras ==
    ASSUME Supuestos, Control, Control', ~modo.batalla, ListasOK, Charlas,
           UNCHANGED <<dd, ent, seniales>>, Aceptado \/ Dibujar \/ LeerLoAjeno
    PROVE  Charlas'
<1>1. UNCHANGED <<listos, bloqueados, cola, extremo, sock, pl, aMapa, aEntrenador>>
    BY DEF Aceptado, Dibujar, LeerLoAjeno, mundo, listas
<1>2. Quietos
    BY QuietoMapa
<1>3. \A j \in DOMAIN bloqueados : SeLibera(j) => SeLibera(j)'
    BY DEF SeLibera
<1>4. seniales = 0 => ~pl'.cierra
    BY <1>1 DEF Charlas, PresentesOK
<1> QED BY <1>1, <1>2, <1>3, <1>4, CharlasPlan

(* The planner goes on to somebody or something else.                       *)
LEMMA CharlasDelPlan ==
    ASSUME Supuestos, Control, Control', ~modo.batalla, ListasOK, Charlas,
           UNCHANGED <<dd, ent, seniales>>,
           \/ Elegir \/ Bloqueado \/ NoEntregado \/ Desconectado \/ Soltar
           \/ Quitar \/ YaNoEsta \/ QuitarDeVacia
    PROVE  Charlas'
<1>1. UNCHANGED <<listos, bloqueados, cola, extremo, sock, aMapa, aEntrenador>> /\ pl \in Pls
    BY Tipos DEF Elegir, Bloqueado, NoEntregado, Desconectado, Soltar, Quitar, YaNoEsta,
           QuitarDeVacia, mundo, listas, conexiones
<1>2. Quietos
    BY QuietoMapa
<1>3. \A j \in DOMAIN bloqueados : SeLibera(j) => SeLibera(j)'
    BY DEF SeLibera
<1>4. PresentesOK /\ (seniales = 0 => ~pl.cierra)
    BY DEF Charlas, PresentesOK
<1>5. CASE Elegir \/ Quitar \/ YaNoEsta \/ QuitarDeVacia
  <2>1. /\ pl.pc \in {"elegir", "quitar"} /\ pl'.cierra = pl.cierra
        /\ pl'.pc \in {"recibir", "cerrar", "elegir"}
      BY <1>1, <1>5 DEF Elegir, Quitar, YaNoEsta, QuitarDeVacia, Pls
  <2> QED BY <1>1, <1>2, <1>3, <1>4, <2>1, CharlasPlan
<1>6. CASE Soltar
  <2>1. pl.pc = "soltar" /\ pl'.cierra = pl.cierra /\ pl'.pc = "quitando" /\ pl'.corre = pl.corre
      BY <1>1, <1>6 DEF Soltar, Pls
  <2> QED BY <1>1, <1>2, <1>3, <1>4, <2>1, CharlasPlan
<1>7. CASE Bloqueado \/ NoEntregado \/ Desconectado
  <2>1. /\ pl.pc \in {"bloqueando", "entregando", "recibir"}
        /\ pl.pc \in Sirviendo \ {"soltar", "quitando"} /\ pl.pc \in Sirviendo \ {"rotar"}
        /\ pl.pc = "entregando" => extremo[Fd] # "abierto"
        /\ Desconectado => extremo[Fd] # "abierto"
      BY <1>7 DEF Bloqueado, NoEntregado, Desconectado, Cortado, Sirviendo, Pasos
  <2>2. Desconectado => seniales # 0
      BY <1>4, <2>1, Presente
  <2>3. /\ pl'.pc \in {"recibir", "elegir", "quitar", "rotar", "soltar"}
        /\ Desconectado \/ pl'.cierra = pl.cierra
    <3>1. CASE pl' = Sigue(1)
      <4>1. pl'.pc \in {"recibir", "elegir", "quitar", "rotar"}
          BY <2>1, <3>1, SigueAdonde
      <4>2. pl'.cierra = pl.cierra
          BY <1>1, <3>1 DEF Sigue, Pls
      <4> QED BY <4>1, <4>2
    <3>2. CASE \E c \in BOOLEAN : Desconectado /\ pl' = [pl EXCEPT !.pc = "soltar", !.cierra = c]
        BY <1>1, <3>2 DEF Pls
    <3> QED BY <1>7, <3>1, <3>2 DEF Bloqueado, NoEntregado, Desconectado
  <2> QED BY <1>1, <1>2, <1>3, <1>4, <2>1, <2>2, <2>3, CharlasPlan
<1> QED BY <1>5, <1>6, <1>7

(* The end of a turn puts nobody new in the list.                           *)
LEMMA RotarNoAgrega ==
    ASSUME Supuestos, Control, Rotar
    PROVE  \A i \in DOMAIN listos' : \E j \in DOMAIN listos : listos'[i] = listos[j]
<1>1. pl.pc = "rotar"
    BY DEF Rotar
<1>2. ASSUME NEW i \in DOMAIN listos' PROVE \E j \in DOMAIN listos : listos'[i] = listos[j]
  <2> DEFINE n == Len(listos)
  <2>0. pl.pc \in Sirviendo
      BY <1>1 DEF Sirviendo, Pasos
  <2>1. listos \in Seq(1 .. Len(pcb)) /\ listos # <<>>
      BY <2>0, Sirve
  <2>2. n \in Nat /\ n > 0 /\ DOMAIN listos = 1 .. n
      BY <2>1, EmptySeq
  <2>3. /\ Tail(listos) \in Seq(1 .. Len(pcb)) /\ Len(Tail(listos)) = n - 1
        /\ \A k \in 1 .. n - 1 : Tail(listos)[k] = listos[k + 1]
      BY <2>1
  <2>4. listos' = Append(Tail(listos), pl.corre)
      BY DEF Rotar
  <2>5. DOMAIN listos' = 1 .. n /\ \A k \in 1 .. n : listos'[k] = IF k = n THEN pl.corre
                                                                ELSE listos[k + 1]
      BY <2>2, <2>3, <2>4
  <2>6. PICK j \in DOMAIN listos : listos[j] = pl.corre
      BY <2>0, Tipos DEF ControlPlan
  <2> HIDE DEF n
  <2>7. CASE i = n
      BY <2>2, <2>5, <2>6, <2>7
  <2>8. CASE i # n
    <3>1. i + 1 \in DOMAIN listos /\ listos'[i] = listos[i + 1]
        BY <2>2, <2>5, <2>8
    <3> QED BY <3>1
  <2> QED BY <2>7, <2>8
<1> QED BY <1>2

(* The list of the ready ones turns, or loses one.                          *)
LEMMA CharlasRotar ==
    ASSUME Supuestos, Control, Control', ~modo.batalla, ListasOK, Charlas,
           UNCHANGED <<dd, ent, seniales>>, Rotar
    PROVE  Charlas'
<1>1. UNCHANGED <<bloqueados, cola, extremo, sock, aMapa, aEntrenador>> /\ pl \in Pls
    BY Tipos DEF Rotar, mundo
<1>2. Quietos
    BY QuietoMapa
<1>3. \A j \in DOMAIN bloqueados : SeLibera(j) => SeLibera(j)'
    BY DEF SeLibera
<1>4. PresentesOK /\ PresosOK
    BY DEF Charlas
<1>5. pl.pc = "rotar" /\ pl'.pc = "elegir" /\ pl'.cierra = pl.cierra
    BY <1>1 DEF Rotar, Pls
<1>6. \A i \in DOMAIN listos' : \E j \in DOMAIN listos : listos'[i] = listos[j]
    BY RotarNoAgrega
<1>7. Conservan /\ Oyen /\ SonDeLaCola
  <2>1. Conservan
      BY <1>5, <1>6 DEF Conservan, Despidiendo
  <2>2. Oyen
      BY <1>5 DEF Oyen, Mueve, Entrega
  <2> QED BY <1>1, <2>1, <2>2 DEF SonDeLaCola
<1>8. \A j \in DOMAIN bloqueados : extremo'[FdEn(bloqueados, j)] # "libre"
    BY <1>1, <1>4 DEF PresosOK
<1>9. seniales = 0 => ~pl'.cierra
    BY <1>4, <1>5 DEF PresentesOK
<1> QED BY <1>1, <1>2, <1>3, <1>5, <1>7, <1>8, <1>9, CharlasAparte

(* The removal from listaListos ends.                                       *)
LEMMA CharlasQuitado ==
    ASSUME Supuestos, Control, Control', ~modo.batalla, SinReuso, ListasOK, Charlas,
           UNCHANGED <<dd, ent, seniales>>, QuitadoPorSi \/ QuitadoDelTurno
    PROVE  Charlas'
<1>1. UNCHANGED <<bloqueados, cola, sock, aMapa, aEntrenador>> /\ pl \in Pls
    BY Tipos DEF QuitadoPorSi, QuitadoDelTurno, mundo
<1>2. Quietos
    BY QuietoMapa
<1>3. \A j \in DOMAIN bloqueados : SeLibera(j) => SeLibera(j)'
    BY DEF SeLibera
<1>4. PresentesOK /\ PresosOK /\ ListosOK /\ BloqueadosOK
    BY DEF Charlas, ListasOK
<1>5. /\ pl.pc \in {"quitando", "cerrar"} /\ listos' = RemoveAt(listos, pl.sitio)
      /\ pl.sitio \in DOMAIN listos /\ listos \in Seq(1 .. Len(pcb)) /\ FdEn(listos, pl.sitio) = Fd
    BY <1>4, Tipos DEF QuitadoPorSi, QuitadoDelTurno, Quitado, ControlPlan, ListosOK
<1>6. /\ pl'.pc \in {"recibir", "elegir", "quitar", "rotar"}
      /\ pl'.cierra = pl.cierra
  <2>1. CASE pl.pc = "quitando"
    <3>1. pl.pc \in Sirviendo \ {"rotar"} /\ pl' = Sigue(1)
        BY <2>1 DEF Sirviendo, Pasos, QuitadoPorSi, QuitadoDelTurno
    <3>2. pl'.cierra = pl.cierra
        BY <1>1, <3>1 DEF Sigue, Pls
    <3> QED BY <3>1, <3>2, SigueAdonde
  <2>2. CASE pl.pc = "cerrar"
      BY <1>1, <2>2 DEF QuitadoPorSi, QuitadoDelTurno, Pls
  <2> QED BY <1>5, <2>1, <2>2
<1>7. Conservan
  <2> SUFFICES ASSUME NEW i \in DOMAIN listos'
               PROVE  \E j \in DOMAIN listos : listos'[i] = listos[j] /\ ~Despidiendo(FdEn(listos, j))
      BY DEF Conservan
  <2>1. Menos(listos', listos, pl.sitio)
    <3>1. pl.sitio \in 1 .. Len(listos) /\ listos \in Seq(1 .. Len(pcb))
        BY <1>5
    <3> QED BY <3>1, SinUnLugar, <1>5
  <2>2. PICK j \in DOMAIN listos : listos'[i] = listos[j] /\ j # pl.sitio
      BY <2>1 DEF Menos
  <2>3. FdEn(listos, j) # Fd
      BY <1>4, <1>5, <2>2 DEF ListosOK, SinParejas
  <2> QED BY <2>2, <2>3 DEF Despidiendo
<1>8. Oyen
    BY <1>5, <1>6 DEF Oyen, Mueve, Entrega
<1>9. SonDeLaCola
    BY <1>1 DEF SonDeLaCola
<1>10. ASSUME NEW j \in DOMAIN bloqueados PROVE extremo'[FdEn(bloqueados, j)] # "libre"
  <2>1. extremo[FdEn(bloqueados, j)] # "libre"
      BY <1>4 DEF PresosOK
  <2>2. CASE pl.pc = "quitando" /\ pl.cierra
    <3>1. extremo' = [extremo EXCEPT ![Fd] = "libre"]
        BY <2>2 DEF QuitadoPorSi, QuitadoDelTurno
    <3>2. modo.alg = "RR"
        BY <1>4, <2>2 DEF PresentesOK, SinReuso
    <3>3. ~TerminaElTurno(pl.sitio)
        BY <2>2 DEF TerminaElTurno
    <3>4. FdEn(bloqueados, j) # Fd
        BY <1>4, <1>5, <3>2, <3>3 DEF BloqueadosOK
    <3> QED BY <2>1, <3>1, <3>4
  <2>3. CASE ~(pl.pc = "quitando" /\ pl.cierra)
    <3>1. extremo' = extremo
        BY <2>3 DEF QuitadoPorSi, QuitadoDelTurno, mundo
    <3> QED BY <2>1, <3>1
  <2> QED BY <2>2, <2>3
<1>11. seniales = 0 => ~pl'.cierra
    BY <1>4, <1>6 DEF PresentesOK
<1> QED BY <1>1, <1>2, <1>3, <1>6, <1>7, <1>8, <1>9, <1>10, <1>11, CharlasAparte

(* The detection, but when it wakes somebody.                               *)
LEMMA CharlasDeteccion ==
    ASSUME Supuestos, Control, Control', ~modo.batalla, ListasOK, Charlas,
           UNCHANGED <<ent, seniales>>,
           NoMirar \/ Contar \/ PasarseDelFin \/ SigueBloqueado \/ FinDePasada
    PROVE  Charlas'
<1>1. UNCHANGED <<listos, bloqueados, cola, extremo, sock, pl, aMapa, aEntrenador>>
    BY DEF NoMirar, Contar, PasarseDelFin, SigueBloqueado, FinDePasada, mundo, mapa, listas
<1>2. Quietos
    BY QuietoDeteccion
<1>3. \A j \in DOMAIN bloqueados : SeLibera(j) => SeLibera(j)'
    BY DEF NoMirar, Contar, PasarseDelFin, SigueBloqueado, FinDePasada, SeLibera
<1>4. seniales = 0 => ~pl'.cierra
    BY <1>1 DEF Charlas, PresentesOK
<1> QED BY <1>1, <1>2, <1>3, <1>4, CharlasPlan

(* Who has just arrived is where every trainer starts, and has asked for    *)
(* nothing the map has answered.                                            *)
LEMMA LlegadoEs ==
    ASSUME Control, NEW t \in Entrenadores, RecienLlegado(t)
    PROVE  PuntoDe(t) = <<0, 0>> /\ ~SabeQuePide(t) /\ ~SeLeVa(t)
<1>1. ent[t].estado = "SIN_POKENEST" /\ ent[t].pos = <<0, 0>> /\ ~SabeQuePide(t)
    BY DEF RecienLlegado
<1>2. ent[t].estado \in EstadoQueEspera[ent[t].espera]
    BY TiposEnt DEF Coherente
<1>3. ent[t].espera # "ok" /\ ent[t].espera # "medalla"
    BY <1>1, <1>2 DEF EstadoQueEspera
<1> QED BY <1>1, <1>3 DEF PuntoDe, SeLeVa

(* Somebody is accepted.                                                    *)
LEMMA CharlasAceptar ==
    ASSUME Supuestos, Control, Control', ~modo.batalla, ListasOK, Charlas,
           UNCHANGED <<dd, ent, seniales>>, Aceptar
    PROVE  Charlas'
<1>1. UNCHANGED <<bloqueados, extremo, sock, aMapa, aEntrenador, pl>>
    BY DEF Aceptar
<1> DEFINE c == Head(cola)
           n == Len(listos)
           p == Len(pcb) + 1
<1>2. /\ Quietos /\ Perduran /\ Len(pcb') = p /\ Len(pcb) \in Nat
      /\ pcb'[p].fd = c.fd /\ pcb'[p].quien = c.quien /\ pcb'[p].punto = <<0, 0>>
    BY QuietoAceptar, QuietosPerduran DEF Nuevo
<1>3. cola \in Seq([fd : Fds, quien : Entrenadores]) /\ cola # <<>> /\ cola' = Tail(cola)
      /\ listos' = Append(listos, p) /\ listos \in Seq(1 .. Len(pcb))
    BY Tipos DEF MundoTypeOK, Aceptar
<1>4. /\ n \in Nat /\ DOMAIN listos = 1 .. n /\ DOMAIN listos' = 1 .. n + 1
      /\ listos'[n + 1] = p /\ \A i \in 1 .. n : listos'[i] = listos[i]
    BY <1>3
<1>5. /\ 1 \in DOMAIN cola /\ cola[1] = c
      /\ \A i \in DOMAIN cola' : i + 1 \in DOMAIN cola /\ cola'[i] = cola[i + 1]
  <2>1. Len(cola) \in Nat /\ Len(cola) > 0 /\ DOMAIN cola = 1 .. Len(cola)
      BY <1>3, EmptySeq
  <2>2. /\ Len(Tail(cola)) = Len(cola) - 1 /\ DOMAIN Tail(cola) = 1 .. Len(cola) - 1
        /\ \A i \in 1 .. Len(cola) - 1 : Tail(cola)[i] = cola[i + 1]
      BY <1>3, <2>1
  <2>3. cola[1] = Head(cola)
      BY <1>3
  <2> QED BY <1>3, <2>1, <2>2, <2>3
<1> HIDE DEF c, n, p
<1>6. SonDeLaCola
    BY <1>5 DEF SonDeLaCola
<1>7. \A i \in 1 .. n :
         /\ pcb'[listos'[i]].fd = pcb[listos[i]].fd
         /\ pcb'[listos'[i]].quien = pcb[listos[i]].quien
         /\ pcb'[listos'[i]].punto = pcb[listos[i]].punto
         /\ pcb'[listos'[i]].pide = pcb[listos[i]].pide
  <2> SUFFICES ASSUME NEW i \in 1 .. n
               PROVE  EnElMismo(pcb'[listos'[i]], pcb[listos[i]])
      BY DEF EnElMismo, DelMismo
  <2>1. listos'[i] = listos[i] /\ listos[i] \in 1 .. Len(pcb)
      BY <1>3, <1>4
  <2> QED BY <1>2, <2>1 DEF Quietos
<1>8. pcb'[listos'[n + 1]].fd = c.fd /\ pcb'[listos'[n + 1]].quien = c.quien
      /\ pcb'[listos'[n + 1]].punto = <<0, 0>>
    BY <1>2, <1>4
<1>9. pl.pc # "elegir" => Fd' = Fd
    BY <1>1, <1>2, MismoFd
<1>10. \A t \in Entrenadores : Intacto(t)
    BY <1>1, <1>9 DEF Intacto, Mueve, Entrega
<1>11. /\ DialogosOK /\ AnotadosOK /\ LlegadosOK /\ ConectadosOK
       /\ CapturasOK /\ PresosOK /\ PresentesOK
    BY DEF Charlas
<1>12. DialogosOK' /\ ConectadosOK'
    BY <1>1, <1>10, <1>11, DialogosPaso, ConectadosIgual
<1>13. LlegadosOK'
    BY <1>1, <1>6, <1>10, <1>11, LlegadosPaso
<1>14. AnotadosOK'
  <2> SUFFICES ASSUME NEW t \in Entrenadores, NEW i \in 1 .. n + 1, FdEn(listos, i)' = sock'[t]
               PROVE  Anotado(t, i)'
      BY <1>4 DEF AnotadosOK
  <2>1. sock[t] # 0
    <3>1. c.fd \in Fds
        BY <1>5, SonFds
    <3>2. i \in 1 .. n => pcb[listos[i]].fd \in Fds
        BY <1>4, SonFds DEF FdEn
    <3>3. FdEn(listos, i)' \in Fds
        BY <1>4, <1>7, <1>8, <3>1, <3>2 DEF FdEn
    <3> QED BY <1>1, <3>3 DEF Fds
  <2>2. CASE i \in 1 .. n
    <3>1. FdEn(listos, i) = sock[t] /\ i \in DOMAIN listos
        BY <1>1, <1>4, <1>7, <2>2 DEF FdEn
    <3>2. Anotado(t, i)
        BY <1>11, <3>1 DEF AnotadosOK
    <3>3. SeLeVa(t) => Despidiendo(sock[t])'
        BY <1>1, <1>9, <3>2 DEF Anotado, Despidiendo
    <3> QED BY <1>7, <1>10, <2>1, <2>2, <3>2, <3>3, IntactoAnotado
  <2>3. CASE i = n + 1
    <3>1. cola[1].fd = sock[t]
        BY <1>1, <1>5, <1>8, <2>3 DEF FdEn
    <3>2. RecienLlegado(t)
        BY <1>5, <1>11, <3>1 DEF LlegadosOK
    <3>3. PuntoDe(t) = <<0, 0>> /\ ~SabeQuePide(t) /\ ~SeLeVa(t)
        BY <3>2, LlegadoEs
    <3>4. PuntoDe(t)' = <<0, 0>> /\ ~SabeQuePide(t)' /\ ~SeLeVa(t)'
        BY <1>10, <2>1, <3>3 DEF Intacto, PuntoDe, SabeQuePide, SeLeVa
    <3> QED BY <1>8, <2>3, <3>4 DEF Anotado
  <2> QED BY <1>4, <2>2, <2>3
<1>15. CapturasOK'
  <2>1. \A s \in Fds : \A k \in 2 .. Len(aMapa'[s]) : aMapa'[s][k].tipo # "CAPTURAR"
      BY <1>1, <1>11 DEF CapturasOK
  <2>2. \A i \in DOMAIN cola' : ~EsCaptura(cola[i].fd)'
      BY <1>1, <1>5, <1>11 DEF CapturasOK, EsCaptura
  <2>3. ~EsCaptura(c.fd)
      BY <1>5, <1>11 DEF CapturasOK
  <2>4. ASSUME NEW i \in DOMAIN listos', EsCaptura(pcb[listos[i]].fd)'
        PROVE  /\ pcb'[listos'[i]].punto = Coordenada[Head(aMapa'[pcb'[listos'[i]].fd]).dato]
               /\ pcb'[listos'[i]].pide = Head(aMapa'[pcb'[listos'[i]].fd]).dato
    <3>1. i # n + 1
        BY <1>1, <1>8, <2>3, <2>4 DEF EsCaptura
    <3>2. i \in 1 .. n /\ i \in DOMAIN listos
        BY <1>4, <3>1
    <3>3. EsCaptura(pcb[listos[i]].fd)
        BY <1>1, <1>7, <2>4, <3>2 DEF EsCaptura
    <3> QED BY <1>1, <1>7, <1>11, <3>2, <3>3 DEF CapturasOK
  <2> QED BY <2>1, <2>2, <2>4 DEF CapturasOK
<1>16. PresosOK'
  <2>1. \A t \in Entrenadores, j \in DOMAIN bloqueados :
              FdEn(bloqueados, j) = sock[t] /\ ~SeLibera(j)' /\ Detenido(t) => Detenido(t)'
    <3> SUFFICES ASSUME NEW t \in Entrenadores, NEW j \in DOMAIN bloqueados,
                        FdEn(bloqueados, j) = sock[t], Detenido(t)
                 PROVE  Detenido(t)'
        OBVIOUS
    <3>1. sock[t] # 0
        BY SonFds DEF Fds
    <3> QED BY <1>10, <3>1, IntactoDetenido
  <2>2. ASSUME pl'.pc = "bloquear"
        PROVE  /\ \A j \in DOMAIN bloqueados : FdEn(bloqueados, j) = Fd' => SeLibera(j)'
               /\ \A t \in Entrenadores : sock[t] = Fd' => Detenido(t)'
    <3>1. pl.pc = "bloquear" /\ Fd' = Fd
        BY <1>1, <1>9, <2>2
    <3>2. Fd # 0
      <4>1. pl.pc \in Sirviendo
          BY <3>1 DEF Sirviendo, Pasos
      <4> QED BY <4>1, Sirve DEF Fds
    <3>3. \A t \in Entrenadores : sock[t] = Fd => Detenido(t)'
        BY <1>10, <1>11, <3>1, <3>2, IntactoDetenido DEF PresosOK
    <3> QED BY <1>11, <3>1, <3>3 DEF PresosOK, SeLibera
  <2>3. \A j \in DOMAIN bloqueados : SeLibera(j) => SeLibera(j)'
      BY DEF SeLibera
  <2>4. \A j \in DOMAIN bloqueados : extremo'[FdEn(bloqueados, j)] # "libre"
      BY <1>1, <1>11 DEF PresosOK
  <2> QED BY <1>1, <1>2, <1>11, <2>1, <2>2, <2>3, <2>4, PresosPaso
<1>17. PresentesOK'
  <2> SUFFICES ASSUME seniales = 0 PROVE PresentesOK'
      BY DEF PresentesOK
  <2>1. ASSUME NEW i \in DOMAIN listos'
        PROVE  \/ sock'[pcb'[listos'[i]].quien] = FdEn(listos, i)'
               \/ Despidiendo(FdEn(listos, i))'
    <3>1. CASE i = n + 1
        BY <1>1, <1>5, <1>8, <1>11, <3>1 DEF PresentesOK, FdEn
    <3>2. CASE i # n + 1
      <4>1. i \in 1 .. n /\ i \in DOMAIN listos
          BY <1>4, <3>2
      <4>2. sock[pcb[listos[i]].quien] = FdEn(listos, i) \/ Despidiendo(FdEn(listos, i))
          BY <1>11, <4>1 DEF PresentesOK
      <4> QED BY <1>1, <1>7, <1>9, <4>1, <4>2 DEF Despidiendo, FdEn
    <3> QED BY <3>1, <3>2
  <2>2. \A i \in DOMAIN cola' : sock'[cola'[i].quien] = cola'[i].fd
      BY <1>1, <1>5, <1>11 DEF PresentesOK
  <2> QED BY <1>1, <1>11, <2>1, <2>2 DEF PresentesOK
<1> QED BY <1>12, <1>13, <1>14, <1>15, <1>16, <1>17 DEF Charlas

(* Who was refused goes to the list of the blocked ones.                    *)
LEMMA CharlasBloquear ==
    ASSUME Supuestos, Control, Control', ~modo.batalla, ListasOK, Charlas,
           UNCHANGED <<dd, ent, seniales>>, Bloquear
    PROVE  Charlas'
<1>1. UNCHANGED <<aMapa, aEntrenador, pcb, listos, cola, extremo, sock>> /\ pl \in Pls
    BY Tipos DEF Bloquear, mundo
<1>2. ListosOK /\ PresosOK /\ PresentesOK
    BY DEF ListasOK, Charlas
<1>3. /\ pl.pc = "bloquear" /\ pl.pc \in Sirviendo /\ pl'.pc = "bloqueando"
      /\ pl'.cierra = pl.cierra /\ Fd' = Fd
    BY <1>1 DEF Bloquear, Pls, Sirviendo, Pasos, Fd
<1>4. Quietos
    BY QuietoMapa
<1>5. Conservan /\ Oyen /\ SonDeLaCola
    BY <1>1, <1>3 DEF Conservan, Despidiendo, Oyen, Mueve, Entrega, SonDeLaCola
<1>6. seniales = 0 => ~pl'.cierra
    BY <1>2, <1>3 DEF PresentesOK
<1>7. Salvo /\ \A t \in Entrenadores : Intacto(t)
    BY <1>1, <1>4, <1>5, <1>6, CharlasSalvoPresos
<1> DEFINE q == PcbEnListos(Fd)
           n == Len(bloqueados)
<1>8. bloqueados' = Append(bloqueados, q) /\ MapaTypeOK /\ listos \in Seq(1 .. Len(pcb))
      /\ bloqueados \in Seq(1 .. Len(pcb)) /\ Lugar(listos, Fd) \in DOMAIN listos
    BY <1>3, Sirve, Tipos DEF Bloquear
<1>9. q \in 1 .. Len(pcb) /\ pcb[q].fd = Fd /\ q = listos[Lugar(listos, Fd)]
  <2>1. Lugar(listos, Fd) # 0
      BY <1>8
  <2>2. q = listos[Lugar(listos, Fd)]
      BY <2>1 DEF PcbEnListos
  <2> QED BY <1>3, <1>8, <2>1, <2>2, LugarEs, Sirve
<1> HIDE DEF q
<1>10. /\ n \in Nat /\ DOMAIN bloqueados = 1 .. n /\ DOMAIN bloqueados' = 1 .. n + 1
       /\ bloqueados'[n + 1] = q
       /\ \A i \in 1 .. n : bloqueados'[i] = bloqueados[i]
    BY <1>8, <1>9
<1>11. ~SeLibera(n + 1) /\ \A j : SeLibera(j)' <=> SeLibera(j)
  <2>1. SeLibera(n + 1) => n + 1 \in 1 .. n
      BY <1>10, TiposDD DEF SeLibera, ControlDD
  <2>2. n + 1 \notin 1 .. n
      BY <1>10
  <2> QED BY <2>1, <2>2 DEF SeLibera
<1> HIDE DEF n
<1>12. \A j \in 1 .. n + 1 :
           FdEn(bloqueados, j)' = IF j = n + 1 THEN Fd ELSE FdEn(bloqueados, j)
    BY <1>1, <1>9, <1>10 DEF FdEn
<1>13. \A j \in 1 .. n + 1 : j # n + 1 => j \in 1 .. n
    BY <1>10
<1>14. \A j \in DOMAIN bloqueados', t \in Entrenadores :
          FdEn(bloqueados, j)' = sock'[t] /\ ~SeLibera(j)' => Detenido(t)'
  <2> SUFFICES ASSUME NEW j \in 1 .. n + 1, NEW t \in Entrenadores,
                      FdEn(bloqueados, j)' = sock[t], ~SeLibera(j)
               PROVE  Detenido(t)'
      BY <1>1, <1>10, <1>11
  <2>1. Detenido(t)
    <3>1. CASE j = n + 1
        BY <1>2, <1>3, <1>12, <3>1 DEF PresosOK
    <3>2. CASE j # n + 1
        BY <1>2, <1>10, <1>12, <1>13, <3>2 DEF PresosOK
    <3> QED BY <3>1, <3>2
  <2>2. sock[t] # 0
    <3>1. Fd \in Fds /\ 0 \notin Fds
        BY <1>3, Sirve DEF Fds
    <3>2. \A i \in 1 .. n : FdEn(bloqueados, i) \in Fds
        BY <1>10, SonFds
    <3> QED BY <1>12, <1>13, <3>1, <3>2
  <2> QED BY <1>7, <2>1, <2>2, IntactoDetenido
<1>15. \A i, j \in DOMAIN bloqueados' :
         FdEn(bloqueados, i)' = FdEn(bloqueados, j)' /\ ~SeLibera(i)' /\ ~SeLibera(j)' => i = j
  <2>1. \A j \in 1 .. n : FdEn(bloqueados, j) = Fd => SeLibera(j)
      BY <1>2, <1>3, <1>10 DEF PresosOK
  <2>2. \A i, j \in 1 .. n :
           FdEn(bloqueados, i) = FdEn(bloqueados, j) /\ ~SeLibera(i) /\ ~SeLibera(j) => i = j
      BY <1>2, <1>10 DEF PresosOK
  <2> QED BY <1>10, <1>11, <1>12, <1>13, <2>1, <2>2
<1>16. \A j \in DOMAIN bloqueados' : extremo'[FdEn(bloqueados, j)'] # "libre"
  <2>1. extremo[Fd] # "libre"
      BY <1>2, <1>8, <1>9 DEF ListosOK, FdEn
  <2>2. \A j \in 1 .. n : extremo[FdEn(bloqueados, j)] # "libre"
      BY <1>2, <1>10 DEF PresosOK
  <2> QED BY <1>1, <1>10, <1>12, <1>13, <2>1, <2>2
<1>17. PresosOK'
    BY <1>3, <1>14, <1>15, <1>16 DEF PresosOK
<1> QED BY <1>7, <1>17 DEF Charlas, Salvo

(* Who was woken leaves it.                                                 *)
LEMMA CharlasLiberado ==
    ASSUME Supuestos, Control, Control', ~modo.batalla, ListasOK, Charlas,
           UNCHANGED <<ent, seniales>>, Liberado
    PROVE  Charlas'
<1>1. UNCHANGED <<aMapa, aEntrenador, pcb, listos, cola, extremo, sock, pl>>
      /\ dd.pc = "liberando" /\ bloqueados' = RemoveAt(bloqueados, dd.i)
    BY DEF Liberado, mundo, SinEste
<1>2. PresosOK /\ PresentesOK
    BY DEF Charlas
<1>3. \A j : ~SeLibera(j)'
    BY TiposDD DEF Liberado, DDs, SeLibera
<1>4. Quietos
    BY QuietoDeteccion
<1>5. Conservan /\ Oyen /\ SonDeLaCola
    BY <1>1 DEF Conservan, Despidiendo, Despedido, Oyen, Mueve, Entrega, SonDeLaCola, Fd
<1>6. seniales = 0 => ~pl'.cierra
    BY <1>1, <1>2 DEF PresentesOK
<1>7. Salvo /\ \A t \in Entrenadores : Intacto(t)
    BY <1>1, <1>4, <1>5, <1>6, CharlasSalvoPresos
<1>8. PICK f \in [DOMAIN bloqueados' -> DOMAIN bloqueados] :
             /\ \A i, j \in DOMAIN bloqueados' : f[i] = f[j] => i = j
             /\ \A i \in DOMAIN bloqueados' : bloqueados'[i] = bloqueados[f[i]] /\ f[i] # dd.i
  <2>1. bloqueados \in Seq(1 .. Len(pcb)) /\ dd.i \in 1 .. Len(bloqueados)
      BY <1>1, TiposDD, Tipos DEF ControlDD
  <2>2. Menos(bloqueados', bloqueados, dd.i)
      BY <2>1, SinUnLugar, <1>1
  <2> QED BY <2>2 DEF Menos
<1>9. \A i \in DOMAIN bloqueados' :
         FdEn(bloqueados, i)' = FdEn(bloqueados, f[i]) /\ ~SeLibera(f[i])
    BY <1>1, <1>8 DEF FdEn, SeLibera
<1>10. ASSUME NEW j \in DOMAIN bloqueados', NEW t \in Entrenadores, FdEn(bloqueados, j)' = sock'[t]
       PROVE  Detenido(t)'
  <2>1. FdEn(bloqueados, f[j]) = sock[t] /\ f[j] \in DOMAIN bloqueados /\ ~SeLibera(f[j])
      BY <1>1, <1>8, <1>9, <1>10
  <2>2. Detenido(t)
      BY <1>2, <2>1 DEF PresosOK
  <2>3. sock[t] # 0
      BY <2>1, SonFds DEF Fds
  <2> QED BY <1>7, <2>2, <2>3, IntactoDetenido
<1>11. \A i, j \in DOMAIN bloqueados' : FdEn(bloqueados, i)' = FdEn(bloqueados, j)' => i = j
    BY <1>2, <1>8, <1>9 DEF PresosOK
<1>12. \A j \in DOMAIN bloqueados' : extremo'[FdEn(bloqueados, j)'] # "libre"
    BY <1>1, <1>2, <1>8, <1>9 DEF PresosOK
<1>13. pl'.pc = "bloquear" =>
         /\ \A j \in DOMAIN bloqueados' : FdEn(bloqueados, j)' # Fd'
         /\ \A t \in Entrenadores : sock'[t] = Fd' => Detenido(t)'
  <2> SUFFICES ASSUME pl.pc = "bloquear"
               PROVE  /\ \A j \in DOMAIN bloqueados' : FdEn(bloqueados, j)' # Fd
                      /\ \A t \in Entrenadores : sock[t] = Fd => Detenido(t)'
      BY <1>1 DEF Fd
  <2>1. Fd # 0
    <3>1. pl.pc \in Sirviendo
        BY DEF Sirviendo, Pasos
    <3> QED BY <3>1, Sirve DEF Fds
  <2>2. \A t \in Entrenadores : sock[t] = Fd => Detenido(t)'
      BY <1>2, <1>7, <2>1, IntactoDetenido DEF PresosOK
  <2>3. \A j \in DOMAIN bloqueados' : FdEn(bloqueados, j)' # Fd
      BY <1>2, <1>8, <1>9 DEF PresosOK
  <2> QED BY <2>2, <2>3
<1>14. PresosOK'
    BY <1>10, <1>11, <1>12, <1>13 DEF PresosOK
<1> QED BY <1>7, <1>14 DEF Charlas, Salvo

(* Somebody blocked is told that there is a pokemon for it: it was waiting  *)
(* to be told so.                                                           *)
LEMMA CharlasLiberar ==
    ASSUME Supuestos, Control, Control', ~modo.batalla, ListasOK, Charlas,
           UNCHANGED <<ent, seniales>>, Liberar
    PROVE  Charlas'
<1> DEFINE s == pcb[Este].fd
           m == Msg("ESTAS_DESBLOQUEADO", 0)
<1>1. /\ UNCHANGED <<aMapa, listos, bloqueados, cola, extremo, sock, pl>>
      /\ aEntrenador' = Enviado(aEntrenador, s, m)
      /\ dd.pc = "liberar" /\ dd.i \in DOMAIN bloqueados /\ dd'.pc = "liberando" /\ dd'.i = dd.i
  <2>1. dd \in DDs /\ dd.i \in Nat /\ dd.i > 0 /\ bloqueados \in Seq(1 .. Len(pcb))
        /\ Len(bloqueados) \in Nat
      BY TiposDD, Tipos DEF ControlDD
  <2>2. dd.i <= Len(bloqueados) /\ dd' = [dd EXCEPT !.pc = "liberando"]
      BY DEF Liberar
  <2>3. dd.i \in DOMAIN bloqueados
      BY <2>1, <2>2
  <2>4. dd'.pc = "liberando" /\ dd'.i = dd.i
      BY <2>1, <2>2 DEF DDs
  <2> QED BY <2>3, <2>4 DEF Liberar
<1>2. Quietos /\ Perduran
    BY QuietoDeteccion, QuietosPerduran
<1>3. s = FdEn(bloqueados, dd.i) /\ s \in Fds
    BY <1>1, SonFds DEF FdEn, Este
<1> HIDE DEF s
<1>4. pl.pc # "elegir" => Fd' = Fd
    BY <1>1, <1>2, MismoFd
<1>5. \A x \in Fds : x # s => aEntrenador'[x] = aEntrenador[x]
  <2>1. aEntrenador = [x \in Fds |-> aEntrenador[x]]
      BY Tipos DEF MundoTypeOK, SonBuzones
  <2> QED BY <1>1, <2>1 DEF Enviado
<1>6. ASSUME NEW t \in Entrenadores, sock[t] # s PROVE Intacto(t)
  <2>1. sock[t] # 0 => sock[t] \in Fds
      BY Tipos DEF MundoTypeOK
  <2> QED BY <1>1, <1>4, <1>5, <1>6, <2>1 DEF Intacto, Mueve, Entrega
<1>7. /\ DialogosOK /\ AnotadosOK /\ LlegadosOK /\ ConectadosOK
      /\ CapturasOK /\ PresosOK /\ PresentesOK
    BY DEF Charlas
<1>8. ASSUME NEW t \in Entrenadores, sock[t] = s
      PROVE  /\ Detenido(t) /\ Callado(s) /\ Charla(t)' /\ Rumbo(t)' /\ ~RecienLlegado(t)
  <2>1. Detenido(t)
      BY <1>1, <1>3, <1>7, <1>8 DEF PresosOK, SeLibera
  <2>2. s # 0 /\ Charla(t) /\ Rumbo(t)
      BY <1>3, <1>7, <1>8 DEF DialogosOK, Fds
  <2>3. Callado(s)
      BY <1>8, <2>1, <2>2, DetenidoEs
  <2>4. Callado(sock[t])'
      BY <1>1, <1>4, <1>8, <2>3 DEF Callado, Mueve, Entrega
  <2>5. extremo[s] = "abierto"
      BY <1>8, <2>2 DEF ListasOK, SocketsOK
  <2>6. aEntrenador'[s] = Append(aEntrenador[s], m)
    <3>1. aEntrenador = [x \in Fds |-> aEntrenador[x]]
        BY Tipos DEF MundoTypeOK, SonBuzones
    <3> QED BY <1>1, <1>3, <2>5, <3>1 DEF Enviado
  <2>7. ent'[t] = ent[t] /\ sock'[t] = s
      BY <1>1, <1>8
  <2>8. Rumbo(t)'
      BY <2>2, <2>7 DEF Rumbo, Objetivo
  <2>9. CASE ent[t].espera = "captura" /\ aEntrenador[s] = Negado
    <3>1. aEntrenador'[s] = Append(Negado, m)
        BY <2>6, <2>9
    <3>2. EsperaCaptura(Objetivo(t), sock[t], aEntrenador[sock[t]])'
        BY <2>4, <2>7, <3>1 DEF EsperaCaptura, m
    <3>3. Charla(t)'
        BY <2>7, <2>9, <3>2 DEF Charla
    <3>4. Negado # <<>>
        BY DEF Negado
    <3> QED BY <1>8, <2>1, <2>3, <2>8, <2>9, <3>3, <3>4 DEF RecienLlegado
  <2>10. CASE ent[t].espera = "nada" /\ ent[t].estado = "BLOQUEADO" /\ aEntrenador[s] = <<>>
    <3>1. aEntrenador'[s] = <<m>>
        BY <2>6, <2>10
    <3>2. Nada(ent[t], sock[t], aEntrenador[sock[t]])'
        BY <2>4, <2>7, <2>10, <3>1 DEF Nada
    <3>3. Charla(t)'
        BY <2>7, <2>10, <3>2 DEF Charla
    <3> QED BY <2>1, <2>3, <2>8, <2>10, <3>3 DEF RecienLlegado
  <2> QED BY <1>8, <2>1, <2>9, <2>10 DEF Detenido
<1>9. DialogosOK'
    BY <1>6, <1>7, <1>8, DialogosPaso
<1>10. ConectadosOK'
    BY <1>1, <1>7, ConectadosIgual
<1>11. LlegadosOK'
  <2>1. SonDeLaCola
      BY <1>1 DEF SonDeLaCola
  <2> QED BY <1>1, <1>6, <1>7, <1>8, <2>1, LlegadosPaso
<1>12. ASSUME NEW i \in DOMAIN listos
       PROVE  /\ FdEn(listos, i)' = FdEn(listos, i)
              /\ pcb'[listos'[i]].quien = pcb[listos[i]].quien
              /\ pcb'[listos'[i]].punto = pcb[listos[i]].punto
              /\ pcb'[listos'[i]].pide = pcb[listos[i]].pide
  <2>1. listos[i] \in 1 .. Len(pcb)
      BY Tipos
  <2> QED BY <1>1, <1>2, <2>1 DEF Quietos, EnElMismo, DelMismo, FdEn
<1>13. AnotadosOK'
  <2>1. ASSUME NEW i \in DOMAIN listos, NEW t \in Entrenadores, Anotado(t, i)
        PROVE  Anotado(t, i)'
    <3>1. /\ PuntoDe(t)' = PuntoDe(t) /\ (SabeQuePide(t)' <=> SabeQuePide(t))
          /\ (SeLeVa(t)' <=> SeLeVa(t)) /\ Objetivo(t)' = Objetivo(t)
        BY <1>1 DEF PuntoDe, SabeQuePide, SeLeVa, Objetivo
    <3>2. Despidiendo(sock[t])' <=> Despidiendo(sock[t])
        BY <1>1, <1>4 DEF Despidiendo
    <3> QED BY <1>12, <2>1, <3>1, <3>2 DEF Anotado
  <2> QED BY <1>1, <1>7, <1>12, <2>1, AnotadosPaso
<1>14. CapturasOK'
  <2>1. Consume /\ SonDeLaCola
      BY <1>1 DEF Consume, SonDeLaCola
  <2> QED BY <1>1, <1>7, <1>12, <2>1, CapturasPaso
<1>15. PresosOK'
  <2>1. \A j \in DOMAIN bloqueados : FdEn(bloqueados, j) = s /\ ~SeLibera(j)' => FALSE
    <3> SUFFICES ASSUME NEW j \in DOMAIN bloqueados, FdEn(bloqueados, j) = s
                 PROVE  SeLibera(j)'
        OBVIOUS
    <3>1. ~SeLibera(j) /\ ~SeLibera(dd.i)
        BY <1>1 DEF SeLibera
    <3>2. j = dd.i
        BY <1>1, <1>3, <1>7, <3>1 DEF PresosOK
    <3> QED BY <1>1, <3>2 DEF SeLibera
  <2>2. \A t \in Entrenadores, j \in DOMAIN bloqueados :
              FdEn(bloqueados, j) = sock[t] /\ ~SeLibera(j)' /\ Detenido(t) => Detenido(t)'
    <3> SUFFICES ASSUME NEW t \in Entrenadores, NEW j \in DOMAIN bloqueados,
                        FdEn(bloqueados, j) = sock[t], ~SeLibera(j)', Detenido(t)
                 PROVE  Detenido(t)'
        OBVIOUS
    <3>1. sock[t] # 0
        BY SonFds DEF Fds
    <3>2. sock[t] # s
        BY <2>1
    <3> QED BY <1>6, <3>1, <3>2, IntactoDetenido
  <2>3. ASSUME pl'.pc = "bloquear"
        PROVE  /\ \A j \in DOMAIN bloqueados : FdEn(bloqueados, j) = Fd' => SeLibera(j)'
               /\ \A t \in Entrenadores : sock[t] = Fd' => Detenido(t)'
    <3>1. pl.pc = "bloquear" /\ Fd' = Fd
        BY <1>1, <1>4, <2>3
    <3>2. Fd # 0
      <4>1. pl.pc \in Sirviendo
          BY <3>1 DEF Sirviendo, Pasos
      <4> QED BY <4>1, Sirve DEF Fds
    <3>3. \A j \in DOMAIN bloqueados : FdEn(bloqueados, j) # Fd
        BY <1>1, <1>7, <3>1 DEF PresosOK, SeLibera
    <3>4. s # Fd
        BY <1>1, <1>3, <3>3
    <3>5. \A t \in Entrenadores : sock[t] = Fd => Detenido(t)'
        BY <1>6, <1>7, <3>1, <3>2, <3>4, IntactoDetenido DEF PresosOK
    <3> QED BY <3>1, <3>3, <3>5
  <2>4. \A j \in DOMAIN bloqueados : SeLibera(j) => SeLibera(j)'
      BY <1>1 DEF SeLibera
  <2>5. \A j \in DOMAIN bloqueados : extremo'[FdEn(bloqueados, j)] # "libre"
      BY <1>1, <1>7 DEF PresosOK
  <2> QED BY <1>1, <1>2, <1>7, <2>2, <2>3, <2>4, <2>5, PresosPaso
<1>16. PresentesOK'
  <2>1. SonDeLaCola
      BY <1>1 DEF SonDeLaCola
  <2>2. seniales = 0 => ~pl'.cierra
      BY <1>1, <1>7 DEF PresentesOK
  <2>3. \A i \in DOMAIN listos : Despidiendo(FdEn(listos, i)) => Despedido(FdEn(listos, i))
      BY <1>1, <1>4 DEF Despidiendo, Despedido
  <2> QED BY <1>1, <1>7, <1>12, <2>1, <2>2, <2>3, PresentesPaso
<1> QED BY <1>9, <1>10, <1>11, <1>13, <1>14, <1>15, <1>16 DEF Charlas

-----------------------------------------------------------------------------
(* The planner serves a trainer: only the connection of the one that runs   *)
(* changes, and only its t_pcb.                                             *)

(* The t_pcb it works with is the one of whoever is ready with that         *)
(* connection.                                                              *)
LEMMA ElQueCorre ==
    ASSUME Supuestos, Control, ~modo.batalla, ListasOK, pl.pc \in Sirviendo
    PROVE  /\ \E i \in DOMAIN listos : FdEn(listos, i) = Fd
           /\ \A i \in DOMAIN listos : FdEn(listos, i) = Fd <=> listos[i] = PcbEnListos(Fd)
<1>1. listos \in Seq(1 .. Len(pcb)) /\ Lugar(listos, Fd) \in DOMAIN listos /\ MapaTypeOK
    BY Sirve, Tipos
<1> DEFINE l == Lugar(listos, Fd)
<1>2. l # 0
    BY <1>1
<1>3. PcbEnListos(Fd) = listos[l] /\ FdEn(listos, l) = Fd
    BY <1>1, <1>2, LugarEs DEF PcbEnListos, FdEn
<1> HIDE DEF l
<1>4. \A i \in DOMAIN listos : FdEn(listos, i) = Fd => i = l
    BY <1>1, <1>3 DEF l, ListasOK, ListosOK, SinParejas
<1> QED BY <1>1, <1>3, <1>4 DEF l, FdEn

(* With a list where nobody else is touched.                                *)
Atiende(s) ==
    /\ UNCHANGED <<listos, bloqueados, cola, extremo, sock, dd, ent, seniales>>
    /\ Perduran /\ pl'.corre = pl.corre
    /\ pl.pc \in {"recibir", "moviendo", "entregando"}
    /\ Consume /\ ~Callado(s)
    /\ \A x \in Fds : x # s => aMapa'[x] = aMapa[x] /\ aEntrenador'[x] = aEntrenador[x]
    /\ \A i \in DOMAIN listos :
         \/ FdEn(listos, i) = s /\ aMapa'[s] # aMapa[s]
         \/ /\ pcb'[listos[i]].punto = pcb[listos[i]].punto
            /\ pcb'[listos[i]].pide = pcb[listos[i]].pide
    /\ seniales = 0 /\ ~pl.cierra => ~pl'.cierra

(* What it has to do with the trainer that has that connection.             *)
Corresponde(s) ==
    /\ \A t \in Entrenadores : sock[t] = s /\ Charla(t) /\ Rumbo(t) => Charla(t)'
    /\ \A t \in Entrenadores, i \in DOMAIN listos :
         sock[t] = s /\ Charla(t) /\ Rumbo(t) /\ FdEn(listos, i) = s /\ Anotado(t, i)
           => Anotado(t, i)'
    /\ pl'.pc = "bloquear" =>
         /\ \A j \in DOMAIN bloqueados : FdEn(bloqueados, j) = s => SeLibera(j)
         /\ \A t \in Entrenadores : sock[t] = s /\ Charla(t) => Detenido(t)'

(* The planner serves one connection: the others see nothing of it.         *)
LEMMA CharlasAtiende ==
    ASSUME Supuestos, Control, ~modo.batalla, ListasOK, Charlas,
           NEW s \in Fds, s = Fd, Atiende(s), Corresponde(s)
    PROVE  Charlas'
<1>1. /\ UNCHANGED <<listos, bloqueados, cola, extremo, sock, dd, ent, seniales>> /\ Perduran
      /\ pl.pc \in {"recibir", "moviendo", "entregando"} /\ pl.pc \in Sirviendo
    BY DEF Atiende, Sirviendo, Pasos
<1>2. Fd' = s
    BY <1>1, MismoFd DEF Atiende
<1>3. ASSUME NEW t \in Entrenadores, sock[t] # s PROVE Intacto(t)
  <2>1. sock[t] # 0 => sock[t] \in Fds
      BY Tipos DEF MundoTypeOK
  <2> QED BY <1>1, <1>2, <1>3, <2>1 DEF Intacto, Mueve, Entrega, Atiende
<1>4. /\ DialogosOK /\ AnotadosOK /\ LlegadosOK /\ ConectadosOK
      /\ CapturasOK /\ PresosOK /\ PresentesOK
    BY DEF Charlas
<1>5. s # 0
    BY DEF Fds
<1>6. ASSUME NEW t \in Entrenadores, sock[t] = s
      PROVE  Charla(t) /\ Rumbo(t) /\ ~Detenido(t) /\ Charla(t)' /\ Rumbo(t)'
  <2>1. Charla(t) /\ Rumbo(t)
      BY <1>4, <1>5, <1>6 DEF DialogosOK
  <2>2. ~Detenido(t)
      BY <1>6, <2>1, DetenidoEs DEF Atiende
  <2>3. Rumbo(t)'
      BY <1>1, <2>1 DEF Rumbo, Objetivo
  <2> QED BY <1>6, <2>1, <2>2, <2>3 DEF Corresponde
<1>7. DialogosOK'
    BY <1>3, <1>4, <1>6, DialogosPaso
<1>8. ConectadosOK'
    BY <1>1, <1>4, ConectadosIgual
<1>9. SonDeLaCola /\ Consume
    BY <1>1 DEF SonDeLaCola, Atiende
<1>10. LlegadosOK'
  <2>1. ASSUME NEW j \in DOMAIN cola PROVE cola[j].fd # s
      BY <1>1, ElQueCorre DEF ListasOK, ColaOK
  <2> QED BY <1>1, <1>3, <1>4, <1>9, <2>1, LlegadosPaso
<1>11. \A i \in DOMAIN listos : /\ FdEn(listos, i)' = FdEn(listos, i)
                                /\ pcb'[listos[i]].quien = pcb[listos[i]].quien
    BY <1>1, Tipos, MismaLista DEF FdEn
<1>12. AnotadosOK'
  <2>1. ASSUME NEW i \in DOMAIN listos, NEW t \in Entrenadores,
               sock[t] = FdEn(listos, i), Anotado(t, i)
        PROVE  Anotado(t, i)'
    <3>1. CASE sock[t] = s
        BY <1>6, <2>1, <3>1 DEF Corresponde
    <3>2. CASE sock[t] # s
      <4>1. Intacto(t) /\ sock[t] # 0
          BY <1>3, <2>1, <3>2, SonFds DEF Fds
      <4>2. /\ pcb'[listos'[i]].punto = pcb[listos[i]].punto
            /\ pcb'[listos'[i]].pide = pcb[listos[i]].pide
          BY <1>1, <2>1, <3>2 DEF Atiende
      <4>3. SeLeVa(t) => Despidiendo(sock[t])'
          BY <1>1, <2>1 DEF Anotado, Despidiendo
      <4> QED BY <2>1, <4>1, <4>2, <4>3, IntactoAnotado
    <3> QED BY <3>1, <3>2
  <2> QED BY <1>1, <1>4, <1>11, <2>1, AnotadosPaso
<1>13. CapturasOK'
  <2>1. \A i \in DOMAIN listos :
           \/ aMapa'[FdEn(listos, i)] # aMapa[FdEn(listos, i)]
           \/ /\ pcb'[listos'[i]].punto = pcb[listos[i]].punto
              /\ pcb'[listos'[i]].pide = pcb[listos[i]].pide
      BY <1>1 DEF Atiende
  <2> QED BY <1>1, <1>4, <1>9, <1>11, <2>1, CapturasPaso
<1>14. PresosOK'
  <2>1. \A t \in Entrenadores, j \in DOMAIN bloqueados :
              FdEn(bloqueados, j) = sock[t] /\ ~SeLibera(j)' /\ Detenido(t) => Detenido(t)'
    <3> SUFFICES ASSUME NEW t \in Entrenadores, NEW j \in DOMAIN bloqueados,
                        FdEn(bloqueados, j) = sock[t], Detenido(t)
                 PROVE  Detenido(t)'
        OBVIOUS
    <3>1. sock[t] # 0 /\ sock[t] # s
        BY <1>6, SonFds DEF Fds
    <3> QED BY <1>3, <3>1, IntactoDetenido
  <2>2. \A j : SeLibera(j) <=> SeLibera(j)'
      BY <1>1 DEF SeLibera
  <2>3. pl'.pc = "bloquear" =>
             /\ \A j \in DOMAIN bloqueados : FdEn(bloqueados, j) = Fd' => SeLibera(j)'
             /\ \A t \in Entrenadores : sock[t] = Fd' => Detenido(t)'
      BY <1>2, <1>6, <2>2 DEF Corresponde
  <2>4. \A j \in DOMAIN bloqueados : extremo'[FdEn(bloqueados, j)] # "libre"
      BY <1>1, <1>4 DEF PresosOK
  <2> QED BY <1>1, <1>4, <2>1, <2>2, <2>3, <2>4, PresosPaso
<1>15. PresentesOK'
  <2>1. seniales = 0 => ~pl'.cierra
      BY <1>4 DEF PresentesOK, Atiende
  <2>2. \A i \in DOMAIN listos : ~Despidiendo(FdEn(listos, i))
      BY <1>1 DEF Despidiendo
  <2> QED BY <1>1, <1>4, <1>9, <1>11, <2>1, <2>2, PresentesPaso
<1> QED BY <1>7, <1>8, <1>10, <1>12, <1>13, <1>14, <1>15 DEF Charlas

(* To read something is to change what is left.                             *)
LEMMA QuedaMenos ==
    ASSUME Control, NEW s \in Fds, aMapa[s] # <<>>, aMapa' = [aMapa EXCEPT ![s] = Tail(@)]
    PROVE  /\ Consume /\ aMapa'[s] = Tail(aMapa[s]) /\ aMapa'[s] # aMapa[s]
           /\ \A x \in Fds : x # s => aMapa'[x] = aMapa[x]
<1>1. aMapa = [x \in Fds |-> aMapa[x]] /\ SonMensajes(aMapa[s], DatosAlMapa)
    BY Tipos DEF MundoTypeOK, SonBuzones
<1>2. aMapa'[s] = Tail(aMapa[s]) /\ \A x \in Fds : x # s => aMapa'[x] = aMapa[x]
    BY <1>1
<1>3. Tail(aMapa[s]) # aMapa[s]
  <2> DEFINE b == aMapa[s]
             n == Len(b)
             m == [i \in 1 .. n |-> b[i]]
  <2>1. n \in Nat /\ b = m
      BY <1>1 DEF SonMensajes
  <2>2. m \in Seq({b[i] : i \in 1 .. n}) /\ Len(m) = n
      BY <2>1
  <2>3. b # <<>>
      OBVIOUS
  <2> HIDE DEF m, n, b
  <2>4. Len(Tail(m)) = n - 1 /\ n - 1 # n
      BY <2>1, <2>2, <2>3
  <2>5. Tail(b) # b
      BY <2>1, <2>2, <2>4
  <2> QED BY <2>5 DEF b
<1> QED BY <1>2, <1>3 DEF Consume

(* What is sent to one goes to nobody else.                                 *)
LEMMA SoloAEse ==
    ASSUME Control, NEW s \in Fds, NEW m, aEntrenador' = Enviado(aEntrenador, s, m)
    PROVE  /\ \A x \in Fds : x # s => aEntrenador'[x] = aEntrenador[x]
           /\ extremo[s] = "abierto" => aEntrenador'[s] = Append(aEntrenador[s], m)
<1>1. aEntrenador = [x \in Fds |-> aEntrenador[x]]
    BY Tipos DEF MundoTypeOK, SonBuzones
<1> QED BY <1>1 DEF Enviado

(* Each of the services touches only the connection served.                 *)
LEMMA AtiendeEs ==
    ASSUME Supuestos, Control, Control', ~modo.batalla, ListasOK,
           UNCHANGED <<dd, ent, seniales>>, NEW s \in Fds, s = Fd,
           \/ ObtenerPokenest \/ MoverPosicion \/ Moviendo \/ Entregar
           \/ Entregado \/ Negar \/ DarMedalla
    PROVE  Atiende(s)
<1>1. UNCHANGED <<listos, bloqueados, cola, extremo, sock, dd, ent, seniales>> /\ pl \in Pls
    BY Tipos DEF ObtenerPokenest, MoverPosicion, Moviendo, Entregar, Entregado, Negar,
                 DarMedalla, listas
<1>2. Perduran
    BY PcbObtener, PcbMover, QuietoMapa, QuietosPerduran
<1>3. /\ pl.pc \in {"recibir", "moviendo", "entregando"}
      /\ pl.pc \in Sirviendo /\ pl.pc \in Sirviendo \ {"rotar"}
      /\ pl.pc = "moviendo" <=> Moviendo
      /\ pl.pc # "moviendo" => aMapa[s] # <<>> /\ aMapa' = [aMapa EXCEPT ![s] = Tail(@)]
      /\ pl.pc = "moviendo" => aMapa' = aMapa
    BY DEF ObtenerPokenest, MoverPosicion, Moviendo, Entregar, Entregado, Negar,
           DarMedalla, Pedido, Hay, Sirviendo, Pasos
<1>4. /\ Consume /\ \A x \in Fds : x # s => aMapa'[x] = aMapa[x]
      /\ pl.pc # "moviendo" => aMapa'[s] # aMapa[s]
    BY <1>3, QuedaMenos DEF Consume
<1>5. ~Callado(s)
    BY <1>3 DEF Callado, Mueve, Entrega
<1>6. \A x \in Fds : x # s => aEntrenador'[x] = aEntrenador[x]
  <2>1. aEntrenador' = aEntrenador \/ \E m : aEntrenador' = Enviado(aEntrenador, s, m)
      BY DEF ObtenerPokenest, MoverPosicion, Moviendo, Entregar, Entregado, Negar,
             DarMedalla, Responde
  <2> QED BY <2>1, SoloAEse
<1>7. pl'.corre = pl.corre /\ (seniales = 0 /\ ~pl.cierra => ~pl'.cierra)
  <2>1. CASE \E res \in 0 .. 2 : pl' = Sigue(res)
    <3>1. PICK res \in 0 .. 2 : pl' = Sigue(res)
        BY <2>1
    <3>2. pl'.cierra = pl.cierra
        BY <1>1, <3>1 DEF Sigue, Pls
    <3> QED BY <1>3, <3>1, <3>2, SigueAdonde
  <2>2. CASE MoverPosicion \/ Entregar \/ Negar \/ DarMedalla
    <3>1. \/ \E x \in {"moviendo", "entregando", "bloquear"} : pl' = [pl EXCEPT !.pc = x]
          \/ pl' = [pl EXCEPT !.pc = "soltar", !.cierra = FALSE]
        BY <2>2 DEF MoverPosicion, Entregar, Negar, DarMedalla
    <3> QED BY <1>1, <3>1 DEF Pls
  <2>3. 0 \in 0 .. 2 /\ 2 \in 0 .. 2
      OBVIOUS
  <2> QED BY <2>1, <2>2, <2>3 DEF ObtenerPokenest, Moviendo, Entregado
<1>8. ASSUME NEW i \in DOMAIN listos
      PROVE  \/ FdEn(listos, i) = s /\ aMapa'[s] # aMapa[s]
             \/ /\ pcb'[listos[i]].punto = pcb[listos[i]].punto
                /\ pcb'[listos[i]].pide = pcb[listos[i]].pide
  <2>1. listos[i] \in 1 .. Len(pcb) /\ (FdEn(listos, i) = s <=> listos[i] = PcbEnListos(Fd))
      BY <1>3, Tipos, ElQueCorre
  <2>2. CASE ObtenerPokenest \/ MoverPosicion
    <3>1. pl.pc # "moviendo"
        BY <2>2 DEF ObtenerPokenest, MoverPosicion, Pedido
    <3> QED BY <1>4, <2>1, <2>2, <3>1, PcbObtener, PcbMover
  <2>3. CASE ~(ObtenerPokenest \/ MoverPosicion)
    <3>1. Quietos
        BY <2>3, QuietoMapa
    <3> QED BY <2>1, <3>1 DEF Quietos, EnElMismo
  <2> QED BY <2>2, <2>3
<1> QED BY <1>1, <1>2, <1>3, <1>4, <1>5, <1>6, <1>7, <1>8 DEF Atiende

(* What the planner finds in the connection of a trainer it listens to is   *)
(* what that trainer is waiting to be answered.                             *)
PideEso(t, m) ==
    \/ ent[t].espera = "coordenada" /\ m = Msg("CONOCER_POKENEST", Objetivo(t))
    \/ ent[t].espera = "ok" /\ m = Msg("MOVER_POSICION", ent[t].ultima)
    \/ ent[t].espera = "captura" /\ m = Msg("CAPTURAR", Objetivo(t))
    \/ ent[t].espera = "medalla" /\ m = Msg("TERMINE_OBJETIVOS", 0)

(* When the planner reads, what it finds is one request, that of the state  *)
(* of the trainer.                                                          *)
LEMMA LoPedido ==
    ASSUME NEW t, Charla(t), pl.pc = "recibir", aMapa[sock[t]] # <<>>
    PROVE  aEntrenador[sock[t]] = <<>> /\ \E m : aMapa[sock[t]] = <<m>> /\ PideEso(t, m)
<1> DEFINE s == sock[t]
           v == aEntrenador[s]
<1>1. ~Callado(s) /\ ~Entrega(s) /\ ~Mueve(s)
    BY DEF Callado, Entrega, Mueve
<1>2. ent[t].espera # "nada"
    BY <1>1 DEF Charla, Nada
<1>3. CASE ent[t].espera = "coordenada"
  <2>1. EsperaCoordenada(Objetivo(t), s, v)
      BY <1>3 DEF Charla
  <2> QED BY <1>1, <1>3, <2>1 DEF EsperaCoordenada, Pendiente, Solo, TrasAcuse, PideEso
<1>4. CASE ent[t].espera = "ok"
  <2>1. EsperaOk(ent[t].ultima, s, v)
      BY <1>4 DEF Charla
  <2> QED BY <1>1, <1>4, <2>1 DEF EsperaOk, Solo, PideEso
<1>5. CASE ent[t].espera = "captura"
  <2>1. EsperaCaptura(Objetivo(t), s, v)
      BY <1>5 DEF Charla
  <2> QED BY <1>1, <1>5, <2>1 DEF EsperaCaptura, Solo, PideEso
<1>6. CASE ent[t].espera = "medalla"
  <2>1. EsperaMedalla(s, v)
      BY <1>6 DEF Charla
  <2> QED BY <1>1, <1>6, <2>1 DEF EsperaMedalla, Pendiente, Solo, TrasAcuse, PideEso
<1>7. ent[t].espera # "copia"
    BY <1>1 DEF Charla
<1> QED BY <1>2, <1>3, <1>4, <1>5, <1>6, <1>7, CharlaEs

(* And it takes it for what it is.                                          *)
LEMMA PedidoSuyo ==
    ASSUME Control, NEW tipo, NEW s \in Fds, s = Fd, Pedido(tipo),
           NEW t \in Entrenadores, sock[t] = s, Charla(t)
    PROVE  /\ aEntrenador[s] = <<>> /\ aMapa'[s] = <<>> /\ aMapa[s] # <<>>
           /\ tipo = "CONOCER_POKENEST" =>
                ent[t].espera = "coordenada" /\ Head(aMapa[s]).dato = Objetivo(t)
           /\ tipo = "MOVER_POSICION" =>
                ent[t].espera = "ok" /\ Head(aMapa[s]).dato = ent[t].ultima
           /\ tipo = "CAPTURAR" =>
                ent[t].espera = "captura" /\ Head(aMapa[s]).dato = Objetivo(t)
           /\ tipo = "TERMINE_OBJETIVOS" => ent[t].espera = "medalla"
<1>1. pl.pc = "recibir" /\ aMapa[s] # <<>> /\ Head(aMapa[s]).tipo = tipo
      /\ aMapa' = [aMapa EXCEPT ![s] = Tail(@)]
    BY DEF Pedido, Hay
<1>2. PICK m : aMapa[s] = <<m>> /\ PideEso(t, m)
    BY <1>1, LoPedido
<1>3. aEntrenador[s] = <<>>
    BY <1>1, LoPedido
<1>4. Head(<<m>>) = m /\ Tail(<<m>>) = <<>>
    OBVIOUS
<1>5. aMapa'[s] = <<>> /\ m.tipo = tipo /\ Head(aMapa[s]) = m
    BY <1>1, <1>2, <1>4, QuedaMenos
<1> QED BY <1>1, <1>2, <1>3, <1>5 DEF PideEso, Msg

(* The answer is alone in it.                                               *)
LEMMA Respuesta ==
    ASSUME Control, NEW s \in Fds, s = Fd, NEW tipo, NEW dato, Responde(tipo, dato),
           extremo[s] = "abierto", aEntrenador[s] = <<>>
    PROVE  aEntrenador'[s] = <<Msg(tipo, dato)>>
<1>1. aEntrenador' = Enviado(aEntrenador, s, Msg(tipo, dato))
    BY DEF Responde
<1>2. aEntrenador'[s] = Append(aEntrenador[s], Msg(tipo, dato))
    BY <1>1, SoloAEse
<1> QED BY <1>2

(* Where the pokenest is.                                                   *)
LEMMA CorrespondeObtener ==
    ASSUME Supuestos, Control, Control', ~modo.batalla, ListasOK, UNCHANGED <<dd, ent, seniales>>,
           NEW s \in Fds, s = Fd, ObtenerPokenest
    PROVE  Corresponde(s)
<1> DEFINE p == Head(aMapa[s]).dato
<1>1. /\ Pedido("CONOCER_POKENEST") /\ Responde("COORDENADA", Coordenada[p]) /\ pl' = Sigue(2)
      /\ UNCHANGED <<sock, listos, ent, extremo>>
    BY DEF ObtenerPokenest
<1>2. pl.pc \in Sirviendo \ {"rotar"}
    BY <1>1, PedidoEs
<1>3. pl'.pc \in {"recibir", "elegir", "quitar", "rotar"}
  <2>1. 2 \in 0 .. 2
      OBVIOUS
  <2> QED BY <1>1, <1>2, <2>1, SigueAdonde
<1>4. ASSUME NEW t \in Entrenadores, sock[t] = s, Charla(t)
      PROVE  /\ ent[t].espera = "coordenada" /\ p = Objetivo(t)
             /\ aMapa'[s] = <<>> /\ aMapa[s] # <<>>
             /\ aEntrenador'[s] = <<Msg("COORDENADA", Coordenada[Objetivo(t)])>>
  <2>1. aEntrenador[s] = <<>> /\ ent[t].espera = "coordenada" /\ p = Objetivo(t)
        /\ aMapa'[s] = <<>> /\ aMapa[s] # <<>>
      BY <1>1, <1>4, PedidoSuyo
  <2>2. extremo[s] = "abierto"
      BY <1>4 DEF ListasOK, SocketsOK, Fds
  <2> QED BY <1>1, <2>1, <2>2, Respuesta
<1> HIDE DEF p
<1>5. ASSUME NEW t \in Entrenadores, sock[t] = s, Charla(t) PROVE Charla(t)'
  <2>1. Callado(sock[t])'
      BY <1>1, <1>3, <1>4, <1>5 DEF Callado, Mueve, Entrega
  <2>2. EsperaCoordenada(Objetivo(t), sock[t], aEntrenador[sock[t]])'
      BY <1>1, <1>4, <1>5, <2>1 DEF EsperaCoordenada, Objetivo
  <2> QED BY <1>1, <1>4, <1>5, <2>2 DEF Charla
<1>6. ASSUME NEW t \in Entrenadores, NEW i \in DOMAIN listos, sock[t] = s, Charla(t),
             FdEn(listos, i) = s, Anotado(t, i)
      PROVE  Anotado(t, i)'
  <2>1. listos[i] = PcbEnListos(Fd) /\ listos[i] \in 1 .. Len(pcb)
      BY <1>2, <1>6, ElQueCorre, Tipos
  <2>2. pcb'[listos[i]].punto = pcb[listos[i]].punto /\ pcb'[listos[i]].pide = p
      BY <2>1, PcbObtener DEF p
  <2>3. PuntoDe(t)' = PuntoDe(t) /\ Objetivo(t)' = Objetivo(t) /\ ~SeLeVa(t)'
      BY <1>1, <1>4, <1>6 DEF PuntoDe, Objetivo, SeLeVa
  <2> QED BY <1>1, <1>4, <1>6, <2>2, <2>3 DEF Anotado
<1> QED BY <1>3, <1>5, <1>6 DEF Corresponde

(* A move: the map knows where the trainer goes to be.                      *)
LEMMA CorrespondeMover ==
    ASSUME Supuestos, Control, Control', ~modo.batalla, ListasOK, UNCHANGED <<dd, ent, seniales>>,
           NEW s \in Fds, s = Fd, MoverPosicion
    PROVE  Corresponde(s)
<1> DEFINE dir == Head(aMapa[s]).dato
<1>1. /\ Pedido("MOVER_POSICION") /\ pl' = [pl EXCEPT !.pc = "moviendo"]
      /\ UNCHANGED <<sock, listos, ent, extremo, aEntrenador>>
    BY DEF MoverPosicion
<1>2. pl.pc \in Sirviendo
    BY <1>1, PedidoEs
<1>3. pl'.pc = "moviendo" /\ Fd' = s
  <2>1. pl'.pc = "moviendo" /\ pl'.corre = pl.corre /\ pl.pc # "elegir"
      BY <1>1, Tipos DEF Pls, Pedido
  <2> QED BY <2>1, PcbMover, MismoFd
<1>4. ASSUME NEW t \in Entrenadores, sock[t] = s, Charla(t)
      PROVE  /\ ent[t].espera = "ok" /\ dir = ent[t].ultima
             /\ aMapa'[s] = <<>> /\ aMapa[s] # <<>> /\ aEntrenador[s] = <<>>
      BY <1>1, <1>4, PedidoSuyo
<1> HIDE DEF dir
<1>5. ASSUME NEW t \in Entrenadores, sock[t] = s, Charla(t) PROVE Charla(t)'
  <2>1. EsperaOk(ent[t].ultima, sock[t], aEntrenador[sock[t]])'
      BY <1>1, <1>3, <1>4, <1>5 DEF EsperaOk, Mueve
  <2> QED BY <1>1, <1>4, <1>5, <2>1 DEF Charla
<1>6. ASSUME NEW t \in Entrenadores, NEW i \in DOMAIN listos, sock[t] = s, Charla(t),
             FdEn(listos, i) = s, Anotado(t, i)
      PROVE  Anotado(t, i)'
  <2>1. listos[i] = PcbEnListos(Fd) /\ listos[i] \in 1 .. Len(pcb)
      BY <1>2, <1>6, ElQueCorre, Tipos
  <2>2. /\ pcb'[listos[i]].punto = Paso(pcb[listos[i]].punto, dir)
        /\ pcb'[listos[i]].pide = pcb[listos[i]].pide
      BY <2>1, PcbMover DEF dir
  <2>3. PuntoDe(t) = ent[t].pos /\ PuntoDe(t)' = Paso(ent[t].pos, ent[t].ultima)
      BY <1>1, <1>4, <1>6 DEF PuntoDe
  <2>4. Objetivo(t)' = Objetivo(t) /\ ~SeLeVa(t)' /\ (SabeQuePide(t)' => SabeQuePide(t))
      BY <1>1, <1>4, <1>6 DEF Objetivo, SeLeVa, SabeQuePide
  <2> QED BY <1>1, <1>4, <1>6, <2>2, <2>3, <2>4 DEF Anotado
<1> QED BY <1>3, <1>5, <1>6 DEF Corresponde

(* ... and the trainer is told so once it is drawn.                         *)
LEMMA CorrespondeMoviendo ==
    ASSUME Supuestos, Control, Control', ~modo.batalla, ListasOK, UNCHANGED <<dd, ent, seniales>>,
           NEW s \in Fds, s = Fd, Moviendo
    PROVE  Corresponde(s)
<1>1. /\ pl.pc = "moviendo" /\ Responde("OK", 0) /\ pl' = Sigue(0) /\ pcb' = Conocida(pcb)
      /\ UNCHANGED <<sock, listos, ent, extremo, aMapa>>
      /\ pl.pc \in Sirviendo \ {"rotar"} /\ pl.pc \in Sirviendo
    BY DEF Moviendo, Sirviendo, Pasos
<1>2. pl'.pc \in {"recibir", "elegir", "quitar", "rotar"}
  <2>1. 0 \in 0 .. 2
      OBVIOUS
  <2> QED BY <1>1, <2>1, SigueAdonde
<1>3. Quietos
    BY <1>1, QuietoConocida
<1>4. ASSUME NEW t \in Entrenadores, sock[t] = s, Charla(t)
      PROVE  /\ ent[t].espera = "ok" /\ aMapa[s] = <<>> /\ aEntrenador'[s] = <<Msg("OK", 0)>>
  <2>1. Mueve(s) /\ ~Callado(s) /\ ~Entrega(s)
      BY <1>1 DEF Mueve, Callado, Entrega
  <2>2. ent[t].espera = "ok"
      BY <1>4, <2>1, CharlaEs DEF Nada, EsperaCoordenada, EsperaCaptura, EsperaMedalla,
                                  Pendiente, Solo, TrasAcuse
  <2>3. EsperaOk(ent[t].ultima, s, aEntrenador[s])
      BY <1>4, <2>2 DEF Charla
  <2>4. aMapa[s] = <<>> /\ aEntrenador[s] = <<>>
      BY <2>1, <2>3 DEF EsperaOk, Solo
  <2>5. extremo[s] = "abierto"
      BY <1>4 DEF ListasOK, SocketsOK, Fds
  <2> QED BY <1>1, <2>2, <2>4, <2>5, Respuesta
<1>5. ASSUME NEW t \in Entrenadores, sock[t] = s, Charla(t) PROVE Charla(t)'
  <2>1. Callado(sock[t])'
      BY <1>1, <1>2, <1>4, <1>5 DEF Callado, Mueve, Entrega
  <2>2. EsperaOk(ent[t].ultima, sock[t], aEntrenador[sock[t]])'
      BY <1>1, <1>4, <1>5, <2>1 DEF EsperaOk
  <2> QED BY <1>1, <1>4, <1>5, <2>2 DEF Charla
<1>6. ASSUME NEW t \in Entrenadores, NEW i \in DOMAIN listos, sock[t] = s, Charla(t),
             FdEn(listos, i) = s, Anotado(t, i)
      PROVE  Anotado(t, i)'
  <2>1. listos[i] \in 1 .. Len(pcb)
      BY Tipos
  <2>2. /\ pcb'[listos[i]].punto = pcb[listos[i]].punto
        /\ pcb'[listos[i]].pide = pcb[listos[i]].pide
      BY <1>3, <2>1 DEF Quietos, EnElMismo
  <2>3. /\ PuntoDe(t)' = PuntoDe(t) /\ Objetivo(t)' = Objetivo(t) /\ ~SeLeVa(t)'
        /\ (SabeQuePide(t)' <=> SabeQuePide(t))
      BY <1>1, <1>4, <1>6 DEF PuntoDe, Objetivo, SeLeVa, SabeQuePide
  <2> QED BY <1>1, <1>6, <2>2, <2>3 DEF Anotado
<1> QED BY <1>2, <1>5, <1>6 DEF Corresponde

(* A request to capture, and the medal: what the map has of the trainer     *)
(* does not change.                                                         *)
LEMMA CorrespondePedido ==
    ASSUME Supuestos, Control, Control', ~modo.batalla, ListasOK, UNCHANGED <<dd, ent, seniales>>,
           NEW s \in Fds, s = Fd, NEW tipo \in {"CAPTURAR", "TERMINE_OBJETIVOS"}, Pedido(tipo),
           UNCHANGED <<sock, listos, extremo, pcb>>,
           NEW t \in Entrenadores, sock[t] = s, Charla(t),
           tipo = "TERMINE_OBJETIVOS" => pl'.pc = "soltar" /\ pl'.corre = pl.corre
    PROVE  \A i \in DOMAIN listos : FdEn(listos, i) = s /\ Anotado(t, i) => Anotado(t, i)'
<1>1. ent[t].espera \in {"captura", "medalla"} /\ aMapa'[s] = <<>> /\ aMapa[s] # <<>>
      /\ (ent[t].espera = "medalla" => tipo = "TERMINE_OBJETIVOS")
  <2>1. "captura" # "medalla"
      OBVIOUS
  <2> QED BY <2>1, PedidoSuyo
<1>2. /\ PuntoDe(t)' = PuntoDe(t) /\ Objetivo(t)' = Objetivo(t)
      /\ (SabeQuePide(t)' <=> SabeQuePide(t))
    BY <1>1 DEF PuntoDe, Objetivo, SabeQuePide
<1>3. SeLeVa(t)' => Despidiendo(sock[t])'
    BY <1>1 DEF SeLeVa, Despidiendo, Fd
<1> QED BY <1>2, <1>3 DEF Anotado

(* There is one to give.                                                    *)
LEMMA CorrespondeEntregar ==
    ASSUME Supuestos, Control, Control', ~modo.batalla, ListasOK, UNCHANGED <<dd, ent, seniales>>,
           NEW s \in Fds, s = Fd, Entregar
    PROVE  Corresponde(s)
<1> DEFINE p == Head(aMapa[s]).dato
<1>1. /\ Pedido("CAPTURAR") /\ Responde("TE_DOY", p) /\ pl' = [pl EXCEPT !.pc = "entregando"]
      /\ UNCHANGED <<sock, listos, ent, extremo, pcb>>
    BY DEF Entregar, listas
<1>2. pl'.pc = "entregando" /\ Fd' = s
    BY <1>1, Tipos DEF Pls, Fd
<1>3. ASSUME NEW t \in Entrenadores, sock[t] = s, Charla(t)
      PROVE  /\ ent[t].espera = "captura" /\ aMapa'[s] = <<>>
             /\ aEntrenador'[s] = <<Msg("TE_DOY", Objetivo(t))>>
  <2>1. /\ aEntrenador[s] = <<>> /\ ent[t].espera = "captura" /\ p = Objetivo(t)
        /\ aMapa'[s] = <<>>
      BY <1>1, <1>3, PedidoSuyo
  <2>2. extremo[s] = "abierto"
      BY <1>3 DEF ListasOK, SocketsOK, Fds
  <2> QED BY <1>1, <2>1, <2>2, Respuesta
<1>4. ASSUME NEW t \in Entrenadores, sock[t] = s, Charla(t) PROVE Charla(t)'
  <2>1. EsperaCaptura(Objetivo(t), sock[t], aEntrenador[sock[t]])'
      BY <1>1, <1>2, <1>3, <1>4 DEF EsperaCaptura, Entrega, Objetivo
  <2> QED BY <1>1, <1>3, <1>4, <2>1 DEF Charla
<1>5. "CAPTURAR" \in {"CAPTURAR", "TERMINE_OBJETIVOS"} /\ "CAPTURAR" # "TERMINE_OBJETIVOS"
    OBVIOUS
<1>6. \A t \in Entrenadores, i \in DOMAIN listos :
         sock[t] = s /\ Charla(t) /\ FdEn(listos, i) = s /\ Anotado(t, i) => Anotado(t, i)'
    BY <1>1, <1>5, CorrespondePedido
<1> QED BY <1>2, <1>4, <1>6 DEF Corresponde

(* There is none: the trainer was not blocked already.                      *)
LEMMA CorrespondeNegar ==
    ASSUME Supuestos, Control, Control', ~modo.batalla, SinReuso, ListasOK, Charlas,
           UNCHANGED <<dd, ent, seniales>>, NEW s \in Fds, s = Fd, Negar
    PROVE  Corresponde(s)
<1>1. /\ Pedido("CAPTURAR") /\ Responde("ESTAS_BLOQUEADO", 0)
      /\ pl' = [pl EXCEPT !.pc = "bloquear"]
      /\ UNCHANGED <<sock, listos, bloqueados, ent, extremo, pcb>>
    BY DEF Negar, listas
<1>2. pl'.pc = "bloquear" /\ Fd' = s
    BY <1>1, Tipos DEF Pls, Fd
<1>3. ASSUME NEW t \in Entrenadores, sock[t] = s, Charla(t)
      PROVE  /\ ent[t].espera = "captura" /\ aMapa'[s] = <<>> /\ aMapa[s] # <<>>
             /\ aEntrenador'[s] = Negado /\ aEntrenador[s] = <<>>
  <2>1. /\ aEntrenador[s] = <<>> /\ ent[t].espera = "captura"
        /\ aMapa'[s] = <<>> /\ aMapa[s] # <<>>
      BY <1>1, <1>3, PedidoSuyo
  <2>2. extremo[s] = "abierto"
      BY <1>3 DEF ListasOK, SocketsOK, Fds
  <2> QED BY <1>1, <2>1, <2>2, Respuesta DEF Negado
<1>4. ASSUME NEW t \in Entrenadores, sock[t] = s, Charla(t) PROVE Charla(t)' /\ Detenido(t)'
  <2>1. Callado(sock[t])'
      BY <1>1, <1>2, <1>3, <1>4 DEF Callado, Mueve, Entrega
  <2>2. EsperaCaptura(Objetivo(t), sock[t], aEntrenador[sock[t]])'
      BY <1>1, <1>3, <1>4, <2>1 DEF EsperaCaptura
  <2> QED BY <1>1, <1>3, <1>4, <2>2 DEF Charla, Detenido
<1>5. "CAPTURAR" \in {"CAPTURAR", "TERMINE_OBJETIVOS"} /\ "CAPTURAR" # "TERMINE_OBJETIVOS"
    OBVIOUS
<1>6. \A t \in Entrenadores, i \in DOMAIN listos :
         sock[t] = s /\ Charla(t) /\ FdEn(listos, i) = s /\ Anotado(t, i) => Anotado(t, i)'
    BY <1>1, <1>5, CorrespondePedido
<1>7. ASSUME NEW j \in DOMAIN bloqueados, FdEn(bloqueados, j) = s, ~SeLibera(j) PROVE FALSE
  <2>1. pl.pc = "recibir" /\ pl.pc \in Sirviendo /\ pl.pc \in Sirviendo \ {"soltar", "quitando"}
        /\ aMapa[s] # <<>>
      BY <1>1 DEF Pedido, Hay, Sirviendo, Pasos
  <2>2. \A t \in Entrenadores : sock[t] # s
    <3> SUFFICES ASSUME NEW t \in Entrenadores, sock[t] = s PROVE FALSE
        OBVIOUS
    <3>1. Charla(t) /\ Detenido(t)
        BY <1>7 DEF Charlas, DialogosOK, PresosOK, Fds
    <3> QED BY <2>1, <3>1, DetenidoEs DEF Callado
  <2>3. seniales # 0
      BY <2>1, <2>2, Presente DEF Charlas
  <2>4. modo.alg = "RR"
      BY <2>3 DEF SinReuso
  <2>5. PICK i \in DOMAIN listos : FdEn(listos, i) = s
      BY <2>1, ElQueCorre
  <2>6. TerminaElTurno(i)
      BY <1>7, <2>4, <2>5 DEF ListasOK, BloqueadosOK
  <2> QED BY <2>1, <2>6 DEF TerminaElTurno
<1> QED BY <1>2, <1>4, <1>6, <1>7 DEF Corresponde

(* It has them all.                                                         *)
LEMMA CorrespondeMedalla ==
    ASSUME Supuestos, Control, Control', ~modo.batalla, ListasOK, UNCHANGED <<dd, ent, seniales>>,
           NEW s \in Fds, s = Fd, DarMedalla
    PROVE  Corresponde(s)
<1>1. /\ Pedido("TERMINE_OBJETIVOS") /\ Responde("MEDALLA", 0)
      /\ pl' = [pl EXCEPT !.pc = "soltar", !.cierra = FALSE]
      /\ UNCHANGED <<sock, listos, ent, extremo, pcb>>
    BY DEF DarMedalla, listas
<1>2. pl'.pc = "soltar" /\ pl'.corre = pl.corre /\ Fd' = s
    BY <1>1, Tipos DEF Pls, Fd
<1>3. ASSUME NEW t \in Entrenadores, sock[t] = s, Charla(t)
      PROVE  /\ ent[t].espera = "medalla" /\ aMapa'[s] = <<>>
             /\ aEntrenador'[s] = <<Msg("MEDALLA", 0)>>
  <2>1. aEntrenador[s] = <<>> /\ ent[t].espera = "medalla" /\ aMapa'[s] = <<>>
      BY <1>1, <1>3, PedidoSuyo
  <2>2. extremo[s] = "abierto"
      BY <1>3 DEF ListasOK, SocketsOK, Fds
  <2> QED BY <1>1, <2>1, <2>2, Respuesta
<1>4. ASSUME NEW t \in Entrenadores, sock[t] = s, Charla(t) PROVE Charla(t)'
  <2>1. Callado(sock[t])'
      BY <1>1, <1>2, <1>3, <1>4 DEF Callado, Mueve, Entrega
  <2>2. EsperaMedalla(sock[t], aEntrenador[sock[t]])'
      BY <1>1, <1>3, <1>4, <2>1 DEF EsperaMedalla
  <2> QED BY <1>1, <1>3, <1>4, <2>2 DEF Charla
<1>5. "TERMINE_OBJETIVOS" \in {"CAPTURAR", "TERMINE_OBJETIVOS"}
    OBVIOUS
<1>6. \A t \in Entrenadores, i \in DOMAIN listos :
         sock[t] = s /\ Charla(t) /\ FdEn(listos, i) = s /\ Anotado(t, i) => Anotado(t, i)'
    BY <1>1, <1>2, <1>5, CorrespondePedido
<1> QED BY <1>2, <1>4, <1>6 DEF Corresponde

(* The pokemon is the trainer's, which may have asked for something else    *)
(* meanwhile.                                                               *)
Acusado(t, s) ==
    \/ /\ ent[t].espera = "nada" /\ ent[t].estado \in {"SIN_POKENEST", "CON_TODOS"}
       /\ aMapa[s] = <<Msg("ACK", 0)>>
    \/ /\ ent[t].espera = "coordenada"
       /\ aMapa[s] = <<Msg("ACK", 0), Msg("CONOCER_POKENEST", Objetivo(t))>>
    \/ /\ ent[t].espera = "medalla"
       /\ aMapa[s] = <<Msg("ACK", 0), Msg("TERMINE_OBJETIVOS", 0)>>

(* When it waits for the copy, what it finds first is the acknowledgement.  *)
LEMMA LoAcusado ==
    ASSUME NEW t, Charla(t), Entrega(sock[t]), aMapa[sock[t]] # <<>>
    PROVE  aEntrenador[sock[t]] = <<>> /\ Acusado(t, sock[t])
<1> DEFINE s == sock[t]
           v == aEntrenador[s]
<1>1. ~Callado(s) /\ Entrega(s) /\ ~Mueve(s)
    BY DEF Callado, Entrega, Mueve
<1>2. CASE ent[t].espera = "nada"
  <2>1. Nada(ent[t], s, v)
      BY <1>2 DEF Charla
  <2> QED BY <1>1, <1>2, <2>1 DEF Nada, Acusado
<1>3. CASE ent[t].espera = "coordenada"
  <2>1. EsperaCoordenada(Objetivo(t), s, v)
      BY <1>3 DEF Charla
  <2> QED BY <1>1, <1>3, <2>1 DEF EsperaCoordenada, Pendiente, Solo, TrasAcuse, Acusado
<1>4. ent[t].espera # "ok"
    BY <1>1 DEF Charla, EsperaOk, Solo
<1>5. ent[t].espera # "captura"
    BY <1>1 DEF Charla, EsperaCaptura, Solo
<1>6. CASE ent[t].espera = "medalla"
  <2>1. EsperaMedalla(s, v)
      BY <1>6 DEF Charla
  <2> QED BY <1>1, <1>6, <2>1 DEF EsperaMedalla, Pendiente, Solo, TrasAcuse, Acusado
<1>7. ent[t].espera # "copia"
    BY DEF Charla
<1> QED BY <1>2, <1>3, <1>4, <1>5, <1>6, <1>7, CharlaEs

(* The pokemon was copied.                                                  *)
LEMMA CorrespondeEntregado ==
    ASSUME Supuestos, Control, Control', ~modo.batalla, ListasOK, UNCHANGED <<dd, ent, seniales>>,
           NEW s \in Fds, s = Fd, Entregado
    PROVE  Corresponde(s)
<1>1. /\ pl.pc = "entregando" /\ pl' = Sigue(0) /\ aMapa[s] # <<>>
      /\ aMapa' = [aMapa EXCEPT ![s] = Tail(@)]
      /\ UNCHANGED <<sock, listos, ent, extremo, aEntrenador>>
      /\ pl.pc \in Sirviendo \ {"rotar"}
    BY DEF Entregado, Hay, Sirviendo, Pasos
<1>2. pl'.pc \in {"recibir", "elegir", "quitar", "rotar"}
  <2>1. 0 \in 0 .. 2
      OBVIOUS
  <2> QED BY <1>1, <2>1, SigueAdonde
<1>3. Quietos
    BY QuietoMapa
<1>4. aMapa'[s] = Tail(aMapa[s])
    BY <1>1, QuedaMenos
<1>5. ASSUME NEW t \in Entrenadores, sock[t] = s, Charla(t)
      PROVE  /\ aEntrenador'[s] = <<>> /\ ent[t].espera \notin {"ok", "captura", "copia"}
             /\ \/ /\ ent[t].espera = "nada" /\ ent[t].estado \in {"SIN_POKENEST", "CON_TODOS"}
                   /\ aMapa'[s] = <<>>
                \/ /\ ent[t].espera = "coordenada"
                   /\ aMapa'[s] = <<Msg("CONOCER_POKENEST", Objetivo(t))>>
                \/ /\ ent[t].espera = "medalla"
                   /\ aMapa'[s] = <<Msg("TERMINE_OBJETIVOS", 0)>>
  <2>1. Entrega(s)
      BY <1>1 DEF Entrega
  <2>2. aEntrenador[s] = <<>> /\ Acusado(t, s)
      BY <1>1, <1>5, <2>1, LoAcusado
  <2>3. \A a, b : Tail(<<a, b>>) = <<b>> /\ Tail(<<a>>) = <<>>
      OBVIOUS
  <2> QED BY <1>1, <1>4, <2>2, <2>3 DEF Acusado
<1>6. ASSUME NEW t \in Entrenadores, sock[t] = s, Charla(t) PROVE Charla(t)'
  <2>1. ~Mueve(sock[t])' /\ ~Entrega(sock[t])' /\ sock'[t] = s /\ ent'[t] = ent[t]
        /\ Objetivo(t)' = Objetivo(t)
      BY <1>1, <1>2, <1>6 DEF Mueve, Entrega, Objetivo
  <2>2. CASE ent[t].espera = "nada"
    <3>1. Nada(ent[t], sock[t], aEntrenador[sock[t]])'
        BY <1>5, <1>6, <2>1, <2>2 DEF Nada, Callado
    <3> QED BY <2>1, <2>2, <3>1 DEF Charla
  <2>3. CASE ent[t].espera = "coordenada"
    <3>1. EsperaCoordenada(Objetivo(t), sock[t], aEntrenador[sock[t]])'
        BY <1>5, <1>6, <2>1, <2>3 DEF EsperaCoordenada, Pendiente, Solo
    <3> QED BY <2>1, <2>3, <3>1 DEF Charla
  <2>4. CASE ent[t].espera = "medalla"
    <3>1. EsperaMedalla(sock[t], aEntrenador[sock[t]])'
        BY <1>5, <1>6, <2>1, <2>4 DEF EsperaMedalla, Pendiente, Solo
    <3> QED BY <2>1, <2>4, <3>1 DEF Charla
  <2> QED BY <1>5, <1>6, <2>2, <2>3, <2>4
<1>7. ASSUME NEW t \in Entrenadores, NEW i \in DOMAIN listos, sock[t] = s, Charla(t),
             FdEn(listos, i) = s, Anotado(t, i)
      PROVE  Anotado(t, i)'
  <2>1. listos[i] \in 1 .. Len(pcb)
      BY Tipos
  <2>2. /\ pcb'[listos[i]].punto = pcb[listos[i]].punto
        /\ pcb'[listos[i]].pide = pcb[listos[i]].pide
      BY <1>3, <2>1 DEF Quietos, EnElMismo
  <2>3. /\ PuntoDe(t)' = PuntoDe(t) /\ Objetivo(t)' = Objetivo(t) /\ ~SeLeVa(t)'
        /\ (SabeQuePide(t)' => SabeQuePide(t))
      BY <1>1, <1>5, <1>7 DEF PuntoDe, Objetivo, SeLeVa, SabeQuePide
  <2> QED BY <1>1, <1>7, <2>2, <2>3 DEF Anotado
<1> QED BY <1>2, <1>6, <1>7 DEF Corresponde

(* What the planner does for the one that runs.                             *)
LEMMA CharlasServicio ==
    ASSUME Supuestos, Control, Control', ~modo.batalla, SinReuso, ListasOK, Charlas,
           UNCHANGED <<dd, ent, seniales>>,
           \/ ObtenerPokenest \/ MoverPosicion \/ Moviendo \/ Entregar
           \/ Entregado \/ Negar \/ DarMedalla
    PROVE  Charlas'
<1>1. pl.pc \in Sirviendo
    BY DEF ObtenerPokenest, MoverPosicion, Moviendo, Entregar, Entregado, Negar,
           DarMedalla, Pedido, Sirviendo, Pasos
<1>2. PICK s \in Fds : s = Fd
    BY <1>1, Sirve
<1>3. Atiende(s)
    BY <1>2, AtiendeEs
<1>4. Corresponde(s)
    BY <1>2, CorrespondeObtener, CorrespondeMover, CorrespondeMoviendo, CorrespondeEntregar,
       CorrespondeEntregado, CorrespondeNegar, CorrespondeMedalla
<1> QED BY <1>2, <1>3, <1>4, CharlasAtiende

-----------------------------------------------------------------------------
(* The trainers and the conversations.                                      *)

(* The map is where it was.                                                 *)
LEMMA MapaQuieto ==
    ASSUME Control, UNCHANGED <<mapa, dd>>
    PROVE  /\ UNCHANGED <<modo, pcb, listos, bloqueados, pl, dd>> /\ Fd' = Fd /\ Perduran
           /\ \A s : (Mueve(s)' <=> Mueve(s)) /\ (Entrega(s)' <=> Entrega(s))
                     /\ (Despidiendo(s)' <=> Despidiendo(s))
           /\ \A j : SeLibera(j)' <=> SeLibera(j)
           /\ \A i : /\ FdEn(listos, i)' = FdEn(listos, i)
                     /\ FdEn(bloqueados, i)' = FdEn(bloqueados, i)
<1>1. UNCHANGED <<modo, pcb, listos, bloqueados, pl, dd>>
    BY DEF mapa
<1>2. Fd' = Fd
    BY <1>1 DEF Fd
<1>3. Perduran
    BY <1>1, QuietoIgual, QuietosPerduran
<1> QED BY <1>1, <1>2, <1>3 DEF Mueve, Entrega, Despidiendo, SeLibera, FdEn

(* A trainer that says or hears something, or nothing.                      *)
Habla(t, s) ==
    /\ UNCHANGED <<mapa, dd, extremo, sock, cola>>
    /\ seniales' = 0 => seniales = 0
    /\ \A x \in Fds : x # s => aMapa'[x] = aMapa[x] /\ aEntrenador'[x] = aEntrenador[x]
    /\ \A u \in Entrenadores : u # t => ent'[u] = ent[u]

(* The map knows where the one of this connection is and what it wants.     *)
SeEspera(s, p) ==
    /\ \A i \in DOMAIN cola : cola[i].fd # s
    /\ \A i \in DOMAIN listos : FdEn(listos, i) = s =>
         pcb[listos[i]].punto = Coordenada[p] /\ pcb[listos[i]].pide = p

(* What it says is alone, or comes after the notice of a capture.           *)
Dice(s) ==
    \/ aMapa'[s] = aMapa[s]
    \/ \E m : /\ aMapa'[s] \in {<<m>>, <<Msg("ACK", 0), m>>}
              /\ m.tipo # "CAPTURAR"
    \/ \E p : aMapa'[s] = <<Msg("CAPTURAR", p)>> /\ SeEspera(s, p)

(* A step of one trainer in its own connection: what it says must follow the*)
(* conversation.                                                            *)
LEMMA CharlasHabla ==
    ASSUME Supuestos, Control, ~modo.batalla, ListasOK, Charlas,
           NEW t \in Entrenadores, NEW s \in Fds, sock[t] = s, Habla(t, s), Dice(s),
           Charla(t)', Rumbo(t)', RecienLlegado(t) => RecienLlegado(t)',
           Detenido(t) => Detenido(t)',
           \A i \in DOMAIN listos : FdEn(listos, i) = s /\ Anotado(t, i) => Anotado(t, i)'
    PROVE  Charlas'
<1>1. /\ UNCHANGED <<modo, pcb, listos, bloqueados, pl, dd>> /\ Fd' = Fd /\ Perduran
      /\ \A x : (Mueve(x)' <=> Mueve(x)) /\ (Entrega(x)' <=> Entrega(x))
                /\ (Despidiendo(x)' <=> Despidiendo(x))
      /\ \A j : SeLibera(j)' <=> SeLibera(j)
      /\ \A i : /\ FdEn(listos, i)' = FdEn(listos, i)
                /\ FdEn(bloqueados, i)' = FdEn(bloqueados, i)
    BY MapaQuieto DEF Habla
<1>2. UNCHANGED <<extremo, sock, cola>> /\ (seniales' = 0 => seniales = 0)
    BY DEF Habla
<1>3. /\ DialogosOK /\ AnotadosOK /\ LlegadosOK /\ ConectadosOK
      /\ CapturasOK /\ PresosOK /\ PresentesOK
    BY DEF Charlas
<1>4. ASSUME NEW u \in Entrenadores, u # t PROVE Intacto(u)
  <2>1. sock[u] # 0 => sock[u] \in Fds /\ sock[u] # s
      BY <1>4, Tipos DEF ListasOK, SocketsOK, MundoTypeOK
  <2> QED BY <1>1, <1>2, <1>4, <2>1 DEF Intacto, Habla
<1>5. DialogosOK'
    BY <1>3, <1>4, DialogosPaso
<1>6. AnotadosOK'
  <2>1. ASSUME NEW i \in DOMAIN listos, NEW u \in Entrenadores,
               sock[u] = FdEn(listos, i), Anotado(u, i)
        PROVE  Anotado(u, i)'
    <3>1. CASE u = t
        BY <2>1, <3>1
    <3>2. CASE u # t
      <4>1. sock[u] # 0
          BY <2>1, SonFds DEF Fds
      <4>2. SeLeVa(u) => Despidiendo(sock[u])'
          BY <1>1, <1>2, <2>1 DEF Anotado
      <4> QED BY <1>1, <1>4, <2>1, <3>2, <4>1, <4>2, IntactoAnotado
    <3> QED BY <3>1, <3>2
  <2> QED BY <1>1, <1>2, <1>3, <2>1, AnotadosPaso
<1>7. LlegadosOK'
  <2> SUFFICES ASSUME NEW u \in Entrenadores, NEW i \in DOMAIN cola, cola[i].fd = sock[u]
               PROVE  RecienLlegado(u)'
      BY <1>2 DEF LlegadosOK
  <2>1. sock[u] # 0 /\ RecienLlegado(u)
      BY <1>3, SonFds DEF LlegadosOK, Fds
  <2> QED BY <1>4, <2>1, IntactoLlegado
<1>8. ConectadosOK'
  <2>1. ent'[t].estado \notin {"SIN_MAPA", "MAPA_COMPLETADO", "SALIO"} /\ sock'[t] # 0
      BY <1>2 DEF Rumbo, Fds
  <2> QED BY <1>2, <1>3, <2>1 DEF ConectadosOK, Habla
<1>9. CapturasOK'
  <2>1. CASE aMapa'[s] = aMapa[s]
    <3>1. \A x \in Fds : aMapa'[x] = aMapa[x]
        BY <2>1 DEF Habla
    <3>2. Consume /\ SonDeLaCola
        BY <1>2, <3>1 DEF Consume, SonDeLaCola
    <3> QED BY <1>1, <1>3, <3>2, CapturasPaso
  <2>2. CASE aMapa'[s] # aMapa[s]
    <3>1. /\ \A k \in 2 .. Len(aMapa'[s]) : aMapa'[s][k].tipo # "CAPTURAR"
          /\ EsCaptura(s)' =>
               /\ \A i \in DOMAIN cola : cola[i].fd # s
               /\ \A i \in DOMAIN listos : FdEn(listos, i) = s =>
                    /\ pcb[listos[i]].punto = Coordenada[Head(aMapa'[s]).dato]
                    /\ pcb[listos[i]].pide = Head(aMapa'[s]).dato
      <4>1. CASE \E m : /\ aMapa'[s] \in {<<m>>, <<Msg("ACK", 0), m>>}
                        /\ m.tipo # "CAPTURAR"
        <5>1. PICK m : /\ aMapa'[s] \in {<<m>>, <<Msg("ACK", 0), m>>}
                       /\ m.tipo # "CAPTURAR"
            BY <4>1
        <5>2. \A a, b : /\ Head(<<a>>) = a /\ Head(<<a, b>>) = a /\ <<a, b>>[2] = b
                        /\ Len(<<a>>) = 1 /\ Len(<<a, b>>) = 2
            OBVIOUS
        <5>3. ~EsCaptura(s)'
            BY <5>1, <5>2 DEF EsCaptura, Msg
        <5>4. ASSUME NEW k \in 2 .. Len(aMapa'[s]) PROVE aMapa'[s][k].tipo # "CAPTURAR"
          <6>1. Len(aMapa'[s]) = 2 /\ aMapa'[s] = <<Msg("ACK", 0), m>>
            <7>1. aMapa'[s] # <<m>>
              <8>1. aMapa'[s] = <<m>> => Len(aMapa'[s]) = 1
                  BY <5>2
              <8>2. 2 .. 1 = {}
                  OBVIOUS
              <8>3. Len(aMapa'[s]) # 1
                  BY <5>4, <8>2
              <8> QED BY <8>1, <8>3
            <7> QED BY <5>1, <5>2, <7>1
          <6>2. k = 2
              BY <5>4, <6>1
          <6> QED BY <5>1, <5>2, <6>1, <6>2
        <5> QED BY <5>3, <5>4
      <4>2. CASE \E p : aMapa'[s] = <<Msg("CAPTURAR", p)>> /\ SeEspera(s, p)
        <5>1. PICK p : aMapa'[s] = <<Msg("CAPTURAR", p)>> /\ SeEspera(s, p)
            BY <4>2
        <5>2. \A a : Head(<<a>>) = a /\ Len(<<a>>) = 1
            OBVIOUS
        <5>3. Head(aMapa'[s]).dato = p /\ Len(aMapa'[s]) = 1
            BY <5>1, <5>2 DEF Msg
        <5>4. 2 .. Len(aMapa'[s]) = {}
            BY <5>3
        <5>5. \A k \in 2 .. Len(aMapa'[s]) : aMapa'[s][k].tipo # "CAPTURAR"
            BY <5>4
        <5>6. SeEspera(s, Head(aMapa'[s]).dato)
          <6>1. SeEspera(s, p)
              BY <5>1
          <6> QED BY <5>3, <6>1
        <5>7. /\ \A i \in DOMAIN cola : cola[i].fd # s
              /\ \A i \in DOMAIN listos : FdEn(listos, i) = s =>
                   /\ pcb[listos[i]].punto = Coordenada[Head(aMapa'[s]).dato]
                   /\ pcb[listos[i]].pide = Head(aMapa'[s]).dato
            BY <5>6 DEF SeEspera
        <5> QED BY <5>5, <5>7
      <4> QED BY <2>2, <4>1, <4>2 DEF Dice
    <3>2. \A x \in Fds : x # s => aMapa'[x] = aMapa[x]
        BY DEF Habla
    <3>3. \A x \in Fds : \A k \in 2 .. Len(aMapa'[x]) : aMapa'[x][k].tipo # "CAPTURAR"
        BY <1>3, <3>1, <3>2 DEF CapturasOK
    <3>4. ASSUME NEW i \in DOMAIN cola PROVE ~EsCaptura(cola[i].fd)'
      <4>1. cola[i].fd \in Fds /\ ~EsCaptura(cola[i].fd)
          BY <1>3, SonFds DEF CapturasOK
      <4> QED BY <1>2, <3>1, <3>2, <4>1 DEF EsCaptura
    <3>5. ASSUME NEW i \in DOMAIN listos, EsCaptura(pcb[listos[i]].fd)'
          PROVE  /\ pcb[listos[i]].punto = Coordenada[Head(aMapa'[pcb[listos[i]].fd]).dato]
                 /\ pcb[listos[i]].pide = Head(aMapa'[pcb[listos[i]].fd]).dato
      <4>1. pcb[listos[i]].fd \in Fds
          BY SonFds DEF FdEn
      <4>2. CASE pcb[listos[i]].fd = s
          BY <1>1, <3>1, <3>5, <4>2 DEF FdEn, EsCaptura
      <4>3. CASE pcb[listos[i]].fd # s
        <5>1. EsCaptura(pcb[listos[i]].fd)
            BY <1>1, <3>2, <3>5, <4>1, <4>3 DEF EsCaptura
        <5> QED BY <1>3, <3>2, <4>1, <4>3, <5>1 DEF CapturasOK
      <4> QED BY <4>2, <4>3
    <3> QED BY <1>1, <1>2, <3>3, <3>4, <3>5 DEF CapturasOK
  <2> QED BY <2>1, <2>2
<1>10. PresosOK'
  <2>1. ASSUME NEW u \in Entrenadores, sock[u] \in Fds, Detenido(u) PROVE Detenido(u)'
    <3>1. sock[u] # 0
        BY <2>1 DEF Fds
    <3> QED BY <1>4, <2>1, <3>1, IntactoDetenido
  <2>2. \A u \in Entrenadores, j \in DOMAIN bloqueados :
              FdEn(bloqueados, j) = sock[u] /\ ~SeLibera(j)' /\ Detenido(u) => Detenido(u)'
      BY <2>1, SonFds
  <2>3. pl'.pc = "bloquear" =>
             /\ \A j \in DOMAIN bloqueados : FdEn(bloqueados, j) = Fd' => SeLibera(j)'
             /\ \A u \in Entrenadores : sock[u] = Fd' => Detenido(u)'
    <3>1. pl.pc = "bloquear" => Fd \in Fds
      <4>1. pl.pc = "bloquear" => pl.pc \in Sirviendo
          BY DEF Sirviendo, Pasos
      <4> QED BY <4>1, Sirve
    <3> QED BY <1>1, <1>3, <2>1, <3>1 DEF PresosOK
  <2>4. \A j \in DOMAIN bloqueados : extremo'[FdEn(bloqueados, j)] # "libre"
      BY <1>2, <1>3 DEF PresosOK
  <2> QED BY <1>1, <1>2, <1>3, <2>2, <2>3, <2>4, PresosPaso
<1>11. PresentesOK'
    BY <1>1, <1>2, <1>3 DEF PresentesOK
<1> QED BY <1>5, <1>6, <1>7, <1>8, <1>9, <1>10, <1>11 DEF Charlas

(* Who is in the map has a connection, and talks.                           *)
LEMMA EnCharla ==
    ASSUME Control, Charlas, NEW t \in Entrenadores,
           \/ ent[t].estado \notin {"SIN_MAPA", "MAPA_COMPLETADO", "SALIO"}
           \/ sock[t] # 0
    PROVE  /\ sock[t] \in Fds /\ sock[t] # 0 /\ Charla(t) /\ Rumbo(t)
           /\ ent \in [Entrenadores -> Ents] /\ ent[t] \in Ents
<1>1. sock[t] # 0
    BY DEF Charlas, ConectadosOK
<1>2. sock[t] \in Fds
    BY <1>1, Tipos DEF MundoTypeOK
<1> QED BY <1>1, <1>2, TiposEnt DEF Charlas, DialogosOK

(* It says something more.                                                  *)
LEMMA DiceUno ==
    ASSUME Control, NEW t \in Entrenadores, NEW s \in Fds, sock[t] = s, NEW m,
           UNCHANGED <<mapa, dd, aEntrenador, extremo, sock, cola, seniales>>,
           aMapa' = [aMapa EXCEPT ![sock[t]] = Append(@, m)],
           \A u \in Entrenadores : u # t => ent'[u] = ent[u]
    PROVE  /\ Habla(t, s) /\ aEntrenador'[s] = aEntrenador[s]
           /\ aMapa[s] = <<>> => aMapa'[s] = <<m>>
           /\ \A a : aMapa[s] = <<a>> => aMapa'[s] = <<a, m>>
<1>1. aMapa = [x \in Fds |-> aMapa[x]]
    BY Tipos DEF MundoTypeOK, SonBuzones
<1>2. aMapa'[s] = Append(aMapa[s], m) /\ \A x \in Fds : x # s => aMapa'[x] = aMapa[x]
    BY <1>1
<1>3. \A b : Append(<<>>, b) = <<b>>
    OBVIOUS
<1>4. ASSUME NEW a PROVE Append(<<a>>, m) = <<a, m>>
  <2> DEFINE S == {a, m}
  <2>1. <<a>> \in Seq(S) /\ <<a, m>> \in Seq(S) /\ m \in S
      OBVIOUS
  <2>2. <<a>>[1] = a /\ <<a, m>>[1] = a /\ <<a, m>>[2] = m
        /\ Len(<<a>>) = 1 /\ Len(<<a, m>>) = 2
      OBVIOUS
  <2> HIDE DEF S
  <2>3. /\ Append(<<a>>, m) \in Seq(S) /\ Len(Append(<<a>>, m)) = 2
        /\ Append(<<a>>, m)[1] = a /\ Append(<<a>>, m)[2] = m
      BY <2>1, <2>2, AppendProperties
  <2>4. \A i \in 1 .. 2 : Append(<<a>>, m)[i] = <<a, m>>[i]
      BY <2>2, <2>3
  <2> QED BY <2>1, <2>2, <2>3, <2>4, SeqEqual
<1>5. ASSUME NEW a, aMapa[s] = <<a>> PROVE aMapa'[s] = <<a, m>>
    BY <1>2, <1>4, <1>5
<1>6. aMapa[s] = <<>> => aMapa'[s] = <<m>>
    BY <1>2, <1>3
<1>7. Habla(t, s)
    BY <1>2 DEF Habla
<1> QED BY <1>5, <1>6, <1>7

(* It reads an answer.                                                      *)
LEMMA OyeUno ==
    ASSUME Control, NEW t \in Entrenadores, NEW r, Recibe(t, r),
           NEW s \in Fds, sock[t] = s,
           UNCHANGED <<mapa, dd, aMapa, extremo, sock, cola, seniales>>,
           \A u \in Entrenadores : u # t => ent'[u] = ent[u]
    PROVE  /\ Habla(t, s) /\ Dice(s) /\ aMapa'[s] = aMapa[s]
           /\ aEntrenador[s] # <<>> /\ aEntrenador'[s] = Tail(aEntrenador[s])
<1>1. aEntrenador = [x \in Fds |-> aEntrenador[x]]
    BY Tipos DEF MundoTypeOK, SonBuzones
<1>2. aEntrenador'[s] = Tail(aEntrenador[s])
      /\ \A x \in Fds : x # s => aEntrenador'[x] = aEntrenador[x]
    BY <1>1 DEF Recibe
<1> QED BY <1>2 DEF Habla, Dice, Recibe

(* What may follow the notice of a capture: where the next pokenest is, or  *)
(* that there are no more.                                                  *)
LEMMA CharlasPide ==
    ASSUME Supuestos, Control, ~modo.batalla, ListasOK, Charlas,
           NEW t \in Entrenadores, UNCHANGED <<mapa, dd>>,
           NEW estado, NEW m, NEW r, Pide(t, estado, m, r),
           \/ /\ estado = "SIN_POKENEST" /\ r = "coordenada"
              /\ m = Msg("CONOCER_POKENEST", Objetivo(t))
           \/ /\ estado = "CON_TODOS" /\ r = "medalla"
              /\ m = Msg("TERMINE_OBJETIVOS", 0)
    PROVE  Charlas'
<1>1. /\ ent[t].estado = estado /\ ent[t].espera = "nada"
      /\ estado \in {"SIN_POKENEST", "CON_TODOS"}
      /\ UNCHANGED <<aEntrenador, extremo, sock, cola, seniales>>
      /\ aMapa' = [aMapa EXCEPT ![sock[t]] = Append(@, m)]
      /\ ent' = [ent EXCEPT ![t].espera = r]
    BY DEF Pide
<1>2. /\ sock[t] \in Fds /\ Charla(t) /\ Rumbo(t)
      /\ ent \in [Entrenadores -> Ents] /\ ent[t] \in Ents
    BY <1>1, EnCharla
<1>3. PICK s \in Fds : s = sock[t]
    BY <1>2
<1>4. /\ ent'[t].estado = estado /\ ent'[t].espera = r
      /\ ent'[t].pos = ent[t].pos /\ ent'[t].obj = ent[t].obj
      /\ \A u \in Entrenadores : u # t => ent'[u] = ent[u]
    BY <1>1, <1>2 DEF Ents
<1>5. Objetivo(t)' = Objetivo(t) /\ m.tipo # "CAPTURAR"
    BY <1>4 DEF Objetivo, Msg
<1>6. /\ Habla(t, s) /\ aEntrenador'[s] = aEntrenador[s]
      /\ aMapa[s] = <<>> => aMapa'[s] = <<m>>
      /\ \A a : aMapa[s] = <<a>> => aMapa'[s] = <<a, m>>
    BY <1>1, <1>3, <1>4, DiceUno
<1>7. aEntrenador[s] = <<>>
      /\ (Callado(s) \/ (aMapa[s] = <<Msg("ACK", 0)>> /\ Entrega(s)))
    BY <1>1, <1>2, <1>3 DEF Charla, Nada
<1>8. /\ aMapa'[s] = <<m>> \/ (aMapa'[s] = <<Msg("ACK", 0), m>> /\ Entrega(s))
      /\ aMapa'[s] = <<m>> => Callado(s)
  <2>1. CASE Callado(s)
      BY <1>6, <2>1 DEF Callado
  <2>2. CASE ~Callado(s)
    <3>1. aMapa[s] = <<Msg("ACK", 0)>> /\ Entrega(s)
        BY <1>7, <2>2
    <3>2. aMapa'[s] = <<Msg("ACK", 0), m>>
        BY <1>6, <3>1
    <3>3. <<Msg("ACK", 0), m>> # <<m>>
        OBVIOUS
    <3> QED BY <3>1, <3>2, <3>3
  <2> QED BY <2>1, <2>2
<1>9. aMapa'[s] # <<>> /\ Dice(s)
  <2>1. <<m>> # <<>> /\ <<Msg("ACK", 0), m>> # <<>>
      OBVIOUS
  <2>2. aMapa'[s] \in {<<m>>, <<Msg("ACK", 0), m>>}
      BY <1>8
  <2>3. Dice(s)
      BY <1>5, <2>2 DEF Dice
  <2> QED BY <2>1, <2>2, <2>3
<1>10. \A x : (Mueve(x)' <=> Mueve(x)) /\ (Entrega(x)' <=> Entrega(x))
    BY MapaQuieto
<1>11. Charla(t)'
  <2>1. Solo(s, m)' \/ TrasAcuse(s, m)'
    <3>1. CASE aMapa'[s] = <<m>>
        BY <1>8, <1>10, <3>1 DEF Solo, Callado
    <3>2. CASE aMapa'[s] # <<m>>
        BY <1>8, <1>10, <3>2 DEF TrasAcuse
    <3> QED BY <3>1, <3>2
  <2>2. Pendiente(s, m)'
      BY <2>1 DEF Pendiente
  <2>3. CASE r = "coordenada"
    <3>1. m = Msg("CONOCER_POKENEST", Objetivo(t)')
        BY <1>5, <2>3
    <3>2. EsperaCoordenada(Objetivo(t), s, aEntrenador[s])'
        BY <1>6, <1>7, <2>2, <3>1 DEF EsperaCoordenada
    <3> QED BY <1>1, <1>3, <1>4, <2>3, <3>2 DEF Charla
  <2>4. CASE r = "medalla"
    <3>1. m = Msg("TERMINE_OBJETIVOS", 0)
        BY <2>4
    <3>2. EsperaMedalla(s, aEntrenador[s])'
        BY <1>6, <1>7, <2>2, <3>1 DEF EsperaMedalla
    <3> QED BY <1>1, <1>3, <1>4, <2>4, <3>2 DEF Charla
  <2> QED BY <2>3, <2>4
<1>12. Rumbo(t)'
    BY <1>1, <1>4 DEF Rumbo
<1>13. RecienLlegado(t) => RecienLlegado(t)'
    BY <1>1, <1>3, <1>4, <1>6, <1>9 DEF RecienLlegado, SabeQuePide
<1>14. ~Detenido(t)
    BY <1>1 DEF Detenido
<1>15. ASSUME NEW i \in DOMAIN listos, Anotado(t, i) PROVE Anotado(t, i)'
  <2>1. PuntoDe(t)' = PuntoDe(t)
      BY <1>1, <1>4 DEF PuntoDe
  <2>2. ~SabeQuePide(t)' /\ ~SeLeVa(t)'
      BY <1>1, <1>3, <1>4, <1>9 DEF SabeQuePide, SeLeVa
  <2>3. UNCHANGED <<pcb, listos>>
      BY MapaQuieto
  <2> QED BY <1>15, <2>1, <2>2, <2>3 DEF Anotado
<1> QED BY <1>3, <1>6, <1>9, <1>11, <1>12, <1>13, <1>14, <1>15, CharlasHabla

(* It asks where its pokenest is, or for its medal.                         *)
LEMMA CharlasPedidos ==
    ASSUME Supuestos, Control, ~modo.batalla, ListasOK, Charlas,
           NEW t \in Entrenadores, UNCHANGED <<mapa, dd>>, Conocer(t) \/ NotificarFin(t)
    PROVE  Charlas'
<1>1. CASE Conocer(t)
  <2>1. PICK m : m = Msg("CONOCER_POKENEST", Objetivo(t))
      OBVIOUS
  <2>2. Pide(t, "SIN_POKENEST", m, "coordenada")
      BY <1>1, <2>1 DEF Conocer
  <2> QED BY <2>1, <2>2, CharlasPide
<1>2. CASE NotificarFin(t)
  <2>1. PICK m : m = Msg("TERMINE_OBJETIVOS", 0)
      OBVIOUS
  <2>2. Pide(t, "CON_TODOS", m, "medalla")
      BY <1>2, <2>1 DEF NotificarFin
  <2> QED BY <2>1, <2>2, CharlasPide
<1> QED BY <1>1, <1>2

(* A step.                                                                  *)
LEMMA CharlasMover ==
    ASSUME Supuestos, Control, ~modo.batalla, ListasOK, Charlas,
           NEW t \in Entrenadores, UNCHANGED <<mapa, dd>>, Mover(t)
    PROVE  Charlas'
<1>1. PICK dir : dir = ObtenerDireccion(ent[t].meta, ent[t].pos, ent[t].ultima)
    OBVIOUS
<1>2. PICK m : m = Msg("MOVER_POSICION", dir)
    OBVIOUS
<1>3. /\ ent[t].estado = "EN_CAMINO" /\ ent[t].espera = "nada"
      /\ UNCHANGED <<aEntrenador, extremo, sock, cola, seniales>>
      /\ aMapa' = [aMapa EXCEPT ![sock[t]] = Append(@, m)]
      /\ ent' = [ent EXCEPT ![t].espera = "ok", ![t].ultima = dir]
    BY <1>1, <1>2 DEF Mover
<1>4. /\ sock[t] \in Fds /\ Charla(t) /\ Rumbo(t)
      /\ ent \in [Entrenadores -> Ents] /\ ent[t] \in Ents
    BY <1>3, EnCharla
<1>5. PICK s \in Fds : s = sock[t]
    BY <1>4
<1>6. /\ ent'[t].estado = "EN_CAMINO" /\ ent'[t].espera = "ok" /\ ent'[t].ultima = dir
      /\ ent'[t].pos = ent[t].pos /\ ent'[t].obj = ent[t].obj /\ ent'[t].meta = ent[t].meta
      /\ \A u \in Entrenadores : u # t => ent'[u] = ent[u]
    BY <1>3, <1>4 DEF Ents
<1>7. Objetivo(t)' = Objetivo(t) /\ m.tipo # "CAPTURAR"
    BY <1>2, <1>6 DEF Objetivo, Msg
<1>8. /\ Habla(t, s) /\ aEntrenador'[s] = aEntrenador[s]
      /\ aMapa[s] = <<>> => aMapa'[s] = <<m>>
    BY <1>3, <1>5, <1>6, DiceUno
<1>9. aEntrenador[s] = <<>> /\ Callado(s)
    BY <1>3, <1>4, <1>5 DEF Charla, Nada
<1>10. aMapa'[s] = <<m>>
    BY <1>8, <1>9 DEF Callado
<1>11. aMapa'[s] # <<>> /\ Dice(s)
  <2>1. <<m>> # <<>>
      OBVIOUS
  <2>2. Dice(s)
      BY <1>7, <1>10 DEF Dice
  <2> QED BY <1>10, <2>1, <2>2
<1>12. \A x : (Mueve(x)' <=> Mueve(x)) /\ (Entrega(x)' <=> Entrega(x))
    BY MapaQuieto
<1>13. Charla(t)'
  <2>1. Solo(s, Msg("MOVER_POSICION", dir))'
      BY <1>2, <1>9, <1>10, <1>12 DEF Solo, Callado
  <2>2. EsperaOk(ent[t].ultima, s, aEntrenador[s])'
      BY <1>6, <1>8, <1>9, <2>1 DEF EsperaOk
  <2> QED BY <1>3, <1>5, <1>6, <2>2 DEF Charla
<1>14. Rumbo(t)'
    BY <1>3, <1>4, <1>6, <1>7 DEF Rumbo
<1>15. ~RecienLlegado(t) /\ ~Detenido(t)
    BY <1>3 DEF RecienLlegado, Detenido
<1>16. ASSUME NEW i \in DOMAIN listos, Anotado(t, i) PROVE Anotado(t, i)'
  <2>1. PuntoDe(t)' = PuntoDe(t)
      BY <1>3, <1>5, <1>6, <1>11 DEF PuntoDe
  <2>2. SabeQuePide(t) /\ ~SeLeVa(t)'
      BY <1>3, <1>6 DEF SabeQuePide, SeLeVa
  <2>3. UNCHANGED <<pcb, listos>>
      BY MapaQuieto
  <2> QED BY <1>7, <1>16, <2>1, <2>2, <2>3 DEF Anotado
<1> QED BY <1>5, <1>8, <1>11, <1>13, <1>14, <1>15, <1>16, CharlasHabla

(* It asks for the pokemon where it is.                                     *)
LEMMA CharlasCapturar ==
    ASSUME Supuestos, Control, ~modo.batalla, ListasOK, Charlas,
           NEW t \in Entrenadores, UNCHANGED <<mapa, dd>>, Capturar(t)
    PROVE  Charlas'
<1>1. PICK p : p = Objetivo(t)
    OBVIOUS
<1>2. PICK m : m = Msg("CAPTURAR", p)
    OBVIOUS
<1>3. /\ ent[t].estado = "EN_POKENEST" /\ ent[t].espera = "nada"
      /\ UNCHANGED <<aEntrenador, extremo, sock, cola, seniales>>
      /\ aMapa' = [aMapa EXCEPT ![sock[t]] = Append(@, m)]
      /\ ent' = [ent EXCEPT ![t].espera = "captura"]
    BY <1>1, <1>2 DEF Capturar, Pide
<1>4. /\ sock[t] \in Fds /\ Charla(t) /\ Rumbo(t)
      /\ ent \in [Entrenadores -> Ents] /\ ent[t] \in Ents
    BY <1>3, EnCharla
<1>5. PICK s \in Fds : s = sock[t]
    BY <1>4
<1>6. /\ ent'[t].estado = "EN_POKENEST" /\ ent'[t].espera = "captura"
      /\ ent'[t].pos = ent[t].pos /\ ent'[t].obj = ent[t].obj /\ ent'[t].meta = ent[t].meta
      /\ \A u \in Entrenadores : u # t => ent'[u] = ent[u]
    BY <1>3, <1>4 DEF Ents
<1>7. Objetivo(t)' = p
    BY <1>1, <1>6 DEF Objetivo
<1>8. /\ Habla(t, s) /\ aEntrenador'[s] = aEntrenador[s]
      /\ aMapa[s] = <<>> => aMapa'[s] = <<m>>
    BY <1>3, <1>5, <1>6, DiceUno
<1>9. aEntrenador[s] = <<>> /\ Callado(s)
    BY <1>3, <1>4, <1>5 DEF Charla, Nada
<1>10. aMapa'[s] = <<m>>
    BY <1>8, <1>9 DEF Callado
<1>11. SeEspera(s, p)
  <2>1. \A i \in DOMAIN cola : cola[i].fd # s
      BY <1>3, <1>5 DEF Charlas, LlegadosOK, RecienLlegado
  <2>2. ASSUME NEW i \in DOMAIN listos, FdEn(listos, i) = s
        PROVE  pcb[listos[i]].punto = Coordenada[p] /\ pcb[listos[i]].pide = p
    <3>1. Anotado(t, i)
        BY <1>5, <2>2 DEF Charlas, AnotadosOK
    <3>2. PuntoDe(t) = ent[t].pos /\ SabeQuePide(t)
        BY <1>3 DEF PuntoDe, SabeQuePide
    <3>3. ent[t].pos = Coordenada[p]
        BY <1>1, <1>3, <1>4 DEF Rumbo
    <3> QED BY <1>1, <3>1, <3>2, <3>3 DEF Anotado
  <2> QED BY <2>1, <2>2 DEF SeEspera
<1>12. aMapa'[s] # <<>> /\ Dice(s)
  <2>1. <<m>> # <<>>
      OBVIOUS
  <2>2. Dice(s)
      BY <1>2, <1>10, <1>11 DEF Dice
  <2> QED BY <1>10, <2>1, <2>2
<1>13. \A x : (Mueve(x)' <=> Mueve(x)) /\ (Entrega(x)' <=> Entrega(x))
    BY MapaQuieto
<1>14. Charla(t)'
  <2>1. Solo(s, Msg("CAPTURAR", p))'
      BY <1>2, <1>9, <1>10, <1>13 DEF Solo, Callado
  <2>2. EsperaCaptura(Objetivo(t), s, aEntrenador[s])'
      BY <1>7, <1>8, <1>9, <2>1 DEF EsperaCaptura
  <2> QED BY <1>3, <1>5, <1>6, <2>2 DEF Charla
<1>15. Rumbo(t)'
    BY <1>1, <1>3, <1>4, <1>6, <1>7 DEF Rumbo
<1>16. ~RecienLlegado(t) /\ ~Detenido(t)
    BY <1>3 DEF RecienLlegado, Detenido
<1>17. ASSUME NEW i \in DOMAIN listos, Anotado(t, i) PROVE Anotado(t, i)'
  <2>1. PuntoDe(t)' = PuntoDe(t)
      BY <1>3, <1>6 DEF PuntoDe
  <2>2. SabeQuePide(t) /\ ~SeLeVa(t)'
      BY <1>3, <1>6 DEF SabeQuePide, SeLeVa
  <2>3. UNCHANGED <<pcb, listos>>
      BY MapaQuieto
  <2> QED BY <1>1, <1>7, <1>17, <2>1, <2>2, <2>3 DEF Anotado
<1> QED BY <1>5, <1>8, <1>12, <1>14, <1>15, <1>16, <1>17, CharlasHabla

(* It has copied the file.                                                  *)
LEMMA CharlasAcusar ==
    ASSUME Supuestos, Control, ~modo.batalla, ListasOK, Charlas,
           NEW t \in Entrenadores, UNCHANGED <<mapa, dd>>, Acusar(t)
    PROVE  Charlas'
<1>1. PICK m : m = Msg("ACK", 0)
    OBVIOUS
<1>2. PICK st \in {"CON_TODOS", "SIN_POKENEST"} :
         ent' = [ent EXCEPT ![t].espera = "nada", ![t].obj = @ + 1, ![t].estado = st]
    BY DEF Acusar
<1>3. /\ ent[t].espera = "copia"
      /\ UNCHANGED <<aEntrenador, extremo, sock, cola, seniales>>
      /\ aMapa' = [aMapa EXCEPT ![sock[t]] = Append(@, m)]
    BY <1>1 DEF Acusar
<1>4. ent[t].estado = "EN_POKENEST"
    BY <1>3, TiposEnt DEF Coherente, EstadoQueEspera
<1>5. /\ sock[t] \in Fds /\ Charla(t) /\ Rumbo(t)
      /\ ent \in [Entrenadores -> Ents] /\ ent[t] \in Ents
    BY <1>4, EnCharla
<1>6. PICK s \in Fds : s = sock[t]
    BY <1>5
<1>7. /\ ent'[t].estado = st /\ ent'[t].espera = "nada" /\ ent'[t].pos = ent[t].pos
      /\ \A u \in Entrenadores : u # t => ent'[u] = ent[u]
    BY <1>2, <1>5 DEF Ents
<1>8. /\ Habla(t, s) /\ aEntrenador'[s] = aEntrenador[s]
      /\ aMapa[s] = <<>> => aMapa'[s] = <<m>>
    BY <1>3, <1>6, <1>7, DiceUno
<1>9. aEntrenador[s] = <<>> /\ aMapa[s] = <<>> /\ Entrega(s)
    BY <1>3, <1>5, <1>6 DEF Charla
<1>10. aMapa'[s] = <<m>>
    BY <1>8, <1>9
<1>11. aMapa'[s] # <<>> /\ Dice(s)
  <2>1. <<m>> # <<>>
      OBVIOUS
  <2>2. m.tipo # "CAPTURAR"
      BY <1>1 DEF Msg
  <2>3. Dice(s)
      BY <1>10, <2>2 DEF Dice
  <2> QED BY <1>10, <2>1, <2>3
<1>12. Entrega(s)'
    BY <1>9, MapaQuieto
<1>13. Charla(t)'
  <2>1. Nada(ent[t], s, aEntrenador[s])'
      BY <1>1, <1>7, <1>8, <1>9, <1>10, <1>12 DEF Nada
  <2> QED BY <1>3, <1>6, <1>7, <2>1 DEF Charla
<1>14. Rumbo(t)'
    BY <1>7 DEF Rumbo
<1>15. ~RecienLlegado(t) /\ ~Detenido(t)
    BY <1>3, <1>4 DEF RecienLlegado, Detenido
<1>16. ASSUME NEW i \in DOMAIN listos, Anotado(t, i) PROVE Anotado(t, i)'
  <2>1. PuntoDe(t)' = PuntoDe(t)
      BY <1>3, <1>7 DEF PuntoDe
  <2>2. ~SabeQuePide(t)' /\ ~SeLeVa(t)'
      BY <1>7 DEF SabeQuePide, SeLeVa
  <2>3. UNCHANGED <<pcb, listos>>
      BY MapaQuieto
  <2> QED BY <1>16, <2>1, <2>2, <2>3 DEF Anotado
<1> QED BY <1>6, <1>8, <1>11, <1>13, <1>14, <1>15, <1>16, CharlasHabla

(* Of an answer alone, nothing is left.                                     *)
LEMMA UnaSola ==
    ASSUME NEW q, NEW m, q = <<m>>
    PROVE  Head(q) = m /\ Tail(q) = <<>> /\ q # <<>>
<1>1. \A a : Head(<<a>>) = a /\ Tail(<<a>>) = <<>> /\ <<a>> # <<>>
    OBVIOUS
<1> QED BY <1>1

(* Nor of the refusal, but for the release that may follow.                 *)
LEMMA TrasNegar ==
    ASSUME NEW q, NEW m, q = Append(Negado, m)
    PROVE  Head(q) = Msg("ESTAS_BLOQUEADO", 0) /\ Tail(q) = <<m>> /\ q # Negado /\ q # <<>>
<1> DEFINE S == {Msg("ESTAS_BLOQUEADO", 0), m}
<1>1. Negado \in Seq(S) /\ m \in S /\ Negado # <<>>
    BY DEF Negado
<1>2. Head(Negado) = Msg("ESTAS_BLOQUEADO", 0) /\ Tail(Negado) = <<>> /\ Len(Negado) = 1
    BY DEF Negado
<1>3. Append(<<>>, m) = <<m>>
    OBVIOUS
<1> HIDE DEF S
<1>4. Head(q) = Msg("ESTAS_BLOQUEADO", 0) /\ Tail(q) = <<m>>
    BY <1>1, <1>2, <1>3, HeadTailAppend
<1>5. Len(q) = 2 /\ q # <<>>
    BY <1>1, <1>2, AppendProperties
<1> QED BY <1>2, <1>4, <1>5

(* The place it asked for.                                                  *)
LEMMA CharlasCoordenada ==
    ASSUME Supuestos, Control, ~modo.batalla, ListasOK, Charlas,
           NEW t \in Entrenadores, UNCHANGED <<mapa, dd>>, RecibirCoordenada(t)
    PROVE  Charlas'
<1>1. /\ Recibe(t, "coordenada") /\ ent[t].espera = "coordenada" /\ sock[t] # 0
      /\ UNCHANGED <<aMapa, extremo, sock, cola, seniales>>
      /\ ent' = [ent EXCEPT ![t].meta = Leido(t).dato,
                            ![t].estado = "EN_CAMINO", ![t].espera = "nada"]
    BY DEF RecibirCoordenada, Recibe
<1>2. ent[t].estado = "SIN_POKENEST"
    BY <1>1, TiposEnt DEF Coherente, EstadoQueEspera
<1>3. /\ sock[t] \in Fds /\ Charla(t) /\ Rumbo(t)
      /\ ent \in [Entrenadores -> Ents] /\ ent[t] \in Ents
    BY <1>1, EnCharla
<1>4. PICK s \in Fds : s = sock[t]
    BY <1>3
<1>5. /\ ent'[t].estado = "EN_CAMINO" /\ ent'[t].espera = "nada"
      /\ ent'[t].pos = ent[t].pos /\ ent'[t].obj = ent[t].obj
      /\ ent'[t].meta = Leido(t).dato
      /\ \A u \in Entrenadores : u # t => ent'[u] = ent[u]
    BY <1>1, <1>3 DEF Ents
<1>6. Objetivo(t)' = Objetivo(t)
    BY <1>5 DEF Objetivo
<1>7. /\ Habla(t, s) /\ Dice(s) /\ aMapa'[s] = aMapa[s]
      /\ aEntrenador[s] # <<>> /\ aEntrenador'[s] = Tail(aEntrenador[s])
    BY <1>1, <1>4, <1>5, OyeUno
<1>8. Callado(s) /\ aEntrenador[s] = <<Msg("COORDENADA", Coordenada[Objetivo(t)])>>
    BY <1>1, <1>3, <1>4, <1>7 DEF Charla, EsperaCoordenada
<1>9. aEntrenador'[s] = <<>> /\ Leido(t).dato = Coordenada[Objetivo(t)]
  <2>1. PICK m : m = Msg("COORDENADA", Coordenada[Objetivo(t)])
      OBVIOUS
  <2>2. Head(aEntrenador[s]) = m /\ Tail(aEntrenador[s]) = <<>>
      BY <1>8, <2>1, UnaSola
  <2> QED BY <1>4, <1>7, <2>1, <2>2 DEF Leido, Msg
<1>10. Callado(s)'
    BY <1>7, <1>8, MapaQuieto DEF Callado
<1>11. Charla(t)'
  <2>1. Nada(ent[t], s, aEntrenador[s])'
      BY <1>5, <1>9, <1>10 DEF Nada
  <2> QED BY <1>1, <1>4, <1>5, <2>1 DEF Charla
<1>12. Rumbo(t)'
    BY <1>5, <1>6, <1>9 DEF Rumbo
<1>13. ~RecienLlegado(t) /\ ~Detenido(t)
    BY <1>1, <1>2, <1>4, <1>7 DEF RecienLlegado, Detenido
<1>14. ASSUME NEW i \in DOMAIN listos, Anotado(t, i) PROVE Anotado(t, i)'
  <2>1. PuntoDe(t)' = PuntoDe(t)
      BY <1>1, <1>5 DEF PuntoDe
  <2>2. SabeQuePide(t) /\ ~SeLeVa(t)'
      BY <1>1, <1>4, <1>5, <1>8 DEF SabeQuePide, SeLeVa, Callado
  <2>3. UNCHANGED <<pcb, listos>>
      BY MapaQuieto
  <2> QED BY <1>6, <1>14, <2>1, <2>2, <2>3 DEF Anotado
<1> QED BY <1>4, <1>7, <1>11, <1>12, <1>13, <1>14, CharlasHabla

(* Its step is confirmed: both are now where the map had it.                *)
LEMMA CharlasMovido ==
    ASSUME Supuestos, Control, ~modo.batalla, ListasOK, Charlas,
           NEW t \in Entrenadores, UNCHANGED <<mapa, dd>>, Movido(t)
    PROVE  Charlas'
<1>1. PICK pos : pos = Paso(ent[t].pos, ent[t].ultima)
    OBVIOUS
<1>2. ent[t].espera = "ok"
    BY DEF Movido, Recibe
<1>3. ent[t].estado = "EN_CAMINO"
    BY <1>2, TiposEnt DEF Coherente, EstadoQueEspera
<1>4. PICK st : st = IF Llego(pos, ent[t].meta) THEN "EN_POKENEST" ELSE ent[t].estado
    OBVIOUS
<1>5. /\ st \in {"EN_POKENEST", "EN_CAMINO"} /\ (st = "EN_POKENEST" => pos = ent[t].meta)
    BY <1>3, <1>4 DEF Llego
<1>6. /\ Recibe(t, "ok") /\ sock[t] # 0
      /\ UNCHANGED <<aMapa, extremo, sock, cola, seniales>>
      /\ ent' = [ent EXCEPT ![t].pos = pos, ![t].espera = "nada", ![t].estado = st]
  <2>1. /\ Recibe(t, "ok") /\ sock[t] # 0
        /\ UNCHANGED <<aMapa, extremo, sock, cola, seniales>>
      BY DEF Movido, Recibe
  <2>2. ent \in [Entrenadores -> Ents]
      BY TiposEnt
  <2>3. ent' = [ent EXCEPT ![t].pos = pos, ![t].espera = "nada",
                 ![t].estado = IF Llego(pos, ent[t].meta) THEN "EN_POKENEST" ELSE @]
      BY <1>1 DEF Movido
  <2> QED BY <1>4, <2>1, <2>2, <2>3 DEF Ents
<1>7. /\ sock[t] \in Fds /\ Charla(t) /\ Rumbo(t)
      /\ ent \in [Entrenadores -> Ents] /\ ent[t] \in Ents
    BY <1>6, EnCharla
<1>8. PICK s \in Fds : s = sock[t]
    BY <1>7
<1>9. /\ ent'[t].estado = st /\ ent'[t].espera = "nada" /\ ent'[t].pos = pos
      /\ ent'[t].obj = ent[t].obj /\ ent'[t].meta = ent[t].meta
      /\ \A u \in Entrenadores : u # t => ent'[u] = ent[u]
    BY <1>6, <1>7 DEF Ents
<1>10. Objetivo(t)' = Objetivo(t)
    BY <1>9 DEF Objetivo
<1>11. /\ Habla(t, s) /\ Dice(s) /\ aMapa'[s] = aMapa[s]
       /\ aEntrenador[s] # <<>> /\ aEntrenador'[s] = Tail(aEntrenador[s])
    BY <1>6, <1>8, <1>9, OyeUno
<1>12. Callado(s) /\ aEntrenador[s] = <<Msg("OK", 0)>>
    BY <1>2, <1>7, <1>8, <1>11 DEF Charla, EsperaOk
<1>13. aEntrenador'[s] = <<>>
  <2>1. PICK m : m = Msg("OK", 0)
      OBVIOUS
  <2> QED BY <1>11, <1>12, <2>1, UnaSola
<1>14. Callado(s)'
    BY <1>11, <1>12, MapaQuieto DEF Callado
<1>15. Charla(t)'
  <2>1. Nada(ent[t], s, aEntrenador[s])'
      BY <1>5, <1>9, <1>13, <1>14 DEF Nada
  <2> QED BY <1>6, <1>8, <1>9, <2>1 DEF Charla
<1>16. Rumbo(t)'
    BY <1>3, <1>5, <1>7, <1>9, <1>10 DEF Rumbo
<1>17. ~RecienLlegado(t) /\ ~Detenido(t)
    BY <1>2, <1>3 DEF RecienLlegado, Detenido
<1>18. ASSUME NEW i \in DOMAIN listos, Anotado(t, i) PROVE Anotado(t, i)'
  <2>1. PuntoDe(t) = pos
      BY <1>1, <1>2, <1>8, <1>12 DEF PuntoDe, Callado
  <2>2. PuntoDe(t)' = pos
      BY <1>9 DEF PuntoDe
  <2>3. SabeQuePide(t) /\ ~SeLeVa(t)'
      BY <1>3, <1>9 DEF SabeQuePide, SeLeVa
  <2>4. UNCHANGED <<pcb, listos>>
      BY MapaQuieto
  <2> QED BY <1>10, <1>18, <2>1, <2>2, <2>3, <2>4 DEF Anotado
<1> QED BY <1>8, <1>11, <1>15, <1>16, <1>17, <1>18, CharlasHabla

(* It may copy the file.                                                    *)
LEMMA CharlasCapturado ==
    ASSUME Supuestos, Control, ~modo.batalla, ListasOK, Charlas,
           NEW t \in Entrenadores, UNCHANGED <<mapa, dd>>, Capturado(t)
    PROVE  Charlas'
<1>1. /\ Recibe(t, "captura") /\ ent[t].espera = "captura" /\ sock[t] # 0
      /\ Leido(t).tipo = "TE_DOY"
      /\ UNCHANGED <<aMapa, extremo, sock, cola, seniales>>
      /\ ent' = [ent EXCEPT ![t].espera = "copia"]
    BY DEF Capturado, Recibe
<1>2. ent[t].estado = "EN_POKENEST"
    BY <1>1, TiposEnt DEF Coherente, EstadoQueEspera
<1>3. /\ sock[t] \in Fds /\ Charla(t) /\ Rumbo(t)
      /\ ent \in [Entrenadores -> Ents] /\ ent[t] \in Ents
    BY <1>1, EnCharla
<1>4. PICK s \in Fds : s = sock[t]
    BY <1>3
<1>5. /\ ent'[t].estado = "EN_POKENEST" /\ ent'[t].espera = "copia"
      /\ ent'[t].pos = ent[t].pos /\ ent'[t].obj = ent[t].obj /\ ent'[t].meta = ent[t].meta
      /\ \A u \in Entrenadores : u # t => ent'[u] = ent[u]
    BY <1>1, <1>2, <1>3 DEF Ents
<1>6. Objetivo(t)' = Objetivo(t)
    BY <1>5 DEF Objetivo
<1>7. /\ Habla(t, s) /\ Dice(s) /\ aMapa'[s] = aMapa[s]
      /\ aEntrenador[s] # <<>> /\ aEntrenador'[s] = Tail(aEntrenador[s])
    BY <1>1, <1>4, <1>5, OyeUno
<1>8. Head(Negado).tipo = "ESTAS_BLOQUEADO"
    BY UnaSola DEF Negado, Msg
<1>9. aEntrenador[s] \notin {Negado, Append(Negado, Msg("ESTAS_DESBLOQUEADO", 0))}
  <2>1. aEntrenador[s] # Negado
      BY <1>1, <1>4, <1>8 DEF Leido
  <2>2. aEntrenador[s] # Append(Negado, Msg("ESTAS_DESBLOQUEADO", 0))
    <3>1. PICK m : m = Msg("ESTAS_DESBLOQUEADO", 0)
        OBVIOUS
    <3>2. aEntrenador[s] = Append(Negado, m) =>
            Head(aEntrenador[s]) = Msg("ESTAS_BLOQUEADO", 0)
        BY TrasNegar
    <3> QED BY <1>1, <1>4, <3>1, <3>2 DEF Leido, Msg
  <2> QED BY <2>1, <2>2
<1>10. aMapa[s] = <<>> /\ Entrega(s) /\ aEntrenador[s] = <<Msg("TE_DOY", Objetivo(t))>>
    BY <1>1, <1>3, <1>4, <1>7, <1>9 DEF Charla, EsperaCaptura
<1>11. aEntrenador'[s] = <<>>
  <2>1. PICK m : m = Msg("TE_DOY", Objetivo(t))
      OBVIOUS
  <2> QED BY <1>7, <1>10, <2>1, UnaSola
<1>12. Entrega(s)'
    BY <1>10, MapaQuieto
<1>13. Charla(t)'
    BY <1>1, <1>4, <1>5, <1>7, <1>10, <1>11, <1>12 DEF Charla
<1>14. Rumbo(t)'
    BY <1>2, <1>3, <1>5, <1>6 DEF Rumbo
<1>15. ~RecienLlegado(t) /\ ~Detenido(t)
    BY <1>1, <1>2, <1>4, <1>9 DEF RecienLlegado, Detenido
<1>16. ASSUME NEW i \in DOMAIN listos, Anotado(t, i) PROVE Anotado(t, i)'
  <2>1. PuntoDe(t)' = PuntoDe(t)
      BY <1>1, <1>5 DEF PuntoDe
  <2>2. SabeQuePide(t) /\ ~SeLeVa(t)'
      BY <1>2, <1>5 DEF SabeQuePide, SeLeVa
  <2>3. UNCHANGED <<pcb, listos>>
      BY MapaQuieto
  <2> QED BY <1>6, <1>16, <2>1, <2>2, <2>3 DEF Anotado
<1> QED BY <1>4, <1>7, <1>13, <1>14, <1>15, <1>16, CharlasHabla

(* It is refused.                                                           *)
LEMMA CharlasNegado ==
    ASSUME Supuestos, Control, ~modo.batalla, ListasOK, Charlas,
           NEW t \in Entrenadores, UNCHANGED <<mapa, dd>>, QuedarBloqueado(t)
    PROVE  Charlas'
<1>1. /\ Recibe(t, "captura") /\ ent[t].espera = "captura" /\ sock[t] # 0
      /\ Leido(t).tipo = "ESTAS_BLOQUEADO"
      /\ UNCHANGED <<aMapa, extremo, sock, cola, seniales>>
      /\ ent' = [ent EXCEPT ![t].espera = "nada", ![t].estado = "BLOQUEADO"]
    BY DEF QuedarBloqueado, Recibe
<1>2. ent[t].estado = "EN_POKENEST"
    BY <1>1, TiposEnt DEF Coherente, EstadoQueEspera
<1>3. /\ sock[t] \in Fds /\ Charla(t) /\ Rumbo(t)
      /\ ent \in [Entrenadores -> Ents] /\ ent[t] \in Ents
    BY <1>1, EnCharla
<1>4. PICK s \in Fds : s = sock[t]
    BY <1>3
<1>5. /\ ent'[t].estado = "BLOQUEADO" /\ ent'[t].espera = "nada"
      /\ ent'[t].pos = ent[t].pos /\ ent'[t].obj = ent[t].obj /\ ent'[t].meta = ent[t].meta
      /\ \A u \in Entrenadores : u # t => ent'[u] = ent[u]
    BY <1>1, <1>3 DEF Ents
<1>6. Objetivo(t)' = Objetivo(t)
    BY <1>5 DEF Objetivo
<1>7. /\ Habla(t, s) /\ Dice(s) /\ aMapa'[s] = aMapa[s]
      /\ aEntrenador[s] # <<>> /\ aEntrenador'[s] = Tail(aEntrenador[s])
    BY <1>1, <1>4, <1>5, OyeUno
<1>8. aEntrenador[s] # <<Msg("TE_DOY", Objetivo(t))>>
  <2>1. PICK m : m = Msg("TE_DOY", Objetivo(t))
      OBVIOUS
  <2>2. aEntrenador[s] = <<m>> => Head(aEntrenador[s]) = m
      BY UnaSola
  <2> QED BY <1>1, <1>4, <2>1, <2>2 DEF Leido, Msg
<1>9. Callado(s) /\ aEntrenador[s] \in {Negado, Append(Negado, Msg("ESTAS_DESBLOQUEADO", 0))}
    BY <1>1, <1>3, <1>4, <1>7, <1>8 DEF Charla, EsperaCaptura
<1>10. /\ aEntrenador'[s] \in {<<>>, <<Msg("ESTAS_DESBLOQUEADO", 0)>>}
       /\ aEntrenador[s] = Negado => aEntrenador'[s] = <<>>
  <2>1. aEntrenador[s] = Negado => Tail(aEntrenador[s]) = <<>>
    <3>1. PICK m : m = Msg("ESTAS_BLOQUEADO", 0)
        OBVIOUS
    <3> QED BY <3>1, UnaSola DEF Negado
  <2>2. aEntrenador[s] = Append(Negado, Msg("ESTAS_DESBLOQUEADO", 0)) =>
          /\ Tail(aEntrenador[s]) = <<Msg("ESTAS_DESBLOQUEADO", 0)>>
          /\ aEntrenador[s] # Negado
    <3>1. PICK m : m = Msg("ESTAS_DESBLOQUEADO", 0)
        OBVIOUS
    <3> QED BY <3>1, TrasNegar
  <2> QED BY <1>7, <1>9, <2>1, <2>2
<1>11. Callado(s)'
    BY <1>7, <1>9, MapaQuieto DEF Callado
<1>12. Charla(t)'
  <2>1. Nada(ent[t], s, aEntrenador[s])'
      BY <1>5, <1>10, <1>11 DEF Nada
  <2> QED BY <1>1, <1>4, <1>5, <2>1 DEF Charla
<1>13. Rumbo(t)'
    BY <1>2, <1>3, <1>5, <1>6 DEF Rumbo
<1>14. ~RecienLlegado(t)
    BY <1>2 DEF RecienLlegado
<1>15. Detenido(t) => Detenido(t)'
    BY <1>1, <1>4, <1>5, <1>10 DEF Detenido
<1>16. ASSUME NEW i \in DOMAIN listos, Anotado(t, i) PROVE Anotado(t, i)'
  <2>1. PuntoDe(t)' = PuntoDe(t)
      BY <1>1, <1>5 DEF PuntoDe
  <2>2. SabeQuePide(t) /\ ~SeLeVa(t)'
      BY <1>2, <1>5 DEF SabeQuePide, SeLeVa
  <2>3. UNCHANGED <<pcb, listos>>
      BY MapaQuieto
  <2> QED BY <1>6, <1>16, <2>1, <2>2, <2>3 DEF Anotado
<1> QED BY <1>4, <1>7, <1>12, <1>13, <1>14, <1>15, <1>16, CharlasHabla

(* It is released.                                                          *)
LEMMA CharlasDespertar ==
    ASSUME Supuestos, Control, ~modo.batalla, ListasOK, Charlas,
           NEW t \in Entrenadores, UNCHANGED <<mapa, dd>>, Despertar(t)
    PROVE  Charlas'
<1>1. /\ Recibe(t, "nada") /\ ent[t].espera = "nada" /\ sock[t] # 0
      /\ ent[t].estado = "BLOQUEADO"
      /\ UNCHANGED <<aMapa, extremo, sock, cola, seniales>>
    BY DEF Despertar, Recibe
<1>2. /\ sock[t] \in Fds /\ Charla(t) /\ Rumbo(t)
      /\ ent \in [Entrenadores -> Ents] /\ ent[t] \in Ents
    BY <1>1, EnCharla
<1>3. PICK s \in Fds : s = sock[t]
    BY <1>2
<1>4. Callado(s) /\ aEntrenador[s] = <<Msg("ESTAS_DESBLOQUEADO", 0)>>
    BY <1>1, <1>2, <1>3 DEF Charla, Nada, Recibe
<1>5. Leido(t).tipo = "ESTAS_DESBLOQUEADO" /\ Tail(aEntrenador[s]) = <<>>
  <2>1. PICK m : m = Msg("ESTAS_DESBLOQUEADO", 0)
      OBVIOUS
  <2>2. Head(aEntrenador[s]) = m /\ Tail(aEntrenador[s]) = <<>>
      BY <1>4, <2>1, UnaSola
  <2> QED BY <1>3, <2>1, <2>2 DEF Leido, Msg
<1>6. ent' = [ent EXCEPT ![t].estado = "EN_POKENEST"]
    BY <1>5 DEF Despertar
<1>7. /\ ent'[t].estado = "EN_POKENEST" /\ ent'[t].espera = "nada"
      /\ ent'[t].pos = ent[t].pos /\ ent'[t].obj = ent[t].obj /\ ent'[t].meta = ent[t].meta
      /\ \A u \in Entrenadores : u # t => ent'[u] = ent[u]
    BY <1>1, <1>2, <1>6 DEF Ents
<1>8. Objetivo(t)' = Objetivo(t)
    BY <1>7 DEF Objetivo
<1>9. /\ Habla(t, s) /\ Dice(s) /\ aMapa'[s] = aMapa[s]
      /\ aEntrenador[s] # <<>> /\ aEntrenador'[s] = Tail(aEntrenador[s])
    BY <1>1, <1>3, <1>7, OyeUno
<1>10. Callado(s)'
    BY <1>4, <1>9, MapaQuieto DEF Callado
<1>11. Charla(t)'
  <2>1. Nada(ent[t], s, aEntrenador[s])'
      BY <1>5, <1>7, <1>9, <1>10 DEF Nada
  <2> QED BY <1>1, <1>3, <1>7, <2>1 DEF Charla
<1>12. Rumbo(t)'
    BY <1>1, <1>2, <1>7, <1>8 DEF Rumbo
<1>13. ~RecienLlegado(t) /\ ~Detenido(t)
    BY <1>1, <1>3, <1>9 DEF RecienLlegado, Detenido
<1>14. ASSUME NEW i \in DOMAIN listos, Anotado(t, i) PROVE Anotado(t, i)'
  <2>1. PuntoDe(t)' = PuntoDe(t)
      BY <1>1, <1>7 DEF PuntoDe
  <2>2. SabeQuePide(t) /\ ~SeLeVa(t)'
      BY <1>1, <1>7 DEF SabeQuePide, SeLeVa
  <2>3. UNCHANGED <<pcb, listos>>
      BY MapaQuieto
  <2> QED BY <1>8, <1>14, <2>1, <2>2, <2>3 DEF Anotado
<1> QED BY <1>3, <1>9, <1>11, <1>12, <1>13, <1>14, CharlasHabla

(* A life more or less.                                                     *)
LEMMA CharlasVida ==
    ASSUME Supuestos, Control, ~modo.batalla, ListasOK, Charlas,
           NEW t \in Entrenadores, UNCHANGED <<mapa, dd>>, SIGUSR1(t) \/ SIGTERM(t)
    PROVE  Charlas'
<1>1. PICK v : ent' = [ent EXCEPT ![t].vidas = v]
    BY DEF SIGUSR1, SIGTERM
<1>2. /\ UNCHANGED <<aMapa, aEntrenador, extremo, sock, cola>>
      /\ seniales' = seniales + 1
      /\ ent[t].estado \notin {"SIN_MAPA", "MAPA_COMPLETADO", "COLGADO", "SALIO"}
    BY DEF SIGUSR1, SIGTERM, Senial, mundo
<1>3. /\ sock[t] \in Fds /\ Charla(t) /\ Rumbo(t)
      /\ ent \in [Entrenadores -> Ents] /\ ent[t] \in Ents
    BY <1>2, EnCharla
<1>4. PICK s \in Fds : s = sock[t]
    BY <1>3
<1>5. /\ ent'[t].estado = ent[t].estado /\ ent'[t].espera = ent[t].espera
      /\ ent'[t].pos = ent[t].pos /\ ent'[t].obj = ent[t].obj /\ ent'[t].meta = ent[t].meta
      /\ ent'[t].ultima = ent[t].ultima
      /\ \A u \in Entrenadores : u # t => ent'[u] = ent[u]
    BY <1>1, <1>3 DEF Ents
<1>6. Objetivo(t)' = Objetivo(t)
    BY <1>5 DEF Objetivo
<1>7. seniales' # 0
    BY <1>2, TiposEnt
<1>8. Habla(t, s) /\ Dice(s)
    BY <1>2, <1>5, <1>7 DEF Habla, Dice
<1>9. /\ \A x : (Mueve(x)' <=> Mueve(x)) /\ (Entrega(x)' <=> Entrega(x))
                /\ (Despidiendo(x)' <=> Despidiendo(x))
      /\ UNCHANGED <<pcb, listos>>
    BY MapaQuieto
<1>10. Charla(t)'
  <2>1. \A x : Callado(x)' <=> Callado(x)
      BY <1>2, <1>9 DEF Callado
  <2>2. \A x, m : /\ Solo(x, m)' <=> Solo(x, m)
                  /\ Pendiente(x, m)' <=> Pendiente(x, m)
      BY <1>2, <1>9 DEF Pendiente, Solo, TrasAcuse
  <2>3. Nada(ent[t], s, aEntrenador[s])' <=> Nada(ent[t], s, aEntrenador[s])
      BY <1>2, <1>5, <1>9, <2>1 DEF Nada
  <2>4. EsperaCoordenada(Objetivo(t), s, aEntrenador[s])'
          <=> EsperaCoordenada(Objetivo(t), s, aEntrenador[s])
      BY <1>2, <1>6, <2>1, <2>2 DEF EsperaCoordenada
  <2>5. EsperaOk(ent[t].ultima, s, aEntrenador[s])' <=> EsperaOk(ent[t].ultima, s, aEntrenador[s])
      BY <1>2, <1>5, <1>9, <2>1, <2>2 DEF EsperaOk
  <2>6. EsperaCaptura(Objetivo(t), s, aEntrenador[s])'
          <=> EsperaCaptura(Objetivo(t), s, aEntrenador[s])
      BY <1>2, <1>6, <1>9, <2>1, <2>2 DEF EsperaCaptura
  <2>7. EsperaMedalla(s, aEntrenador[s])' <=> EsperaMedalla(s, aEntrenador[s])
      BY <1>2, <2>1, <2>2 DEF EsperaMedalla
  <2> QED BY <1>2, <1>3, <1>4, <1>5, <1>9, <2>3, <2>4, <2>5, <2>6, <2>7 DEF Charla
<1>11. Rumbo(t)'
    BY <1>3, <1>5, <1>6 DEF Rumbo
<1>12. (SabeQuePide(t)' <=> SabeQuePide(t)) /\ (SeLeVa(t)' <=> SeLeVa(t))
    BY <1>2, <1>5 DEF SabeQuePide, SeLeVa
<1>13. RecienLlegado(t) => RecienLlegado(t)'
    BY <1>2, <1>5, <1>12 DEF RecienLlegado
<1>14. Detenido(t) => Detenido(t)'
    BY <1>2, <1>5 DEF Detenido
<1>15. ASSUME NEW i \in DOMAIN listos, Anotado(t, i) PROVE Anotado(t, i)'
  <2>1. PuntoDe(t)' = PuntoDe(t)
      BY <1>2, <1>5 DEF PuntoDe
  <2> QED BY <1>2, <1>6, <1>9, <1>12, <1>15, <2>1 DEF Anotado
<1> QED BY <1>4, <1>8, <1>10, <1>11, <1>13, <1>14, <1>15, CharlasHabla

(* Who talks finds an answer to what it asked for.                          *)
LEMMA EnFaseDe ==
    ASSUME NEW t, Charla(t), aEntrenador[sock[t]] # <<>>
    PROVE  Head(aEntrenador[sock[t]]).tipo \in Esperados[ent[t].espera]
<1>1. PICK q : q = aEntrenador[sock[t]]
    OBVIOUS
<1>2. /\ Esperados["nada"] = {"ESTAS_EN_DEADLOCK", "ESTAS_DESBLOQUEADO"}
      /\ Esperados["coordenada"] = {"COORDENADA"} /\ Esperados["ok"] = {"OK"}
      /\ Esperados["captura"] = {"TE_DOY", "ESTAS_BLOQUEADO"}
      /\ Esperados["medalla"] = {"MEDALLA"}
    BY DEF Esperados
<1>3. \A m : Head(<<m>>) = m
    OBVIOUS
<1>4. Head(Append(Negado, Msg("ESTAS_DESBLOQUEADO", 0))).tipo = "ESTAS_BLOQUEADO"
      /\ Head(Negado).tipo = "ESTAS_BLOQUEADO"
  <2>1. PICK m : m = Msg("ESTAS_DESBLOQUEADO", 0)
      OBVIOUS
  <2>2. Head(Append(Negado, m)) = Msg("ESTAS_BLOQUEADO", 0)
      BY TrasNegar
  <2> QED BY <1>3, <2>1, <2>2 DEF Negado, Msg
<1>5. CASE ent[t].espera = "nada"
    BY <1>1, <1>2, <1>3, <1>5 DEF Charla, Nada, Msg
<1>6. CASE ent[t].espera = "coordenada"
    BY <1>1, <1>2, <1>3, <1>6 DEF Charla, EsperaCoordenada, Msg
<1>7. CASE ent[t].espera = "ok"
    BY <1>1, <1>2, <1>3, <1>7 DEF Charla, EsperaOk, Msg
<1>8. CASE ent[t].espera = "captura"
  <2>1. \/ aEntrenador[sock[t]] = <<Msg("TE_DOY", Objetivo(t))>>
        \/ aEntrenador[sock[t]] = Negado
        \/ aEntrenador[sock[t]] = Append(Negado, Msg("ESTAS_DESBLOQUEADO", 0))
      BY <1>8 DEF Charla, EsperaCaptura
  <2>2. Head(<<Msg("TE_DOY", Objetivo(t))>>).tipo = "TE_DOY"
      BY <1>3 DEF Msg
  <2> QED BY <1>2, <1>4, <1>8, <2>1, <2>2
<1>9. CASE ent[t].espera = "medalla"
    BY <1>1, <1>2, <1>3, <1>9 DEF Charla, EsperaMedalla, Msg
<1>10. ent[t].espera # "copia"
    BY DEF Charla
<1> QED BY <1>5, <1>6, <1>7, <1>8, <1>9, <1>10 DEF Charla

(* What a trainer that talks to the map cannot do without battles.          *)
LEMMA SinPeleas ==
    ASSUME Control, ~modo.batalla, Charlas, NEW t \in Entrenadores
    PROVE  /\ ~DarPokemon(t) /\ ~MorirSinPokemons(t) /\ ~SeguirBloqueado(t)
           /\ ~FallecerPorDeadlock(t) /\ ~UltimaMuerte(t) /\ ~LeerLoDeOtro(t)
<1>1. ~DarPokemon(t) /\ ~MorirSinPokemons(t)
  <2>1. ent[t].estado # "EN_DEADLOCK"
    <3> SUFFICES ASSUME ent[t].estado = "EN_DEADLOCK" PROVE FALSE
        OBVIOUS
    <3> QED BY EnCharla DEF Rumbo
  <2> QED BY <2>1 DEF DarPokemon, MorirSinPokemons
<1>2. ~SeguirBloqueado(t) /\ ~FallecerPorDeadlock(t) /\ ~UltimaMuerte(t)
  <2>1. ~(sock[t] # 0 /\ ent[t].espera = "veredicto")
    <3> SUFFICES ASSUME sock[t] # 0, ent[t].espera = "veredicto" PROVE FALSE
        OBVIOUS
    <3>1. Charla(t)
        BY EnCharla
    <3> QED BY <3>1 DEF Charla
  <2> QED BY <2>1 DEF SeguirBloqueado, FallecerPorDeadlock, UltimaMuerte, Recibe
<1>3. ~LeerLoDeOtro(t)
  <2> SUFFICES ASSUME LeerLoDeOtro(t) PROVE FALSE
      OBVIOUS
  <2>1. /\ ent[t].espera \in {"coordenada", "captura", "medalla", "veredicto"}
        /\ sock[t] # 0 /\ aEntrenador[sock[t]] # <<>>
        /\ Head(aEntrenador[sock[t]]).tipo \notin Esperados[ent[t].espera]
      BY DEF LeerLoDeOtro, Recibe, Leido
  <2>2. Charla(t)
      BY <2>1, EnCharla
  <2> QED BY <2>1, <2>2, EnFaseDe
<1> QED BY <1>1, <1>2, <1>3

(* The others, when a trainer leaves its connection or takes one.           *)
LEMMA LosDemas ==
    ASSUME Control, ListasOK, ~modo.batalla, NEW t \in Entrenadores, UNCHANGED <<mapa, dd, aMapa>>,
           \A x \in Fds : x # sock[t] => aEntrenador'[x] = aEntrenador[x],
           NEW u \in Entrenadores, u # t, ent'[u] = ent[u], sock'[u] = sock[u]
    PROVE  Intacto(u)
<1>1. sock[u] # 0 => sock[u] \in Fds /\ sock[u] # sock[t]
    BY Tipos DEF ListasOK, SocketsOK, MundoTypeOK
<1> QED BY <1>1, MapaQuieto DEF Intacto

(* What the map knows of them.                                              *)
LEMMA AnotadosDemas ==
    ASSUME Control, AnotadosOK, NEW t \in Entrenadores, UNCHANGED <<mapa, dd>>,
           \A u \in Entrenadores : u # t => Intacto(u),
           \A i \in DOMAIN listos : FdEn(listos, i) # sock'[t]
    PROVE  AnotadosOK'
<1>1. UNCHANGED <<pcb, listos>> /\ \A i : FdEn(listos, i)' = FdEn(listos, i)
    BY MapaQuieto
<1> SUFFICES ASSUME NEW u \in Entrenadores, NEW i \in DOMAIN listos, FdEn(listos, i) = sock'[u]
             PROVE  Anotado(u, i)'
    BY <1>1 DEF AnotadosOK
<1>2. u # t
    OBVIOUS
<1>3. Intacto(u) /\ sock[u] = FdEn(listos, i) /\ sock[u] # 0
    BY <1>2, SonFds DEF Intacto, Fds
<1>4. Anotado(u, i)
    BY <1>3 DEF AnotadosOK
<1>5. SeLeVa(u) => Despidiendo(sock[u])'
  <2>1. pl' = pl /\ Fd' = Fd /\ sock'[u] = sock[u]
      BY <1>3, MapaQuieto DEF Intacto
  <2> QED BY <1>4, <2>1 DEF Anotado, Despidiendo
<1> QED BY <1>1, <1>3, <1>4, <1>5, IntactoAnotado

(* Who is blocked.                                                          *)
LEMMA PresosDemas ==
    ASSUME Supuestos, Control, PresosOK, NEW t \in Entrenadores, UNCHANGED <<mapa, dd>>,
           \A u \in Entrenadores : u # t => Intacto(u),
           \A i \in DOMAIN bloqueados : FdEn(bloqueados, i) # sock'[t],
           pl.pc = "bloquear" => Fd # sock'[t],
           \A x \in Fds : extremo[x] # "libre" => extremo'[x] # "libre"
    PROVE  PresosOK'
<1>1. /\ UNCHANGED <<pcb, bloqueados, pl>> /\ Fd' = Fd
      /\ \A i : FdEn(bloqueados, i)' = FdEn(bloqueados, i)
      /\ \A i : SeLibera(i)' <=> SeLibera(i)
    BY MapaQuieto
<1>2. ASSUME NEW u \in Entrenadores, sock'[u] \in Fds, u # t, sock[u] = sock'[u] => Detenido(u)
      PROVE  Detenido(u)'
    BY <1>2, IntactoDetenido DEF Intacto, Fds
<1>3. ASSUME NEW i \in DOMAIN bloqueados, NEW u \in Entrenadores,
             FdEn(bloqueados, i) = sock'[u], ~SeLibera(i)
      PROVE  Detenido(u)'
  <2>1. u # t /\ sock'[u] \in Fds
      BY <1>3, SonFds
  <2>2. sock[u] = sock'[u] => Detenido(u)
      BY <1>3 DEF PresosOK
  <2> QED BY <1>2, <2>1, <2>2
<1>4. \A i, j \in DOMAIN bloqueados :
         FdEn(bloqueados, i) = FdEn(bloqueados, j) /\ ~SeLibera(i) /\ ~SeLibera(j) => i = j
    BY DEF PresosOK
<1>5. \A i \in DOMAIN bloqueados : extremo'[FdEn(bloqueados, i)] # "libre"
    BY SonFds DEF PresosOK
<1>6. ASSUME pl.pc = "bloquear"
      PROVE  /\ \A j \in DOMAIN bloqueados : FdEn(bloqueados, j) = Fd => SeLibera(j)
             /\ \A u \in Entrenadores : sock'[u] = Fd => Detenido(u)'
  <2>1. /\ \A j \in DOMAIN bloqueados : FdEn(bloqueados, j) = Fd => SeLibera(j)
        /\ \A u \in Entrenadores : sock[u] = Fd => Detenido(u)
      BY <1>6 DEF PresosOK
  <2>2. Fd \in Fds
    <3>1. pl.pc \in Sirviendo
        BY <1>6 DEF Sirviendo, Pasos
    <3> QED BY <3>1, Sirve
  <2>3. ASSUME NEW u \in Entrenadores, sock'[u] = Fd PROVE Detenido(u)'
    <3>1. u # t
        BY <1>6, <2>3
    <3> QED BY <1>2, <2>1, <2>2, <2>3, <3>1
  <2> QED BY <2>1, <2>3
<1> QED BY <1>1, <1>3, <1>4, <1>5, <1>6 DEF PresosOK

(* It leaves: with its medal, or because of a signal.                       *)
LEMMA CharlasSeVa ==
    ASSUME Supuestos, Control, ~modo.batalla, ListasOK, Charlas,
           NEW t \in Entrenadores, UNCHANGED <<mapa, dd, aMapa, cola>>,
           sock[t] # 0, Cerrar(sock[t]), sock' = [sock EXCEPT ![t] = 0],
           ent'[t].estado \in {"MAPA_COMPLETADO", "SALIO"},
           \A u \in Entrenadores : u # t => ent'[u] = ent[u],
           seniales' = 0 => seniales = 0 /\ SeLeVa(t)
    PROVE  Charlas'
<1>1. /\ DialogosOK /\ AnotadosOK /\ LlegadosOK /\ ConectadosOK
      /\ CapturasOK /\ PresosOK /\ PresentesOK
    BY DEF Charlas
<1>2. PICK s \in Fds : s = sock[t]
    BY Tipos DEF MundoTypeOK
<1>3. /\ sock \in [Entrenadores -> Fds \union {0}] /\ 0 \notin Fds
      /\ extremo \in [Fds -> {"libre", "abierto", "cortado"}]
      /\ aEntrenador = [x \in Fds |-> aEntrenador[x]]
    BY Tipos DEF MundoTypeOK, SonBuzones, Fds
<1>4. /\ sock'[t] = 0 /\ \A u \in Entrenadores : u # t => sock'[u] = sock[u]
      /\ \A x \in Fds : x # s => aEntrenador'[x] = aEntrenador[x]
      /\ \A x \in Fds : extremo[x] # "libre" => extremo'[x] # "libre"
    BY <1>2, <1>3 DEF Cerrar
<1>5. /\ UNCHANGED <<pcb, listos, bloqueados, pl>> /\ Fd' = Fd
      /\ \A i : FdEn(listos, i)' = FdEn(listos, i)
      /\ \A x : Despidiendo(x)' <=> Despidiendo(x)
    BY MapaQuieto
<1>6. \A u \in Entrenadores : u # t => Intacto(u)
    BY <1>2, <1>4, LosDemas
<1>7. DialogosOK'
    BY <1>1, <1>4, <1>6, DialogosPaso
<1>8. AnotadosOK'
  <2>1. \A i \in DOMAIN listos : FdEn(listos, i) # sock'[t]
      BY <1>3, <1>4, SonFds
  <2> QED BY <1>1, <1>6, <2>1, AnotadosDemas
<1>9. LlegadosOK'
  <2> SUFFICES ASSUME NEW u \in Entrenadores, NEW i \in DOMAIN cola, cola[i].fd = sock'[u]
               PROVE  RecienLlegado(u)'
      BY DEF LlegadosOK
  <2>1. u # t /\ sock[u] = sock'[u] /\ sock[u] # 0
      BY <1>3, <1>4, SonFds
  <2>2. RecienLlegado(u)
      BY <1>1, <2>1 DEF LlegadosOK
  <2> QED BY <1>6, <2>1, <2>2, IntactoLlegado
<1>10. ConectadosOK'
  <2> SUFFICES ASSUME NEW u \in Entrenadores
               PROVE  ent'[u].estado \in {"SIN_MAPA", "MAPA_COMPLETADO", "SALIO"} <=> sock'[u] = 0
      BY DEF ConectadosOK
  <2>1. CASE u = t
      BY <1>4, <2>1
  <2>2. CASE u # t
      BY <1>1, <1>4, <2>2 DEF ConectadosOK
  <2> QED BY <2>1, <2>2
<1>11. CapturasOK'
    BY <1>1, <1>5 DEF CapturasOK, EsCaptura
<1>12. PresosOK'
  <2>1. \A i \in DOMAIN bloqueados : FdEn(bloqueados, i) # sock'[t]
      BY <1>3, <1>4, SonFds
  <2>2. pl.pc = "bloquear" => Fd # sock'[t]
    <3>1. pl.pc = "bloquear" => pl.pc \in Sirviendo
        BY DEF Sirviendo, Pasos
    <3> QED BY <1>3, <1>4, <3>1, Sirve
  <2> QED BY <1>1, <1>4, <1>6, <2>1, <2>2, PresosDemas
<1>13. PresentesOK'
  <2> SUFFICES ASSUME seniales' = 0
               PROVE  /\ ~pl'.cierra
                      /\ \A i \in DOMAIN listos' :
                           \/ sock'[pcb'[listos'[i]].quien] = FdEn(listos, i)'
                           \/ Despidiendo(FdEn(listos, i))'
                      /\ \A i \in DOMAIN cola' : sock'[cola'[i].quien] = cola'[i].fd
      BY DEF PresentesOK
  <2>1. /\ seniales = 0 /\ SeLeVa(t) /\ ~pl.cierra
        /\ \A i \in DOMAIN listos :
              sock[pcb[listos[i]].quien] = FdEn(listos, i) \/ Despidiendo(FdEn(listos, i))
        /\ \A i \in DOMAIN cola : sock[cola[i].quien] = cola[i].fd
      BY <1>1 DEF PresentesOK
  <2>2. ASSUME NEW i \in DOMAIN listos, ~Despidiendo(FdEn(listos, i))
        PROVE  sock'[pcb[listos[i]].quien] = FdEn(listos, i)
    <3>1. sock[pcb[listos[i]].quien] = FdEn(listos, i)
        BY <2>1, <2>2
    <3>2. pcb[listos[i]].quien \in Entrenadores
      <4>1. listos[i] \in 1 .. Len(pcb) /\ pcb \in Seq(Pcbs)
          BY Tipos
      <4>2. pcb[listos[i]] \in Pcbs
          BY <4>1
      <4> QED BY <4>2 DEF Pcbs
    <3>3. pcb[listos[i]].quien # t
      <4> SUFFICES ASSUME pcb[listos[i]].quien = t PROVE FALSE
          OBVIOUS
      <4>1. Anotado(t, i) /\ FdEn(listos, i) = sock[t]
          BY <1>1, <3>1 DEF AnotadosOK
      <4> QED BY <2>1, <2>2, <4>1 DEF Anotado
    <3> QED BY <1>4, <3>1, <3>2, <3>3
  <2>3. ASSUME NEW i \in DOMAIN cola PROVE sock'[cola[i].quien] = cola[i].fd
    <3>1. cola[i].quien \in Entrenadores /\ sock[cola[i].quien] = cola[i].fd
        BY <2>1, SonFds
    <3>2. cola[i].quien # t
      <4> SUFFICES ASSUME cola[i].quien = t PROVE FALSE
          OBVIOUS
      <4>1. RecienLlegado(t)
          BY <1>1, <3>1 DEF LlegadosOK
      <4> QED BY <2>1, <4>1, LlegadoEs
    <3> QED BY <1>4, <3>1, <3>2
  <2> QED BY <1>5, <2>1, <2>2, <2>3
<1> QED BY <1>7, <1>8, <1>9, <1>10, <1>11, <1>12, <1>13 DEF Charlas

(* It connects: nothing was left of who had the descriptor before.          *)
LEMMA CharlasConecta ==
    ASSUME Supuestos, Control, ~modo.batalla, ListasOK, Charlas,
           NEW t \in Entrenadores, UNCHANGED <<mapa, dd, aMapa, aEntrenador>>,
           Conectar(t), extremo' = [extremo EXCEPT ![sock'[t]] = "abierto"],
           ent'[t].estado = "SIN_POKENEST", ent'[t].espera = "nada", ent'[t].pos = <<0, 0>>,
           \A u \in Entrenadores : u # t => ent'[u] = ent[u],
           seniales' = 0 => seniales = 0 /\ sock[t] = 0
    PROVE  Charlas'
<1>1. /\ DialogosOK /\ AnotadosOK /\ LlegadosOK /\ ConectadosOK
      /\ CapturasOK /\ PresosOK /\ PresentesOK
    BY DEF Charlas
<1>2. PICK f \in Fds : /\ f = sock'[t] /\ extremo[f] = "libre"
                       /\ sock' = [sock EXCEPT ![t] = f]
                       /\ cola' = Append(cola, [fd |-> f, quien |-> t])
                       /\ extremo' = [extremo EXCEPT ![f] = "abierto"]
    BY ConectarEs
<1>3. /\ sock \in [Entrenadores -> Fds \union {0}] /\ 0 \notin Fds
      /\ extremo \in [Fds -> {"libre", "abierto", "cortado"}]
    BY Tipos DEF MundoTypeOK, Fds
<1>4. /\ \A u \in Entrenadores : u # t => sock'[u] = sock[u]
      /\ \A x \in Fds : extremo[x] # "libre" => extremo'[x] # "libre"
      /\ aMapa[f] = <<>> /\ aEntrenador[f] = <<>>
      /\ \A u \in Entrenadores : sock[u] # f
    BY <1>2, <1>3 DEF ListasOK, SocketsOK
<1>5. /\ UNCHANGED <<pcb, listos, bloqueados, pl>> /\ Fd' = Fd
      /\ \A i : FdEn(listos, i)' = FdEn(listos, i)
      /\ \A x : /\ Despidiendo(x)' <=> Despidiendo(x)
                /\ Mueve(x)' <=> Mueve(x)
                /\ Entrega(x)' <=> Entrega(x)
    BY MapaQuieto
<1>6. /\ \A i \in DOMAIN listos : FdEn(listos, i) # f
      /\ \A i \in DOMAIN bloqueados : FdEn(bloqueados, i) # f
      /\ \A i \in DOMAIN cola : cola[i].fd # f
    BY <1>1, <1>2 DEF ListasOK, ListosOK, ColaOK, PresosOK
<1>7. pl.pc \in Sirviendo => Fd # f
    BY <1>6, ElQueCorre
<1>8. /\ DOMAIN cola' = 1 .. Len(cola) + 1 /\ DOMAIN cola = 1 .. Len(cola) /\ Len(cola) \in Nat
      /\ \A i \in 1 .. Len(cola) : cola'[i] = cola[i]
      /\ cola'[Len(cola) + 1].fd = f /\ cola'[Len(cola) + 1].quien = t
  <2>1. PICK c \in [fd : Fds, quien : Entrenadores] :
           c.fd = f /\ c.quien = t /\ cola' = Append(cola, c)
    <3>1. [fd |-> f, quien |-> t] \in [fd : Fds, quien : Entrenadores]
        OBVIOUS
    <3> QED BY <1>2, <3>1
  <2>2. cola \in Seq([fd : Fds, quien : Entrenadores])
      BY Tipos DEF MundoTypeOK
  <2> QED BY <2>1, <2>2
<1>9. \A u \in Entrenadores : u # t => Intacto(u)
    BY <1>4, LosDemas
<1>10. Charla(t)' /\ Rumbo(t)'
  <2>1. Callado(f)'
    <3>1. ~Mueve(f) /\ ~Entrega(f)
        BY <1>7 DEF Mueve, Entrega, Sirviendo, Pasos
    <3> QED BY <1>4, <1>5, <3>1 DEF Callado
  <2>2. Nada(ent[t], f, aEntrenador[f])'
      BY <1>4, <2>1 DEF Nada
  <2>3. Charla(t)'
      BY <1>2, <2>2 DEF Charla
  <2> QED BY <2>3 DEF Rumbo
<1>11. DialogosOK'
    BY <1>1, <1>9, <1>10, DialogosPaso
<1>12. AnotadosOK'
    BY <1>1, <1>2, <1>6, <1>9, AnotadosDemas
<1>13. LlegadosOK'
  <2> SUFFICES ASSUME NEW u \in Entrenadores, NEW i \in DOMAIN cola', cola'[i].fd = sock'[u]
               PROVE  RecienLlegado(u)'
      BY DEF LlegadosOK
  <2>1. CASE i \in 1 .. Len(cola)
    <3>1. cola[i].fd = sock'[u] /\ i \in DOMAIN cola
        BY <1>8, <2>1
    <3>2. u # t /\ sock[u] = sock'[u] /\ sock[u] # 0
        BY <1>2, <1>3, <1>4, <1>6, <3>1, SonFds
    <3>3. RecienLlegado(u)
        BY <1>1, <3>1, <3>2 DEF LlegadosOK
    <3> QED BY <1>9, <3>2, <3>3, IntactoLlegado
  <2>2. CASE i = Len(cola) + 1
    <3>1. u = t
        BY <1>4, <1>8, <2>2
    <3> QED BY <1>2, <1>4, <3>1 DEF RecienLlegado, SabeQuePide
  <2> QED BY <1>8, <2>1, <2>2
<1>14. ConectadosOK'
  <2> SUFFICES ASSUME NEW u \in Entrenadores
               PROVE  ent'[u].estado \in {"SIN_MAPA", "MAPA_COMPLETADO", "SALIO"} <=> sock'[u] = 0
      BY DEF ConectadosOK
  <2>1. CASE u = t
      BY <1>2, <1>3, <2>1
  <2>2. CASE u # t
      BY <1>1, <1>4, <2>2 DEF ConectadosOK
  <2> QED BY <2>1, <2>2
<1>15. CapturasOK'
  <2>1. ASSUME NEW i \in DOMAIN cola' PROVE ~EsCaptura(cola'[i].fd)
    <3>1. CASE i \in 1 .. Len(cola)
        BY <1>1, <1>8, <3>1 DEF CapturasOK
    <3>2. CASE i = Len(cola) + 1
        BY <1>4, <1>8, <3>2 DEF EsCaptura
    <3> QED BY <1>8, <3>1, <3>2
  <2> QED BY <1>1, <1>5, <2>1 DEF CapturasOK, EsCaptura
<1>16. PresosOK'
  <2>1. pl.pc = "bloquear" => Fd # f
      BY <1>7 DEF Sirviendo, Pasos
  <2> QED BY <1>1, <1>2, <1>4, <1>6, <1>9, <2>1, PresosDemas
<1>17. PresentesOK'
  <2> SUFFICES ASSUME seniales' = 0
               PROVE  /\ ~pl'.cierra
                      /\ \A i \in DOMAIN listos' :
                           \/ sock'[pcb'[listos'[i]].quien] = FdEn(listos, i)'
                           \/ Despidiendo(FdEn(listos, i))'
                      /\ \A i \in DOMAIN cola' : sock'[cola'[i].quien] = cola'[i].fd
      BY DEF PresentesOK
  <2>1. /\ sock[t] = 0 /\ ~pl.cierra
        /\ \A i \in DOMAIN listos :
              sock[pcb[listos[i]].quien] = FdEn(listos, i) \/ Despidiendo(FdEn(listos, i))
        /\ \A i \in DOMAIN cola : sock[cola[i].quien] = cola[i].fd
      BY <1>1 DEF PresentesOK
  <2>2. ASSUME NEW u \in Entrenadores, sock[u] \in Fds PROVE sock'[u] = sock[u]
      BY <1>3, <1>4, <2>1, <2>2
  <2>3. ASSUME NEW i \in DOMAIN listos, ~Despidiendo(FdEn(listos, i))
        PROVE  sock'[pcb[listos[i]].quien] = FdEn(listos, i)
    <3>1. pcb[listos[i]].quien \in Entrenadores
      <4>1. listos[i] \in 1 .. Len(pcb) /\ pcb \in Seq(Pcbs)
          BY Tipos
      <4>2. pcb[listos[i]] \in Pcbs
          BY <4>1
      <4> QED BY <4>2 DEF Pcbs
    <3> QED BY <2>1, <2>2, <2>3, <3>1, SonFds
  <2>4. ASSUME NEW i \in DOMAIN cola' PROVE sock'[cola'[i].quien] = cola'[i].fd
    <3>1. CASE i \in 1 .. Len(cola)
        BY <1>8, <2>1, <2>2, <3>1, SonFds
    <3>2. CASE i = Len(cola) + 1
        BY <1>2, <1>8, <3>2
    <3> QED BY <1>8, <3>1, <3>2
  <2> QED BY <1>5, <2>1, <2>3, <2>4
<1> QED BY <1>11, <1>12, <1>13, <1>14, <1>15, <1>16, <1>17 DEF Charlas

(* Every step of a trainer.                                                 *)
LEMMA CharlasDeEntrenador ==
    ASSUME Supuestos, Control, ~modo.batalla, ListasOK, Charlas, UNCHANGED <<mapa, dd>>,
           NEW t \in Entrenadores, EntrenadorPaso(t) \/ EntrenadorSenial(t)
    PROVE  Charlas'
<1>1. CASE Completar(t)
  <2>1. /\ UNCHANGED <<aMapa, cola, seniales>> /\ sock[t] # 0 /\ Cerrar(sock[t])
        /\ sock' = [sock EXCEPT ![t] = 0] /\ ent[t].espera = "medalla"
        /\ aEntrenador[sock[t]] # <<>>
        /\ ent' = [ent EXCEPT ![t].estado = "MAPA_COMPLETADO", ![t].espera = "nada"]
      BY <1>1 DEF Completar
  <2>2. Charla(t) /\ ent \in [Entrenadores -> Ents] /\ ent[t] \in Ents
      BY <2>1, EnCharla
  <2>3. SeLeVa(t)
      BY <2>1, <2>2 DEF Charla, EsperaMedalla, Callado, SeLeVa
  <2>4. ent'[t].estado = "MAPA_COMPLETADO" /\ \A u \in Entrenadores : u # t => ent'[u] = ent[u]
      BY <2>1, <2>2 DEF Ents
  <2> QED BY <2>1, <2>3, <2>4, CharlasSeVa
<1>2. CASE SIGINT(t)
  <2>1. /\ UNCHANGED <<aMapa, cola>> /\ Cerrar(sock[t]) /\ sock' = [sock EXCEPT ![t] = 0]
        /\ seniales' = seniales + 1
        /\ ent[t].estado \notin {"SIN_MAPA", "MAPA_COMPLETADO", "COLGADO", "SALIO"}
        /\ ent' = [ent EXCEPT ![t].estado = "SALIO", ![t].espera = "nada"]
      BY <1>2 DEF SIGINT, Senial
  <2>2. sock[t] # 0 /\ ent \in [Entrenadores -> Ents] /\ ent[t] \in Ents
      BY <2>1, EnCharla
  <2>3. seniales' # 0
      BY <2>1, TiposEnt
  <2>4. ent'[t].estado = "SALIO" /\ \A u \in Entrenadores : u # t => ent'[u] = ent[u]
      BY <2>1, <2>2 DEF Ents
  <2> QED BY <2>1, <2>2, <2>3, <2>4, CharlasSeVa
<1>3. CASE HandShake(t)
  <2>1. /\ Conectar(t) /\ extremo' = [extremo EXCEPT ![sock'[t]] = "abierto"]
        /\ UNCHANGED <<aMapa, aEntrenador, seniales>> /\ ent[t].estado = "SIN_MAPA"
        /\ ent' = [ent EXCEPT ![t] = DeNuevo(@)]
      BY <1>3 DEF HandShake
  <2>2. ent \in [Entrenadores -> Ents] /\ ent[t] \in Ents
      BY TiposEnt
  <2>3. /\ DeNuevo(ent[t]).estado = "SIN_POKENEST" /\ DeNuevo(ent[t]).espera = "nada"
        /\ DeNuevo(ent[t]).pos = <<0, 0>>
      BY <2>2 DEF DeNuevo, Ents
  <2>4. ent'[t] = DeNuevo(ent[t]) /\ \A u \in Entrenadores : u # t => ent'[u] = ent[u]
      BY <2>1, <2>2
  <2>5. sock[t] = 0
      BY <2>1 DEF Charlas, ConectadosOK
  <2> QED BY <2>1, <2>3, <2>4, <2>5, CharlasConecta
<1>4. CASE ReiniciarEnLaSenial(t)
  <2>1. /\ Conectar(t) /\ extremo' = [extremo EXCEPT ![sock'[t]] = "abierto"]
        /\ UNCHANGED <<aMapa, aEntrenador>> /\ seniales' = seniales + 1
        /\ ent' = [ent EXCEPT ![t] = [DeNuevo(ent[t]) EXCEPT
                     !.ultima = "SIN_DIRECCION", !.intentos = ent[t].intentos + 1]]
      BY <1>4 DEF ReiniciarEnLaSenial, Reiniciar, Senial
  <2>2. ent \in [Entrenadores -> Ents] /\ ent[t] \in Ents
      BY TiposEnt
  <2>3. PICK e : e = [DeNuevo(ent[t]) EXCEPT
                        !.ultima = "SIN_DIRECCION", !.intentos = ent[t].intentos + 1]
      OBVIOUS
  <2>4. e.estado = "SIN_POKENEST" /\ e.espera = "nada" /\ e.pos = <<0, 0>>
      BY <2>2, <2>3 DEF DeNuevo, Ents
  <2>5. ent'[t] = e /\ \A u \in Entrenadores : u # t => ent'[u] = ent[u]
      BY <2>1, <2>2, <2>3
  <2>6. seniales' # 0
      BY <2>1, TiposEnt
  <2> QED BY <2>1, <2>4, <2>5, <2>6, CharlasConecta
<1>5. CASE \/ Conocer(t) \/ NotificarFin(t) \/ Mover(t) \/ Capturar(t) \/ Acusar(t)
           \/ RecibirCoordenada(t) \/ Movido(t) \/ Capturado(t) \/ QuedarBloqueado(t)
           \/ Despertar(t) \/ SIGUSR1(t) \/ SIGTERM(t)
    BY <1>5, CharlasPedidos, CharlasMover, CharlasCapturar, CharlasAcusar, CharlasCoordenada,
       CharlasMovido, CharlasCapturado, CharlasNegado, CharlasDespertar, CharlasVida
<1> QED BY <1>1, <1>2, <1>3, <1>4, <1>5, SinPeleas DEF EntrenadorPaso, EntrenadorSenial

(* Signals are not taken back.                                              *)
LEMMA NoBajan ==
    ASSUME Control, [Next]_vars, seniales' = 0
    PROVE  seniales = 0
<1>1. CASE UNCHANGED seniales
    BY <1>1
<1>2. ASSUME NEW t \in Entrenadores, EntrenadorPaso(t) PROVE UNCHANGED seniales
    BY <1>2 DEF EntrenadorPaso, HandShake, Conocer, RecibirCoordenada, Mover, Movido, Capturar,
           Capturado, Acusar, QuedarBloqueado, Despertar, DarPokemon, MorirSinPokemons,
           SeguirBloqueado, FallecerPorDeadlock, UltimaMuerte, NotificarFin, Completar,
           LeerLoDeOtro, Pide
<1>3. ASSUME NEW t \in Entrenadores, EntrenadorSenial(t) PROVE FALSE
  <2>1. seniales' = seniales + 1
      BY <1>3 DEF EntrenadorSenial, SIGUSR1, SIGTERM, SIGINT, ReiniciarEnLaSenial, Senial
  <2> QED BY <1>3, <2>1, TiposEnt
<1> QED BY <1>1, <1>2, <1>3 DEF Next, vars, entrenadores

(* Every step keeps the conversations ...                                   *)
LEMMA CharlasPaso ==
    ASSUME Supuestos, Control, Control', ListasOK, CharlasOK, [Next]_vars
    PROVE  CharlasOK'
<1> SUFFICES ASSUME SinReuso', ~modo'.batalla PROVE Charlas'
    BY DEF CharlasOK
<1>1. ~modo.batalla /\ SinReuso
    BY MismoModo, NoBajan DEF SinReuso
<1>2. Charlas
    BY <1>1 DEF CharlasOK
<1>3. CASE MapaPaso /\ UNCHANGED <<dd, ent, seniales>>
  <2>1. CASE Aceptar
      BY <1>1, <1>2, <1>3, <2>1, CharlasAceptar
  <2>2. CASE Aceptado \/ Dibujar \/ LeerLoAjeno
      BY <1>1, <1>2, <1>3, <2>2, CharlasMientras
  <2>3. CASE \/ Elegir \/ Bloqueado \/ NoEntregado \/ Desconectado \/ Soltar
             \/ Quitar \/ YaNoEsta \/ QuitarDeVacia
      BY <1>1, <1>2, <1>3, <2>3, CharlasDelPlan
  <2>4. CASE Rotar
      BY <1>1, <1>2, <1>3, <2>4, CharlasRotar
  <2>5. CASE Bloquear
      BY <1>1, <1>2, <1>3, <2>5, CharlasBloquear
  <2>6. CASE QuitadoPorSi \/ QuitadoDelTurno
      BY <1>1, <1>2, <1>3, <2>6, CharlasQuitado
  <2>7. CASE \/ ObtenerPokenest \/ MoverPosicion \/ Moviendo \/ Entregar
             \/ Entregado \/ Negar \/ DarMedalla
      BY <1>1, <1>2, <1>3, <2>7, CharlasServicio
  <2> QED BY <1>3, <2>1, <2>2, <2>3, <2>4, <2>5, <2>6, <2>7 DEF MapaPaso
<1>4. CASE DeteccionPaso /\ UNCHANGED <<ent, seniales>>
  <2>1. dd.pc \in Paz
      BY <1>1 DEF ListasOK
  <2>2. \/ NoMirar \/ Contar \/ PasarseDelFin \/ SigueBloqueado \/ Liberar \/ Liberado
        \/ FinDePasada
      BY <1>1, <1>4, <2>1, PasosEnPaz
  <2> QED BY <1>1, <1>2, <1>4, <2>2, CharlasDeteccion, CharlasLiberar, CharlasLiberado
<1>5. ASSUME NEW t \in Entrenadores, EntrenadorPaso(t) \/ EntrenadorSenial(t),
             UNCHANGED <<mapa, dd>>
      PROVE  Charlas'
    BY <1>1, <1>2, <1>5, CharlasDeEntrenador
<1>6. CASE UNCHANGED vars
  <2>1. /\ UNCHANGED <<aMapa, aEntrenador, extremo, sock, cola, ent, seniales>>
        /\ UNCHANGED <<mapa, dd>>
      BY <1>6 DEF vars, mundo, entrenadores, deteccion
  <2>2. UNCHANGED <<listos, bloqueados, pl, pcb>> /\ \A j : SeLibera(j)' <=> SeLibera(j)
      BY <2>1, MapaQuieto
  <2>3. Quietos
      BY <2>2, QuietoIgual
  <2>4. seniales = 0 => ~pl'.cierra
      BY <1>2, <2>2 DEF Charlas, PresentesOK
  <2> QED BY <1>1, <1>2, <2>1, <2>2, <2>3, <2>4, CharlasPlan
<1> QED BY <1>3, <1>4, <1>5, <1>6 DEF Next

(* ... of which there is none at the start.                                 *)
LEMMA CharlasInicial ==
    ASSUME Supuestos, Init
    PROVE  Charlas
<1>1. /\ listos = <<>> /\ bloqueados = <<>> /\ cola = <<>> /\ pl.pc = "elegir" /\ ~pl.cierra
      /\ \A s \in Fds : aMapa[s] = <<>>
      /\ \A t \in Entrenadores : sock[t] = 0 /\ ent[t].estado = "SIN_MAPA"
    BY DEF Init, MundoInit, MapaInit, EntrenadorInit
<1>2. DOMAIN listos = {} /\ DOMAIN bloqueados = {} /\ DOMAIN cola = {}
    BY <1>1
<1>3. DialogosOK /\ AnotadosOK /\ LlegadosOK /\ ConectadosOK
    BY <1>1, <1>2 DEF DialogosOK, AnotadosOK, LlegadosOK, ConectadosOK
<1>4. CapturasOK
  <2>1. ASSUME NEW s \in Fds PROVE 2 .. Len(aMapa[s]) = {}
    <3>1. Len(aMapa[s]) = 0
        BY <1>1
    <3> QED BY <3>1
  <2> QED BY <1>2, <2>1 DEF CapturasOK
<1>5. PresosOK /\ PresentesOK
    BY <1>1, <1>2 DEF PresosOK, PresentesOK
<1> QED BY <1>3, <1>4, <1>5 DEF Charlas

(* Without battles, and while no descriptor of a blocked trainer is used    *)
(* again, each trainer and the map are at the same point of a conversation  *)
(* in which one asks and the other answers: what is in the connection is    *)
(* the request the trainer waits on or its answer, and the t_pcb that the   *)
(* map has in its lists says where the trainer is and what it wants.        *)
THEOREM OrdenSiempre == Spec => []Orden
<1>1. Supuestos
    BY MundoAssumption, MapaAssumption, EntrenadorAssumption DEF Supuestos
<1>2. Init => Orden
    BY <1>1, ControlInicial, ListasInicial, CharlasInicial DEF Orden, CharlasOK
<1>3. Orden /\ [Next]_vars => Orden'
    BY <1>1, ControlPaso, ListasPaso, CharlasPaso DEF Orden
<1> QED BY <1>2, <1>3, PTL DEF Spec

-----------------------------------------------------------------------------
(* What the runs check, from those invariants.                              *)

(* Two indices of a list with the same t_pcb are two places of a descriptor.*)
LEMMA SinParejasInyecta ==
    ASSUME NEW lista, SinParejas(lista)
    PROVE  IsInjective(lista)
BY DEF SinParejas, FdEn, IsInjective

(* Nobody has two places: what the lists say of the descriptors, seen from  *)
(* the t_pcb.                                                               *)
LEMMA UnSoloLugarDe ==
    ASSUME Orden
    PROVE  UnSoloLugar
<1> SUFFICES ASSUME ~modo.batalla PROVE UnSoloLugar
    BY DEF UnSoloLugar
<1>1. ListosOK /\ BloqueadosOK
    BY DEF Orden, ListasOK
<1>2. IsInjective(listos)
    BY <1>1, SinParejasInyecta DEF ListosOK
<1>3. modo.alg = "RR" => IsInjective(bloqueados)
    BY <1>1, SinParejasInyecta DEF BloqueadosOK
<1>4. ASSUME modo.alg = "RR", pl.pc \in {"elegir", "recibir"},
             NEW q \in ToSet(listos), q \in ToSet(bloqueados)
      PROVE  FALSE
  <2>1. PICK i \in DOMAIN listos, j \in DOMAIN bloqueados : listos[i] = q /\ bloqueados[j] = q
      BY <1>4 DEF ToSet
  <2>2. FdEn(listos, i) = FdEn(bloqueados, j)
      BY <2>1 DEF FdEn
  <2>3. TerminaElTurno(i)
      BY <1>1, <1>4, <2>2 DEF BloqueadosOK
  <2> QED BY <1>4, <2>3 DEF TerminaElTurno
<1>5. ASSUME SinReuso, NEW i \in DOMAIN bloqueados, NEW j \in DOMAIN bloqueados,
             bloqueados[i] = bloqueados[j], i # j
      PROVE  dd.pc = "liberando" /\ dd.i \in {i, j}
  <2>1. PresosOK
      BY <1>5 DEF Orden, CharlasOK, Charlas
  <2>2. FdEn(bloqueados, i) = FdEn(bloqueados, j)
      BY <1>5 DEF FdEn
  <2>3. SeLibera(i) \/ SeLibera(j)
      BY <1>5, <2>1, <2>2 DEF PresosOK
  <2> QED BY <2>3 DEF SeLibera
<1> QED BY <1>2, <1>3, <1>4, <1>5 DEF UnSoloLugar

(* Without battles no trainer has two places in the list of the ready ones; *)
(* round robin has none twice among the blocked ones, nor both ready and    *)
(* blocked once the turn is over; and SRDF, which keeps the blocked ones in *)
(* both lists, has one twice among them, until a signal is sent, only while *)
(* it is being released.                                                    *)
THEOREM UnSoloLugarSiempre == Spec => []UnSoloLugar
<1>1. Orden => UnSoloLugar
    BY UnSoloLugarDe
<1> QED BY <1>1, OrdenSiempre, PTL

(* Without battles, in round robin or until a signal is sent, each trainer  *)
(* finds in its connection only the answer to what it asked for: no message *)
(* of the planner or of the detection reaches it when it waits for another. *)
THEOREM EnFaseSiempre == Spec => [](~modo.batalla => EnFase)
<1>1. ASSUME Orden, ~modo.batalla, SinReuso, NEW t \in Entrenadores, sock[t] # 0,
             aEntrenador[sock[t]] # <<>>
      PROVE  Head(aEntrenador[sock[t]]).tipo \in Esperados[ent[t].espera]
  <2>1. Charla(t)
      BY <1>1 DEF Orden, CharlasOK, Charlas, DialogosOK
  <2> QED BY <1>1, <2>1, EnFaseDe
<1>2. Orden => (~modo.batalla => EnFase)
    BY <1>1 DEF EnFase
<1> QED BY <1>2, OrdenSiempre, PTL

(* Without battles, in round robin or until a signal is sent, the point the *)
(* map has of a ready trainer is where the trainer is, but for the step     *)
(* served that it has not read yet.                                         *)
THEOREM PosicionSiempre == Spec => []PosicionCoherente
<1>1. ASSUME Orden, SinReuso, ~modo.batalla, NEW i \in DOMAIN listos,
             pcb[listos[i]].fd = sock[pcb[listos[i]].quien]
      PROVE  pcb[listos[i]].punto =
               IF /\ ent[pcb[listos[i]].quien].espera = "ok"
                  /\ aMapa[pcb[listos[i]].fd] = <<>>
               THEN Paso(ent[pcb[listos[i]].quien].pos, ent[pcb[listos[i]].quien].ultima)
               ELSE ent[pcb[listos[i]].quien].pos
  <2>1. PICK t : t = pcb[listos[i]].quien
      OBVIOUS
  <2>2. listos[i] \in DOMAIN pcb /\ pcb[listos[i]] \in Pcbs
      BY <1>1, Tipos DEF Orden
  <2>3. t \in Entrenadores /\ FdEn(listos, i) = sock[t]
      BY <1>1, <2>1, <2>2 DEF Pcbs, FdEn
  <2>4. Anotado(t, i)
      BY <1>1, <2>3 DEF Orden, CharlasOK, Charlas, AnotadosOK
  <2> QED BY <1>1, <2>1, <2>4 DEF Anotado, PuntoDe
<1>2. Orden => PosicionCoherente
    BY <1>1 DEF PosicionCoherente
<1> QED BY <1>2, OrdenSiempre, PTL

(* The only step from reading a request to handing over a pokemon.          *)
LEMMA SoloSeEntrega ==
    ASSUME Supuestos, Control, [Next]_vars, pl.pc = "recibir", pl'.pc = "entregando"
    PROVE  Entregar
<1>1. pl \in Pls
    BY Tipos
<1>2. CASE DeteccionPaso \/ UNCHANGED mapa
  <2>1. UNCHANGED pl
      BY <1>2 DEF DeteccionPaso, NoMirar, Detectar, Retar, FinDeBatallas, EligePrimero,
             EligeSegundo, Elige, Pelear, PelearUltima, SumarRecursos, Morir, Contar,
             PasarseDelFin, SigueBloqueado, Liberar, Liberado, FinDePasada, mapa
  <2> QED BY <2>1
<1>3. CASE MapaPaso
  <2>1. CASE Aceptar \/ Aceptado \/ Dibujar \/ LeerLoAjeno
      BY <2>1 DEF Aceptar, Aceptado, Dibujar, LeerLoAjeno
  <2>2. CASE \/ Elegir \/ Rotar \/ Moviendo \/ Entregado \/ NoEntregado \/ Bloquear
             \/ Bloqueado \/ Soltar \/ QuitarDeVacia \/ Quitar \/ YaNoEsta
             \/ QuitadoPorSi \/ QuitadoDelTurno
      BY <2>2 DEF Elegir, Rotar, Moviendo, Entregado, NoEntregado, Bloquear, Bloqueado, Soltar,
             QuitarDeVacia, Quitar, YaNoEsta, QuitadoPorSi, QuitadoDelTurno
  <2>3. \A res : Sigue(res).pc # "entregando"
      BY <1>1 DEF Sigue, Pls
  <2>4. CASE ObtenerPokenest
      BY <2>3, <2>4 DEF ObtenerPokenest
  <2>5. CASE MoverPosicion \/ Negar \/ DarMedalla
      BY <1>1, <2>5 DEF MoverPosicion, Negar, DarMedalla, Pls
  <2>6. CASE Desconectado
      BY <1>1, <2>3, <2>6 DEF Desconectado, Pls
  <2> QED BY <1>3, <2>1, <2>2, <2>4, <2>5, <2>6 DEF MapaPaso
<1> QED BY <1>2, <1>3 DEF Next, vars

(* Without battles, and while no descriptor of a blocked trainer is used    *)
(* again, the map hands over a pokemon only when the trainer that asked for *)
(* it stands, for the map, on the pokenest of that pokemon.                 *)
THEOREM CapturaSiempre == Spec /\ []SinReuso => CapturaEnElLugar
<1>1. ASSUME Orden, SinReuso, [Next]_vars, ~modo.batalla, pl.pc = "recibir",
             pl'.pc = "entregando"
      PROVE  pcb[pl.corre].punto = Coordenada[Head(aMapa[Fd]).dato]
  <2>1. Supuestos
      BY MundoAssumption, MapaAssumption, EntrenadorAssumption DEF Supuestos
  <2>2. Control /\ CapturasOK
      BY <1>1 DEF Orden, CharlasOK, Charlas
  <2>3. Entregar
      BY <1>1, <2>1, <2>2, SoloSeEntrega
  <2>4. EsCaptura(Fd)
      BY <2>3 DEF Entregar, Pedido, Hay, EsCaptura
  <2>5. PICK i \in DOMAIN listos : listos[i] = pl.corre
      BY <1>1, <2>2 DEF Control, MapaOK, ControlPlan, Sirviendo, Pasos
  <2>6. pcb[listos[i]].fd = Fd
      BY <2>5 DEF Fd
  <2> QED BY <2>2, <2>4, <2>5, <2>6 DEF CapturasOK
<1>2. Orden /\ SinReuso /\ [Next]_vars =>
        [~modo.batalla /\ pl.pc = "recibir" /\ pl'.pc = "entregando" =>
           pcb[pl.corre].punto = Coordenada[Head(aMapa[Fd]).dato]]_vars
    BY <1>1
<1> QED BY <1>2, OrdenSiempre, PTL DEF Spec, CapturaEnElLugar

-----------------------------------------------------------------------------
(* The pokemon files, without battles, while no descriptor of a blocked     *)
(* trainer is used again and until a trainer starts again.                  *)

(* The search by descriptor finds the one that was chosen.                  *)
LEMMA ElDelTurno ==
    ASSUME Supuestos, Control, ~modo.batalla, ListasOK, pl.pc \in Sirviendo
    PROVE  PcbEnListos(Fd) = pl.corre /\ \E i \in DOMAIN listos : listos[i] = pl.corre
<1>1. PICK i \in DOMAIN listos : listos[i] = pl.corre
    BY DEF Control, MapaOK, ControlPlan
<1>2. FdEn(listos, i) = Fd
    BY <1>1 DEF FdEn, Fd
<1> QED BY <1>1, <1>2, ElQueCorre

(* What is being handed over, and whether it was copied, is none or one.    *)
LEMMA UnoONinguno ==
    ASSUME NEW p
    PROVE  /\ EnEntrega(p) \in {0, 1} /\ Copiado(p) \in {0, 1} /\ Copiado(p) <= EnEntrega(p)
           /\ EnEntrega(p) = 1 <=> pl.pc = "entregando" /\ pcb[pl.corre].pide = p
           /\ Copiado(p) = 1 <=> /\ EnEntrega(p) = 1
                                 /\ \/ aMapa[Fd] # <<>>
                                    \/ ent[pcb[pl.corre].quien].espera = "copia"
<1>1. EnEntrega(p) \in {0, 1}
    BY DEF EnEntrega
<1>2. Copiado(p) \in {0, 1} /\ (Copiado(p) = 1 => EnEntrega(p) = 1)
    BY DEF Copiado
<1>3. EnEntrega(p) = 1 <=> pl.pc = "entregando" /\ pcb[pl.corre].pide = p
    BY DEF EnEntrega
<1>4. Copiado(p) = 1 <=> /\ EnEntrega(p) = 1
                         /\ \/ aMapa[Fd] # <<>>
                            \/ ent[pcb[pl.corre].quien].espera = "copia"
    BY DEF Copiado
<1>5. Copiado(p) <= EnEntrega(p)
    BY <1>1, <1>2
<1> QED BY <1>1, <1>2, <1>3, <1>4, <1>5

(* Nobody connects and no t_pcb is allocated.                               *)
LEMMA UnaVezIgual ==
    ASSUME Control, UnaVezOK, Perduran, Len(pcb') = Len(pcb), pcb' \in Seq(Pcbs),
           UNCHANGED cola,
           \A t \in Entrenadores : ent'[t].estado = "SIN_MAPA" => ent[t].estado = "SIN_MAPA"
    PROVE  UnaVezOK'
<1>1. DOMAIN pcb = 1 .. Len(pcb) /\ DOMAIN pcb' = DOMAIN pcb
    BY Tipos
<1>2. \A i \in DOMAIN pcb : pcb'[i].quien = pcb[i].quien /\ pcb'[i].lista = pcb[i].lista
    BY <1>1 DEF Perduran, DelMismo
<1> QED BY <1>1, <1>2 DEF UnaVezOK

(* Only lists of allocated t_pcb grow, and only their trainers have files.  *)
LEMMA SinUsarIgual ==
    ASSUME Control, SinUsarOK, Perduran, Len(pcb') = Len(pcb), pcb' \in Seq(Pcbs),
           \A l \in 1 .. MaxPcb : l > Len(pcb) => rec'[l] = rec[l],
           \A t \in Entrenadores : (\A i \in DOMAIN pcb : pcb[i].quien # t) => bill'[t] = bill[t]
    PROVE  SinUsarOK'
<1>1. DOMAIN pcb = 1 .. Len(pcb) /\ DOMAIN pcb' = DOMAIN pcb
    BY Tipos
<1>2. \A i \in DOMAIN pcb : pcb'[i].quien = pcb[i].quien
    BY <1>1 DEF Perduran, DelMismo
<1> QED BY <1>1, <1>2 DEF SinUsarOK

(* The same lists and the same files: who is recorded with what it has is   *)
(* still, if what it has copied and is not recorded is the same, or less    *)
(* once a signal was sent.                                                  *)
LEMMA RegistradoIgual ==
    ASSUME Control, NEW q \in DOMAIN pcb, Registrado(q), Perduran, UNCHANGED <<rec, bill>>,
           seniales' = 0 => seniales = 0,
           \A p \in Pokenests : /\ SinRegistrar(q, p)' <= SinRegistrar(q, p)
                                /\ seniales' = 0 => SinRegistrar(q, p)' = SinRegistrar(q, p),
           \A p \in Pokenests : SinRegistrar(q, p) \in {0, 1} /\ SinRegistrar(q, p)' \in {0, 1}
    PROVE  Registrado(q)'
<1>1. q \in 1 .. Len(pcb) /\ Len(pcb) <= MaxPcb /\ pcb[q] \in Pcbs
  <2>1. pcb \in Seq(Pcbs) /\ Len(pcb) <= MaxPcb
      BY Tipos DEF MapaTypeOK
  <2> QED BY <2>1
<1>2. pcb'[q].quien = pcb[q].quien
    BY <1>1 DEF Perduran, DelMismo
<1>3. ASSUME NEW p \in Pokenests
      PROVE  /\ rec'[q][p] + SinRegistrar(q, p)' <= bill'[pcb'[q].quien][p]
             /\ seniales' = 0 =>
                  rec'[q][p] + SinRegistrar(q, p)' = bill'[pcb'[q].quien][p]
  <2>1. PICK a, b : a = rec[q][p] /\ b = bill[pcb[q].quien][p]
      OBVIOUS
  <2>2. q \in 1 .. MaxPcb /\ pcb[q].quien \in Entrenadores
    <3>1. Len(pcb) \in Nat /\ MaxPcb \in Nat
        BY Tipos, MapaAssumption
    <3> QED BY <1>1, <3>1 DEF Pcbs
  <2>3. a \in Nat /\ b \in Nat
      BY <2>1, <2>2, Tipos DEF MundoTypeOK
  <2>4. rec'[q][p] = a /\ bill'[pcb'[q].quien][p] = b
      BY <1>2, <2>1
  <2>5. /\ a + SinRegistrar(q, p) <= b
        /\ seniales = 0 => a + SinRegistrar(q, p) = b
      BY <2>1 DEF Registrado
  <2>6. PICK c, d : c = SinRegistrar(q, p) /\ d = SinRegistrar(q, p)'
      OBVIOUS
  <2>7. c \in {0, 1} /\ d \in {0, 1} /\ d <= c /\ (seniales' = 0 => d = c)
      BY <2>6
  <2>8. a + d <= b /\ (seniales' = 0 => a + d = b)
      BY <2>3, <2>5, <2>6, <2>7
  <2> QED BY <2>4, <2>6, <2>8
<1> QED BY <1>3 DEF Registrado

DevolvioLuego(q) == pl'.pc = "quitando" /\ q = pl'.corre

(* What has to be said of a step that leaves the files alone: nobody was    *)
(* put in listaListos, and what is copied and not recorded is the same, or  *)
(* less once a signal was sent.                                             *)
DebenLoMismo ==
    /\ \A i \in DOMAIN listos' : \E j \in DOMAIN listos :
         listos'[i] = listos[j] /\ (Devolvio(listos[j]) => DevolvioLuego(listos[j]))
    /\ pl'.corre = pl.corre \/ (pl.pc = "elegir" /\ pl'.pc # "entregando")
    /\ \A p \in Pokenests : /\ Copiado(p)' <= Copiado(p)
                            /\ seniales' = 0 => Copiado(p)' = Copiado(p)

(* ... and of one that leaves the counts alone too: so is what is being     *)
(* handed over.                                                             *)
SinPrestar ==
    /\ DebenLoMismo
    /\ \A p \in Pokenests : /\ EnEntrega(p)' <= EnEntrega(p)
                            /\ seniales' = 0 => EnEntrega(p)' = EnEntrega(p)

(* The lists of who is ready, then.                                         *)
LEMMA RegistradosIgual ==
    ASSUME Control, Control', RegistradosOK, Perduran, UNCHANGED <<rec, bill>>,
           seniales' = 0 => seniales = 0, DebenLoMismo
    PROVE  RegistradosOK'
<1> SUFFICES ASSUME NEW i \in DOMAIN listos' PROVE (Devolvio(listos[i]) \/ Registrado(listos[i]))'
    BY DEF RegistradosOK
<1>1. PICK j \in DOMAIN listos :
         listos'[i] = listos[j] /\ (Devolvio(listos[j]) => DevolvioLuego(listos[j]))
    BY DEF DebenLoMismo
<1>2. PICK q : q = listos[j]
    OBVIOUS
<1>3. q \in DOMAIN pcb
  <2>1. listos \in Seq(1 .. Len(pcb)) /\ pcb \in Seq(Pcbs)
      BY Tipos
  <2> QED BY <1>2, <2>1
<1>4. Devolvio(q) \/ Registrado(q)
    BY <1>2 DEF RegistradosOK
<1>5. ASSUME Registrado(q) PROVE Registrado(q)'
  <2>1. \A p \in Pokenests : Copiado(p)' \in {0, 1}
      BY DEF Copiado
  <2>2. \A p \in Pokenests : Copiado(p) \in {0, 1}
      BY DEF Copiado
  <2>3. \A p \in Pokenests : SinRegistrar(q, p) \in {0, 1} /\ SinRegistrar(q, p)' \in {0, 1}
      BY <2>1, <2>2 DEF SinRegistrar
  <2>4. CASE pl'.corre = pl.corre
    <3>1. \A p \in Pokenests : /\ SinRegistrar(q, p)' <= SinRegistrar(q, p)
                               /\ seniales' = 0 => SinRegistrar(q, p)' = SinRegistrar(q, p)
        BY <2>1, <2>2, <2>4 DEF SinRegistrar, DebenLoMismo
    <3> QED BY <1>3, <1>5, <2>3, <3>1, RegistradoIgual
  <2>5. CASE pl.pc = "elegir" /\ pl'.pc # "entregando"
    <3>1. \A p \in Pokenests : Copiado(p) = 0 /\ Copiado(p)' = 0
        BY <2>5 DEF Copiado, EnEntrega
    <3>2. \A p \in Pokenests : SinRegistrar(q, p)' = 0 /\ SinRegistrar(q, p) = 0
        BY <3>1 DEF SinRegistrar
    <3> QED BY <1>3, <1>5, <2>3, <3>2, RegistradoIgual
  <2> QED BY <2>4, <2>5 DEF DebenLoMismo
<1>6. listos'[i] = q
    BY <1>1, <1>2
<1>7. CASE Devolvio(q)
  <2>1. DevolvioLuego(q)
      BY <1>1, <1>2, <1>7
  <2> QED BY <1>6, <2>1 DEF Devolvio, DevolvioLuego
<1>8. CASE Registrado(q)
  <2>1. Registrado(q)'
      BY <1>5, <1>8
  <2> QED BY <1>6, <2>1 DEF Registrado, SinRegistrar
<1> QED BY <1>4, <1>7, <1>8

(* A step that leaves the files and the counts alone.                       *)
LEMMA CuentasSalvoVez ==
    ASSUME Control, Control', Cuentas, Perduran, Len(pcb') = Len(pcb),
           UNCHANGED <<nido, bill, cant, rec>>, seniales' = 0 => seniales = 0, SinPrestar
    PROVE  SinUsarOK' /\ RegistradosOK' /\ \A p \in Pokenests : Ofrecido(p)'
<1>1. pcb' \in Seq(Pcbs)
    BY DEF Control, MapaOK, MapaTypeOK
<1>2. SinUsarOK'
    BY <1>1, SinUsarIgual DEF Cuentas
<1>3. RegistradosOK'
    BY RegistradosIgual DEF Cuentas, SinPrestar
<1>4. ASSUME NEW p \in Pokenests PROVE Ofrecido(p)'
  <2>1. PICK c, n, e : c = cant[p] /\ n = nido[p] /\ e = EnEntrega(p)
      OBVIOUS
  <2>2. c \in Int /\ n \in Nat /\ e \in {0, 1}
      BY <2>1, UnoONinguno, Tipos DEF MundoTypeOK
  <2>3. c >= 0 /\ c + e <= n /\ (seniales = 0 => c + e = n)
      BY <2>1 DEF Cuentas, Ofrecido
  <2>4. PICK f : f = EnEntrega(p)'
      OBVIOUS
  <2>5. f \in {0, 1}
      BY <2>4 DEF EnEntrega
  <2>6. f <= e /\ (seniales' = 0 => f = e)
      BY <2>1, <2>4 DEF SinPrestar
  <2>7. c >= 0 /\ c + f <= n /\ (seniales' = 0 => c + f = n)
      BY <2>2, <2>3, <2>5, <2>6
  <2> QED BY <2>1, <2>4, <2>7 DEF Ofrecido
<1> QED BY <1>2, <1>3, <1>4

(* ... and allocates nothing and does not connect anybody.                  *)
LEMMA CuentasAparte ==
    ASSUME Control, Control', Cuentas, Perduran, Len(pcb') = Len(pcb),
           UNCHANGED <<nido, bill, cant, rec, cola>>, seniales' = 0 => seniales = 0,
           \A t \in Entrenadores : ent'[t].estado = "SIN_MAPA" => ent[t].estado = "SIN_MAPA",
           SinPrestar, CapturasSolas'
    PROVE  Cuentas'
<1>1. pcb' \in Seq(Pcbs)
    BY DEF Control, MapaOK, MapaTypeOK
<1>2. UnaVezOK'
    BY <1>1, UnaVezIgual DEF Cuentas
<1> QED BY <1>2, CuentasSalvoVez DEF Cuentas

(* Reading leaves a request to capture alone.                               *)
LEMMA SolasConsume ==
    ASSUME Control, CapturasOK, CapturasSolas, Consume
    PROVE  CapturasSolas'
<1>1. ASSUME NEW s \in Fds, CapturaLuego(s) PROVE Tail(aMapa'[s]) = <<>>
  <2>1. aMapa'[s] = aMapa[s] /\ EsCaptura(s)
      BY <1>1, CapturasConsume
  <2> QED BY <2>1 DEF CapturasSolas
<1> QED BY <1>1 DEF CapturasSolas, EsCaptura, CapturaLuego

(* Nothing is said.                                                         *)
LEMMA SolasIgual ==
    ASSUME CapturasSolas, aMapa' = aMapa
    PROVE  CapturasSolas'
BY DEF CapturasSolas, EsCaptura

(* No t_pcb is allocated but for a connection.                              *)
LEMMA MismosPcb ==
    ASSUME Supuestos, Control, Control',
           \/ Aceptado \/ Dibujar \/ Elegir \/ Rotar \/ ObtenerPokenest \/ MoverPosicion
           \/ Moviendo \/ Entregar \/ Entregado \/ NoEntregado \/ Negar \/ Bloquear \/ Bloqueado
           \/ DarMedalla \/ Desconectado \/ LeerLoAjeno \/ Soltar \/ QuitarDeVacia \/ Quitar
           \/ YaNoEsta \/ QuitadoPorSi \/ QuitadoDelTurno
    PROVE  Len(pcb') = Len(pcb) /\ Perduran
<1>1. CASE ObtenerPokenest \/ MoverPosicion
    BY <1>1, PcbObtener, PcbMover
<1>2. CASE \/ Aceptado \/ Dibujar \/ Elegir \/ Rotar \/ Moviendo \/ Entregar \/ Entregado
           \/ NoEntregado \/ Negar \/ Bloquear \/ Bloqueado \/ DarMedalla \/ Desconectado
           \/ LeerLoAjeno \/ Soltar \/ QuitarDeVacia \/ Quitar \/ YaNoEsta \/ QuitadoPorSi
           \/ QuitadoDelTurno
  <2>1. Perduran
      BY <1>2, QuietoMapa, QuietosPerduran
  <2>2. CASE UNCHANGED pcb
      BY <2>1, <2>2
  <2>3. CASE Dibujar
      BY <2>1, <2>3, QuietoDibujar
  <2>4. CASE Entregado
      BY <2>1, <2>4, QuietoEntregado
  <2>5. CASE pcb' = Conocida(pcb) /\ pl.pc \in Sirviendo
    <3>1. pcb \in Seq(Pcbs) /\ pl.corre \in 1 .. Len(pcb)
        BY <2>5, Sirve
    <3> QED BY <2>1, <2>5, <3>1, ConocidaIgual
  <2>6. CASE Soltar
    <3>1. pl.pc \in Sirviendo
        BY <2>6 DEF Soltar, Sirviendo, Pasos
    <3>2. PcbEnListos(Fd) \in 1 .. Len(pcb) /\ "SE_DESCONECTO" \in Acciones
        BY <3>1, Sirve DEF Acciones
    <3>3. pcb' = [pcb EXCEPT ![PcbEnListos(Fd)].accion = "SE_DESCONECTO"]
        BY <2>6 DEF Soltar
    <3>4. Len(pcb') = Len(pcb)
        BY <3>2, <3>3, AccionQuieta
    <3> QED BY <2>1, <3>4
  <2>8. CASE Quitar
    <3> DEFINE q == listos[Lugar(listos, Fd)]
    <3>1. Lugar(listos, Fd) # 0 /\ pcb' = [pcb EXCEPT ![q].accion = "SE_BLOQUEO"]
        BY <2>8 DEF Quitar
    <3>2. Lugar(listos, Fd) \in DOMAIN listos
      <4>1. MapaTypeOK /\ listos \in Seq(1 .. Len(pcb))
          BY Tipos
      <4> QED BY <3>1, <4>1, LugarEs
    <3>3. q \in 1 .. Len(pcb) /\ "SE_BLOQUEO" \in Acciones
        BY <3>2, Tipos DEF Acciones
    <3> HIDE DEF q
    <3>4. Len(pcb') = Len(pcb)
        BY <3>1, <3>3, AccionQuieta
    <3> QED BY <2>1, <3>4
  <2>7. \/ UNCHANGED pcb \/ Dibujar \/ Entregado \/ Soltar \/ Quitar
        \/ pcb' = Conocida(pcb) /\ pl.pc \in Sirviendo
      BY <1>2 DEF Aceptado, Elegir, Rotar, Moviendo, Entregar, NoEntregado, Negar, Bloquear,
             Bloqueado, DarMedalla, Desconectado, LeerLoAjeno, QuitarDeVacia, YaNoEsta,
             QuitadoPorSi, QuitadoDelTurno, listas, Sirviendo, Pasos
  <2> QED BY <2>1, <2>2, <2>3, <2>4, <2>5, <2>6, <2>7, <2>8
<1> QED BY <1>1, <1>2

(* Nobody new is in listaListos, and who gave back its files is out of it   *)
(* when its removal ends.                                                   *)
LEMMA PrestadoFuera ==
    ASSUME Supuestos, Control, pl.pc # "entregando", pl'.pc # "entregando",
           pl'.corre = pl.corre \/ pl.pc = "elegir",
           \A i \in DOMAIN listos' : \E j \in DOMAIN listos :
             listos'[i] = listos[j] /\ (Devolvio(listos[j]) => DevolvioLuego(listos[j]))
    PROVE  SinPrestar
<1>1. \A p : /\ EnEntrega(p) = 0 /\ EnEntrega(p)' = 0
             /\ Copiado(p) = 0 /\ Copiado(p)' = 0
    BY DEF EnEntrega, Copiado
<1> QED BY <1>1 DEF SinPrestar, DebenLoMismo

(* What the planner does when it is not delivering a pokemon: it gives no   *)
(* turn to somebody that was not ready.                                     *)
LEMMA AgregaNinguno ==
    ASSUME Supuestos, Control, Control', ~modo.batalla, ListasOK,
           \/ Elegir \/ Rotar \/ ObtenerPokenest \/ MoverPosicion \/ Moviendo \/ Negar
           \/ Bloquear \/ Bloqueado \/ DarMedalla \/ Desconectado \/ QuitarDeVacia \/ Quitar
           \/ YaNoEsta \/ QuitadoPorSi \/ QuitadoDelTurno
    PROVE  \A i \in DOMAIN listos' : \E j \in DOMAIN listos :
             listos'[i] = listos[j] /\ ~Devolvio(listos[j])
<1>1. CASE Rotar
  <2>1. pl.pc # "quitando"
      BY <1>1 DEF Rotar
  <2> QED BY <1>1, <2>1, RotarNoAgrega DEF Devolvio
<1>2. CASE QuitadoPorSi \/ QuitadoDelTurno
  <2>1. /\ pl.pc \in {"quitando", "cerrar"} /\ listos' = RemoveAt(listos, pl.sitio)
        /\ pl.sitio \in DOMAIN listos /\ listos \in Seq(1 .. Len(pcb))
        /\ FdEn(listos, pl.sitio) = Fd /\ SinParejas(listos)
      BY <1>2, Tipos DEF QuitadoPorSi, QuitadoDelTurno, Quitado, ControlPlan, ListosOK, ListasOK
  <2>2. pl.sitio \in 1 .. Len(listos)
      BY <2>1
  <2>3. Menos(listos', listos, pl.sitio)
      BY <2>1, <2>2, SinUnLugar
  <2>4. PICK f \in [DOMAIN listos' -> DOMAIN listos] :
               \A i \in DOMAIN listos' : listos'[i] = listos[f[i]] /\ f[i] # pl.sitio
      BY <2>3 DEF Menos
  <2>5. ASSUME NEW i \in DOMAIN listos' PROVE ~Devolvio(listos[f[i]])
    <3>1. f[i] \in DOMAIN listos /\ f[i] # pl.sitio
        BY <2>4
    <3>2. FdEn(listos, f[i]) # Fd
        BY <2>1, <3>1 DEF SinParejas
    <3> QED BY <3>2 DEF Devolvio, FdEn, Fd
  <2> QED BY <2>4, <2>5
<1>3. CASE \/ Elegir \/ ObtenerPokenest \/ MoverPosicion \/ Moviendo \/ Negar
           \/ Bloquear \/ Bloqueado \/ DarMedalla \/ Desconectado \/ QuitarDeVacia \/ Quitar
           \/ YaNoEsta
  <2>1. listos' = listos /\ pl.pc # "quitando"
      BY <1>3 DEF Elegir, ObtenerPokenest, MoverPosicion, Moviendo, Negar, Bloquear, Bloqueado,
             DarMedalla, Desconectado, QuitarDeVacia, Quitar, YaNoEsta, Pedido, listas
  <2> QED BY <2>1 DEF Devolvio
<1> QED BY <1>1, <1>2, <1>3

(* Where it goes then.                                                      *)
LEMMA NoEntrega ==
    ASSUME Supuestos, Control, Control', ~modo.batalla, ListasOK,
           \/ Elegir \/ Rotar \/ ObtenerPokenest \/ MoverPosicion \/ Moviendo \/ Negar
           \/ Bloquear \/ Bloqueado \/ DarMedalla \/ Desconectado \/ QuitarDeVacia \/ Quitar
           \/ YaNoEsta \/ QuitadoPorSi \/ QuitadoDelTurno
    PROVE  /\ pl.pc # "entregando" /\ pl'.pc # "entregando"
           /\ pl'.corre = pl.corre \/ pl.pc = "elegir"
<1>1. pl.pc # "entregando"
    BY DEF Elegir, Rotar, ObtenerPokenest, MoverPosicion, Moviendo, Negar, Bloquear, Bloqueado,
           DarMedalla, Desconectado, QuitarDeVacia, Quitar, YaNoEsta, QuitadoPorSi,
           QuitadoDelTurno, Pedido
<1>2. pl \in Pls
    BY Tipos
<1>3. CASE pl.pc \in Sirviendo \ {"rotar"} /\ \E res \in 0 .. 2 : pl' = Sigue(res)
  <2>1. PICK res \in 0 .. 2 : pl' = Sigue(res)
      BY <1>3
  <2> QED BY <1>1, <1>3, <2>1, SigueAdonde
<1>4. CASE \/ \E x \in Pasos \ {"entregando"} : pl' = [pl EXCEPT !.pc = x]
           \/ \E b : \E x \in Pasos \ {"entregando"} : pl' = [pl EXCEPT !.pc = x, !.cierra = b]
           \/ \E b : \E x \in Pasos \ {"entregando"} : pl' = [pl EXCEPT !.pc = x, !.sitio = b]
    BY <1>1, <1>2, <1>4 DEF Pls
<1>5. CASE Elegir
    BY <1>1, <1>2, <1>5 DEF Elegir, Pls
<1>6. CASE ObtenerPokenest \/ Moviendo \/ Bloqueado \/ QuitadoPorSi
  <2>1. pl.pc \in Sirviendo \ {"rotar"}
      BY <1>6 DEF ObtenerPokenest, Moviendo, Bloqueado, QuitadoPorSi, Pedido, Sirviendo, Pasos
  <2>2. pl' = Sigue(0) \/ pl' = Sigue(1) \/ pl' = Sigue(2)
      BY <1>6 DEF ObtenerPokenest, Moviendo, Bloqueado, QuitadoPorSi
  <2>3. 0 \in 0 .. 2 /\ 1 \in 0 .. 2 /\ 2 \in 0 .. 2
      OBVIOUS
  <2> QED BY <1>3, <2>1, <2>2, <2>3
<1>7. CASE Desconectado
  <2>1. pl.pc \in Sirviendo \ {"rotar"}
      BY <1>7 DEF Desconectado, Sirviendo, Pasos
  <2>2. pl' = Sigue(1) \/ \E b : pl' = [pl EXCEPT !.pc = "soltar", !.cierra = b]
      BY <1>7 DEF Desconectado
  <2>3. 1 \in 0 .. 2 /\ "soltar" \in Pasos \ {"entregando"}
      BY DEF Pasos
  <2> QED BY <1>3, <1>4, <2>1, <2>2, <2>3
<1>8. CASE \/ Rotar \/ MoverPosicion \/ Negar \/ Bloquear \/ DarMedalla \/ QuitarDeVacia
           \/ Quitar \/ YaNoEsta \/ QuitadoDelTurno
  <2>1. \/ \E x \in {"elegir", "moviendo", "bloquear", "bloqueando"} : pl' = [pl EXCEPT !.pc = x]
        \/ pl' = [pl EXCEPT !.pc = "soltar", !.cierra = FALSE]
        \/ \E i : pl' = [pl EXCEPT !.pc = "cerrar", !.sitio = i]
      BY <1>8 DEF Rotar, MoverPosicion, Negar, Bloquear, DarMedalla, QuitarDeVacia, Quitar,
             YaNoEsta, QuitadoDelTurno
  <2>2. {"elegir", "moviendo", "bloquear", "bloqueando", "soltar", "cerrar"}
          \subseteq Pasos \ {"entregando"}
      BY DEF Pasos
  <2> QED BY <1>4, <2>1, <2>2
<1> QED BY <1>5, <1>6, <1>7, <1>8

(* It reads at most one message.                                            *)
LEMMA ConsumeElPlan ==
    ASSUME Supuestos, Control, ~modo.batalla, ListasOK,
           \/ Elegir \/ Rotar \/ ObtenerPokenest \/ MoverPosicion \/ Moviendo \/ Negar
           \/ Entregar \/ Entregado
           \/ Bloquear \/ Bloqueado \/ DarMedalla \/ Desconectado \/ QuitarDeVacia \/ Quitar
           \/ YaNoEsta \/ QuitadoPorSi \/ QuitadoDelTurno
    PROVE  Consume
<1>1. CASE aMapa' = aMapa
    BY <1>1 DEF Consume
<1>2. CASE \/ ObtenerPokenest \/ MoverPosicion \/ Negar \/ Entregar \/ Entregado \/ DarMedalla
  <2>1. pl.pc \in Sirviendo /\ aMapa[Fd] # <<>> /\ aMapa' = [aMapa EXCEPT ![Fd] = Tail(@)]
      BY <1>2 DEF ObtenerPokenest, MoverPosicion, Negar, Entregar, Entregado, DarMedalla,
             Pedido, Hay, Sirviendo, Pasos
  <2>2. PICK s \in Fds : s = Fd
      BY <2>1, Sirve
  <2> QED BY <2>1, <2>2, QuedaMenos
<1>3. CASE \/ Elegir \/ Rotar \/ Moviendo \/ Bloquear \/ Bloqueado \/ Desconectado
           \/ QuitarDeVacia \/ Quitar \/ YaNoEsta \/ QuitadoPorSi \/ QuitadoDelTurno
    BY <1>1, <1>3 DEF Elegir, Rotar, Moviendo, Bloquear, Bloqueado, Desconectado, QuitarDeVacia,
           Quitar, YaNoEsta, QuitadoPorSi, QuitadoDelTurno, mundo
<1> QED BY <1>2, <1>3

(* None of these steps changes what is counted.                             *)
LEMMA CuentasFuera ==
    ASSUME Supuestos, Control, Control', ~modo.batalla, ListasOK, Charlas, Cuentas,
           UNCHANGED <<dd, ent, seniales>>,
           \/ Elegir \/ Rotar \/ ObtenerPokenest \/ MoverPosicion \/ Moviendo \/ Negar
           \/ Bloquear \/ Bloqueado \/ DarMedalla \/ Desconectado \/ QuitarDeVacia \/ Quitar
           \/ YaNoEsta \/ QuitadoPorSi \/ QuitadoDelTurno
    PROVE  Cuentas'
<1>1. Len(pcb') = Len(pcb) /\ Perduran
    BY MismosPcb
<1>2. /\ pl.pc # "entregando" /\ pl'.pc # "entregando"
      /\ pl'.corre = pl.corre \/ pl.pc = "elegir"
    BY NoEntrega
<1>3. SinPrestar
    BY <1>2, AgregaNinguno, PrestadoFuera
<1>4. CapturasSolas'
    BY ConsumeElPlan, SolasConsume DEF Charlas, Cuentas
<1>5. UNCHANGED <<nido, bill, cant, rec, cola>>
    BY DEF Elegir, Rotar, ObtenerPokenest, MoverPosicion, Moviendo, Negar, Bloquear, Bloqueado,
           DarMedalla, Desconectado, QuitarDeVacia, Quitar, YaNoEsta, QuitadoPorSi,
           QuitadoDelTurno, mundo, archivos, listas
<1>6. \A t \in Entrenadores : ent'[t].estado = "SIN_MAPA" => ent[t].estado = "SIN_MAPA"
    OBVIOUS
<1>7. seniales' = 0 => seniales = 0
    OBVIOUS
<1> QED BY <1>1, <1>3, <1>4, <1>5, <1>6, <1>7, CuentasAparte

(* While the planner stays where it is, what it delivers is the same.       *)
LEMMA MismaEntrega ==
    ASSUME Supuestos, Control, Quietos, UNCHANGED pl
    PROVE  /\ \A p : EnEntrega(p)' = EnEntrega(p)
           /\ pl.pc = "entregando" => /\ Fd \in Fds /\ Fd' = Fd
                                      /\ pcb'[pl.corre].quien = pcb[pl.corre].quien
<1>1. CASE pl.pc = "entregando"
  <2>1. pl.pc \in Sirviendo
      BY <1>1 DEF Sirviendo, Pasos
  <2>2. pl.corre \in 1 .. Len(pcb) /\ Fd \in Fds
      BY <2>1, Sirve
  <2>3. EnElMismo(pcb'[pl.corre], pcb[pl.corre])
      BY <2>2 DEF Quietos
  <2> QED BY <2>2, <2>3 DEF EnElMismo, DelMismo, EnEntrega, Fd
<1>2. CASE pl.pc # "entregando"
    BY <1>2 DEF EnEntrega
<1> QED BY <1>1, <1>2

(* ... and so is what has been copied of it, if nobody says anything.       *)
LEMMA MismoCopiado ==
    ASSUME Supuestos, Control, Quietos, UNCHANGED <<pl, aMapa, ent>>
    PROVE  \A p : EnEntrega(p)' = EnEntrega(p) /\ Copiado(p)' = Copiado(p)
<1>1. \A p : EnEntrega(p)' = EnEntrega(p)
    BY MismaEntrega
<1>2. CASE pl.pc = "entregando"
  <2>1. Fd' = Fd /\ pcb'[pl.corre].quien = pcb[pl.corre].quien
      BY <1>2, MismaEntrega
  <2> QED BY <1>1, <2>1 DEF Copiado
<1>3. CASE pl.pc # "entregando"
    BY <1>1, <1>3 DEF Copiado, EnEntrega
<1> QED BY <1>1, <1>2, <1>3

(* Steps that do not touch the lists nor the connections.                   *)
LEMMA CuentasMientras ==
    ASSUME Supuestos, Control, Control', ~modo.batalla, ListasOK, Charlas, Cuentas,
           UNCHANGED <<dd, ent, seniales>>, Aceptado \/ Dibujar \/ LeerLoAjeno
    PROVE  Cuentas'
<1>1. Len(pcb') = Len(pcb) /\ Perduran
    BY MismosPcb
<1>2. Quietos
    BY QuietoMapa
<1>3. UNCHANGED <<listos, pl, aMapa, nido, bill, cant, rec, cola>>
    BY DEF Aceptado, Dibujar, LeerLoAjeno, mundo, listas
<1>4. \A p : EnEntrega(p)' = EnEntrega(p)
    BY <1>2, <1>3, MismoCopiado
<1>5. \A p : Copiado(p)' = Copiado(p)
    BY <1>2, <1>3, MismoCopiado
<1>6. SinPrestar
  <2>1. \A p : Copiado(p) \in {0, 1} /\ EnEntrega(p) \in {0, 1}
      BY UnoONinguno
  <2>2. \A i \in DOMAIN listos' : \E j \in DOMAIN listos :
              listos'[i] = listos[j] /\ (Devolvio(listos[j]) => DevolvioLuego(listos[j]))
      BY <1>3 DEF Devolvio, DevolvioLuego
  <2> QED BY <1>3, <1>4, <1>5, <2>1, <2>2 DEF SinPrestar, DebenLoMismo
<1>7. CapturasSolas'
    BY <1>3, SolasIgual DEF Cuentas
<1>8. \A t \in Entrenadores : ent'[t].estado = "SIN_MAPA" => ent[t].estado = "SIN_MAPA"
    OBVIOUS
<1> QED BY <1>1, <1>3, <1>6, <1>7, <1>8, CuentasAparte

(* A delivery is given up only if a signal was sent.                        *)
LEMMA CuentasNoEntregado ==
    ASSUME Supuestos, Control, Control', ~modo.batalla, ListasOK, Charlas, Cuentas,
           UNCHANGED <<dd, ent, seniales>>, NoEntregado
    PROVE  Cuentas'
<1>1. Len(pcb') = Len(pcb) /\ Perduran
    BY MismosPcb
<1>2. UNCHANGED <<listos, aMapa, nido, bill, cant, rec, cola>> /\ pl.pc = "entregando"
      /\ Cortado(Fd) /\ pl' = Sigue(1)
    BY DEF NoEntregado, mundo
<1>3. pl.pc \in Sirviendo \ {"rotar"} /\ pl.pc \in Sirviendo \ {"soltar", "quitando"} /\ 1 \in 0 .. 2
    BY <1>2 DEF Sirviendo, Pasos
<1>4. pl'.corre = pl.corre /\ pl'.pc # "entregando"
    BY <1>2, <1>3, SigueAdonde
<1>5. seniales # 0
  <2> SUFFICES ASSUME seniales = 0 PROVE FALSE
      OBVIOUS
  <2>1. extremo[Fd] = "abierto"
      BY <1>3, Presente DEF Charlas
  <2> QED BY <1>2, <2>1 DEF Cortado
<1>6. SinPrestar
  <2>1. \A p : EnEntrega(p)' = 0 /\ Copiado(p)' = 0
      BY <1>4 DEF EnEntrega, Copiado
  <2>2. \A p : Copiado(p) \in {0, 1} /\ EnEntrega(p) \in {0, 1}
      BY UnoONinguno
  <2>3. \A p : Copiado(p)' <= Copiado(p) /\ EnEntrega(p)' <= EnEntrega(p)
      BY <2>1, <2>2
  <2>4. \A i : ~Devolvio(listos[i])
      BY <1>2 DEF Devolvio
  <2> QED BY <1>2, <1>4, <1>5, <2>3, <2>4 DEF SinPrestar, DebenLoMismo
<1>7. CapturasSolas'
    BY <1>2, SolasIgual DEF Cuentas
<1>8. \A t \in Entrenadores : ent'[t].estado = "SIN_MAPA" => ent[t].estado = "SIN_MAPA"
    OBVIOUS
<1> QED BY <1>1, <1>2, <1>6, <1>7, <1>8, CuentasAparte

(* The detection, without battles, looks at the counts and changes none.    *)
LEMMA CuentasDeteccion ==
    ASSUME Supuestos, Control, Control', ~modo.batalla, ListasOK, Charlas, Cuentas,
           UNCHANGED <<ent, seniales>>,
           \/ NoMirar \/ Contar \/ PasarseDelFin \/ SigueBloqueado \/ Liberar \/ Liberado
           \/ FinDePasada
    PROVE  Cuentas'
<1>1. Quietos /\ Perduran
    BY QuietoDeteccion, QuietosPerduran
<1>2. UNCHANGED <<listos, pl, aMapa, nido, bill, cant, rec, cola>>
    BY DEF NoMirar, Contar, PasarseDelFin, SigueBloqueado, Liberar, Liberado, FinDePasada,
           mundo, mapa, listas, archivos
<1>3. Len(pcb') = Len(pcb)
  <2>1. CASE Liberar
    <3>1. \E q, a : pcb' = [pcb EXCEPT ![q].accion = a]
        BY <2>1 DEF Liberar
    <3>2. pcb \in Seq(Pcbs)
        BY Tipos
    <3> QED BY <3>1, <3>2
  <2>2. CASE ~Liberar
      BY <2>2 DEF NoMirar, Contar, PasarseDelFin, SigueBloqueado, Liberado, FinDePasada, mapa, listas
  <2> QED BY <2>1, <2>2
<1>4. \A p : EnEntrega(p)' = EnEntrega(p)
    BY <1>1, <1>2, MismoCopiado
<1>5. \A p : Copiado(p)' = Copiado(p)
    BY <1>1, <1>2, MismoCopiado
<1>6. SinPrestar
  <2>1. \A p : Copiado(p) \in {0, 1} /\ EnEntrega(p) \in {0, 1}
      BY UnoONinguno
  <2>2. \A i \in DOMAIN listos' : \E j \in DOMAIN listos :
              listos'[i] = listos[j] /\ (Devolvio(listos[j]) => DevolvioLuego(listos[j]))
      BY <1>2 DEF Devolvio, DevolvioLuego
  <2> QED BY <1>2, <1>4, <1>5, <2>1, <2>2 DEF SinPrestar, DebenLoMismo
<1>7. CapturasSolas'
    BY <1>2, SolasIgual DEF Cuentas
<1>8. \A t \in Entrenadores : ent'[t].estado = "SIN_MAPA" => ent[t].estado = "SIN_MAPA"
    OBVIOUS
<1> QED BY <1>1, <1>2, <1>3, <1>6, <1>7, <1>8, CuentasAparte

(* How many of each there may be.                                           *)
LEMMA Numeros ==
    ASSUME Control, NEW p \in Pokenests
    PROVE  /\ nido[p] \in Nat /\ cant[p] \in Int
           /\ \A t \in Entrenadores : bill[t][p] \in Nat
           /\ \A l \in 1 .. MaxPcb : rec[l][p] \in Nat
<1>1. /\ nido \in [Pokenests -> Nat] /\ bill \in [Entrenadores -> [Pokenests -> Nat]]
    BY Tipos DEF MundoTypeOK
<1> QED BY <1>1, Tipos

(* Whose is each t_pcb, and which its list.                                 *)
LEMMA SuLista ==
    ASSUME Supuestos, Control, NEW q \in 1 .. Len(pcb)
    PROVE  /\ q \in 1 .. MaxPcb /\ q \in DOMAIN pcb /\ pcb[q].quien \in Entrenadores
           /\ pcb[q].fd \in Fds
           /\ UnaVezOK => pcb[q].lista = q
<1>1. pcb \in Seq(Pcbs) /\ Len(pcb) \in Nat /\ Len(pcb) <= MaxPcb /\ MaxPcb \in Nat
    BY Tipos DEF MapaTypeOK, Supuestos, MapaAssumption
<1>2. q \in DOMAIN pcb /\ pcb[q] \in Pcbs
    BY <1>1
<1> QED BY <1>1, <1>2 DEF Pcbs, UnaVezOK

(* What is being handed over has not been copied when it is offered.        *)
LEMMA EntregarEs ==
    ASSUME Supuestos, Control, Control', ~modo.batalla, ListasOK, Charlas, Cuentas,
           UNCHANGED <<dd, ent, seniales>>, Entregar
    PROVE  \A x : /\ EnEntrega(x) = 0 /\ Copiado(x) = 0 /\ Copiado(x)' = 0
                  /\ EnEntrega(x)' = IF x = Head(aMapa[Fd]).dato THEN 1 ELSE 0
<1>1. PICK p : p = Head(aMapa[Fd]).dato
    OBVIOUS
<1>2. /\ Pedido("CAPTURAR") /\ pl' = [pl EXCEPT !.pc = "entregando"]
      /\ UNCHANGED <<pcb, listos>>
    BY <1>1 DEF Entregar, listas
<1>3. p \in Pokenests /\ pl.pc = "recibir" /\ pl.pc \in Sirviendo /\ pl \in Pls
    BY <1>1, <1>2, PedidoEs, Tipos DEF DatosAlMapa
<1>4. pl'.pc = "entregando" /\ pl'.corre = pl.corre /\ Fd' = Fd
  <2>1. pl'.pc = "entregando" /\ pl'.corre = pl.corre
      BY <1>2, <1>3 DEF Pls
  <2> QED BY <1>2, <2>1 DEF Fd
<1>5. PICK s \in Fds : s = Fd
    BY <1>3, Sirve
<1>6. EsCaptura(s) /\ aMapa[s] # <<>> /\ aMapa' = [aMapa EXCEPT ![s] = Tail(@)]
    BY <1>2, <1>5 DEF Pedido, Hay, EsCaptura
<1>7. aMapa'[s] = <<>>
  <2>1. aMapa'[s] = Tail(aMapa[s])
      BY <1>6, QuedaMenos
  <2> QED BY <1>6, <2>1 DEF Cuentas, CapturasSolas
<1>8. pcb[pl.corre].pide = p
  <2>1. PICK i \in DOMAIN listos : listos[i] = pl.corre
      BY <1>3, ElDelTurno
  <2>2. pcb[listos[i]].fd = s
      BY <1>5, <2>1 DEF Fd
  <2> QED BY <1>1, <1>5, <1>6, <2>1, <2>2 DEF Charlas, CapturasOK
<1>9. ent[pcb[pl.corre].quien].espera # "copia"
  <2>1. PICK t \in Entrenadores : t = pcb[pl.corre].quien
      BY <1>3, Sirve, SuLista
  <2> SUFFICES ASSUME ent[t].espera = "copia" PROVE FALSE
      BY <2>1
  <2>2. ent[t].estado = "EN_POKENEST"
      BY TiposEnt DEF Coherente, EstadoQueEspera
  <2>3. sock[t] # 0
      BY <2>2 DEF Charlas, ConectadosOK
  <2>4. Charla(t)
      BY <2>3 DEF Charlas, DialogosOK
  <2> QED BY <1>3, <2>4 DEF Charla, Entrega
<1>10. \A x : /\ EnEntrega(x) = 0 /\ Copiado(x) = 0 /\ Copiado(x)' = 0
              /\ EnEntrega(x)' = IF x = p THEN 1 ELSE 0
  <2>1. \A x : EnEntrega(x) = 0 /\ Copiado(x) = 0
      BY <1>3 DEF EnEntrega, Copiado
  <2>2. \A x : EnEntrega(x)' = IF x = p THEN 1 ELSE 0
      BY <1>2, <1>4, <1>8 DEF EnEntrega
  <2>3. \A x : Copiado(x)' = 0
      BY <1>2, <1>4, <1>5, <1>7, <1>9 DEF Copiado
  <2> QED BY <2>1, <2>2, <2>3
<1> QED BY <1>1, <1>10

(* A pokemon is taken out of those that are offered, and is being handed    *)
(* over.                                                                    *)
LEMMA CuentasEntregar ==
    ASSUME Supuestos, Control, Control', ~modo.batalla, ListasOK, Charlas, Cuentas,
           UNCHANGED <<dd, ent, seniales>>, Entregar
    PROVE  Cuentas'
<1>1. Len(pcb') = Len(pcb) /\ Perduran /\ pcb' \in Seq(Pcbs)
    BY MismosPcb DEF Control, MapaOK, MapaTypeOK
<1>2. PICK p : p = Head(aMapa[Fd]).dato
    OBVIOUS
<1>3. /\ Pedido("CAPTURAR") /\ cant[p] > 0 /\ cant' = [cant EXCEPT ![p] = @ - 1]
      /\ pl' = [pl EXCEPT !.pc = "entregando"]
      /\ UNCHANGED <<pcb, listos, nido, bill, rec, cola>>
    BY <1>2 DEF Entregar, archivos, listas
<1>4. p \in Pokenests /\ pl.pc = "recibir" /\ pl.pc \in Sirviendo /\ pl \in Pls
    BY <1>2, <1>3, PedidoEs, Tipos DEF DatosAlMapa
<1>5. pl'.pc = "entregando" /\ pl'.corre = pl.corre /\ Fd' = Fd
  <2>1. pl'.pc = "entregando" /\ pl'.corre = pl.corre
      BY <1>3, <1>4 DEF Pls
  <2> QED BY <1>3, <2>1 DEF Fd
<1>6. \A x : /\ EnEntrega(x) = 0 /\ Copiado(x) = 0 /\ Copiado(x)' = 0
              /\ EnEntrega(x)' = IF x = p THEN 1 ELSE 0
    BY <1>2, EntregarEs
<1>7. DebenLoMismo
  <2>1. \A i \in DOMAIN listos' : \E j \in DOMAIN listos :
              listos'[i] = listos[j] /\ (Devolvio(listos[j]) => DevolvioLuego(listos[j]))
      BY <1>3, <1>4 DEF Devolvio
  <2> QED BY <1>5, <1>6, <2>1 DEF DebenLoMismo
<1>8. RegistradosOK'
    BY <1>1, <1>3, <1>7, RegistradosIgual DEF Cuentas
<1>9. UnaVezOK' /\ SinUsarOK'
    BY <1>1, <1>3, UnaVezIgual, SinUsarIgual DEF Cuentas
<1>10. CapturasSolas'
    BY ConsumeElPlan, SolasConsume DEF Charlas, Cuentas
<1>11. ASSUME NEW x \in Pokenests PROVE Ofrecido(x)'
  <2>1. PICK c, n : c = cant[x] /\ n = nido[x]
      OBVIOUS
  <2>2. c \in Int /\ n \in Nat
      BY <2>1, Numeros
  <2>3. c >= 0 /\ c <= n /\ (seniales = 0 => c = n)
    <3>1. cant[x] >= 0 /\ cant[x] + 0 <= nido[x] /\ (seniales = 0 => cant[x] + 0 = nido[x])
        BY <1>6 DEF Cuentas, Ofrecido
    <3> QED BY <2>1, <2>2, <3>1
  <2>4. CASE x = p
    <3>1. cant'[x] = c - 1 /\ EnEntrega(x)' = 1 /\ nido'[x] = n
        BY <1>3, <1>6, <2>1, <2>4, Tipos
    <3>2. c > 0
        BY <1>3, <2>1, <2>4
    <3>3. c - 1 >= 0 /\ (c - 1) + 1 <= n /\ (seniales = 0 => (c - 1) + 1 = n)
        BY <2>2, <2>3, <3>2
    <3> QED BY <3>1, <3>3 DEF Ofrecido
  <2>5. CASE x # p
    <3>1. cant'[x] = c /\ EnEntrega(x)' = 0 /\ nido'[x] = n
        BY <1>3, <1>6, <2>1, <2>5, Tipos
    <3>2. c + 0 = c
        BY <2>2
    <3> QED BY <2>3, <3>1, <3>2 DEF Ofrecido
  <2> QED BY <2>4, <2>5
<1> QED BY <1>8, <1>9, <1>10, <1>11 DEF Cuentas

(* What is recorded has been copied, by who asked for it.                   *)
LEMMA EntregadoEs ==
    ASSUME Supuestos, Control, ~modo.batalla, ListasOK, Charlas, Cuentas, Entregado
    PROVE  LET q == pl.corre
               p == pcb[pl.corre].pide
           IN  /\ q \in 1 .. Len(pcb) /\ q \in 1 .. MaxPcb /\ p \in Pokenests
               /\ rec' = [rec EXCEPT ![q][p] = @ + 1]
               /\ nido' = [nido EXCEPT ![p] = IF @ > 0 THEN @ - 1 ELSE 0]
               /\ pl'.corre = q /\ pl'.pc \in {"recibir", "elegir", "quitar", "rotar"}
               /\ \A x : /\ EnEntrega(x) = IF x = p THEN 1 ELSE 0
                         /\ Copiado(x) = IF x = p THEN 1 ELSE 0
                         /\ EnEntrega(x)' = 0 /\ Copiado(x)' = 0
<1>1. PICK q, p : q = pl.corre /\ p = pcb[pl.corre].pide
    OBVIOUS
<1>2. pl.pc = "entregando" /\ pl.pc \in Sirviendo \ {"rotar"} /\ aMapa[Fd] # <<>>
      /\ pl' = Sigue(0)
    BY DEF Entregado, Hay, Sirviendo, Pasos
<1>3. /\ PcbEnListos(Fd) = q /\ q \in 1 .. Len(pcb) /\ pcb[q].lista = q
      /\ q \in 1 .. MaxPcb /\ p \in Pokenests
  <2>1. PcbEnListos(Fd) = q /\ q \in 1 .. Len(pcb)
      BY <1>1, <1>2, ElDelTurno, Sirve
  <2>2. pcb[q] \in Pcbs
      BY <1>2, <2>1, Sirve
  <2> QED BY <1>1, <2>1, <2>2, SuLista DEF Cuentas, Pcbs
<1>4. /\ rec' = [rec EXCEPT ![q][p] = @ + 1]
      /\ nido' = [nido EXCEPT ![p] = IF @ > 0 THEN @ - 1 ELSE 0]
    BY <1>1, <1>3 DEF Entregado
<1>5. pl'.corre = q /\ pl'.pc \in {"recibir", "elegir", "quitar", "rotar"}
  <2>1. 0 \in 0 .. 2
      OBVIOUS
  <2> QED BY <1>1, <1>2, <2>1, SigueAdonde
<1>6. \A x : /\ EnEntrega(x) = IF x = p THEN 1 ELSE 0
             /\ Copiado(x) = IF x = p THEN 1 ELSE 0
             /\ EnEntrega(x)' = 0 /\ Copiado(x)' = 0
  <2>1. \A x : EnEntrega(x) = IF x = p THEN 1 ELSE 0
      BY <1>1, <1>2 DEF EnEntrega
  <2>2. \A x : Copiado(x) = IF x = p THEN 1 ELSE 0
      BY <1>2, <2>1 DEF Copiado
  <2>3. \A x : EnEntrega(x)' = 0 /\ Copiado(x)' = 0
      BY <1>5 DEF EnEntrega, Copiado
  <2> QED BY <2>1, <2>2, <2>3
<1> QED BY <1>1, <1>3, <1>4, <1>5, <1>6

(* ... and recorded, when its file is deleted.                              *)
LEMMA CuentasEntregado ==
    ASSUME Supuestos, Control, Control', ~modo.batalla, ListasOK, Charlas, Cuentas,
           UNCHANGED <<dd, ent, seniales>>, Entregado
    PROVE  Cuentas'
<1>1. Len(pcb') = Len(pcb) /\ Perduran /\ pcb' \in Seq(Pcbs)
    BY MismosPcb DEF Control, MapaOK, MapaTypeOK
<1>2. PICK q, p : q = pl.corre /\ p = pcb[pl.corre].pide
    OBVIOUS
<1>3. pl.pc = "entregando" /\ UNCHANGED <<listos, bill, cant, cola>>
    BY DEF Entregado
<1>4. q \in 1 .. Len(pcb) /\ q \in 1 .. MaxPcb /\ p \in Pokenests
    BY <1>2, EntregadoEs
<1>5. /\ rec' = [rec EXCEPT ![q][p] = @ + 1]
      /\ nido' = [nido EXCEPT ![p] = IF @ > 0 THEN @ - 1 ELSE 0]
    BY <1>2, EntregadoEs
<1>6. \A x : /\ EnEntrega(x) = IF x = p THEN 1 ELSE 0
             /\ Copiado(x) = IF x = p THEN 1 ELSE 0
             /\ EnEntrega(x)' = 0 /\ Copiado(x)' = 0
    BY <1>2, EntregadoEs
<1>7. ASSUME NEW l \in 1 .. MaxPcb, NEW x \in Pokenests
      PROVE  rec'[l][x] = IF l = q /\ x = p THEN rec[l][x] + 1 ELSE rec[l][x]
    BY <1>4, <1>5, Tipos
<1>8. ASSUME NEW i \in DOMAIN listos' PROVE Registrado(listos[i])'
  <2>1. PICK r : r = listos[i]
      OBVIOUS
  <2>2. r \in 1 .. Len(pcb) /\ Registrado(r)
    <3>1. listos \in Seq(1 .. Len(pcb)) /\ i \in DOMAIN listos
        BY <1>3, Tipos
    <3>2. ~Devolvio(r)
        BY <1>3 DEF Devolvio
    <3> QED BY <2>1, <3>1, <3>2 DEF Cuentas, RegistradosOK
  <2>3. r \in 1 .. MaxPcb /\ pcb[r].quien \in Entrenadores /\ pcb'[r].quien = pcb[r].quien
    <3>1. DelMismo(pcb'[r], pcb[r])
        BY <1>1, <2>2 DEF Perduran
    <3> QED BY <2>2, <3>1, SuLista DEF DelMismo
  <2>4. ASSUME NEW x \in Pokenests
        PROVE  /\ rec'[r][x] + SinRegistrar(r, x)' <= bill'[pcb'[r].quien][x]
               /\ seniales' = 0 =>
                    rec'[r][x] + SinRegistrar(r, x)' = bill'[pcb'[r].quien][x]
    <3>1. PICK a, b : a = rec[r][x] /\ b = bill[pcb[r].quien][x]
        OBVIOUS
    <3>2. a \in Nat /\ b \in Nat
        BY <2>3, <3>1, Numeros
    <3>3. PICK c : c = SinRegistrar(r, x)
        OBVIOUS
    <3>4. c = IF r = q /\ x = p THEN 1 ELSE 0
        BY <1>2, <1>6, <3>3 DEF SinRegistrar
    <3>5. a + c <= b /\ (seniales = 0 => a + c = b)
        BY <2>2, <3>1, <3>3 DEF Registrado
    <3>6. rec'[r][x] = a + c
        BY <1>7, <2>3, <3>1, <3>2, <3>4
    <3>7. SinRegistrar(r, x)' = 0 /\ bill'[pcb'[r].quien][x] = b
        BY <1>3, <1>6, <2>3, <3>1 DEF SinRegistrar
    <3>8. (a + c) + 0 <= b /\ (seniales = 0 => (a + c) + 0 = b)
        BY <3>2, <3>4, <3>5
    <3> QED BY <3>6, <3>7, <3>8
  <2>5. Registrado(r)'
      BY <2>4 DEF Registrado
  <2>6. listos'[i] = r
      BY <1>3, <2>1
  <2> QED BY <2>5, <2>6 DEF Registrado, SinRegistrar
<1>9. RegistradosOK'
    BY <1>8 DEF RegistradosOK
<1>10. UnaVezOK'
    BY <1>1, <1>3, UnaVezIgual DEF Cuentas
<1>11. SinUsarOK'
  <2>1. \A l \in 1 .. MaxPcb : l > Len(pcb) => rec'[l] = rec[l]
    <3>1. \A l \in 1 .. MaxPcb : l # q => rec'[l] = rec[l]
        BY <1>4, <1>5, Tipos
    <3>2. Len(pcb) \in Nat /\ \A l \in 1 .. MaxPcb : l > Len(pcb) => l # q
        BY <1>4, Tipos
    <3> QED BY <3>1, <3>2
  <2> QED BY <1>1, <1>3, <2>1, SinUsarIgual DEF Cuentas
<1>12. CapturasSolas'
    BY ConsumeElPlan, SolasConsume DEF Charlas, Cuentas
<1>13. ASSUME NEW x \in Pokenests PROVE Ofrecido(x)'
  <2>1. PICK c, n : c = cant[x] /\ n = nido[x]
      OBVIOUS
  <2>2. c \in Int /\ n \in Nat /\ cant'[x] = c
      BY <1>3, <2>1, Numeros
  <2>3. PICK e : e = EnEntrega(x)
      OBVIOUS
  <2>4. e = (IF x = p THEN 1 ELSE 0) /\ EnEntrega(x)' = 0
      BY <1>6, <2>3
  <2>5. c >= 0 /\ c + e <= n /\ (seniales = 0 => c + e = n)
      BY <2>1, <2>3 DEF Cuentas, Ofrecido
  <2>6. nido'[x] = n - e
    <3>1. nido'[x] = IF x = p THEN (IF n > 0 THEN n - 1 ELSE 0) ELSE n
        BY <1>4, <1>5, <2>1, Tipos DEF MundoTypeOK
    <3> QED BY <2>2, <2>4, <2>5, <3>1
  <2>7. c >= 0 /\ c + 0 <= n - e /\ (seniales = 0 => c + 0 = n - e)
      BY <2>2, <2>4, <2>5
  <2> QED BY <1>3, <2>2, <2>4, <2>6, <2>7 DEF Ofrecido
<1> QED BY <1>9, <1>10, <1>11, <1>12, <1>13 DEF Cuentas

(* Who leaves has what it was given in its own list, and nothing is being   *)
(* handed over to it.                                                       *)
LEMMA SoltarEs ==
    ASSUME Supuestos, Control, ~modo.batalla, ListasOK, Cuentas, Soltar
    PROVE  LET q == pl.corre
               u == pcb[pl.corre].quien
           IN  /\ q \in 1 .. Len(pcb) /\ q \in 1 .. MaxPcb /\ u \in Entrenadores
               /\ \E i \in DOMAIN listos : listos[i] = q
               /\ Reintegrar(q, u) /\ cant' = Sumado(q)
               /\ pl'.corre = q /\ pl'.pc = "quitando"
               /\ \A x : /\ EnEntrega(x) = 0 /\ Copiado(x) = 0
                         /\ EnEntrega(x)' = 0 /\ Copiado(x)' = 0
<1>1. PICK q, u : q = pl.corre /\ u = pcb[pl.corre].quien
    OBVIOUS
<1>2. pl.pc = "soltar" /\ pl.pc \in Sirviendo /\ pl \in Pls
    BY Tipos DEF Soltar, Sirviendo, Pasos
<1>3. /\ PcbEnListos(Fd) = q /\ q \in 1 .. Len(pcb) /\ pcb[q].lista = q
      /\ q \in 1 .. MaxPcb /\ u \in Entrenadores
      /\ \E i \in DOMAIN listos : listos[i] = q
  <2>1. PcbEnListos(Fd) = q /\ q \in 1 .. Len(pcb) /\ \E i \in DOMAIN listos : listos[i] = q
      BY <1>1, <1>2, ElDelTurno, Sirve
  <2> QED BY <1>1, <2>1, SuLista DEF Cuentas
<1>4. Reintegrar(q, u) /\ cant' = Sumado(q)
    BY <1>1, <1>3 DEF Soltar
<1>5. pl'.corre = q /\ pl'.pc = "quitando"
  <2>1. pl' = [pl EXCEPT !.pc = "quitando", !.sitio = Lugar(listos, Fd)]
      BY DEF Soltar
  <2> QED BY <1>1, <1>2, <2>1 DEF Pls
<1>6. \A x : EnEntrega(x) = 0 /\ Copiado(x) = 0 /\ EnEntrega(x)' = 0 /\ Copiado(x)' = 0
    BY <1>2, <1>5 DEF EnEntrega, Copiado
<1> QED BY <1>1, <1>3, <1>4, <1>5, <1>6

(* Who leaves gives back what it is recorded to hold, of which it has at    *)
(* least as many files.                                                     *)
LEMMA CuentasSoltar ==
    ASSUME Supuestos, Control, Control', ~modo.batalla, ListasOK, Charlas, Cuentas,
           UNCHANGED <<dd, ent, seniales>>, Soltar
    PROVE  Cuentas'
<1>1. Len(pcb') = Len(pcb) /\ Perduran /\ pcb' \in Seq(Pcbs)
    BY MismosPcb DEF Control, MapaOK, MapaTypeOK
<1>2. PICK q, u : q = pl.corre /\ u = pcb[pl.corre].quien
    OBVIOUS
<1>3. pl.pc = "soltar" /\ UNCHANGED <<listos, rec, aMapa, cola>>
    BY DEF Soltar, conexiones
<1>4. /\ q \in 1 .. Len(pcb) /\ q \in 1 .. MaxPcb /\ u \in Entrenadores
      /\ \E i \in DOMAIN listos : listos[i] = q
    BY <1>2, SoltarEs
<1>5. Reintegrar(q, u) /\ cant' = Sumado(q)
    BY <1>2, SoltarEs
<1>6. pl'.corre = q /\ pl'.pc = "quitando"
    BY <1>2, SoltarEs
<1>7. \A x : EnEntrega(x) = 0 /\ Copiado(x) = 0 /\ EnEntrega(x)' = 0 /\ Copiado(x)' = 0
    BY SoltarEs
<1>8. \A x \in Pokenests : /\ cant'[x] = cant[x] + rec[q][x]
                           /\ nido'[x] = nido[x] + (IF rec[q][x] > 0 THEN bill[u][x] ELSE 0)
    BY <1>5 DEF Reintegrar, Sumado, Devuelto
<1>9. \A t \in Entrenadores : t # u => bill'[t] = bill[t]
    BY <1>5, Tipos DEF Reintegrar, MundoTypeOK
<1>10. Registrado(q)
  <2>1. ~Devolvio(q)
      BY <1>3 DEF Devolvio
  <2> QED BY <1>4, <2>1 DEF Cuentas, RegistradosOK
<1>11. ASSUME NEW i \in DOMAIN listos' PROVE (Devolvio(listos[i]) \/ Registrado(listos[i]))'
  <2>1. PICK r : r = listos[i]
      OBVIOUS
  <2>2. listos'[i] = r
      BY <1>3, <2>1
  <2>3. r \in 1 .. Len(pcb) /\ Registrado(r)
    <3>1. listos \in Seq(1 .. Len(pcb)) /\ i \in DOMAIN listos
        BY <1>3, Tipos
    <3>2. ~Devolvio(r)
        BY <1>3 DEF Devolvio
    <3> QED BY <2>1, <3>1, <3>2 DEF Cuentas, RegistradosOK
  <2>4. CASE r = q
      BY <1>6, <2>2, <2>4 DEF Devolvio
  <2>5. CASE r # q
    <3>1. r \in 1 .. MaxPcb /\ r \in DOMAIN pcb /\ q \in DOMAIN pcb
          /\ pcb[r].quien \in Entrenadores /\ pcb'[r].quien = pcb[r].quien
      <4>1. DelMismo(pcb'[r], pcb[r])
          BY <1>1, <2>3 DEF Perduran
      <4> QED BY <1>4, <2>3, <4>1, SuLista DEF DelMismo
    <3>2. pcb[r].quien # u
        BY <1>2, <2>5, <3>1 DEF Cuentas, UnaVezOK
    <3>3. bill'[pcb'[r].quien] = bill[pcb[r].quien]
        BY <1>9, <3>1, <3>2
    <3>4. \A x : SinRegistrar(r, x) = 0 /\ SinRegistrar(r, x)' = 0
        BY <1>7 DEF SinRegistrar
    <3>5. ASSUME NEW x \in Pokenests
          PROVE  /\ rec'[r][x] + SinRegistrar(r, x)' <= bill'[pcb'[r].quien][x]
                 /\ seniales' = 0 =>
                      rec'[r][x] + SinRegistrar(r, x)' = bill'[pcb'[r].quien][x]
      <4>1. /\ rec[r][x] + 0 <= bill[pcb[r].quien][x]
            /\ seniales = 0 => rec[r][x] + 0 = bill[pcb[r].quien][x]
          BY <2>3, <3>4 DEF Registrado
      <4> QED BY <1>3, <3>3, <3>4, <4>1
    <3>6. Registrado(r)'
        BY <3>5 DEF Registrado
    <3> QED BY <2>2, <3>6 DEF Registrado, SinRegistrar
  <2> QED BY <2>4, <2>5
<1>12. RegistradosOK'
    BY <1>11 DEF RegistradosOK
<1>13. UnaVezOK'
    BY <1>1, <1>3, UnaVezIgual DEF Cuentas
<1>14. SinUsarOK'
  <2>1. \A t \in Entrenadores : (\A i \in DOMAIN pcb : pcb[i].quien # t) => bill'[t] = bill[t]
      BY <1>2, <1>4, <1>9, SuLista
  <2> QED BY <1>1, <1>3, <2>1, SinUsarIgual DEF Cuentas
<1>15. CapturasSolas'
    BY <1>3, SolasIgual DEF Cuentas
<1>16. ASSUME NEW x \in Pokenests PROVE Ofrecido(x)'
  <2>1. PICK c, n, r, b : c = cant[x] /\ n = nido[x] /\ r = rec[q][x] /\ b = bill[u][x]
      OBVIOUS
  <2>2. c \in Int /\ n \in Nat /\ r \in Nat /\ b \in Nat
      BY <1>4, <2>1, Numeros
  <2>3. c >= 0 /\ c <= n /\ (seniales = 0 => c = n)
    <3>1. c >= 0 /\ c + 0 <= n /\ (seniales = 0 => c + 0 = n)
        BY <1>7, <2>1 DEF Cuentas, Ofrecido
    <3> QED BY <2>2, <3>1
  <2>4. r <= b /\ (seniales = 0 => r = b)
    <3>1. SinRegistrar(q, x) = 0
        BY <1>7 DEF SinRegistrar
    <3>2. r + 0 <= b /\ (seniales = 0 => r + 0 = b)
        BY <1>2, <1>10, <2>1, <3>1 DEF Registrado
    <3> QED BY <2>2, <3>2
  <2>5. /\ cant'[x] = c + r /\ nido'[x] = n + (IF r > 0 THEN b ELSE 0)
        /\ EnEntrega(x)' = 0
      BY <1>7, <1>8, <2>1
  <2>6. /\ c + r >= 0 /\ (c + r) + 0 <= n + (IF r > 0 THEN b ELSE 0)
        /\ seniales = 0 => (c + r) + 0 = n + (IF r > 0 THEN b ELSE 0)
      BY <2>2, <2>3, <2>4
  <2> QED BY <2>5, <2>6 DEF Ofrecido
<1> QED BY <1>12, <1>13, <1>14, <1>15, <1>16 DEF Cuentas

(* Who is accepted has captured nothing yet.                                *)
LEMMA CuentasAceptar ==
    ASSUME Supuestos, Control, Control', ~modo.batalla, ListasOK, Charlas, Cuentas,
           UNCHANGED <<dd, ent, seniales>>, Aceptar
    PROVE  Cuentas'
<1>1. /\ Quietos /\ Perduran /\ Len(pcb') = Len(pcb) + 1 /\ Len(pcb) \in Nat
      /\ pcb'[Len(pcb) + 1] = Nuevo(Head(cola)) /\ pcb' \in Seq(Pcbs)
    BY QuietoAceptar, QuietosPerduran DEF Control, MapaOK, MapaTypeOK
<1>2. /\ cola # <<>> /\ cola' = Tail(cola) /\ Len(pcb) < MaxPcb
      /\ listos' = Append(listos, Len(pcb) + 1)
      /\ UNCHANGED <<rec, nido, bill, cant, aMapa, pl>>
    BY DEF Aceptar, archivos
<1>3. PICK n, u : n = Len(pcb) + 1 /\ u = Head(cola).quien
    OBVIOUS
<1>4. n \in 1 .. MaxPcb /\ MaxPcb \in Nat
    BY <1>1, <1>2, <1>3, MapaAssumption
<1>5. /\ cola \in Seq([fd : Fds, quien : Entrenadores]) /\ 1 \in DOMAIN cola
      /\ Head(cola) = cola[1] /\ u = cola[1].quien /\ u \in Entrenadores
      /\ \A i \in DOMAIN cola' : i + 1 \in DOMAIN cola /\ i + 1 # 1 /\ cola'[i] = cola[i + 1]
  <2>1. cola \in Seq([fd : Fds, quien : Entrenadores])
      BY Tipos DEF MundoTypeOK
  <2>2. 1 \in DOMAIN cola /\ Head(cola) = cola[1]
      BY <1>2, <2>1, EmptySeq
  <2>3. cola[1] \in [fd : Fds, quien : Entrenadores]
    <3> DEFINE S == [fd : Fds, quien : Entrenadores]
    <3>1. cola \in Seq(S)
        BY <2>1
    <3> HIDE DEF S
    <3>2. cola[1] \in S
        BY <2>2, <3>1
    <3> QED BY <3>2 DEF S
  <2>4. \A i \in DOMAIN cola' : i + 1 \in DOMAIN cola /\ i + 1 # 1 /\ cola'[i] = cola[i + 1]
      BY <1>2, <2>1
  <2> QED BY <1>3, <2>1, <2>2, <2>3, <2>4
<1>6. DOMAIN pcb = 1 .. Len(pcb) /\ DOMAIN pcb' = 1 .. n /\ n \notin DOMAIN pcb
    BY <1>1, <1>3, Tipos
<1>7. pcb'[n].quien = u /\ pcb'[n].lista = n
    BY <1>1, <1>3 DEF Nuevo
<1>8. \A i \in DOMAIN pcb : /\ i \in 1 .. n /\ i # n
                            /\ pcb'[i].quien = pcb[i].quien /\ pcb'[i].lista = pcb[i].lista
  <2>1. \A i \in 1 .. Len(pcb) : i \in 1 .. n /\ i # n
      BY <1>1, <1>3
  <2> QED BY <1>1, <1>6, <2>1 DEF Perduran, DelMismo
<1>9. \A i \in 1 .. n : i = n \/ i \in DOMAIN pcb
    BY <1>1, <1>3, <1>6
<1>10. UnaVezOK
    BY DEF Cuentas
<1>11. \A i \in DOMAIN pcb : pcb[i].quien # u
    BY <1>5, <1>10 DEF UnaVezOK
<1>12. UnaVezOK'
  <2>1. \A i \in 1 .. n : pcb'[i].lista = i
      BY <1>7, <1>8, <1>9, <1>10 DEF UnaVezOK
  <2>2. \A i, j \in 1 .. n : pcb'[i].quien = pcb'[j].quien => i = j
      BY <1>7, <1>8, <1>9, <1>10, <1>11 DEF UnaVezOK
  <2>3. \A i, j \in DOMAIN cola' : cola'[i].quien = cola'[j].quien => i = j
    <3> SUFFICES ASSUME NEW i \in DOMAIN cola', NEW j \in DOMAIN cola',
                        cola'[i].quien = cola'[j].quien
                 PROVE  i = j
        OBVIOUS
    <3>1. i + 1 = j + 1
        BY <1>5, <1>10 DEF UnaVezOK
    <3>2. i \in Nat /\ j \in Nat
      <4>1. cola' \in Seq([fd : Fds, quien : Entrenadores])
          BY DEF Control, MundoTypeOK
      <4> QED BY <4>1
    <3> QED BY <3>1, <3>2
  <2>4. \A i \in DOMAIN cola', j \in 1 .. n : cola'[i].quien # pcb'[j].quien
    <3> SUFFICES ASSUME NEW i \in DOMAIN cola', NEW j \in 1 .. n
                 PROVE  cola'[i].quien # pcb'[j].quien
        OBVIOUS
    <3>1. i + 1 \in DOMAIN cola /\ i + 1 # 1 /\ cola'[i] = cola[i + 1]
        BY <1>5
    <3>2. cola'[i].quien # u
        BY <1>5, <1>10, <3>1 DEF UnaVezOK
    <3>3. j = n \/ j \in DOMAIN pcb
        BY <1>9
    <3> QED BY <1>7, <1>8, <1>10, <3>1, <3>2, <3>3 DEF UnaVezOK
  <2>5. \A t \in Entrenadores : ent'[t].estado = "SIN_MAPA" =>
          /\ \A i \in 1 .. n : pcb'[i].quien # t
          /\ \A i \in DOMAIN cola' : cola'[i].quien # t
    <3> SUFFICES ASSUME NEW t \in Entrenadores, ent[t].estado = "SIN_MAPA"
                 PROVE  /\ \A i \in 1 .. n : pcb'[i].quien # t
                        /\ \A i \in DOMAIN cola' : cola'[i].quien # t
        OBVIOUS
    <3>1. u # t
        BY <1>5, <1>10 DEF UnaVezOK
    <3>2. \A i \in 1 .. n : pcb'[i].quien # t
        BY <1>7, <1>8, <1>9, <1>10, <3>1 DEF UnaVezOK
    <3>3. \A i \in DOMAIN cola' : cola'[i].quien # t
        BY <1>5, <1>10 DEF UnaVezOK
    <3> QED BY <3>2, <3>3
  <2> QED BY <1>6, <2>1, <2>2, <2>3, <2>4, <2>5 DEF UnaVezOK
<1>13. SinUsarOK'
  <2>1. \A l \in 1 .. MaxPcb : l > n => l > Len(pcb)
      BY <1>1, <1>3
  <2>2. Len(pcb') = n
      BY <1>1, <1>3
  <2>3. \A t : (\A i \in DOMAIN pcb' : pcb'[i].quien # t) => \A i \in DOMAIN pcb : pcb[i].quien # t
      BY <1>6, <1>8
  <2> QED BY <1>2, <2>1, <2>2, <2>3 DEF Cuentas, SinUsarOK
<1>14. \A x : EnEntrega(x)' = EnEntrega(x) /\ Copiado(x)' = Copiado(x)
    BY <1>1, <1>2, MismoCopiado
<1>15. ASSUME NEW i \in DOMAIN listos' PROVE (Devolvio(listos[i]) \/ Registrado(listos[i]))'
  <2>1. listos \in Seq(1 .. Len(pcb)) /\ pcb \in Seq(Pcbs)
      BY Tipos
  <2>2. (i \in DOMAIN listos /\ listos'[i] = listos[i]) \/ listos'[i] = n
      BY <1>2, <1>3, <2>1
  <2>3. CASE i \in DOMAIN listos /\ listos'[i] = listos[i]
    <3>1. PICK q : q = listos[i]
        OBVIOUS
    <3>2. q \in DOMAIN pcb /\ listos'[i] = q
        BY <2>1, <2>3, <3>1
    <3>3. CASE Devolvio(q)
        BY <1>2, <3>2, <3>3 DEF Devolvio
    <3>4. CASE Registrado(q)
      <4>1. \A x : SinRegistrar(q, x)' = SinRegistrar(q, x)
          BY <1>2, <1>14 DEF SinRegistrar
      <4>2. \A x : Copiado(x) \in {0, 1}
          BY UnoONinguno
      <4>3. \A x : SinRegistrar(q, x) \in {0, 1} /\ SinRegistrar(q, x)' \in {0, 1}
          BY <4>1, <4>2 DEF SinRegistrar
      <4>4. \A x : SinRegistrar(q, x)' <= SinRegistrar(q, x)
          BY <4>1, <4>3
      <4>5. Registrado(q)'
          BY <1>1, <1>2, <3>2, <3>4, <4>1, <4>3, <4>4, RegistradoIgual
      <4> QED BY <3>2, <4>5 DEF Registrado, SinRegistrar
    <3>5. Devolvio(q) \/ Registrado(q)
        BY <2>3, <3>1 DEF Cuentas, RegistradosOK
    <3> QED BY <3>3, <3>4, <3>5
  <2>4. CASE listos'[i] = n
    <3>1. \A x : SinRegistrar(n, x)' = 0
      <4>1. CASE pl.pc = "entregando"
        <5>1. pl.pc # "elegir"
            BY <4>1
        <5>2. pl.corre \in 1 .. Len(pcb)
            BY <5>1, Tipos DEF ControlPlan
        <5> QED BY <1>2, <1>6, <5>2 DEF SinRegistrar
      <4>2. CASE pl.pc # "entregando"
          BY <1>2, <4>2 DEF SinRegistrar, Copiado, EnEntrega
      <4> QED BY <4>1, <4>2
    <3>2. \A x \in Pokenests : rec'[n][x] = 0 /\ bill'[pcb'[n].quien][x] = 0
      <4>1. n > Len(pcb)
          BY <1>1, <1>3
      <4> QED BY <1>2, <1>4, <1>5, <1>7, <1>11, <4>1 DEF Cuentas, SinUsarOK
    <3>3. Registrado(n)'
        BY <3>1, <3>2 DEF Registrado
    <3> QED BY <2>4, <3>3 DEF Registrado, SinRegistrar
  <2> QED BY <2>2, <2>3, <2>4
<1>16. RegistradosOK'
    BY <1>15 DEF RegistradosOK
<1>17. CapturasSolas'
    BY <1>2, SolasIgual DEF Cuentas
<1>18. \A x \in Pokenests : Ofrecido(x)'
    BY <1>2, <1>14 DEF Cuentas, Ofrecido
<1> QED BY <1>12, <1>13, <1>16, <1>17, <1>18 DEF Cuentas

(* Every step of the map.                                                   *)
LEMMA CuentasMapa ==
    ASSUME Supuestos, Control, Control', ~modo.batalla, ListasOK, Charlas, Cuentas,
           UNCHANGED <<dd, ent, seniales>>, MapaPaso
    PROVE  Cuentas'
BY CuentasFuera, CuentasMientras, CuentasNoEntregado, CuentasEntregar, CuentasEntregado,
   CuentasSoltar, CuentasAceptar DEF MapaPaso

(* A step of a trainer that copies nothing: what it says comes after a      *)
(* notice of a capture, or is one, and a copy is forgotten only when it is  *)
(* notified or a signal was sent.                                           *)
EscribeEnLaSuya(t) ==
    /\ sock[t] \in Fds /\ aMapa'[sock[t]] # <<>>
    /\ \A x \in Fds : x # sock[t] => aMapa'[x] = aMapa[x]
    /\ Entrega(sock[t]) => aMapa[sock[t]] # <<>> \/ ent[t].espera = "copia"
OlvidaLaCopia(t) ==
    /\ ent'[t].espera # "copia"
    /\ ent[t].espera = "copia" =>
         seniales' # 0 \/ (sock[t] \in Fds /\ aMapa'[sock[t]] # <<>>)

(* Then what is recorded and what is copied agree as much as before ...     *)
LEMMA SinCopiar ==
    ASSUME Supuestos, Control, ~modo.batalla, ListasOK, Charlas, UNCHANGED <<mapa, dd>>,
           NEW t \in Entrenadores, \A u \in Entrenadores : u # t => ent'[u] = ent[u],
           aMapa' = aMapa \/ EscribeEnLaSuya(t),
           ent'[t].espera = ent[t].espera \/ OlvidaLaCopia(t)
    PROVE  SinPrestar
<1>1. UNCHANGED <<pcb, listos, pl>> /\ Fd' = Fd
    BY MapaQuieto
<1>2. \A p : EnEntrega(p)' = EnEntrega(p)
    BY <1>1 DEF EnEntrega
<1>3. \A p : EnEntrega(p) \in {0, 1} /\ Copiado(p) \in {0, 1}
    BY UnoONinguno
<1>4. \A i \in DOMAIN listos' : \E j \in DOMAIN listos :
         listos'[i] = listos[j] /\ (Devolvio(listos[j]) => DevolvioLuego(listos[j]))
    BY <1>1 DEF Devolvio, DevolvioLuego
<1>5. ASSUME NEW p PROVE Copiado(p)' <= Copiado(p) /\ (seniales' = 0 => Copiado(p)' = Copiado(p))
  <2>1. CASE pl.pc # "entregando"
      BY <1>1, <2>1 DEF Copiado, EnEntrega
  <2>2. CASE pl.pc = "entregando"
    <3>1. pl.pc \in Sirviendo
        BY <2>2 DEF Sirviendo, Pasos
    <3>2. PICK s \in Fds, u \in Entrenadores : s = Fd /\ u = pcb[pl.corre].quien
        BY <3>1, Sirve, SuLista
    <3>3. sock[t] = s => u = t
      <4>1. PICK i \in DOMAIN listos : listos[i] = pl.corre
          BY <3>1, ElDelTurno
      <4>2. FdEn(listos, i) = s /\ pcb[listos[i]].quien = u
          BY <3>2, <4>1 DEF FdEn, Fd
      <4> QED BY <4>2 DEF ListasOK, SocketsOK
    <3>4. ent[t].espera = "copia" => sock[t] = s
      <4> SUFFICES ASSUME ent[t].espera = "copia" PROVE sock[t] = s
          OBVIOUS
      <4>1. ent[t].estado = "EN_POKENEST"
          BY TiposEnt DEF Coherente, EstadoQueEspera
      <4>2. Charla(t)
          BY <4>1, EnCharla
      <4> QED BY <3>2, <4>2 DEF Charla, Entrega
    <3>5. Entrega(s)
        BY <2>2, <3>2 DEF Entrega
    <3> DEFINE A == aMapa[s] # <<>> \/ ent[u].espera = "copia"
               B == aMapa'[s] # <<>> \/ ent'[u].espera = "copia"
    <3>6. B => A
        BY <3>3, <3>4, <3>5 DEF EscribeEnLaSuya, OlvidaLaCopia
    <3>7. seniales' = 0 /\ A => B
        BY <3>3, <3>4, <3>5 DEF EscribeEnLaSuya, OlvidaLaCopia
    <3>8. Copiado(p) = (IF EnEntrega(p) = 1 /\ A THEN 1 ELSE 0)
        BY <3>2 DEF Copiado
    <3>9. Copiado(p)' = (IF EnEntrega(p) = 1 /\ B THEN 1 ELSE 0)
        BY <1>1, <1>2, <3>2 DEF Copiado
    <3> HIDE DEF A, B
    <3> QED BY <3>6, <3>7, <3>8, <3>9
  <2> QED BY <2>1, <2>2
<1> QED BY <1>1, <1>2, <1>3, <1>4, <1>5 DEF SinPrestar, DebenLoMismo

(* ... and the files too, if it changes none.                               *)
LEMMA CuentasSinCopiar ==
    ASSUME Supuestos, Control, Control', ~modo.batalla, ListasOK, Charlas, Cuentas,
           UNCHANGED <<mapa, dd>>, seniales' = 0 => seniales = 0,
           NEW t \in Entrenadores, \A u \in Entrenadores : u # t => ent'[u] = ent[u],
           aMapa' = aMapa \/ EscribeEnLaSuya(t),
           ent'[t].espera = ent[t].espera \/ OlvidaLaCopia(t),
           UNCHANGED <<nido, bill, cola>>,
           ent'[t].estado = "SIN_MAPA" => ent[t].estado = "SIN_MAPA", CapturasSolas'
    PROVE  Cuentas'
<1>1. UNCHANGED <<pcb, listos, pl, cant, rec>> /\ Perduran
    BY MapaQuieto DEF mapa
<1>2. SinPrestar
    BY SinCopiar
<1>3. \A u \in Entrenadores : ent'[u].estado = "SIN_MAPA" => ent[u].estado = "SIN_MAPA"
    OBVIOUS
<1>4. Len(pcb') = Len(pcb)
    BY <1>1
<1> QED BY <1>1, <1>2, <1>3, <1>4, CuentasAparte

(* What a trainer says it says in its own connection, after a notice of a   *)
(* capture if there is something there.                                     *)
LEMMA DiceEs ==
    ASSUME Supuestos, Control, ~modo.batalla, ListasOK, Charlas,
           UNCHANGED <<mapa, dd>>, NEW t \in Entrenadores,
           Conocer(t) \/ NotificarFin(t) \/ Mover(t) \/ Capturar(t) \/ Acusar(t)
    PROVE  /\ EscribeEnLaSuya(t) /\ ent'[t].espera # "copia" /\ ent'[t].estado # "SIN_MAPA"
           /\ \A u \in Entrenadores : u # t => ent'[u] = ent[u]
           /\ \E m : aMapa'[sock[t]] = <<m>> \/ aMapa'[sock[t]] = <<Msg("ACK", 0), m>>
<1>1. /\ UNCHANGED <<aEntrenador, extremo, sock, cola, seniales, nido, bill>>
      /\ \E m : aMapa' = [aMapa EXCEPT ![sock[t]] = Append(@, m)]
      /\ \/ ent[t].espera = "copia"
         \/ ent[t].espera = "nada" /\ ent[t].estado \notin {"SIN_MAPA", "BLOQUEADO", "MAPA_COMPLETADO", "SALIO"}
    BY DEF Conocer, NotificarFin, Mover, Capturar, Acusar, Pide, archivos
<1>2. ent[t].estado \notin {"SIN_MAPA", "BLOQUEADO", "MAPA_COMPLETADO", "SALIO"}
    BY <1>1, TiposEnt DEF Coherente, EstadoQueEspera
<1>3. /\ sock[t] \in Fds /\ Charla(t) /\ ent \in [Entrenadores -> Ents] /\ ent[t] \in Ents
    BY <1>2, EnCharla
<1>4. /\ ent'[t].espera # "copia" /\ ent'[t].estado # "SIN_MAPA"
      /\ \A u \in Entrenadores : u # t => ent'[u] = ent[u]
  <2>1. CASE Acusar(t)
    <3>1. PICK st \in {"CON_TODOS", "SIN_POKENEST"} :
             ent' = [ent EXCEPT ![t].espera = "nada", ![t].obj = @ + 1, ![t].estado = st]
        BY <2>1 DEF Acusar
    <3> QED BY <1>3, <3>1 DEF Ents
  <2>2. CASE Mover(t)
    <3>1. PICK dir : ent' = [ent EXCEPT ![t].espera = "ok", ![t].ultima = dir]
        BY <2>2 DEF Mover
    <3> QED BY <1>2, <1>3, <3>1 DEF Ents
  <2>3. CASE Conocer(t) \/ NotificarFin(t) \/ Capturar(t)
    <3>1. PICK r \in {"coordenada", "medalla", "captura"} : ent' = [ent EXCEPT ![t].espera = r]
        BY <2>3 DEF Conocer, NotificarFin, Capturar, Pide
    <3> QED BY <1>2, <1>3, <3>1 DEF Ents
  <2> QED BY <2>1, <2>2, <2>3
<1>5. PICK s \in Fds : s = sock[t]
    BY <1>3
<1>6. PICK m : aMapa' = [aMapa EXCEPT ![sock[t]] = Append(@, m)]
    BY <1>1
<1>7. /\ Habla(t, s)
      /\ aMapa[s] = <<>> => aMapa'[s] = <<m>>
      /\ \A a : aMapa[s] = <<a>> => aMapa'[s] = <<a, m>>
  <2>1. /\ sock[t] = s /\ aMapa' = [aMapa EXCEPT ![sock[t]] = Append(@, m)]
        /\ UNCHANGED <<mapa, dd, aEntrenador, extremo, sock, cola, seniales>>
        /\ \A u \in Entrenadores : u # t => ent'[u] = ent[u]
      BY <1>1, <1>4, <1>5, <1>6
  <2>2. /\ Habla(t, s) /\ aEntrenador'[s] = aEntrenador[s]
        /\ aMapa[s] = <<>> => aMapa'[s] = <<m>>
        /\ \A a : aMapa[s] = <<a>> => aMapa'[s] = <<a, m>>
      BY ONLY Control, <1>5, <2>1, UNCHANGED <<mapa, dd>>, DiceUno
  <2> QED BY <2>2
<1>8. /\ aMapa[s] = <<>> \/ aMapa[s] = <<Msg("ACK", 0)>>
      /\ Entrega(s) => aMapa[s] # <<>> \/ ent[t].espera = "copia"
  <2>1. CASE ent[t].espera = "copia"
      BY <1>3, <1>5, <2>1 DEF Charla
  <2>2. CASE ent[t].espera = "nada"
    <3>1. Callado(s) \/ aMapa[s] = <<Msg("ACK", 0)>>
        BY <1>2, <1>3, <1>5, <2>2 DEF Charla, Nada
    <3>2. <<Msg("ACK", 0)>> # <<>>
        OBVIOUS
    <3> QED BY <3>1, <3>2 DEF Callado
  <2> QED BY <1>1, <2>1, <2>2
<1>9. aMapa'[s] = <<m>> \/ aMapa'[s] = <<Msg("ACK", 0), m>>
    BY <1>7, <1>8
<1>10. <<m>> # <<>> /\ <<Msg("ACK", 0), m>> # <<>> /\ Tail(<<m>>) = <<>>
       /\ Head(<<Msg("ACK", 0), m>>) = Msg("ACK", 0)
    OBVIOUS
<1>11. EscribeEnLaSuya(t)
    BY <1>5, <1>7, <1>8, <1>9, <1>10 DEF EscribeEnLaSuya, Habla
<1> QED BY <1>4, <1>5, <1>9, <1>11

(* It asks for something, or notifies a copy.                               *)
LEMMA CuentasDice ==
    ASSUME Supuestos, Control, Control', ~modo.batalla, ListasOK, Charlas, Cuentas,
           UNCHANGED <<mapa, dd>>, NEW t \in Entrenadores,
           Conocer(t) \/ NotificarFin(t) \/ Mover(t) \/ Capturar(t) \/ Acusar(t)
    PROVE  Cuentas'
<1>1. UNCHANGED <<cola, seniales, nido, bill>>
    BY DEF Conocer, NotificarFin, Mover, Capturar, Acusar, Pide, archivos
<1>2. /\ ent'[t].espera # "copia" /\ ent'[t].estado # "SIN_MAPA"
      /\ \A u \in Entrenadores : u # t => ent'[u] = ent[u]
    BY DiceEs
<1>3. EscribeEnLaSuya(t)
    BY DiceEs
<1>4. PICK s \in Fds : s = sock[t]
    BY <1>3 DEF EscribeEnLaSuya
<1>5. PICK m : aMapa'[s] = <<m>> \/ aMapa'[s] = <<Msg("ACK", 0), m>>
    BY <1>4, DiceEs
<1>6. /\ <<m>> # <<>> /\ <<Msg("ACK", 0), m>> # <<>> /\ Tail(<<m>>) = <<>>
       /\ Head(<<Msg("ACK", 0), m>>) = Msg("ACK", 0)
    OBVIOUS
<1>7. OlvidaLaCopia(t)
    BY <1>2, <1>4, <1>5, <1>6 DEF OlvidaLaCopia
<1>8. CapturasSolas'
  <2> SUFFICES ASSUME NEW x \in Fds, EsCaptura(x)' PROVE Tail(aMapa'[x]) = <<>>
      BY DEF CapturasSolas
  <2>1. CASE x = s
    <3>1. Head(aMapa'[s]).tipo = "CAPTURAR"
        BY <2>1 DEF EsCaptura
    <3>2. Msg("ACK", 0).tipo # "CAPTURAR"
        BY DEF Msg
    <3> QED BY <1>5, <1>6, <2>1, <3>1, <3>2
  <2>2. CASE x # s
    <3>1. aMapa'[x] = aMapa[x]
        BY <1>4, <1>3, <2>2 DEF EscribeEnLaSuya
    <3> QED BY <3>1 DEF Cuentas, CapturasSolas, EsCaptura
  <2> QED BY <2>1, <2>2
<1> QED BY <1>1, <1>2, <1>3, <1>7, <1>8, CuentasSinCopiar

(* It hears an answer that is not a pokemon, gets or loses a life, or goes. *)
LEMMA CuentasOye ==
    ASSUME Supuestos, Control, Control', ~modo.batalla, ListasOK, Charlas, Cuentas,
           UNCHANGED <<mapa, dd>>, NEW t \in Entrenadores,
           \/ RecibirCoordenada(t) \/ Movido(t) \/ QuedarBloqueado(t) \/ Despertar(t)
           \/ Completar(t) \/ SIGUSR1(t) \/ SIGTERM(t) \/ SIGINT(t)
    PROVE  Cuentas'
<1>1. UNCHANGED <<aMapa, cola, nido, bill>>
    BY DEF RecibirCoordenada, Movido, QuedarBloqueado, Despertar, Completar, SIGUSR1, SIGTERM,
           SIGINT, archivos, mundo
<1>2. ent \in [Entrenadores -> Ents] /\ ent[t] \in Ents /\ seniales \in 0 .. MaxSeniales
    BY TiposEnt
<1>3. /\ seniales' = 0 => seniales = 0
      /\ SIGINT(t) => seniales' # 0
  <2>1. UNCHANGED seniales \/ seniales' = seniales + 1
      BY DEF RecibirCoordenada, Movido, QuedarBloqueado, Despertar, Completar, SIGUSR1, SIGTERM,
             SIGINT, Senial
  <2>2. SIGINT(t) => seniales' = seniales + 1
      BY DEF SIGINT, Senial
  <2> QED BY <1>2, <2>1, <2>2
<1>4. \A u \in Entrenadores : u # t => ent'[u] = ent[u]
    BY <1>2 DEF RecibirCoordenada, Movido, QuedarBloqueado, Despertar, Completar, SIGUSR1,
           SIGTERM, SIGINT
<1>5. ent'[t].estado # "SIN_MAPA"
  <2>1. CASE SIGUSR1(t) \/ SIGTERM(t)
    <3>1. PICK n : ent' = [ent EXCEPT ![t].vidas = n] /\ ent[t].estado # "SIN_MAPA"
        BY <2>1 DEF SIGUSR1, SIGTERM, Senial
    <3> QED BY <1>2, <3>1 DEF Ents
  <2>2. CASE RecibirCoordenada(t) \/ QuedarBloqueado(t) \/ Completar(t) \/ SIGINT(t)
      BY <1>2, <2>2 DEF RecibirCoordenada, QuedarBloqueado, Completar, SIGINT, Ents
  <2>3. CASE Movido(t)
    <3>1. ent[t].estado # "SIN_MAPA"
        BY <2>3, TiposEnt DEF Movido, Recibe, Coherente, EstadoQueEspera
    <3>2. PICK pos, st : st \in {"EN_POKENEST", ent[t].estado} /\
            ent' = [ent EXCEPT ![t].pos = pos, ![t].espera = "nada", ![t].estado = st]
        BY <2>3 DEF Movido
    <3> QED BY <1>2, <3>1, <3>2 DEF Ents
  <2>4. CASE Despertar(t)
    <3>1. PICK st \in {"EN_DEADLOCK", "EN_POKENEST", "BLOQUEADO"} :
             ent' = [ent EXCEPT ![t].estado = st]
        BY <2>4 DEF Despertar
    <3> QED BY <1>2, <3>1 DEF Ents
  <2> QED BY <2>1, <2>2, <2>3, <2>4
<1>6. ent'[t].espera = ent[t].espera \/ OlvidaLaCopia(t)
  <2>1. CASE SIGUSR1(t) \/ SIGTERM(t)
    <3>1. PICK n : ent' = [ent EXCEPT ![t].vidas = n]
        BY <2>1 DEF SIGUSR1, SIGTERM
    <3> QED BY <1>2, <3>1 DEF Ents
  <2>2. CASE Despertar(t)
    <3>1. PICK st : ent' = [ent EXCEPT ![t].estado = st]
        BY <2>2 DEF Despertar
    <3> QED BY <1>2, <3>1 DEF Ents
  <2>3. CASE RecibirCoordenada(t) \/ Movido(t) \/ QuedarBloqueado(t) \/ Completar(t)
    <3>1. ent[t].espera \in {"coordenada", "ok", "captura", "medalla"}
        BY <2>3 DEF RecibirCoordenada, Movido, QuedarBloqueado, Completar, Recibe
    <3>2. ent'[t].espera = "nada"
      <4>1. CASE Movido(t)
        <5>1. PICK pos, st :
                ent' = [ent EXCEPT ![t].pos = pos, ![t].espera = "nada", ![t].estado = st]
            BY <4>1 DEF Movido
        <5> QED BY <1>2, <5>1 DEF Ents
      <4>2. CASE ~Movido(t)
          BY <1>2, <2>3, <4>2 DEF RecibirCoordenada, QuedarBloqueado, Completar, Ents
      <4> QED BY <4>1, <4>2
    <3> QED BY <3>1, <3>2 DEF OlvidaLaCopia
  <2>4. CASE SIGINT(t)
    <3>1. ent'[t].espera = "nada"
        BY <1>2, <2>4 DEF SIGINT, Ents
    <3> QED BY <1>3, <2>4, <3>1 DEF OlvidaLaCopia
  <2> QED BY <2>1, <2>2, <2>3, <2>4
<1>7. CapturasSolas'
    BY <1>1, SolasIgual DEF Cuentas
<1> QED BY <1>1, <1>3, <1>4, <1>5, <1>6, <1>7, CuentasSinCopiar

(* What it copies is what is being handed over to it.                       *)
LEMMA CapturadoEs ==
    ASSUME Supuestos, Control, ~modo.batalla, ListasOK, Charlas,
           UNCHANGED <<mapa, dd>>, NEW t \in Entrenadores, Capturado(t)
    PROVE  /\ pl.pc = "entregando" /\ pl.corre \in 1 .. Len(pcb)
           /\ pcb[pl.corre].quien = t /\ pcb[pl.corre].pide = Objetivo(t)
           /\ Objetivo(t) \in Pokenests
           /\ \A u \in Entrenadores : ent'[u].estado = ent[u].estado
           /\ bill'[t] = [bill[t] EXCEPT ![Objetivo(t)] = @ + 1]
           /\ \A u \in Entrenadores : u # t => bill'[u] = bill[u]
           /\ \A p : /\ EnEntrega(p)' = EnEntrega(p)
                     /\ Copiado(p) = 0 /\ Copiado(p)' = (IF p = Objetivo(t) THEN 1 ELSE 0)
<1>1. /\ sock[t] # 0 /\ ent[t].espera = "captura" /\ aEntrenador[sock[t]] # <<>>
      /\ Leido(t).tipo = "TE_DOY" /\ UNCHANGED <<aMapa, sock>>
      /\ bill' = [bill EXCEPT ![t][Objetivo(t)] = @ + 1]
      /\ ent' = [ent EXCEPT ![t].espera = "copia"]
    BY DEF Capturado, Recibe
<1>2. /\ sock[t] \in Fds /\ Charla(t) /\ ent \in [Entrenadores -> Ents] /\ ent[t] \in Ents
      /\ ent[t].estado = "EN_POKENEST"
    BY <1>1, EnCharla, TiposEnt DEF Coherente, EstadoQueEspera
<1>3. PICK s \in Fds : s = sock[t]
    BY <1>2
<1>4. Objetivo(t) \in Pokenests
    BY <1>2, ObjetivoEs
<1>5. PICK p0 \in Pokenests : p0 = Objetivo(t)
    BY <1>4
<1>6. aMapa[s] = <<>> /\ Entrega(s)
  <2>1. EsperaCaptura(p0, s, aEntrenador[s])
      BY <1>1, <1>2, <1>3, <1>5 DEF Charla
  <2>2. aEntrenador[s] # <<>> /\ Head(aEntrenador[s]).tipo = "TE_DOY"
      BY <1>1, <1>3 DEF Leido
  <2>3. ~(aEntrenador[s] \in {Negado, Append(Negado, Msg("ESTAS_DESBLOQUEADO", 0))})
    <3>1. Head(Negado).tipo = "ESTAS_BLOQUEADO"
          /\ Head(Append(Negado, Msg("ESTAS_DESBLOQUEADO", 0))).tipo = "ESTAS_BLOQUEADO"
        BY DEF Negado, Msg
    <3> QED BY <2>2, <3>1
  <2> QED BY <2>1, <2>2, <2>3 DEF EsperaCaptura
<1>7. pl.pc = "entregando" /\ Fd = s /\ pl.pc \in Sirviendo
    BY <1>6 DEF Entrega, Sirviendo, Pasos
<1>8. PICK i0 \in DOMAIN listos : listos[i0] = pl.corre
    BY <1>7, ElDelTurno
<1>9. PICK q \in 1 .. Len(pcb) : q = pl.corre
    BY <1>7, Sirve
<1>10. pcb[q].quien = t /\ pcb[q].pide = p0
  <2>1. FdEn(listos, i0) = sock[t] /\ pcb[listos[i0]] = pcb[q]
      BY <1>3, <1>7, <1>8, <1>9 DEF FdEn, Fd
  <2>2. Anotado(t, i0)
      BY <2>1 DEF Charlas, AnotadosOK
  <2> QED BY <1>2, <1>5, <2>1, <2>2 DEF ListasOK, SocketsOK, Anotado, SabeQuePide
<1>11. UNCHANGED <<pcb, listos, pl>> /\ Fd' = Fd
    BY MapaQuieto
<1>12. ent'[t].espera = "copia" /\ \A u \in Entrenadores : ent'[u].estado = ent[u].estado
    BY <1>1, <1>2 DEF Ents
<1>13. /\ bill'[t] = [bill[t] EXCEPT ![p0] = @ + 1]
       /\ \A u \in Entrenadores : u # t => bill'[u] = bill[u]
    BY <1>1, <1>5, Tipos DEF MundoTypeOK
<1>14. ASSUME NEW p PROVE EnEntrega(p)' = EnEntrega(p)
    BY <1>11 DEF EnEntrega
<1>15. ASSUME NEW p PROVE Copiado(p) = 0 /\ Copiado(p)' = (IF p = p0 THEN 1 ELSE 0)
  <2>1. EnEntrega(p) = (IF p = p0 THEN 1 ELSE 0)
      BY <1>7, <1>9, <1>10 DEF EnEntrega
  <2>2. Copiado(p) = 0
      BY <1>1, <1>6, <1>7, <1>9, <1>10 DEF Copiado
  <2>3. EnEntrega(p)' = (IF p = p0 THEN 1 ELSE 0)
      BY <1>14, <2>1
  <2>4. ent'[pcb'[pl'.corre].quien].espera = "copia"
      BY <1>9, <1>10, <1>11, <1>12
  <2>5. Copiado(p)' = (IF p = p0 THEN 1 ELSE 0)
      BY <2>3, <2>4 DEF Copiado
  <2> QED BY <2>2, <2>5
<1> QED BY <1>5, <1>7, <1>9, <1>10, <1>12, <1>13, <1>14, <1>15

(* It copies the file of the pokemon that is being handed over to it.       *)
LEMMA CuentasCapturado ==
    ASSUME Supuestos, Control, Control', ~modo.batalla, ListasOK, Charlas, Cuentas,
           UNCHANGED <<mapa, dd>>, NEW t \in Entrenadores, Capturado(t)
    PROVE  Cuentas'
<1>1. UNCHANGED <<aMapa, sock, cola, nido, seniales>>
    BY DEF Capturado, Recibe
<1>2. PICK p0 \in Pokenests : p0 = Objetivo(t)
    BY CapturadoEs
<1>3. pl.pc = "entregando"
    BY CapturadoEs
<1>4. PICK q \in 1 .. Len(pcb) : q = pl.corre
    BY CapturadoEs
<1>5. pcb[q].quien = t
    BY <1>4, CapturadoEs
<1>6. UNCHANGED <<pcb, listos, pl, cant, rec>> /\ Perduran
    BY MapaQuieto DEF mapa
<1>7. \A u \in Entrenadores : ent'[u].estado = ent[u].estado
    BY CapturadoEs
<1>8. /\ bill'[t] = [bill[t] EXCEPT ![p0] = @ + 1]
       /\ \A u \in Entrenadores : u # t => bill'[u] = bill[u]
    BY <1>2, CapturadoEs
<1>9. \A p : EnEntrega(p)' = EnEntrega(p)
    BY CapturadoEs
<1>10. \A p : Copiado(p) = 0 /\ Copiado(p)' = (IF p = p0 THEN 1 ELSE 0)
    BY <1>2, CapturadoEs
<1>11. UnaVezOK'
  <2>1. pcb' \in Seq(Pcbs) /\ Len(pcb') = Len(pcb)
      BY <1>6, Tipos
  <2>2. \A u \in Entrenadores : ent'[u].estado = "SIN_MAPA" => ent[u].estado = "SIN_MAPA"
      BY <1>7
  <2> QED BY <1>1, <1>6, <2>1, <2>2, UnaVezIgual DEF Cuentas
<1>12. SinUsarOK'
  <2>1. pcb' \in Seq(Pcbs) /\ Len(pcb') = Len(pcb)
      BY <1>6, Tipos
  <2>2. q \in DOMAIN pcb
      BY SuLista
  <2>3. \A u \in Entrenadores : (\A i \in DOMAIN pcb : pcb[i].quien # u) => bill'[u] = bill[u]
      BY <1>5, <1>8, <2>2
  <2> QED BY <1>6, <2>1, <2>3, SinUsarIgual DEF Cuentas
<1>13. RegistradosOK'
  <2> SUFFICES ASSUME NEW i \in DOMAIN listos' PROVE (Registrado(listos[i]))'
      BY DEF RegistradosOK
  <2>1. PICK x \in 1 .. Len(pcb) : x = listos[i] /\ i \in DOMAIN listos /\ listos'[i] = x
    <3>1. i \in DOMAIN listos /\ listos \in Seq(1 .. Len(pcb)) /\ listos' = listos
        BY <1>6, Tipos
    <3> QED BY <3>1
  <2>2. Registrado(x)
      BY <1>3, <2>1 DEF Cuentas, RegistradosOK, Devolvio
  <2>3. x # q => pcb[x].quien # t
      BY <1>5, SuLista DEF Cuentas, UnaVezOK
  <2>4. ASSUME NEW p \in Pokenests
        PROVE  /\ rec'[x][p] + SinRegistrar(x, p)' <= bill'[pcb'[x].quien][p]
               /\ seniales' = 0 =>
                    rec'[x][p] + SinRegistrar(x, p)' = bill'[pcb'[x].quien][p]
    <3>1. PICK u \in Entrenadores : u = pcb[x].quien
        BY SuLista
    <3>2. PICK r, b, b1 : r = rec[x][p] /\ b = bill[u][p] /\ b1 = bill'[u][p]
        OBVIOUS
    <3>3. r \in Nat /\ b \in Nat
        BY <3>2, Numeros, SuLista
    <3>4. r <= b /\ (seniales = 0 => r = b)
      <4>1. SinRegistrar(x, p) = 0
          BY <1>10 DEF SinRegistrar
      <4> QED BY <2>2, <3>1, <3>2, <3>3, <4>1 DEF Registrado
    <3>5. SinRegistrar(x, p)' = (IF x = q /\ p = p0 THEN 1 ELSE 0)
        BY <1>4, <1>6, <1>10 DEF SinRegistrar
    <3>6. b1 = (IF x = q /\ p = p0 THEN b + 1 ELSE b)
      <4>1. bill[t] \in [Pokenests -> Nat]
          BY Tipos DEF MundoTypeOK
      <4>2. CASE x = q
        <5>1. u = t
            BY <1>5, <3>1, <4>2
        <5>2. b1 = [bill[t] EXCEPT ![p0] = @ + 1][p] /\ b = bill[t][p]
            BY <1>8, <3>2, <5>1
        <5> QED BY <4>1, <4>2, <5>2
      <4>3. CASE x # q
          BY <1>8, <2>3, <3>1, <3>2, <4>3
      <4> QED BY <4>2, <4>3
    <3>7. PICK c : c = SinRegistrar(x, p)'
        OBVIOUS
    <3>8. r + c <= b1 /\ (seniales' = 0 => r + c = b1)
        BY <1>1, <3>3, <3>4, <3>5, <3>6, <3>7
    <3>9. rec'[x][p] = r /\ bill'[pcb'[x].quien][p] = b1
        BY <1>6, <3>1, <3>2
    <3> QED BY <3>7, <3>8, <3>9
  <2> QED BY <2>1, <2>4 DEF Registrado, SinRegistrar
<1>14. ASSUME NEW p \in Pokenests PROVE Ofrecido(p)'
    BY <1>1, <1>6, <1>9 DEF Cuentas, Ofrecido
<1>15. CapturasSolas'
    BY <1>1, SolasIgual DEF Cuentas
<1> QED BY <1>11, <1>12, <1>13, <1>14, <1>15 DEF Cuentas

(* It connects, and waits to be accepted.                                   *)
LEMMA CuentasConecta ==
    ASSUME Supuestos, Control, Control', ~modo.batalla, ListasOK, Charlas, Cuentas,
           UNCHANGED <<mapa, dd>>, NEW t \in Entrenadores, HandShake(t)
    PROVE  Cuentas'
<1>1. /\ ent[t].estado = "SIN_MAPA" /\ Conectar(t) /\ ent' = [ent EXCEPT ![t] = DeNuevo(@)]
      /\ UNCHANGED <<aMapa, nido, bill, seniales>>
    BY DEF HandShake, archivos
<1>2. /\ ent \in [Entrenadores -> Ents] /\ ent[t] \in Ents /\ ent[t].espera = "nada"
  <2>1. ent \in [Entrenadores -> Ents] /\ ent[t] \in Ents /\ Coherente(t, ent[t])
      BY TiposEnt
  <2>2. ent[t].espera \in {"nada", "coordenada", "ok", "captura", "copia", "medalla", "veredicto"}
      BY <2>1 DEF Ents, Respuestas
  <2> QED BY <1>1, <2>1, <2>2 DEF Coherente, EstadoQueEspera
<1>3. /\ ent'[t].estado = "SIN_POKENEST" /\ ent'[t].espera = "nada"
      /\ \A u \in Entrenadores : u # t => ent'[u] = ent[u]
    BY <1>1, <1>2 DEF DeNuevo, Ents
<1>4. UNCHANGED <<pcb, listos, pl, cant, rec>> /\ Perduran /\ Len(pcb') = Len(pcb)
    BY MapaQuieto DEF mapa
<1>5. SinPrestar
    BY <1>1, <1>2, <1>3, SinCopiar
<1>6. SinUsarOK' /\ RegistradosOK' /\ \A p \in Pokenests : Ofrecido(p)'
    BY <1>1, <1>4, <1>5, CuentasSalvoVez
<1>7. CapturasSolas'
    BY <1>1, SolasIgual DEF Cuentas
<1>8. UnaVezOK'
  <2>1. PICK c : c = [fd |-> sock'[t], quien |-> t]
      OBVIOUS
  <2>2. cola' = Append(cola, c) /\ c.quien = t /\ c \in [fd : Fds, quien : Entrenadores]
      BY <1>1, <2>1, ConectarEs
  <2>3. cola \in Seq([fd : Fds, quien : Entrenadores])
      BY Tipos DEF MundoTypeOK
  <2>4. /\ DOMAIN cola' = 1 .. Len(cola) + 1 /\ DOMAIN cola = 1 .. Len(cola) /\ Len(cola) \in Nat
        /\ cola'[Len(cola) + 1] = c /\ \A i \in 1 .. Len(cola) : cola'[i] = cola[i]
    <3> DEFINE S == [fd : Fds, quien : Entrenadores]
    <3>1. cola \in Seq(S) /\ c \in S
        BY <2>2, <2>3
    <3> HIDE DEF S
    <3> QED BY <2>2, <3>1, AppendProperties
  <2>5. UnaVezOK
      BY DEF Cuentas
  <2>6. /\ \A i \in DOMAIN pcb : pcb[i].quien # t
        /\ \A i \in DOMAIN cola : cola[i].quien # t
      BY <1>1, <2>5 DEF UnaVezOK
  <2>7. \A i, j \in DOMAIN cola' : cola'[i].quien = cola'[j].quien => i = j
      BY <2>2, <2>4, <2>5, <2>6 DEF UnaVezOK
  <2>8. \A i \in DOMAIN cola', j \in DOMAIN pcb : cola'[i].quien # pcb[j].quien
      BY <2>2, <2>4, <2>5, <2>6 DEF UnaVezOK
  <2>9. ASSUME NEW u \in Entrenadores, ent'[u].estado = "SIN_MAPA"
        PROVE  /\ \A i \in DOMAIN pcb : pcb[i].quien # u
               /\ \A i \in DOMAIN cola' : cola'[i].quien # u
    <3>1. u # t /\ ent[u].estado = "SIN_MAPA"
        BY <1>3, <2>9
    <3> QED BY <2>2, <2>4, <2>5, <3>1 DEF UnaVezOK
  <2> QED BY <1>4, <2>5, <2>7, <2>8, <2>9 DEF UnaVezOK
<1> QED BY <1>6, <1>7, <1>8 DEF Cuentas

(* The attempts of a trainer are only counted up, and only by starting      *)
(* again.                                                                   *)
LEMMA SinReiniciarAntes ==
    ASSUME Supuestos, Control, ~modo.batalla, Charlas, SinReinicios', NEW t \in Entrenadores,
           EntrenadorPaso(t) \/ EntrenadorSenial(t)
    PROVE  SinReinicios /\ ~ReiniciarEnLaSenial(t)
<1>1. ent \in [Entrenadores -> Ents] /\ ent[t] \in Ents /\ ent[t].intentos \in Nat
    BY TiposEnt DEF Ents
<1>2. ~ReiniciarEnLaSenial(t)
  <2> SUFFICES ASSUME ReiniciarEnLaSenial(t) PROVE FALSE
      OBVIOUS
  <2>1. PICK e : /\ e = [DeNuevo(ent[t]) EXCEPT
                           !.ultima = "SIN_DIRECCION", !.intentos = ent[t].intentos + 1]
                 /\ ent' = [ent EXCEPT ![t] = e]
      BY DEF ReiniciarEnLaSenial, Reiniciar
  <2>2. e.intentos = ent[t].intentos + 1
      BY <1>1, <2>1 DEF DeNuevo, Ents
  <2>3. ent'[t].intentos = ent[t].intentos + 1
      BY <1>1, <2>1, <2>2
  <2> QED BY <1>1, <2>3 DEF SinReinicios
<1>3. /\ ent'[t].intentos = ent[t].intentos
      /\ \A u \in Entrenadores : u # t => ent'[u] = ent[u]
  <2>1. CASE HandShake(t)
      BY <1>1, <2>1 DEF HandShake, DeNuevo, Ents
  <2>2. CASE Conocer(t) \/ NotificarFin(t) \/ Capturar(t)
    <3>1. PICK r : ent' = [ent EXCEPT ![t].espera = r]
        BY <2>2 DEF Conocer, NotificarFin, Capturar, Pide
    <3> QED BY <1>1, <3>1 DEF Ents
  <2>3. CASE Mover(t)
    <3>1. PICK dir : ent' = [ent EXCEPT ![t].espera = "ok", ![t].ultima = dir]
        BY <2>3 DEF Mover
    <3> QED BY <1>1, <3>1 DEF Ents
  <2>4. CASE Acusar(t)
    <3>1. PICK st : ent' = [ent EXCEPT ![t].espera = "nada", ![t].obj = @ + 1, ![t].estado = st]
        BY <2>4 DEF Acusar
    <3> QED BY <1>1, <3>1 DEF Ents
  <2>5. CASE RecibirCoordenada(t)
    <3>1. PICK m : ent' = [ent EXCEPT ![t].meta = m, ![t].estado = "EN_CAMINO",
                                      ![t].espera = "nada"]
        BY <2>5 DEF RecibirCoordenada
    <3> QED BY <1>1, <3>1 DEF Ents
  <2>6. CASE Movido(t)
    <3>1. PICK pos, st :
            ent' = [ent EXCEPT ![t].pos = pos, ![t].espera = "nada", ![t].estado = st]
        BY <2>6 DEF Movido
    <3> QED BY <1>1, <3>1 DEF Ents
  <2>7. CASE Despertar(t)
    <3>1. PICK st : ent' = [ent EXCEPT ![t].estado = st]
        BY <2>7 DEF Despertar
    <3> QED BY <1>1, <3>1 DEF Ents
  <2>8. CASE SIGUSR1(t) \/ SIGTERM(t)
    <3>1. PICK n : ent' = [ent EXCEPT ![t].vidas = n]
        BY <2>8 DEF SIGUSR1, SIGTERM
    <3> QED BY <1>1, <3>1 DEF Ents
  <2>9. CASE Capturado(t) \/ QuedarBloqueado(t) \/ Completar(t) \/ SIGINT(t)
      BY <1>1, <2>9 DEF Capturado, QuedarBloqueado, Completar, SIGINT, Ents
  <2> QED BY <1>2, <2>1, <2>2, <2>3, <2>4, <2>5, <2>6, <2>7, <2>8, <2>9, SinPeleas
          DEF EntrenadorPaso, EntrenadorSenial
<1> QED BY <1>2, <1>3 DEF SinReinicios

LEMMA CuentasDeEntrenador ==
    ASSUME Supuestos, Control, Control', ~modo.batalla, ListasOK, Charlas, Cuentas,
           UNCHANGED <<mapa, dd>>, NEW t \in Entrenadores,
           EntrenadorPaso(t) \/ EntrenadorSenial(t), ~ReiniciarEnLaSenial(t)
    PROVE  Cuentas'
<1>1. CASE HandShake(t)
    BY <1>1, CuentasConecta
<1>2. CASE Conocer(t) \/ NotificarFin(t) \/ Mover(t) \/ Capturar(t) \/ Acusar(t)
    BY <1>2, CuentasDice
<1>3. CASE Capturado(t)
    BY <1>3, CuentasCapturado
<1>4. CASE \/ RecibirCoordenada(t) \/ Movido(t) \/ QuedarBloqueado(t) \/ Despertar(t)
           \/ Completar(t) \/ SIGUSR1(t) \/ SIGTERM(t) \/ SIGINT(t)
    BY <1>4, CuentasOye
<1> QED BY <1>1, <1>2, <1>3, <1>4, SinPeleas DEF EntrenadorPaso, EntrenadorSenial

(* Every step keeps the files and their counts in agreement ...             *)
LEMMA CuentasPaso ==
    ASSUME Supuestos, Control, Control', ListasOK, CharlasOK, CuentasOK, [Next]_vars
    PROVE  CuentasOK'
<1> SUFFICES ASSUME SinReuso', ~modo'.batalla, SinReinicios' PROVE Cuentas'
    BY DEF CuentasOK
<1>1. ~modo.batalla /\ SinReuso
    BY MismoModo, NoBajan DEF SinReuso
<1>2. Charlas
    BY <1>1 DEF CharlasOK
<1>3. SinReinicios => Cuentas
    BY <1>1 DEF CuentasOK
<1>4. CASE MapaPaso /\ UNCHANGED <<dd, ent, seniales>>
  <2>1. SinReinicios
      BY <1>4 DEF SinReinicios
  <2> QED BY <1>1, <1>2, <1>3, <1>4, <2>1, CuentasMapa
<1>5. CASE DeteccionPaso /\ UNCHANGED <<ent, seniales>>
  <2>1. dd.pc \in Paz
      BY <1>1 DEF ListasOK
  <2>2. \/ NoMirar \/ Contar \/ PasarseDelFin \/ SigueBloqueado \/ Liberar \/ Liberado
        \/ FinDePasada
      BY <1>1, <1>5, <2>1, PasosEnPaz
  <2>3. SinReinicios
      BY <1>5 DEF SinReinicios
  <2> QED BY <1>1, <1>2, <1>3, <1>5, <2>2, <2>3, CuentasDeteccion
<1>6. ASSUME NEW t \in Entrenadores, EntrenadorPaso(t) \/ EntrenadorSenial(t),
             UNCHANGED <<mapa, dd>>
      PROVE  Cuentas'
  <2>1. SinReinicios /\ ~ReiniciarEnLaSenial(t)
      BY <1>1, <1>2, <1>6, SinReiniciarAntes
  <2> QED BY <1>1, <1>2, <1>3, <1>6, <2>1, CuentasDeEntrenador
<1>7. CASE UNCHANGED vars
  <2>1. UNCHANGED <<mapa, dd>> /\ UNCHANGED <<aMapa, ent, seniales, cola, nido, bill, sock>>
      BY <1>7 DEF vars, mundo, entrenadores, deteccion, archivos
  <2>2. SinReinicios
      BY <2>1 DEF SinReinicios
  <2>3. UNCHANGED <<pcb, listos, pl, cant, rec>> /\ Perduran /\ Len(pcb') = Len(pcb) /\ Fd' = Fd
      BY <2>1, MapaQuieto DEF mapa
  <2>4. \A p : EnEntrega(p)' = EnEntrega(p) /\ Copiado(p)' = Copiado(p)
      BY <2>1, <2>3 DEF EnEntrega, Copiado
  <2>5. \A p : EnEntrega(p) \in {0, 1} /\ Copiado(p) \in {0, 1}
      BY UnoONinguno
  <2>6. DebenLoMismo
      BY <2>3, <2>4, <2>5 DEF DebenLoMismo, Devolvio, DevolvioLuego
  <2>7. SinPrestar
      BY <2>4, <2>5, <2>6 DEF SinPrestar
  <2>8. CapturasSolas'
      BY <1>3, <2>1, <2>2, SolasIgual DEF Cuentas
  <2> QED BY <1>3, <2>1, <2>2, <2>3, <2>7, <2>8, CuentasAparte
<1> QED BY <1>4, <1>5, <1>6, <1>7 DEF Next

(* ... as they are at the start.                                            *)
LEMMA CuentasInicial ==
    ASSUME Supuestos, Init
    PROVE  Cuentas
<1>1. /\ pcb = <<>> /\ listos = <<>> /\ cola = <<>> /\ pl.pc = "elegir" /\ cant = nido
      /\ \A s \in Fds : aMapa[s] = <<>>
    BY DEF Init, MundoInit, MapaInit
<1>2. Control
    BY ControlInicial
<1>3. /\ \A l \in 1 .. MaxPcb, p \in Pokenests : rec[l][p] = 0
      /\ \A t \in Entrenadores, p \in Pokenests : bill[t][p] = 0
    BY DEF Init, MundoInit, MapaInit
<1>4. DOMAIN pcb = {} /\ DOMAIN listos = {} /\ DOMAIN cola = {}
    BY <1>1
<1>5. UnaVezOK /\ SinUsarOK /\ RegistradosOK /\ CapturasSolas
    BY <1>1, <1>3, <1>4 DEF UnaVezOK, SinUsarOK, RegistradosOK, CapturasSolas, EsCaptura
<1>6. ASSUME NEW p \in Pokenests PROVE Ofrecido(p)
  <2>1. EnEntrega(p) = 0
      BY <1>1 DEF EnEntrega
  <2>2. PICK n : n = nido[p] /\ n = cant[p] /\ n \in Nat
      BY <1>1, <1>2, Numeros
  <2>3. n >= 0 /\ n + 0 <= n /\ n + 0 = n
      BY <2>2
  <2> QED BY <2>1, <2>2, <2>3 DEF Ofrecido
<1> QED BY <1>5, <1>6 DEF Cuentas

(* The lists, the conversations and the counts, each where it holds.  The   *)
(* counts: without battles, while no descriptor of a blocked trainer is     *)
(* used again and until a trainer starts again, what the map has recorded   *)
(* of a trainer it has, and each pokemon the map counts is a file in its    *)
(* pokenest; until a signal is sent there is nothing else in either place.  *)
THEOREM CuadraSiempre == Spec => []Cuadra
<1>1. Supuestos
    BY MundoAssumption, MapaAssumption, EntrenadorAssumption DEF Supuestos
<1>2. Init => Cuadra
    BY <1>1, ControlInicial, ListasInicial, CharlasInicial, CuentasInicial
    DEF Cuadra, Orden, CharlasOK, CuentasOK
<1>3. Cuadra /\ [Next]_vars => Cuadra'
    BY <1>1, ControlPaso, ListasPaso, CharlasPaso, CuentasPaso DEF Cuadra, Orden
<1> QED BY <1>2, <1>3, PTL DEF Spec

(* The map never offers a pokemon whose file is not in the pokenest, and    *)
(* until somebody is interrupted it offers every one of them, while no      *)
(* descriptor of a blocked trainer is used again.                           *)
THEOREM StockRespaldadoSiempre == Spec => [](SinReuso => StockRespaldado)
<1>1. Cuadra => (SinReuso => StockRespaldado)
    BY DEF Cuadra, CuentasOK, SinReinicios, StockRespaldado, Cuentas, Ofrecido
<1> QED BY <1>1, CuadraSiempre, PTL

-----------------------------------------------------------------------------
(* What the trainers have of a species can be counted ...                   *)
LEMMA ContadosFinitos ==
    ASSUME NEW f \in [Entrenadores -> Nat]
    PROVE  IsFiniteSet(Contados(f))
<1> DEFINE De(t) == {t} \X (1 .. f[t])
           partes == {De(t) : t \in Entrenadores}
           g == [t \in Entrenadores |-> De(t)]
<1>1. IsFiniteSet(Entrenadores)
    BY JuegoAssumption
<1>2. ASSUME NEW t \in Entrenadores PROVE IsFiniteSet(De(t))
  <2>1. IsFiniteSet({t}) /\ IsFiniteSet(1 .. f[t])
    <3>1. 1 \in Int /\ f[t] \in Int
        OBVIOUS
    <3> QED BY <3>1, FS_Singleton, FS_Interval
  <2> QED BY <2>1, FS_Product
<1>3. g \in Surjection(Entrenadores, partes)
    BY DEF Surjection
<1>4. IsFiniteSet(partes)
    BY <1>1, <1>3, FS_Surjection
<1>5. IsFiniteSet(UNION partes)
  <2>1. \A T \in partes : IsFiniteSet(T)
      BY <1>2
  <2> HIDE DEF partes
  <2> QED BY <1>4, <2>1, FS_UNION
<1> QED BY <1>5 DEF Contados

(* ... and one that gets some more adds them to the count.                  *)
LEMMA ContadosMas ==
    ASSUME NEW f \in [Entrenadores -> Nat], NEW g \in [Entrenadores -> Nat],
           NEW t \in Entrenadores, NEW d \in Nat, g[t] = f[t] + d,
           \A u \in Entrenadores : u # t => g[u] = f[u]
    PROVE  /\ Cardinality(Contados(f)) \in Nat
           /\ Cardinality(Contados(g)) = Cardinality(Contados(f)) + d
<1> DEFINE nuevos == {t} \X (f[t] + 1 .. f[t] + d)
<1>1. IsFiniteSet(Contados(f)) /\ Cardinality(Contados(f)) \in Nat
    BY ContadosFinitos, FS_CardinalityType
<1>2. IsFiniteSet(nuevos) /\ Cardinality(nuevos) = d
  <2>1. PICK a, b : a = f[t] + 1 /\ b = f[t] + d
      OBVIOUS
  <2>2. a \in Int /\ b \in Int /\ (IF a > b THEN 0 ELSE b - a + 1) = d
      BY <2>1
  <2>3. IsFiniteSet(a .. b) /\ Cardinality(a .. b) = d
      BY <2>2, FS_Interval
  <2>4. IsFiniteSet({t}) /\ Cardinality({t}) = 1
      BY FS_Singleton
  <2>5. IsFiniteSet({t} \X (a .. b)) /\ Cardinality({t} \X (a .. b)) = 1 * d
      BY <2>3, <2>4, FS_Product
  <2> QED BY <2>1, <2>5
<1>3. Contados(g) = Contados(f) \cup nuevos
  <2>1. ASSUME NEW u \in Entrenadores
        PROVE  {u} \X (1 .. g[u]) = ({u} \X (1 .. f[u])) \cup (IF u = t THEN nuevos ELSE {})
    <3>1. CASE u = t
      <4>1. 1 .. g[t] = (1 .. f[t]) \cup (f[t] + 1 .. f[t] + d)
          OBVIOUS
      <4> QED BY <3>1, <4>1
    <3>2. CASE u # t
        BY <3>2
    <3> QED BY <3>1, <3>2
  <2> HIDE DEF nuevos
  <2> QED BY <2>1 DEF Contados
<1>4. Contados(f) \cap nuevos = {}
  <2> SUFFICES ASSUME NEW c \in Contados(f), c \in nuevos PROVE FALSE
      OBVIOUS
  <2>1. PICK u \in Entrenadores : c \in {u} \X (1 .. f[u])
      BY DEF Contados
  <2>2. c[1] = u /\ c[2] \in 1 .. f[u] /\ c[1] = t /\ c[2] \in f[t] + 1 .. f[t] + d
      BY <2>1
  <2> QED BY <2>2
<1>5. Cardinality({}) = 0
    BY FS_EmptySet
<1> HIDE DEF nuevos
<1>6. Cardinality(Contados(f) \cup nuevos)
        = Cardinality(Contados(f)) + Cardinality(nuevos) - Cardinality(Contados(f) \cap nuevos)
    BY <1>1, <1>2, FS_Union
<1>7. PICK a : a = Cardinality(Contados(f))
    OBVIOUS
<1>8. a \in Nat /\ Cardinality(Contados(g)) = a + d - 0
    BY <1>1, <1>2, <1>3, <1>4, <1>5, <1>6, <1>7
<1> QED BY <1>7, <1>8

(* Nobody has anything at the start.                                        *)
LEMMA ContadosNinguno ==
    ASSUME NEW f, \A t \in Entrenadores : f[t] = 0
    PROVE  Cardinality(Contados(f)) = 0
<1>1. ASSUME NEW t \in Entrenadores PROVE {t} \X (1 .. f[t]) = {}
    OBVIOUS
<1>2. Contados(f) = {}
    BY <1>1 DEF Contados
<1> QED BY <1>2, FS_EmptySet

(* A trainer that gets or loses pokemons changes the count by those.        *)
LEMMA ConMas ==
    ASSUME Control, Control', NEW p \in Pokenests, NEW t \in Entrenadores, NEW d \in Nat,
           \A u \in Entrenadores : u # t => bill'[u][p] = bill[u][p]
    PROVE  /\ ConEntrenadores(p) \in Nat /\ ConEntrenadores(p)' \in Nat
           /\ bill'[t][p] = bill[t][p] + d => ConEntrenadores(p)' = ConEntrenadores(p) + d
           /\ bill[t][p] = bill'[t][p] + d => ConEntrenadores(p) = ConEntrenadores(p)' + d
<1> DEFINE f == [u \in Entrenadores |-> bill[u][p]]
           g == [u \in Entrenadores |-> bill'[u][p]]
<1>1. f \in [Entrenadores -> Nat] /\ g \in [Entrenadores -> Nat]
  <2>1. bill \in [Entrenadores -> [Pokenests -> Nat]] /\ bill' \in [Entrenadores -> [Pokenests -> Nat]]
      BY DEF Control, MundoTypeOK
  <2> QED BY <2>1
<1>2. ConEntrenadores(p) = Cardinality(Contados(f)) /\ ConEntrenadores(p)' = Cardinality(Contados(g))
    BY DEF ConEntrenadores, Contados
<1>3. /\ f[t] = bill[t][p] /\ g[t] = bill'[t][p]
      /\ \A u \in Entrenadores : u # t => g[u] = f[u] /\ f[u] = g[u]
    OBVIOUS
<1> HIDE DEF f, g
<1>4. Cardinality(Contados(f)) \in Nat /\ Cardinality(Contados(g)) \in Nat
    BY <1>1, ContadosFinitos, FS_CardinalityType
<1>5. g[t] = f[t] + d => Cardinality(Contados(g)) = Cardinality(Contados(f)) + d
    BY <1>1, <1>3, ContadosMas
<1>6. f[t] = g[t] + d => Cardinality(Contados(f)) = Cardinality(Contados(g)) + d
    BY <1>1, <1>3, ContadosMas
<1> QED BY <1>2, <1>3, <1>4, <1>5, <1>6

LEMMA ConLosMismos ==
    ASSUME Control, NEW p \in Pokenests
    PROVE  ConEntrenadores(p) \in Nat /\ (UNCHANGED bill => ConEntrenadores(p)' = ConEntrenadores(p))
<1> DEFINE f == [u \in Entrenadores |-> bill[u][p]]
<1>1. f \in [Entrenadores -> Nat]
  <2>1. bill \in [Entrenadores -> [Pokenests -> Nat]]
      BY DEF Control, MundoTypeOK
  <2> QED BY <2>1
<1>2. ConEntrenadores(p) = Cardinality(Contados(f))
    BY DEF ConEntrenadores
<1> HIDE DEF f
<1>3. Cardinality(Contados(f)) \in Nat
    BY <1>1, ContadosFinitos, FS_CardinalityType
<1>4. UNCHANGED bill => ConEntrenadores(p)' = ConEntrenadores(p)
    BY DEF ConEntrenadores, Contados
<1> QED BY <1>2, <1>3, <1>4

(* What goes into the pokenest comes from the trainers, or from having been *)
(* in both places.                                                          *)
LEMMA ConservadoPasa ==
    ASSUME Control, SinReinicios, NEW p \in Pokenests, Conservado(p), UNCHANGED seniales,
           NEW x \in Int, NEW y \in Int,
           nido'[p] = nido[p] + x, ConEntrenadores(p)' = ConEntrenadores(p) + y,
           Copiado(p)' = Copiado(p) + x + y
    PROVE  Conservado(p)'
<1>1. PICK n, c, k : n = nido[p] /\ c = ConEntrenadores(p) /\ k = Copiado(p)
    OBVIOUS
<1>2. n \in Nat /\ c \in Nat /\ k \in {0, 1}
    BY <1>1, Numeros, ConLosMismos, UnoONinguno
<1>3. /\ nido'[p] = n + x /\ ConEntrenadores(p)' = c + y /\ Copiado(p)' = k + x + y
    BY <1>1
<1>4. (n + x) + (c + y) - (k + x + y) = n + c - k
    BY <1>2
<1>5. n + c - k >= Stock[p] /\ n + c - k <= Stock[p] + seniales
    BY <1>1 DEF Conservado
<1> QED BY <1>3, <1>4, <1>5 DEF Conservado

(* A step that moves no file and forgets no copy, unless it is a signal.    *)
LEMMA ConservadoIgual ==
    ASSUME Supuestos, Control, Control', SinReinicios, NEW p \in Pokenests, Conservado(p),
           UNCHANGED <<nido, bill>>,
           \/ UNCHANGED seniales /\ Copiado(p)' = Copiado(p)
           \/ seniales' = seniales + 1 /\ Copiado(p)' <= Copiado(p)
    PROVE  Conservado(p)'
<1>1. PICK n, c, k, j : /\ n = nido[p] /\ c = ConEntrenadores(p)
                        /\ k = Copiado(p) /\ j = Copiado(p)'
    OBVIOUS
<1>2. k \in {0, 1} /\ j \in {0, 1}
  <2>1. Copiado(p)' \in {0, 1}
      BY DEF Copiado
  <2> QED BY <1>1, <2>1, UnoONinguno
<1>3. n \in Nat /\ c \in Nat /\ Stock[p] \in Nat /\ seniales \in Nat
  <2>1. n \in Nat /\ c \in Nat
      BY <1>1, Numeros, ConLosMismos
  <2>2. Stock[p] \in Nat
      BY MapaAssumption
  <2>3. seniales \in Nat
    <3>1. seniales \in 0 .. MaxSeniales
        BY DEF Control, EntrenadorOK, EntrenadorTypeOK
    <3> QED BY <3>1, EntrenadorAssumption
  <2> QED BY <2>1, <2>2, <2>3
<1>4. nido'[p] = n /\ ConEntrenadores(p)' = c
    BY <1>1, ConLosMismos
<1>5. n + c - k >= Stock[p] /\ n + c - k <= Stock[p] + seniales
    BY <1>1 DEF Conservado
<1>6. PICK s, z : s = seniales /\ z = seniales'
    OBVIOUS
<1>7. n + c - j >= Stock[p] /\ n + c - j <= Stock[p] + z
  <2>1. (z = s /\ j = k) \/ (z = s + 1 /\ j <= k)
      BY <1>1, <1>6
  <2>2. n + c - k >= Stock[p] /\ n + c - k <= Stock[p] + s /\ s \in Nat
      BY <1>3, <1>5, <1>6
  <2> QED BY <1>2, <1>3, <2>1, <2>2
<1> QED BY <1>1, <1>4, <1>6, <1>7 DEF Conservado

(* The steps that move files.  The map deletes what was copied ...          *)
LEMMA ConservadoEntregado ==
    ASSUME Supuestos, Control, Control', SinReinicios, ~modo.batalla, ListasOK, Charlas, Cuentas,
           UNCHANGED <<dd, ent, seniales>>, Entregado,
           NEW x \in Pokenests, Conservado(x)
    PROVE  Conservado(x)'
<1>1. PICK p \in Pokenests : p = pcb[pl.corre].pide
    BY EntregadoEs
<1>2. /\ nido' = [nido EXCEPT ![p] = IF @ > 0 THEN @ - 1 ELSE 0]
      /\ EnEntrega(x) = (IF x = p THEN 1 ELSE 0)
      /\ Copiado(x) = (IF x = p THEN 1 ELSE 0) /\ Copiado(x)' = 0
    BY <1>1, EntregadoEs
<1>3. ConEntrenadores(x)' = ConEntrenadores(x) + 0
  <2>1. UNCHANGED bill
      BY DEF Entregado
  <2>2. ConEntrenadores(x) \in Nat /\ ConEntrenadores(x)' = ConEntrenadores(x)
      BY <2>1, ConLosMismos
  <2>3. PICK c : c = ConEntrenadores(x)
      OBVIOUS
  <2>4. c \in Nat /\ ConEntrenadores(x)' = c
      BY <2>2, <2>3
  <2>5. c = c + 0
      BY <2>4
  <2> QED BY <2>3, <2>4, <2>5
<1>4. PICK n : n = nido[x] /\ n \in Nat
    BY Numeros
<1>5. CASE x = p
  <2>1. n >= 1
    <3>1. cant[x] >= 0 /\ cant[x] + EnEntrega(x) <= nido[x]
        BY DEF Cuentas, Ofrecido
    <3>2. PICK c : c = cant[x] /\ c \in Int
        BY Numeros
    <3>3. c >= 0 /\ c + 1 <= n
        BY <1>2, <1>4, <1>5, <3>1, <3>2
    <3> QED BY <1>4, <3>2, <3>3
  <2>2. nido'[x] = n + (-1)
    <3>1. nido'[x] = IF n > 0 THEN n - 1 ELSE 0
        BY <1>2, <1>4, <1>5, Tipos DEF MundoTypeOK
    <3> QED BY <1>4, <2>1, <3>1
  <2>3. Copiado(x)' = 1 + (-1) + 0 /\ Copiado(x) = 1
      BY <1>2, <1>5
  <2>4. -1 \in Int /\ 0 \in Int
      OBVIOUS
  <2> QED BY <1>3, <1>4, <2>2, <2>3, <2>4, ConservadoPasa
<1>6. CASE x # p
  <2>1. nido'[x] = n + 0
      BY <1>2, <1>4, <1>6, Tipos DEF MundoTypeOK
  <2>2. Copiado(x)' = 0 + 0 + 0 /\ Copiado(x) = 0
      BY <1>2, <1>6
  <2>3. 0 \in Int
      OBVIOUS
  <2> QED BY <1>3, <1>4, <2>1, <2>2, <2>3, ConservadoPasa
<1> QED BY <1>5, <1>6

(* ... who leaves gives back to the pokenest what it loses ...              *)
LEMMA ConservadoSoltar ==
    ASSUME Supuestos, Control, Control', SinReinicios, ~modo.batalla, ListasOK, Charlas, Cuentas,
           UNCHANGED <<dd, ent, seniales>>, Soltar,
           NEW x \in Pokenests, Conservado(x)
    PROVE  Conservado(x)'
<1>1. PICK q \in 1 .. MaxPcb, u \in Entrenadores : q = pl.corre /\ u = pcb[pl.corre].quien
    BY SoltarEs
<1>2. Reintegrar(q, u) /\ Copiado(x) = 0 /\ Copiado(x)' = 0
    BY <1>1, SoltarEs
<1>3. PICK d : d = Devuelto(q, u)[x]
    OBVIOUS
<1>4. d = (IF rec[q][x] > 0 THEN bill[u][x] ELSE 0) /\ d \in Nat
    BY <1>3, Numeros DEF Devuelto
<1>5. nido'[x] = nido[x] + d
    BY <1>2, <1>3 DEF Reintegrar
<1>6. /\ bill'[u][x] = bill[u][x] - d
      /\ \A t \in Entrenadores : t # u => bill'[t][x] = bill[t][x]
  <2>1. bill \in [Entrenadores -> [Pokenests -> Nat]]
      BY Tipos DEF MundoTypeOK
  <2> QED BY <1>2, <1>3, <2>1 DEF Reintegrar
<1>7. bill[u][x] = bill'[u][x] + d
  <2>1. PICK b : b = bill[u][x] /\ b \in Nat
      BY Numeros
  <2>2. bill'[u][x] = b - d
      BY <1>6, <2>1
  <2>3. b = (b - d) + d
      BY <1>4, <2>1
  <2> QED BY <2>1, <2>2, <2>3
<1>8. ConEntrenadores(x)' = ConEntrenadores(x) + (-d)
  <2>1. PICK a, b : a = ConEntrenadores(x) /\ b = ConEntrenadores(x)'
      OBVIOUS
  <2>2. a \in Nat /\ b \in Nat /\ a = b + d
      BY <1>4, <1>6, <1>7, <2>1, ConMas
  <2>3. b = a + (-d)
      BY <1>4, <2>2
  <2> QED BY <2>1, <2>3
<1>9. d \in Int /\ -d \in Int /\ 0 = 0 + d + (-d)
    BY <1>4
<1>10. Copiado(x)' = Copiado(x) + d + (-d)
    BY <1>2, <1>9
<1> QED BY <1>5, <1>8, <1>9, <1>10, ConservadoPasa

(* ... and who captures has a copy of what is still there.                  *)
LEMMA ConservadoCapturado ==
    ASSUME Supuestos, Control, Control', SinReinicios, ~modo.batalla, ListasOK, Charlas,
           UNCHANGED <<mapa, dd>>, NEW t \in Entrenadores, Capturado(t),
           NEW x \in Pokenests, Conservado(x)
    PROVE  Conservado(x)'
<1>1. UNCHANGED <<nido, seniales>>
    BY DEF Capturado
<1>2. PICK d \in {0, 1} : d = (IF x = Objetivo(t) THEN 1 ELSE 0)
    OBVIOUS
<1>3. Copiado(x) = 0 /\ Copiado(x)' = d
    BY <1>2, CapturadoEs
<1>4. /\ bill'[t][x] = bill[t][x] + d
      /\ \A u \in Entrenadores : u # t => bill'[u][x] = bill[u][x]
  <2>1. bill \in [Entrenadores -> [Pokenests -> Nat]]
      BY Tipos DEF MundoTypeOK
  <2>2. /\ bill'[t] = [bill[t] EXCEPT ![Objetivo(t)] = @ + 1]
        /\ \A u \in Entrenadores : u # t => bill'[u] = bill[u]
      BY CapturadoEs
  <2>3. PICK b : b = bill[t][x] /\ b \in Nat
      BY <2>1
  <2>4. bill'[t][x] = (IF x = Objetivo(t) THEN b + 1 ELSE b)
      BY <2>1, <2>2, <2>3
  <2>5. bill'[t][x] = b + d
      BY <1>2, <2>3, <2>4
  <2> QED BY <2>2, <2>3, <2>5
<1>5. ConEntrenadores(x)' = ConEntrenadores(x) + d
  <2>1. d \in Nat
      BY <1>2
  <2> QED BY <1>4, <2>1, ConMas
<1>6. nido'[x] = nido[x] + 0
  <2>1. PICK n : n = nido[x] /\ n \in Nat
      BY Numeros
  <2>2. n = n + 0
      BY <2>1
  <2> QED BY <1>1, <2>1, <2>2
<1>7. Copiado(x)' = Copiado(x) + 0 + d /\ 0 \in Int /\ d \in Int
    BY <1>2, <1>3
<1> QED BY <1>1, <1>5, <1>6, <1>7, ConservadoPasa

(* The other steps move no file.  Those of the map copy nothing: what is    *)
(* not being handed over, or is offered only now, is not copied; who left   *)
(* during the delivery had not told, and does not wait.                     *)
LEMMA ConservadoNoEntregado ==
    ASSUME Supuestos, Control, Control', SinReinicios, ~modo.batalla, ListasOK, Charlas,
           UNCHANGED <<dd, ent, seniales>>, NoEntregado
    PROVE  \A p : Copiado(p)' = Copiado(p)
<1>1. pl.pc = "entregando" /\ Cortado(Fd) /\ pl' = Sigue(1)
    BY DEF NoEntregado
<1>2. pl.pc \in Sirviendo \ {"rotar"} /\ 1 \in 0 .. 2
    BY <1>1 DEF Sirviendo, Pasos
<1>3. pl'.pc # "entregando"
    BY <1>1, <1>2, SigueAdonde
<1>4. PICK s \in Fds, t \in Entrenadores : s = Fd /\ t = pcb[pl.corre].quien
    BY <1>2, Sirve, SuLista
<1>5. ent[t].espera # "copia"
  <2> SUFFICES ASSUME ent[t].espera = "copia" PROVE FALSE
      OBVIOUS
  <2>1. ent[t].estado = "EN_POKENEST"
      BY TiposEnt DEF Coherente, EstadoQueEspera
  <2>2. Charla(t) /\ sock[t] # 0
      BY <2>1, EnCharla DEF Charlas, ConectadosOK
  <2>3. Fd = sock[t]
      BY <2>2 DEF Charla, Entrega
  <2> QED BY <1>1, <2>2, <2>3 DEF Cortado, ListasOK, SocketsOK
<1> QED BY <1>1, <1>3, <1>4, <1>5 DEF Copiado, EnEntrega, Cortado

LEMMA ConservadoMapa ==
    ASSUME Supuestos, Control, Control', SinReinicios, ~modo.batalla, ListasOK, Charlas, Cuentas,
           UNCHANGED <<dd, ent, seniales>>, MapaPaso,
           NEW p \in Pokenests, Conservado(p)
    PROVE  Conservado(p)'
<1>1. CASE Entregado
    BY <1>1, ConservadoEntregado
<1>2. CASE Soltar
    BY <1>2, ConservadoSoltar
<1>3. CASE \/ Elegir \/ Rotar \/ ObtenerPokenest \/ MoverPosicion \/ Moviendo \/ Negar
           \/ Bloquear \/ Bloqueado \/ DarMedalla \/ Desconectado \/ QuitarDeVacia \/ Quitar
           \/ YaNoEsta \/ QuitadoPorSi \/ QuitadoDelTurno
  <2>1. UNCHANGED <<nido, bill>>
      BY <1>3 DEF Elegir, Rotar, ObtenerPokenest, MoverPosicion, Moviendo, Negar, Bloquear,
             Bloqueado, DarMedalla, Desconectado, QuitarDeVacia, Quitar, YaNoEsta, QuitadoPorSi,
             QuitadoDelTurno, mundo, archivos
  <2>2. pl.pc # "entregando" /\ pl'.pc # "entregando"
      BY <1>3, NoEntrega
  <2>3. Copiado(p)' = Copiado(p)
      BY <2>2 DEF Copiado, EnEntrega
  <2> QED BY <2>1, <2>3, ConservadoIgual
<1>4. CASE Aceptar \/ Aceptado \/ Dibujar \/ LeerLoAjeno
  <2>1. UNCHANGED <<nido, bill, pl, aMapa>>
      BY <1>4 DEF Aceptar, Aceptado, Dibujar, LeerLoAjeno, mundo, archivos
  <2>2. Quietos
      BY <1>4, QuietoMapa, QuietoAceptar
  <2>3. Copiado(p)' = Copiado(p)
      BY <2>1, <2>2, MismoCopiado
  <2> QED BY <2>1, <2>3, ConservadoIgual
<1>5. CASE Entregar
  <2>1. UNCHANGED <<nido, bill>>
      BY <1>5 DEF Entregar, archivos
  <2>2. Copiado(p)' = Copiado(p)
      BY <1>5, EntregarEs
  <2> QED BY <2>1, <2>2, ConservadoIgual
<1>6. CASE NoEntregado
  <2>1. UNCHANGED <<nido, bill>>
      BY <1>6 DEF NoEntregado, mundo
  <2>2. Copiado(p)' = Copiado(p)
      BY <1>6, ConservadoNoEntregado
  <2> QED BY <2>1, <2>2, ConservadoIgual
<1> QED BY <1>1, <1>2, <1>3, <1>4, <1>5, <1>6 DEF MapaPaso

(* Nor does the detection.                                                  *)
LEMMA ConservadoDeteccion ==
    ASSUME Supuestos, Control, Control', SinReinicios,
           UNCHANGED <<ent, seniales>>,
           \/ NoMirar \/ Contar \/ PasarseDelFin \/ SigueBloqueado \/ Liberar \/ Liberado
           \/ FinDePasada,
           NEW p \in Pokenests, Conservado(p)
    PROVE  Conservado(p)'
<1>1. UNCHANGED <<nido, bill, pl, aMapa>>
    BY DEF NoMirar, Contar, PasarseDelFin, SigueBloqueado, Liberar, Liberado, FinDePasada,
           mundo, mapa, archivos
<1>2. Quietos
    BY QuietoDeteccion
<1>3. Copiado(p)' = Copiado(p)
    BY <1>1, <1>2, MismoCopiado
<1> QED BY <1>1, <1>3, ConservadoIgual

(* A trainer that neither captures nor is interrupted goes on having a copy *)
(* of what it had: it forgets that it copied when it says so.               *)
AvisaLaCopia(t) ==
    /\ ent'[t].espera # "copia"
    /\ ent[t].espera = "copia" => sock[t] \in Fds /\ aMapa'[sock[t]] # <<>>
LEMMA SigueCopiado ==
    ASSUME Supuestos, Control, ~modo.batalla, ListasOK, Charlas, UNCHANGED <<mapa, dd>>,
           NEW t \in Entrenadores, \A u \in Entrenadores : u # t => ent'[u] = ent[u],
           aMapa' = aMapa \/ EscribeEnLaSuya(t),
           ent'[t].espera = ent[t].espera \/ AvisaLaCopia(t)
    PROVE  \A p : Copiado(p)' = Copiado(p)
<1>1. UNCHANGED <<pcb, listos, pl>> /\ Fd' = Fd
    BY MapaQuieto
<1>2. \A p : EnEntrega(p)' = EnEntrega(p)
    BY <1>1 DEF EnEntrega
<1>3. CASE pl.pc # "entregando"
    BY <1>1, <1>3 DEF Copiado, EnEntrega
<1>4. CASE pl.pc = "entregando"
  <2>1. pl.pc \in Sirviendo
      BY <1>4 DEF Sirviendo, Pasos
  <2>2. PICK s \in Fds, u \in Entrenadores : s = Fd /\ u = pcb[pl.corre].quien
      BY <2>1, Sirve, SuLista
  <2>3. sock[t] = s => u = t
    <3>1. PICK i \in DOMAIN listos : listos[i] = pl.corre
        BY <2>1, ElDelTurno
    <3>2. FdEn(listos, i) = s /\ pcb[listos[i]].quien = u
        BY <2>2, <3>1 DEF FdEn, Fd
    <3> QED BY <3>2 DEF ListasOK, SocketsOK
  <2>4. ent[t].espera = "copia" => sock[t] = s
    <3> SUFFICES ASSUME ent[t].espera = "copia" PROVE sock[t] = s
        OBVIOUS
    <3>1. ent[t].estado = "EN_POKENEST"
        BY TiposEnt DEF Coherente, EstadoQueEspera
    <3>2. Charla(t)
        BY <3>1, EnCharla
    <3> QED BY <2>2, <3>2 DEF Charla, Entrega
  <2>5. Entrega(s)
      BY <1>4, <2>2 DEF Entrega
  <2> DEFINE A == aMapa[s] # <<>> \/ ent[u].espera = "copia"
             B == aMapa'[s] # <<>> \/ ent'[u].espera = "copia"
  <2>6. A <=> B
      BY <2>3, <2>4, <2>5 DEF EscribeEnLaSuya, AvisaLaCopia
  <2>7. \A p : Copiado(p) = (IF EnEntrega(p) = 1 /\ A THEN 1 ELSE 0)
      BY <2>2 DEF Copiado
  <2>8. \A p : Copiado(p)' = (IF EnEntrega(p) = 1 /\ B THEN 1 ELSE 0)
      BY <1>1, <1>2, <2>2 DEF Copiado
  <2> HIDE DEF A, B
  <2> QED BY <2>6, <2>7, <2>8
<1> QED BY <1>3, <1>4

(* Who is interrupted forgets at most that it copied.                       *)
LEMMA CopiadoBaja ==
    ASSUME Supuestos, Control, UNCHANGED <<mapa, dd, aMapa>>, NEW p,
           \A u \in Entrenadores : ent'[u].espera = "copia" => ent[u].espera = "copia"
    PROVE  Copiado(p)' <= Copiado(p)
<1>1. UNCHANGED <<pcb, listos, pl>> /\ Fd' = Fd
    BY MapaQuieto
<1>2. EnEntrega(p)' = EnEntrega(p)
    BY <1>1 DEF EnEntrega
<1>3. CASE pl.pc # "entregando"
    BY <1>1, <1>3 DEF Copiado, EnEntrega
<1>4. CASE pl.pc = "entregando"
  <2>1. pl.pc \in Sirviendo
      BY <1>4 DEF Sirviendo, Pasos
  <2>2. PICK u \in Entrenadores : u = pcb[pl.corre].quien
      BY <2>1, Sirve, SuLista
  <2>3. ent'[u].espera = "copia" => ent[u].espera = "copia"
      OBVIOUS
  <2> QED BY <1>1, <1>2, <2>2, <2>3 DEF Copiado
<1> QED BY <1>3, <1>4

LEMMA ConservadoDeEntrenador ==
    ASSUME Supuestos, Control, Control', SinReinicios, ~modo.batalla, ListasOK, Charlas,
           UNCHANGED <<mapa, dd>>, NEW t \in Entrenadores,
           EntrenadorPaso(t) \/ EntrenadorSenial(t), ~ReiniciarEnLaSenial(t),
           NEW p \in Pokenests, Conservado(p)
    PROVE  Conservado(p)'
<1>1. ent \in [Entrenadores -> Ents] /\ ent[t] \in Ents
    BY TiposEnt
<1>2. CASE Capturado(t)
    BY <1>2, ConservadoCapturado
<1>3. CASE SIGUSR1(t) \/ SIGTERM(t) \/ SIGINT(t)
  <2>1. UNCHANGED <<nido, bill, aMapa>> /\ seniales' = seniales + 1
      BY <1>3 DEF SIGUSR1, SIGTERM, SIGINT, Senial, mundo, archivos
  <2>2. \A u \in Entrenadores : ent'[u].espera = "copia" => ent[u].espera = "copia"
      BY <1>1, <1>3 DEF SIGUSR1, SIGTERM, SIGINT, Ents
  <2>3. Copiado(p)' <= Copiado(p)
      BY <2>1, <2>2, CopiadoBaja
  <2> QED BY <2>1, <2>3, ConservadoIgual
<1>4. CASE Conocer(t) \/ NotificarFin(t) \/ Mover(t) \/ Capturar(t) \/ Acusar(t)
  <2>1. UNCHANGED <<nido, bill, seniales>>
      BY <1>4 DEF Conocer, NotificarFin, Mover, Capturar, Acusar, Pide, archivos
  <2>2. /\ EscribeEnLaSuya(t) /\ ent'[t].espera # "copia"
        /\ \A u \in Entrenadores : u # t => ent'[u] = ent[u]
      BY <1>4, DiceEs
  <2>3. AvisaLaCopia(t)
      BY <2>2 DEF AvisaLaCopia, EscribeEnLaSuya
  <2>4. Copiado(p)' = Copiado(p)
      BY <2>2, <2>3, SigueCopiado
  <2> QED BY <2>1, <2>4, ConservadoIgual
<1>5. CASE RecibirCoordenada(t) \/ Movido(t) \/ QuedarBloqueado(t) \/ Completar(t)
  <2>1. /\ UNCHANGED <<nido, bill, seniales, aMapa>>
        /\ ent[t].espera \in {"coordenada", "ok", "captura", "medalla"}
      BY <1>5 DEF RecibirCoordenada, Movido, QuedarBloqueado, Completar, Recibe, archivos
  <2>2. \A u \in Entrenadores : u # t => ent'[u] = ent[u]
      BY <1>1, <1>5 DEF RecibirCoordenada, Movido, QuedarBloqueado, Completar
  <2>3. ent'[t].espera = "nada"
    <3>1. CASE Movido(t)
      <4>1. PICK pos, st :
              ent' = [ent EXCEPT ![t].pos = pos, ![t].espera = "nada", ![t].estado = st]
          BY <3>1 DEF Movido
      <4> QED BY <1>1, <4>1 DEF Ents
    <3>2. CASE ~Movido(t)
        BY <1>1, <1>5, <3>2 DEF RecibirCoordenada, QuedarBloqueado, Completar, Ents
    <3> QED BY <3>1, <3>2
  <2>4. AvisaLaCopia(t)
      BY <2>1, <2>3 DEF AvisaLaCopia
  <2>5. Copiado(p)' = Copiado(p)
      BY <2>1, <2>2, <2>4, SigueCopiado
  <2> QED BY <2>1, <2>5, ConservadoIgual
<1>6. CASE Despertar(t)
  <2>1. UNCHANGED <<nido, bill, seniales, aMapa>> /\ \E st : ent' = [ent EXCEPT ![t].estado = st]
      BY <1>6 DEF Despertar, archivos
  <2>2. ent'[t].espera = ent[t].espera /\ \A u \in Entrenadores : u # t => ent'[u] = ent[u]
      BY <1>1, <2>1 DEF Ents
  <2>3. Copiado(p)' = Copiado(p)
      BY <2>1, <2>2, SigueCopiado
  <2> QED BY <2>1, <2>3, ConservadoIgual
<1>7. CASE HandShake(t)
  <2>1. /\ UNCHANGED <<nido, bill, seniales, aMapa>> /\ ent' = [ent EXCEPT ![t] = DeNuevo(@)]
        /\ ent[t].estado = "SIN_MAPA"
      BY <1>7 DEF HandShake, archivos
  <2>2. ent[t].espera # "copia"
      BY <2>1, TiposEnt DEF Coherente, EstadoQueEspera
  <2>3. ent'[t].espera = "nada" /\ \A u \in Entrenadores : u # t => ent'[u] = ent[u]
      BY <1>1, <2>1 DEF DeNuevo, Ents
  <2>4. AvisaLaCopia(t)
      BY <2>2, <2>3 DEF AvisaLaCopia
  <2>5. Copiado(p)' = Copiado(p)
      BY <2>1, <2>3, <2>4, SigueCopiado
  <2> QED BY <2>1, <2>5, ConservadoIgual
<1> QED BY <1>2, <1>3, <1>4, <1>5, <1>6, <1>7, SinPeleas DEF EntrenadorPaso, EntrenadorSenial

(* Every step conserves the files ...                                       *)
LEMMA ConservadoPaso ==
    ASSUME Supuestos, Cuadra, Control', ConservadosOK, [Next]_vars
    PROVE  ConservadosOK'
<1> SUFFICES ASSUME SinReuso', ~modo'.batalla, SinReinicios', NEW p \in Pokenests
             PROVE  Conservado(p)'
    BY DEF ConservadosOK
<1>1. ~modo.batalla /\ SinReuso
    BY MismoModo, NoBajan DEF SinReuso, Cuadra, Orden
<1>2. Control /\ ListasOK /\ Charlas
    BY <1>1 DEF Cuadra, Orden, CharlasOK
<1>3. SinReinicios => Cuentas /\ Conservado(p)
    BY <1>1 DEF Cuadra, CuentasOK, ConservadosOK
<1>4. CASE MapaPaso /\ UNCHANGED <<dd, ent, seniales>>
  <2>1. SinReinicios
      BY <1>4 DEF SinReinicios
  <2> QED BY <1>1, <1>2, <1>3, <1>4, <2>1, ConservadoMapa
<1>5. CASE DeteccionPaso /\ UNCHANGED <<ent, seniales>>
  <2>1. dd.pc \in Paz
      BY <1>1, <1>2 DEF ListasOK
  <2>2. \/ NoMirar \/ Contar \/ PasarseDelFin \/ SigueBloqueado \/ Liberar \/ Liberado
        \/ FinDePasada
      BY <1>1, <1>2, <1>5, <2>1, PasosEnPaz
  <2>3. SinReinicios
      BY <1>5 DEF SinReinicios
  <2> QED BY <1>2, <1>3, <1>5, <2>2, <2>3, ConservadoDeteccion
<1>6. ASSUME NEW t \in Entrenadores, EntrenadorPaso(t) \/ EntrenadorSenial(t),
             UNCHANGED <<mapa, dd>>
      PROVE  Conservado(p)'
  <2>1. SinReinicios /\ ~ReiniciarEnLaSenial(t)
      BY <1>1, <1>2, <1>6, SinReiniciarAntes
  <2> QED BY <1>1, <1>2, <1>3, <1>6, <2>1, ConservadoDeEntrenador
<1>7. CASE UNCHANGED vars
  <2>1. UNCHANGED <<mapa, dd>> /\ UNCHANGED <<aMapa, ent, seniales, nido, bill>>
      BY <1>7 DEF vars, mundo, entrenadores, deteccion, archivos
  <2>2. SinReinicios
      BY <2>1 DEF SinReinicios
  <2>3. UNCHANGED <<pcb, listos, pl>> /\ Fd' = Fd
      BY <1>2, <2>1, MapaQuieto
  <2>4. Copiado(p)' = Copiado(p)
      BY <2>1, <2>3 DEF EnEntrega, Copiado
  <2> QED BY <1>2, <1>3, <2>1, <2>2, <2>4, ConservadoIgual
<1> QED BY <1>4, <1>5, <1>6, <1>7 DEF Next

(* ... which are all in their pokenests at the start.                       *)
LEMMA ConservadoInicial ==
    ASSUME Supuestos, Init, NEW p \in Pokenests
    PROVE  Conservado(p)
<1>1. /\ pl.pc = "elegir" /\ nido[p] = Stock[p] /\ Stock[p] \in Nat /\ seniales = 0
      /\ \A t \in Entrenadores : bill[t][p] = 0
    BY MapaAssumption DEF Init, MundoInit, MapaInit, EntrenadorInit
<1>2. Copiado(p) = 0
    BY <1>1 DEF Copiado, EnEntrega
<1>3. ConEntrenadores(p) = 0
  <2>1. \A t \in Entrenadores : [u \in Entrenadores |-> bill[u][p]][t] = 0
      BY <1>1
  <2> QED BY <2>1, ContadosNinguno DEF ConEntrenadores
<1> QED BY <1>1, <1>2, <1>3 DEF Conservado

(* Captures, refusals, medals and what the map gives back when a trainer    *)
(* leaves, interrupted or not, lose no pokemon file, and each signal        *)
(* duplicates one at most: without battles, while no descriptor of a        *)
(* blocked trainer is used again and until a trainer starts again.          *)
THEOREM StockConservadoSiempre ==
    Spec => [](SinReuso /\ ~modo.batalla /\ SinReinicios => StockConservado)
<1>1. Supuestos
    BY MundoAssumption, MapaAssumption, EntrenadorAssumption DEF Supuestos
<1>2. Init => ConservadosOK
    BY <1>1, ConservadoInicial DEF ConservadosOK
<1>3. Cuadra /\ Cuadra' /\ ConservadosOK /\ [Next]_vars => ConservadosOK'
    BY <1>1, ConservadoPaso DEF Cuadra, Orden
<1>4. ConservadosOK => (SinReuso /\ ~modo.batalla /\ SinReinicios => StockConservado)
    BY DEF ConservadosOK, StockConservado
<1> QED BY <1>2, <1>3, <1>4, CuadraSiempre, PTL DEF Spec
=============================================================================
