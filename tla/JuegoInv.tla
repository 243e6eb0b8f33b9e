------------------------------ MODULE JuegoInv ------------------------------
(***************************************************************************)
(* Inductive invariants of Juego.  Control is what the types rest on: where*)
(* each thread is, and which of its local variables mean something there.  *)
(***************************************************************************)
EXTENDS Juego

(* The planner serves the trainer it chose, which stays in listaListos: the *)
(* search by descriptor finds somebody there.                               *)
Sirviendo == Pasos \ {"elegir", "quitar", "cerrar"}

ControlPlan ==
    /\ pl.pc # "elegir" => pl.corre \in 1..Len(pcb)
    /\ pl.pc \in Sirviendo => \E i \in DOMAIN listos : listos[i] = pl.corre
    /\ pl.pc \in Sirviendo \ {"rotar"} => pl.queda > 0
    /\ pl.pc \in {"quitando", "cerrar"} => pl.sitio \in DOMAIN listos

ControlDD ==
    /\ dd.pc \in {"primero", "segundo", "pelear"} => Len(dd.marcados) > 1
    /\ dd.pc \in {"sumar", "morir"} => Len(dd.marcados) = 2
    /\ dd.i > 0
    /\ dd.pc = "liberando" => dd.i \in DOMAIN bloqueados

(* A trainer waits only for the answer to what its state asks, and has a    *)
(* next objective until it has them all.                                    *)
EstadoQueEspera ==
    [coordenada |-> {"SIN_POKENEST"}, ok |-> {"EN_CAMINO"}, captura |-> {"EN_POKENEST"},
     copia |-> {"EN_POKENEST"}, medalla |-> {"CON_TODOS"},
     veredicto |-> {"EN_DEADLOCK", "COLGADO"}, nada |-> Estados \ {"COLGADO"}]

ControlEnt ==
    \A t \in Entrenadores :
      LET e == ent[t] IN
      /\ e.estado \in EstadoQueEspera[e.espera]
      /\ e.estado \notin {"CON_TODOS", "MAPA_COMPLETADO", "SALIO", "PERDIDO"}
           => e.obj <= Len(Objetivos[t])

MapaOK == MapaTypeOK /\ ControlPlan
DeteccionOK == DeteccionTypeOK /\ ControlDD
EntrenadorOK == EntrenadorTypeOK /\ ControlEnt

Control == MundoTypeOK /\ MapaOK /\ DeteccionOK /\ EntrenadorOK

-----------------------------------------------------------------------------
(* The lists and the descriptors, without battles.                          *)

FdEn(lista, i) == pcb[lista[i]].fd
SinParejas(lista) ==
    \A i, j \in DOMAIN lista : FdEn(lista, i) = FdEn(lista, j) => i = j

(* Who is ready or waits to be accepted has a connection of its own, which  *)
(* is open for the map; round robin serves the first of the list.           *)
ListosOK ==
    /\ SinParejas(listos)
    /\ \A i \in DOMAIN listos : extremo[FdEn(listos, i)] # "libre"
    /\ pl.pc \in {"quitando", "cerrar"} => FdEn(listos, pl.sitio) = Fd
    /\ modo.alg = "SRDF" => pl.pc \notin {"rotar", "quitar", "cerrar"}
    /\ modo.alg = "RR" /\ pl.pc \in Sirviendo => listos[1] = pl.corre

ColaOK ==
    /\ \A i, j \in DOMAIN cola : cola[i].fd = cola[j].fd => i = j
    /\ \A i \in DOMAIN cola : extremo[cola[i].fd] # "libre"
    /\ \A i \in DOMAIN cola, j \in DOMAIN listos : cola[i].fd # FdEn(listos, j)

(* Round robin: so has who is blocked, and is not ready but for the one     *)
(* whose turn ends.                                                         *)
TerminaElTurno(i) ==
    /\ FdEn(listos, i) = Fd
    /\ pl.pc \in {"bloqueando", "quitar"} \/ (pl.pc = "cerrar" /\ pl.sitio = i)

BloqueadosOK ==
    modo.alg = "RR" =>
      /\ SinParejas(bloqueados)
      /\ \A i \in DOMAIN bloqueados : extremo[FdEn(bloqueados, i)] # "libre"
      /\ \A i \in DOMAIN cola, j \in DOMAIN bloqueados : cola[i].fd # FdEn(bloqueados, j)
      /\ \A i \in DOMAIN listos, j \in DOMAIN bloqueados :
           FdEn(listos, i) = FdEn(bloqueados, j) => TerminaElTurno(i)

(* The connection of a trainer is open and only its own; what the map       *)
(* closes had been closed by the trainer, and nothing is left in it.        *)
SocketsOK ==
    /\ \A t \in Entrenadores : sock[t] # 0 => extremo[sock[t]] = "abierto"
    /\ \A t, u \in Entrenadores : sock[t] = sock[u] /\ sock[t] # 0 => t = u
    /\ \A t \in Entrenadores, i \in DOMAIN listos :
         FdEn(listos, i) = sock[t] => pcb[listos[i]].quien = t
    /\ \A t \in Entrenadores, i \in DOMAIN cola : cola[i].fd = sock[t] => cola[i].quien = t
    /\ pl.pc \in {"soltar", "quitando"} /\ pl.cierra
         => extremo[Fd] # "abierto" /\ aMapa[Fd] = <<>>
    /\ \A s \in Fds : extremo[s] # "abierto" => aEntrenador[s] = <<>>
    /\ \A s \in Fds : extremo[s] = "libre" => aMapa[s] = <<>>

Paz == {"mirar", "contar", "liberar", "liberando"}

ListasOK ==
    ~modo.batalla => ListosOK /\ ColaOK /\ BloqueadosOK /\ SocketsOK /\ dd.pc \in Paz

-----------------------------------------------------------------------------
(* What is in the connection of a trainer and what both sides know of it,   *)
(* while no descriptor of a blocked one is used again and without battles.  *)

Mueve(s) == pl.pc = "moviendo" /\ Fd = s
Entrega(s) == pl.pc = "entregando" /\ Fd = s
Callado(s) == aMapa[s] = <<>> /\ ~Mueve(s) /\ ~Entrega(s)
Solo(s, m) == aMapa[s] = <<m>> /\ ~Mueve(s) /\ ~Entrega(s)
TrasAcuse(s, m) == aMapa[s] = <<Msg("ACK", 0), m>> /\ Entrega(s)
Pendiente(s, m) == Solo(s, m) \/ TrasAcuse(s, m)

(* A request and its answer, by what the trainer waits for.                 *)
Nada(e, s, vuelta) ==
    \/ e.estado # "BLOQUEADO" /\ Callado(s) /\ vuelta = <<>>
    \/ e.estado = "BLOQUEADO" /\ Callado(s)
       /\ vuelta \in {<<>>, <<Msg("ESTAS_DESBLOQUEADO", 0)>>}
    \/ e.estado \in {"SIN_POKENEST", "CON_TODOS"} /\ vuelta = <<>>
       /\ aMapa[s] = <<Msg("ACK", 0)>> /\ Entrega(s)

EsperaCoordenada(p, s, vuelta) ==
    \/ Pendiente(s, Msg("CONOCER_POKENEST", p)) /\ vuelta = <<>>
    \/ Callado(s) /\ vuelta = <<Msg("COORDENADA", Coordenada[p])>>

EsperaOk(dir, s, vuelta) ==
    \/ Solo(s, Msg("MOVER_POSICION", dir)) /\ vuelta = <<>>
    \/ aMapa[s] = <<>> /\ Mueve(s) /\ vuelta = <<>>
    \/ Callado(s) /\ vuelta = <<Msg("OK", 0)>>

Negado == <<Msg("ESTAS_BLOQUEADO", 0)>>
EsperaCaptura(p, s, vuelta) ==
    \/ Solo(s, Msg("CAPTURAR", p)) /\ vuelta = <<>>
    \/ aMapa[s] = <<>> /\ Entrega(s) /\ vuelta = <<Msg("TE_DOY", p)>>
    \/ Callado(s) /\ vuelta \in {Negado, Append(Negado, Msg("ESTAS_DESBLOQUEADO", 0))}

EsperaMedalla(s, vuelta) ==
    \/ Pendiente(s, Msg("TERMINE_OBJETIVOS", 0)) /\ vuelta = <<>>
    \/ Callado(s) /\ vuelta = <<Msg("MEDALLA", 0)>>

Charla(t) ==
    LET e == ent[t]
        s == sock[t]
        vuelta == aEntrenador[s]
    IN  CASE e.espera = "nada" -> Nada(e, s, vuelta)
          [] e.espera = "coordenada" -> EsperaCoordenada(Objetivo(t), s, vuelta)
          [] e.espera = "ok" -> EsperaOk(e.ultima, s, vuelta)
          [] e.espera = "captura" -> EsperaCaptura(Objetivo(t), s, vuelta)
          [] e.espera = "copia" -> aMapa[s] = <<>> /\ Entrega(s) /\ vuelta = <<>>
          [] e.espera = "medalla" -> EsperaMedalla(s, vuelta)
          [] OTHER -> FALSE

(* Where the trainer is going.                                              *)
Rumbo(t) ==
    LET e == ent[t] IN
    /\ e.estado \in {"SIN_POKENEST", "EN_CAMINO", "EN_POKENEST", "BLOQUEADO", "CON_TODOS"}
    /\ e.estado \in {"EN_CAMINO", "EN_POKENEST", "BLOQUEADO"} =>
         e.meta = Coordenada[Objetivo(t)]
    /\ e.estado \in {"EN_POKENEST", "BLOQUEADO"} => e.pos = e.meta

(* What the map has of a ready trainer.                                     *)
PuntoDe(t) ==
    IF ent[t].espera = "ok" /\ aMapa[sock[t]] = <<>>
    THEN Paso(ent[t].pos, ent[t].ultima) ELSE ent[t].pos
SabeQuePide(t) ==
    \/ ent[t].estado \in {"EN_CAMINO", "EN_POKENEST", "BLOQUEADO"}
    \/ ent[t].espera = "coordenada" /\ aMapa[sock[t]] = <<>>
SeLeVa(t) == ent[t].espera = "medalla" /\ aMapa[sock[t]] = <<>>
Despidiendo(s) == pl.pc \in {"soltar", "quitando"} /\ Fd = s

Anotado(t, i) ==
    /\ pcb[listos[i]].punto = PuntoDe(t)
    /\ SabeQuePide(t) => pcb[listos[i]].pide = Objetivo(t)
    /\ SeLeVa(t) => Despidiendo(sock[t])

RecienLlegado(t) ==
    ent[t].estado = "SIN_POKENEST" /\ ent[t].pos = <<0, 0>> /\ aEntrenador[sock[t]] = <<>>
    /\ ~SabeQuePide(t)

(* A request to capture is alone in its connection, and the map knows that  *)
(* the one who sent it was there, even if it is gone.                       *)
EsCaptura(s) == aMapa[s] # <<>> /\ Head(aMapa[s]).tipo = "CAPTURAR"
CapturasOK ==
    /\ \A s \in Fds : \A k \in 2..Len(aMapa[s]) : aMapa[s][k].tipo # "CAPTURAR"
    /\ \A i \in DOMAIN listos :
         LET q == pcb[listos[i]] IN
         EsCaptura(q.fd) => /\ q.punto = Coordenada[Head(aMapa[q.fd]).dato]
                            /\ q.pide = Head(aMapa[q.fd]).dato
    /\ \A i \in DOMAIN cola : ~EsCaptura(cola[i].fd)

(* Who is blocked was refused and has not been told anything since; one     *)
(* that is being released may have asked again.                             *)
SeLibera(i) == dd.pc = "liberando" /\ dd.i = i
Detenido(t) ==
    \/ ent[t].espera = "captura" /\ aEntrenador[sock[t]] = Negado
    \/ ent[t].espera = "nada" /\ ent[t].estado = "BLOQUEADO" /\ aEntrenador[sock[t]] = <<>>

PresosOK ==
    /\ \A i \in DOMAIN bloqueados, t \in Entrenadores :
         FdEn(bloqueados, i) = sock[t] /\ ~SeLibera(i) => Detenido(t)
    /\ \A i, j \in DOMAIN bloqueados :
         FdEn(bloqueados, i) = FdEn(bloqueados, j) /\ ~SeLibera(i) /\ ~SeLibera(j) => i = j
    /\ \A i \in DOMAIN bloqueados : extremo[FdEn(bloqueados, i)] # "libre"
    /\ pl.pc = "bloquear" =>
         /\ \A j \in DOMAIN bloqueados : FdEn(bloqueados, j) = Fd => SeLibera(j)
         /\ \A t \in Entrenadores : sock[t] = Fd => Detenido(t)

(* Until a signal is sent, who is ready is there, or is being let go with   *)
(* its medal.                                                               *)
PresentesOK ==
    seniales = 0 =>
      /\ ~pl.cierra
      /\ \A i \in DOMAIN listos :
           sock[pcb[listos[i]].quien] = FdEn(listos, i) \/ Despidiendo(FdEn(listos, i))
      /\ \A i \in DOMAIN cola : sock[cola[i].quien] = cola[i].fd

(* Who has a connection is in the middle of the map, and what both sides    *)
(* have of it agrees.                                                       *)
DialogosOK == \A t \in Entrenadores : sock[t] # 0 => Charla(t) /\ Rumbo(t)
AnotadosOK ==
    \A t \in Entrenadores : \A i \in DOMAIN listos : FdEn(listos, i) = sock[t] => Anotado(t, i)
LlegadosOK ==
    \A t \in Entrenadores : \A i \in DOMAIN cola : cola[i].fd = sock[t] => RecienLlegado(t)
ConectadosOK ==
    \A t \in Entrenadores :
       ent[t].estado \in {"SIN_MAPA", "MAPA_COMPLETADO", "SALIO"} <=> sock[t] = 0

Charlas ==
    /\ DialogosOK /\ AnotadosOK /\ LlegadosOK /\ ConectadosOK
    /\ CapturasOK /\ PresosOK /\ PresentesOK
CharlasOK == SinReuso /\ ~modo.batalla => Charlas

Orden == Control /\ ListasOK /\ CharlasOK

-----------------------------------------------------------------------------
(* The pokemon files, until a trainer starts again.                         *)

(* Each trainer connects once, and has one t_pcb with a list of its own.    *)
UnaVezOK ==
    /\ \A i \in DOMAIN pcb : pcb[i].lista = i
    /\ \A i, j \in DOMAIN pcb : pcb[i].quien = pcb[j].quien => i = j
    /\ \A i, j \in DOMAIN cola : cola[i].quien = cola[j].quien => i = j
    /\ \A i \in DOMAIN cola, j \in DOMAIN pcb : cola[i].quien # pcb[j].quien
    /\ \A t \in Entrenadores : ent[t].estado = "SIN_MAPA" =>
         /\ \A i \in DOMAIN pcb : pcb[i].quien # t
         /\ \A i \in DOMAIN cola : cola[i].quien # t

(* Nothing has been captured yet with a t_pcb that is not allocated.        *)
SinUsarOK ==
    /\ \A l \in 1..MaxPcb, p \in Pokenests : l > Len(pcb) => rec[l][p] = 0
    /\ \A t \in Entrenadores : (\A i \in DOMAIN pcb : pcb[i].quien # t) =>
         \A p \in Pokenests : bill[t][p] = 0

(* What a ready trainer is recorded to hold, and what it has copied and the *)
(* map has not recorded, it has; and until a signal is sent nothing else.   *)
(* What is given back when it leaves is recorded until it is removed.       *)
SinRegistrar(q, p) == IF q = pl.corre THEN Copiado(p) ELSE 0
Devolvio(q) == pl.pc = "quitando" /\ q = pl.corre
Registrado(q) ==
    \A p \in Pokenests :
      LET registra == rec[q][p] + SinRegistrar(q, p)
          tiene == bill[pcb[q].quien][p]
      IN  registra <= tiene /\ (seniales = 0 => registra = tiene)
RegistradosOK ==
    \A i \in DOMAIN listos : Devolvio(listos[i]) \/ Registrado(listos[i])

(* A request to capture is the last thing said in its connection.           *)
CapturasSolas == \A s \in Fds : EsCaptura(s) => Tail(aMapa[s]) = <<>>

(* A pokemon is offered only with its file, and until a signal is sent, as  *)
(* many as files there are.                                                 *)
Ofrecido(p) ==
    /\ cant[p] >= 0 /\ cant[p] + EnEntrega(p) <= nido[p]
    /\ seniales = 0 => cant[p] + EnEntrega(p) = nido[p]

Cuentas ==
    /\ UnaVezOK /\ SinUsarOK /\ RegistradosOK /\ CapturasSolas
    /\ \A p \in Pokenests : Ofrecido(p)
CuentasOK == SinReuso /\ ~modo.batalla /\ SinReinicios => Cuentas

Cuadra == Orden /\ CuentasOK

(* Then no pokemon file is lost, and none duplicated but for those that are *)
(* being handed over, and one for each signal.                              *)
ConservadosOK ==
    SinReuso /\ ~modo.batalla /\ SinReinicios => \A p \in Pokenests : Conservado(p)
=============================================================================
