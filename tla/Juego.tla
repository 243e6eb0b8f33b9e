------------------------------- MODULE Juego -------------------------------
(***************************************************************************)
(* The game: one map with all its threads and the trainers connected to    *)
(* it, over the connections and the pokemon files of Mundo.                *)
(***************************************************************************)
EXTENDS DeteccionDeadlock, Entrenador

ASSUME JuegoAssumption == IsFiniteSet(Entrenadores)

vars == <<mundo, mapa, deteccion, entrenadores>>

Init == MundoInit /\ MapaInit /\ DeteccionInit /\ EntrenadorInit

Next ==
    \/ MapaPaso /\ UNCHANGED <<dd, ent, seniales>>
    \/ DeteccionPaso /\ UNCHANGED <<ent, seniales>>
    \/ \E t \in Entrenadores :
          (EntrenadorPaso(t) \/ EntrenadorSenial(t)) /\ UNCHANGED <<mapa, dd>>

Spec == Init /\ [][Next]_vars

(* The threads of the map and the trainers keep running; nobody has to send *)
(* a signal or to answer "s".                                               *)
Justicia ==
    /\ WF_vars(MapaPaso /\ UNCHANGED <<dd, ent, seniales>>)
    /\ WF_vars(Dibujar /\ caida = "no" /\ UNCHANGED <<dd, ent, seniales>>)
    /\ WF_vars(DeteccionPaso /\ UNCHANGED <<ent, seniales>>)
    /\ \A t \in Entrenadores :
          WF_vars(EntrenadorPaso(t) /\ UNCHANGED <<mapa, dd>>)

TypeOK == MundoTypeOK /\ MapaTypeOK /\ DeteccionTypeOK /\ EntrenadorTypeOK

SpecJusta == Spec /\ Justicia

-----------------------------------------------------------------------------
(* SRDF does not take who is blocked out of listaListos: it finds that the  *)
(* trainer was interrupted, closes, and leaves the t_pcb in                 *)
(* listaBloqueados with a descriptor that somebody else may be given.       *)
SinReuso == seniales = 0 \/ (modo.alg = "RR" /\ ~modo.batalla)

(* Both processes move the trainer on their own.  Without battles and with  *)
(* no descriptor used again, the point the map has is the trainer's, plus   *)
(* the step it has served and the trainer has not read.                     *)
PosicionCoherente ==
    SinReuso /\ ~modo.batalla =>
      \A i \in DOMAIN listos :
        LET q == pcb[listos[i]]
            e == ent[q.quien]
            servido == e.espera = "ok" /\ aMapa[q.fd] = <<>>
        IN  q.fd = sock[q.quien] =>
              q.punto = IF servido THEN Paso(e.pos, e.ultima) ELSE e.pos

(* The map gives a pokemon only to a trainer that stands on its pokenest;   *)
(* the copies of t_pcb made for battles do not move with their trainer.     *)
CapturaEnElLugar ==
    [][~modo.batalla /\ pl.pc = "recibir" /\ pl'.pc = "entregando" =>
         pcb[pl.corre].punto = Coordenada[Head(aMapa[Fd]).dato]]_vars

EnEntrega(p) ==
    IF pl.pc = "entregando" /\ pcb[pl.corre].pide = p THEN 1 ELSE 0
Copiado(p) ==
    IF EnEntrega(p) = 1
       /\ (aMapa[Fd] # <<>> \/ ent[pcb[pl.corre].quien].espera = "copia")
    THEN 1 ELSE 0
Contados(tiene) == UNION {{t} \X (1..tiene[t]) : t \in Entrenadores}
ConEntrenadores(p) == Cardinality(Contados([t \in Entrenadores |-> bill[t][p]]))
SinCopias == \A i, j \in DOMAIN pcb : pcb[i].lista = pcb[j].lista => i = j

(* Captures, refusals, medals and what the map gives back when a trainer    *)
(* leaves, interrupted or not, lose no pokemon file: each is in its         *)
(* pokenest or with one trainer, until a trainer starts again, which        *)
(* deletes its own.  It is in both only while the map has not deleted what  *)
(* was copied, and for ever once for each signal at most.  The copies of    *)
(* t_pcb that the detection makes are out of this: they release twice.      *)
SinReinicios == \A t \in Entrenadores : ent[t].intentos = 0
Conservado(p) ==
    LET son == nido[p] + ConEntrenadores(p) - Copiado(p) IN
    /\ SinReinicios => son >= Stock[p]
    /\ son <= Stock[p] + seniales
StockConservado == SinCopias => \A p \in Pokenests : Conservado(p)

(* While no trainer started again (its pokemon files are deleted then), the *)
(* map never offers a pokemon whose file is not in the pokenest, and until  *)
(* somebody is interrupted it offers every one of them.                     *)
StockRespaldado ==
    ~modo.batalla /\ SinReinicios =>
      \A p \in Pokenests :
        /\ cant[p] >= 0 /\ cant[p] + EnEntrega(p) <= nido[p]
        /\ seniales = 0 => cant[p] + EnEntrega(p) = nido[p]

(* A trainer finds in its connection only answers to what it asked for, as  *)
(* long as no descriptor of a blocked one is used again.  What the threads  *)
(* of the map find in theirs is another matter: two of them may read the    *)
(* same connection in SRDF, and that ends in "fuera de fase".               *)
EnFase ==
    SinReuso => \A t \in Entrenadores :
      sock[t] # 0 /\ aEntrenador[sock[t]] # <<>>
        => Head(aEntrenador[sock[t]]).tipo \in Esperados[ent[t].espera]

(* Without battles no trainer is twice in the list of the ready ones.       *)
(* Round robin has none twice among the blocked ones either, and none both  *)
(* ready and blocked once the turn is over.  SRDF, which goes on listening  *)
(* to who it blocked, has one twice, until a signal is sent, only while it  *)
(* is released: it was told so, asked again and was refused before its      *)
(* first place was removed.                                                 *)
UnSoloLugar ==
    ~modo.batalla =>
      /\ IsInjective(listos)
      /\ modo.alg = "RR" => IsInjective(bloqueados)
      /\ modo.alg = "RR" /\ pl.pc \in {"elegir", "recibir"}
            => ToSet(listos) \intersect ToSet(bloqueados) = {}
      /\ SinReuso => \A i, j \in DOMAIN bloqueados :
           bloqueados[i] = bloqueados[j] /\ i # j => dd.pc = "liberando" /\ dd.i \in {i, j}

(* What a blocked trainer is recorded to hold, and would give back if it    *)
(* lost a battle, it has: nobody loses pokemons and then battles with them, *)
(* whichever copy of its t_pcb the battle is fought with.                   *)
BloqueadosRespaldados ==
    \A i \in DOMAIN bloqueados :
      LET q == pcb[bloqueados[i]] IN
      /\ q.fd = sock[q.quien] /\ dd.pc \notin {"sumar", "morir"}
      /\ ~(dd.pc = "liberando" /\ dd.i = i)
      => \A p \in Pokenests : rec[q.lista][p] <= bill[q.quien][p]

(* "si el tamanio antes de agregar era 0 habilito el planificador", says    *)
(* agregarEntrenadorAListos of a sem_post that is commented out: a trainer  *)
(* that connects when nobody is ready gets the planner to run.              *)
HabilitaAlPlanificador ==
    cola # <<>> /\ listos = <<>> ~> pl.pc # "elegir" \/ caida # "no"

(* "hasta que la cantidad de marcados sea menor a 2, lo cual termina el     *)
(* algoritmo de deadlock": in round robin the battles between the marked    *)
(* trainers come to their end, whoever loses each, unless the map dies of a *)
(* NULL, asking who has gone for its pokemon.  No answer is taken by        *)
(* another thread: SRDF, which goes on listening to who is blocked, is left *)
(* out, for there the planner may read what the detection waits for, which  *)
(* then waits for ever in recv.                                             *)
BatallaTermina ==
    dd.pc = "retar" /\ modo.alg = "RR" ~> dd.pc = "contar" \/ caida = "nulo"
=============================================================================
