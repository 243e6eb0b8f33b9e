------------------------- MODULE DeteccionDeadlock -------------------------
(***************************************************************************)
(* The thread of the map that looks for deadlocks: it marks the blocked    *)
(* trainers, has the marked ones battle until fewer than two are left, and *)
(* then wakes those whose pokemon is there again.                          *)
(*                                                                         *)
(* "dd" is where the thread is; "marcados" holds the t_pcb of which        *)
(* entrenadoresMarcados has copies (descriptor and pokemons do not change).*)
(***************************************************************************)
EXTENDS Mapa

VARIABLES
    dd              \* the detection thread

deteccion == <<dd>>

PasosDD == {"mirar", "retar", "primero", "segundo", "pelear", "sumar",
            "morir", "contar", "liberar", "liberando"}

DDs == [pc : PasosDD, marcados : Seq(1..Len(pcb)), pierde : 1..2,
        leido : [Pokenests -> Int], i : Nat, tope : Nat]

DeteccionTypeOK == dd \in DDs

SinLeer == [p \in Pokenests |-> 0]

DeteccionInit ==
    dd = [pc |-> "mirar", marcados |-> <<>>, pierde |-> 1,
          leido |-> SinLeer, i |-> 1, tope |-> 0]

-----------------------------------------------------------------------------
(* tieneRecursoMayorADisponible: it holds a pokemon of which there is none. *)
TieneUnoQueFalta(q) ==
    \E p \in Pokenests : rec[pcb[q].lista][p] > 0 /\ cant[p] < 1

(* marcarEntrenadores: who holds nothing gets an uninitialized answer.      *)
Marcas ==
    {f \in [DOMAIN bloqueados -> BOOLEAN] :
        \A i \in DOMAIN bloqueados :
           LET q == bloqueados[i] IN
           (\E p \in Pokenests : rec[pcb[q].lista][p] > 0)
              => f[i] = TieneUnoQueFalta(q)}

Los(f, valor) ==
    LET son == {i \in DOMAIN f : f[i] = valor}
    IN  [k \in 1..Cardinality(son) |->
           bloqueados[CHOOSE i \in son :
                        Cardinality({j \in son : j <= i}) = k]]

(* Without battles there is only who to wake; the same happens with one     *)
(* blocked, as copiarEntrenadores copies nobody then.                       *)
NoMirar ==
    /\ dd.pc = "mirar" /\ llaveB = NADIE
    /\ Len(bloqueados) < 2 \/ ~modo.batalla
    /\ dd' = [dd EXCEPT !.pc = "contar"]
    /\ UNCHANGED <<mundo, mapa>>

(* The copies of those not marked go to listaListos; the t_pcb they were    *)
(* copied from stay in listaBloqueados.  In the code the list is copied,    *)
(* then the counts, and each t_pcb is added under the mutex taken anew:     *)
(* here the marking sees one instant and what is added is added at once.    *)
Detectar ==
    /\ dd.pc = "mirar" /\ llaveB = NADIE /\ llave = NADIE
    /\ Len(bloqueados) > 1 /\ modo.batalla
    /\ \E f \in Marcas :
         LET libres == Los(f, FALSE)
             n == Len(pcb)
         IN
         /\ n + Len(libres) <= MaxPcb
         /\ pcb' = pcb \o [k \in DOMAIN libres |-> pcb[libres[k]]]
         /\ listos' = listos \o [k \in DOMAIN libres |-> n + k]
         /\ dd' = [dd EXCEPT !.pc = "retar", !.marcados = Los(f, TRUE)]
    /\ UNCHANGED <<mundo, modo, rec, bloqueados, cant, mutexes, pantalla, pl,
                   aceptando, caida>>

-----------------------------------------------------------------------------
(* batalla                                                                  *)

FdDe(k) == pcb[dd.marcados[k]].fd

Retar ==
    /\ dd.pc = "retar" /\ Len(dd.marcados) > 1
    /\ aEntrenador' = Enviado(Enviado(aEntrenador, FdDe(1),
                                      Msg("ESTAS_EN_DEADLOCK", 0)),
                              FdDe(2), Msg("ESTAS_EN_DEADLOCK", 0))
    /\ \/ Envia(FdDe(1)) \/ Envia(FdDe(2))
    /\ dd' = [dd EXCEPT !.pc = "primero"]
    /\ UNCHANGED <<aMapa, extremo, sock, cola, archivos, modo, listas, cant,
                   mutexes, pantalla, pl, aceptando>>

FinDeBatallas ==
    /\ dd.pc = "retar" /\ Len(dd.marcados) < 2
    /\ dd' = [dd EXCEPT !.pc = "contar"]
    /\ UNCHANGED <<mundo, mapa>>

(* obtenerPokemonMasFuerteEntrenador.  Without an answer the name is not    *)
(* that of a pokemon, and the battle dereferences NULL.  Bytes of something *)
(* else are not followed further.                                           *)
Elige(k, aqui, luego) ==
    /\ dd.pc = aqui
    /\ \/ /\ Hay(FdDe(k))
          /\ aMapa' = [aMapa EXCEPT ![FdDe(k)] = Tail(@)]
          /\ caida' = IF Head(aMapa[FdDe(k)]).tipo = "POKEMON"
                      THEN caida ELSE "fuera de fase"
       \/ /\ Cortado(FdDe(k))
          /\ caida' = "nulo" /\ aMapa' = aMapa
    /\ dd' = [dd EXCEPT !.pc = luego]
    /\ UNCHANGED <<aEntrenador, extremo, sock, cola, archivos, modo, listas,
                   cant, mutexes, pantalla, pl, aceptando>>

EligePrimero == Elige(1, "primero", "segundo")
EligeSegundo == Elige(2, "segundo", "pelear")

(* Whoever loses, it is the other one that leaves the list.                 *)
TodosSiguen(pierde) == dd.marcados

SinElGanador(pierde) == RemoveAt(dd.marcados, 3 - pierde)

(* With more than two marked the loser is only told to fight again.         *)
Pelear ==
    /\ dd.pc = "pelear" /\ Len(dd.marcados) > 2
    /\ \E pierde \in 1..2 :
         /\ aEntrenador' =
              Enviado(Enviado(aEntrenador, FdDe(pierde),
                              Msg("ESTAS_EN_DEADLOCK", 0)),
                      FdDe(3 - pierde), Msg("GANASTE", 0))
         /\ dd' = [dd EXCEPT !.pc = "retar", !.marcados = SinElGanador(pierde)]
    /\ \/ Envia(FdDe(1)) \/ Envia(FdDe(2))
    /\ UNCHANGED <<aMapa, extremo, sock, cola, archivos, modo, listas, cant,
                   mutexes, pantalla, pl, aceptando>>

(* With two, the loser's pokemons are given back.  The code moves a file    *)
(* and counts it, one pokemon after the other; here all the files move, and *)
(* all the counts are read ...                                              *)
PelearUltima ==
    /\ dd.pc = "pelear" /\ Len(dd.marcados) = 2
    /\ \E pierde \in 1..2 :
         LET q == dd.marcados[pierde] IN
         /\ Reintegrar(pcb[q].lista, pcb[q].quien)
         /\ dd' = [dd EXCEPT !.pc = "sumar", !.pierde = pierde, !.leido = cant]
    /\ UNCHANGED <<conexiones, mapa>>

(* ... and written, with the planner's cant-- possibly in between.          *)
Suma(p, n) ==
    IF n = 0 THEN {cant[p]}
    ELSE IF cant[p] = dd.leido[p] THEN {cant[p] + n}
    ELSE {cant[p], cant[p] + n, dd.leido[p] + n}

SumarRecursos ==
    LET l == pcb[dd.marcados[dd.pierde]].lista IN
    /\ dd.pc = "sumar"
    /\ cant' \in {c \in [Pokenests -> UNION {Suma(p, rec[l][p]) : p \in Pokenests}] :
                    \A p \in Pokenests : c[p] \in Suma(p, rec[l][p])}
    /\ dd' = [dd EXCEPT !.pc = "morir", !.leido = SinLeer]
    /\ UNCHANGED <<mundo, modo, listas, mutexes, pantalla, pl, aceptando,
                   caida>>

(* eliminarSocketListaBloqueados, and both are told.                        *)
Siguen(s) == bloqueados

SinElDe(s) ==
    LET i == Lugar(bloqueados, s)
    IN  IF i = 0 THEN bloqueados ELSE RemoveAt(bloqueados, i)

Morir ==
    LET s == FdDe(dd.pierde) IN
    /\ dd.pc = "morir" /\ llaveB = NADIE
    /\ bloqueados' = SinElDe(s)
    /\ aEntrenador' = Enviado(Enviado(aEntrenador, s, Msg("MORITE", 0)),
                              FdDe(3 - dd.pierde), Msg("GANASTE", 0))
    /\ \/ Envia(s) \/ Envia(FdDe(3 - dd.pierde))
    /\ dd' = [dd EXCEPT !.pc = "retar", !.marcados = SinElGanador(dd.pierde)]
    /\ UNCHANGED <<aMapa, extremo, sock, cola, archivos, modo, pcb, rec,
                   listos, cant, mutexes, pantalla, pl, aceptando>>

-----------------------------------------------------------------------------
(* liberarBloqueados: the size is read once, and no mutex is held.          *)
Contar ==
    /\ dd.pc = "contar"
    /\ dd' = [dd EXCEPT !.pc = "liberar", !.i = 1, !.tope = Len(bloqueados)]
    /\ UNCHANGED <<mundo, mapa>>

Este == bloqueados[dd.i]

(* list_get past the end returns NULL, which is dereferenced.               *)
PasarseDelFin ==
    /\ dd.pc = "liberar" /\ dd.i <= dd.tope /\ dd.i > Len(bloqueados)
    /\ caida' = "nulo"
    /\ UNCHANGED <<mundo, modo, listas, cant, mutexes, pantalla, pl,
                   aceptando, dd>>

SigueBloqueado ==
    /\ dd.pc = "liberar" /\ dd.i <= dd.tope /\ dd.i <= Len(bloqueados)
    /\ cant[pcb[Este].pide] < 1
    /\ dd' = [dd EXCEPT !.i = @ + 1]
    /\ UNCHANGED <<mundo, mapa>>

Liberar ==
    /\ dd.pc = "liberar" /\ dd.i <= dd.tope /\ dd.i <= Len(bloqueados)
    /\ cant[pcb[Este].pide] >= 1
    /\ aEntrenador' = Enviado(aEntrenador, pcb[Este].fd,
                              Msg("ESTAS_DESBLOQUEADO", 0))
    /\ Envia(pcb[Este].fd)
    /\ pcb' = [pcb EXCEPT ![Este].accion = "SE_DESBLOQUEO"]
    /\ semGui' = semGui + 1
    /\ dd' = [dd EXCEPT !.pc = "liberando"]
    /\ UNCHANGED <<aMapa, extremo, sock, cola, archivos, modo, rec, listos,
                   bloqueados, cant, mutexes, semYa, pl, aceptando>>

(* list_remove(i), and i is increased: the next one is not looked at.       *)
ConEste == bloqueados

SinEste == RemoveAt(bloqueados, dd.i)

Liberado ==
    /\ dd.pc = "liberando" /\ semYa > 0
    /\ semYa' = semYa - 1
    /\ bloqueados' = SinEste
    /\ dd' = [dd EXCEPT !.pc = "liberar", !.i = @ + 1]
    /\ UNCHANGED <<mundo, modo, pcb, rec, listos, cant, mutexes, semGui, pl,
                   aceptando, caida>>

FinDePasada ==
    /\ dd.pc = "liberar" /\ dd.i > dd.tope
    /\ dd' = [dd EXCEPT !.pc = "mirar", !.i = 1, !.tope = 0]
    /\ UNCHANGED <<mundo, mapa>>

DeteccionPaso ==
    /\ caida = "no"
    /\ \/ NoMirar \/ Detectar
       \/ Retar \/ FinDeBatallas \/ EligePrimero \/ EligeSegundo
       \/ Pelear \/ PelearUltima \/ SumarRecursos \/ Morir
       \/ Contar \/ PasarseDelFin \/ SigueBloqueado \/ Liberar \/ Liberado
       \/ FinDePasada
=============================================================================
