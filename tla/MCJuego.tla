------------------------------ MODULE MCJuego ------------------------------
(* Instances of Juego for TLC: small maps and few trainers.                *)
EXTENDS JuegoInv

CONSTANTS t1, t2, t3, t4

(* Two pokenests one step away from the start, one pokemon in each.         *)
Lugares == [p \in {"a", "b"} |-> IF p = "a" THEN <<1, 0>> ELSE <<0, 1>>]
UnoDeCada == [p \in {"a", "b"} |-> 1]

(* Who has left the map, or has not arrived.                                *)
Fuera(t, estado) ==
    [estado |-> estado, pos |-> <<0, 0>>, obj |-> 1, ultima |-> "SIN_DIRECCION",
     meta |-> <<0, 0>>, espera |-> "nada", vidas |-> Vidas[t], intentos |-> 0]

(* Two trainers with one pokemon to compete for, and two that have left.    *)
ObjetivosDeCuatro ==
    [t \in {t1, t2, t3, t4} |-> CASE t = t1 -> <<"a", "b">> [] t = t3 -> <<"b", "a">>
                                  [] OTHER -> <<"b">>]
VidasDeCuatro == [t \in {t1, t2, t3, t4} |-> IF t = t2 THEN 0 ELSE 1]
SinBatalla == [alg : {"RR", "SRDF"}, batalla : {FALSE}]

InitDeDos ==
    /\ MundoInit /\ MapaInit /\ DeteccionInit
    /\ ent = [t \in Entrenadores |->
                 Fuera(t, IF t \in {t1, t2} THEN "SIN_MAPA" ELSE "MAPA_COMPLETADO")]
    /\ seniales = 0

(* Two that want one pokemon each, of which there is one for each.          *)
VidasDeDos == [t \in {t1, t2} |-> IF t = t1 THEN 0 ELSE 1]
UnObjetivo == [t \in {t1, t2} |-> <<"a">>]
UnLugar == [p \in {"a"} |-> Lugares[p]]
DosDeUna == [p \in {"a"} |-> 2]
SoloRR == [alg : {"RR"}, batalla : {FALSE}]

(* And a third one that wants what the second one does; there is one more.  *)
ObjetivosDeTres ==
    [t \in {t1, t2, t3} |-> IF t = t1 THEN <<"a", "b">> ELSE <<"b", "a">>]
UnoYDos == [p \in {"a", "b"} |-> IF p = "a" THEN 1 ELSE 2]
UnaVida == [t \in {t1, t2, t3} |-> IF t = t1 THEN 0 ELSE 1]
ConBatalla == [alg : {"RR", "SRDF"}, batalla : {TRUE}]

(* The game once t1 has "a", t2 has "b" and t3 either has the other "b" or  *)
(* has nothing, there being one "b" less, and each was refused what it      *)
(* wanted next: all three are blocked and the detection sleeps.  Round      *)
(* robin has taken them out of listaListos; SRDF never does, and only its   *)
(* second case is run.                                                      *)
Preso(fd, t, quiere) ==
    [fd |-> fd, quien |-> t, punto |-> Lugares[quiere], pide |-> quiere,
     lista |-> fd, accion |-> "NADA", desc |-> modo.alg = "RR"]
Espera(t, obj, quiere, ultima) ==
    [estado |-> "BLOQUEADO", pos |-> Lugares[quiere], obj |-> obj,
     ultima |-> ultima, meta |-> Lugares[quiere], espera |-> "nada",
     vidas |-> Vidas[t], intentos |-> 0]
Uno(p) == [q \in {"a", "b"} |-> IF q = p THEN 1 ELSE 0]
Ninguno == [q \in {"a", "b"} |-> 0]

InitBloqueados ==
    \E vacio \in BOOLEAN :
      LET tiene == (t1 :> Uno("a")) @@ (t2 :> Uno("b"))
                   @@ (t3 :> IF vacio THEN Ninguno ELSE Uno("b"))
          pide3 == IF vacio THEN "b" ELSE "a"
      IN
      /\ modo \in Modos /\ (modo.alg = "SRDF" => vacio)
      /\ aMapa = [s \in Fds |-> <<>>] /\ aEntrenador = [s \in Fds |-> <<>>]
      /\ extremo = [s \in Fds |-> IF s <= 3 THEN "abierto" ELSE "libre"]
      /\ sock = (t1 :> 1) @@ (t2 :> 2) @@ (t3 :> 3)
      /\ cola = <<>> /\ nido = Ninguno /\ cant = Ninguno
      /\ bill = tiene
      /\ pcb = <<Preso(1, t1, "b"), Preso(2, t2, "a"), Preso(3, t3, pide3)>>
      /\ rec = [l \in 1..MaxPcb |-> IF l > 3 THEN Ninguno
                                     ELSE tiene[<<t1, t2, t3>>[l]]]
      /\ listos = IF modo.alg = "RR" THEN <<>> ELSE <<1, 2, 3>>
      /\ bloqueados = <<1, 2, 3>>
      /\ llave = NADIE /\ llaveB = NADIE /\ semGui = 0 /\ semYa = 0
      /\ pl = [pc |-> "elegir", corre |-> 3, queda |-> 1, vez |-> 1,
               sitio |-> 1, cierra |-> FALSE]
      /\ aceptando = FALSE /\ caida = "no"
      /\ DeteccionInit
      /\ ent = (t1 :> Espera(t1, 2, "b", "ARRIBA"))
               @@ (t2 :> Espera(t2, 2, "a", "DERECHA"))
               @@ (t3 :> Espera(t3, IF vacio THEN 1 ELSE 2, pide3,
                                IF vacio THEN "ARRIBA" ELSE "DERECHA"))
      /\ seniales = 0

Bloqueados == InitBloqueados /\ [][Next]_vars /\ Justicia

(* SRDF, when the planner waits for one trainer and another one is blocked: *)
(* either t3 has "b" and is at "a", the planner waits for t2, blocked, and  *)
(* t1 is about to connect; or t1 has "a", t4 has left its "b", which t3 and *)
(* the blocked t2 want, and the planner waits for t3.                       *)
Listo(t, obj, quiere) == [Espera(t, obj, quiere, "ARRIBA") EXCEPT !.estado = "EN_POKENEST"]

InitReuso ==
    \E llega \in BOOLEAN :
      LET p == IF llega THEN "a" ELSE "b"
          q == IF llega THEN t3 ELSE t1
      IN
      /\ modo \in Modos /\ modo.alg = "SRDF"
      /\ aMapa = [s \in Fds |-> <<>>] /\ aEntrenador = [s \in Fds |-> <<>>]
      /\ extremo = [s \in Fds |-> CASE s = 1 -> "cortado"
                                    [] llega /\ s = 4 -> "libre" [] OTHER -> "abierto"]
      /\ sock = (t1 :> IF llega THEN 0 ELSE 4) @@ (t2 :> 2) @@ (t3 :> 3) @@ (t4 :> 0)
      /\ cola = <<>> /\ nido = Uno(p) /\ cant = Uno(p)
      /\ bill = [t \in Entrenadores |->
                   IF t # q THEN Ninguno ELSE Uno(IF llega THEN "b" ELSE "a")]
      /\ pcb = <<Preso(1, t4, "b"), Preso(2, t2, "b"), Preso(3, t3, p)>>
               \o (IF llega THEN <<>> ELSE <<Preso(4, t1, "b")>>)
      /\ rec = [l \in 1..MaxPcb |-> CASE llega /\ l = 3 -> Uno("b")
                                      [] ~llega /\ l = 4 -> Uno("a") [] OTHER -> Ninguno]
      /\ listos = IF llega THEN <<3, 2>> ELSE <<4, 3, 2>>
      /\ bloqueados = <<2>>
      /\ llave = NADIE /\ llaveB = NADIE /\ semGui = 0 /\ semYa = 0
      /\ pl = [pc |-> "recibir", corre |-> IF llega THEN 2 ELSE 3, queda |-> 1,
               vez |-> 1, sitio |-> 1, cierra |-> FALSE]
      /\ aceptando = FALSE /\ caida = "no"
      /\ DeteccionInit
      /\ ent = (t1 :> IF llega THEN Fuera(t1, "SIN_MAPA") ELSE Listo(t1, 2, "b"))
               @@ (t2 :> Espera(t2, 1, "b", "ARRIBA"))
               @@ (t3 :> Listo(t3, IF llega THEN 2 ELSE 1, p))
               @@ (t4 :> Fuera(t4, "MAPA_COMPLETADO"))
      /\ seniales = 0

Partidas == (InitDeDos \/ InitReuso) /\ [][Next]_vars
=============================================================================
