----------------------------- MODULE Entrenador -----------------------------
(***************************************************************************)
(* A trainer: completarMapa as a state machine, one request to the map at  *)
(* a time, its lives and its signals.                                      *)
(*                                                                         *)
(* A request and the recv of its answer are two actions: "espera" says     *)
(* which answer the trainer is waiting for.                                *)
(***************************************************************************)
EXTENDS Mundo

CONSTANTS
    Vidas,          \* lives of each trainer at the start
    Sensibles,      \* trainers that are sent signals
    MaxSeniales     \* signals sent to them, in all

ASSUME EntrenadorAssumption ==
    /\ Vidas \in [Entrenadores -> Nat] /\ MaxSeniales \in Nat

VARIABLES
    ent,            \* state of completarMapa, of every trainer
    seniales        \* signals sent so far

entrenadores == <<ent, seniales>>

Estados == {"SIN_MAPA", "SIN_POKENEST", "EN_CAMINO", "EN_POKENEST",
            "BLOQUEADO", "EN_DEADLOCK", "CON_TODOS", "MAPA_COMPLETADO",
            "COLGADO", "PERDIDO", "SALIO"}
Respuestas == {"nada", "coordenada", "ok", "captura", "copia", "medalla", "veredicto"}

Ents == [estado : Estados, pos : Int \X Int, obj : Nat \ {0}, ultima : Direcciones,
         meta : Nat \X Nat, espera : Respuestas, vidas : Nat, intentos : Nat]

EntrenadorTypeOK ==
    /\ ent \in [Entrenadores -> Ents]
    /\ seniales \in 0..MaxSeniales

(* The next direction: it alternates the axes while both are off.          *)
ObtenerDireccion(meta, pos, ultima) ==
    LET x == meta[1] - pos[1]
        y == meta[2] - pos[2]
    IN  IF x > 0 /\ ultima # "DERECHA" THEN "DERECHA"
        ELSE IF x < 0 /\ ultima # "IZQUIERDA" THEN "IZQUIERDA"
        ELSE IF y = 0 /\ x > 0 THEN "DERECHA"
        ELSE IF y = 0 /\ x < 0 THEN "IZQUIERDA"
        ELSE IF y > 0 /\ (ultima # "ARRIBA" \/ x = 0) THEN "ARRIBA"
        ELSE IF y < 0 /\ (ultima # "ABAJO" \/ x = 0) THEN "ABAJO"
        ELSE IF x = 0 /\ y = 0 THEN "SOBRE_POKENEST" ELSE "SIN_DIRECCION"

Objetivo(t) == Objetivos[t][ent[t].obj]

EntrenadorInit ==
    /\ ent = [t \in Entrenadores |->
           [estado |-> "SIN_MAPA", pos |-> <<0, 0>>, obj |-> 1,
            ultima |-> "SIN_DIRECCION", meta |-> <<0, 0>>, espera |-> "nada",
            vidas |-> Vidas[t], intentos |-> 0]]
    /\ seniales = 0

(* What handShake resets.                                                   *)
SinVolverAlInicio(e) == [e EXCEPT !.estado = "SIN_POKENEST", !.obj = 1,
                                  !.espera = "nada"]

DeNuevo(e) == [e EXCEPT !.estado = "SIN_POKENEST", !.pos = <<0, 0>>,
                        !.obj = 1, !.espera = "nada"]

HandShake(t) ==
    /\ ent[t].estado = "SIN_MAPA"
    /\ Conectar(t)
    /\ extremo' = [extremo EXCEPT ![sock'[t]] = "abierto"]
    /\ ent' = [ent EXCEPT ![t] = DeNuevo(@)]
    /\ UNCHANGED <<aMapa, aEntrenador, archivos, seniales>>

Pide(t, estado, m, respuesta) ==
    /\ ent[t].estado = estado /\ ent[t].espera = "nada"
    /\ aMapa' = [aMapa EXCEPT ![sock[t]] = Append(@, m)]
    /\ ent' = [ent EXCEPT ![t].espera = respuesta]
    /\ UNCHANGED <<aEntrenador, extremo, sock, cola, archivos, seniales>>

Conocer(t) ==
    Pide(t, "SIN_POKENEST", Msg("CONOCER_POKENEST", Objetivo(t)), "coordenada")
Capturar(t) ==
    Pide(t, "EN_POKENEST", Msg("CAPTURAR", Objetivo(t)), "captura")
NotificarFin(t) ==
    Pide(t, "CON_TODOS", Msg("TERMINE_OBJETIVOS", 0), "medalla")

Mover(t) ==
    LET dir == ObtenerDireccion(ent[t].meta, ent[t].pos, ent[t].ultima) IN
    /\ ent[t].estado = "EN_CAMINO" /\ ent[t].espera = "nada"
    /\ aMapa' = [aMapa EXCEPT ![sock[t]] = Append(@, Msg("MOVER_POSICION", dir))]
    /\ ent' = [ent EXCEPT ![t].espera = "ok", ![t].ultima = dir]
    /\ UNCHANGED <<aEntrenador, extremo, sock, cola, archivos, seniales>>

TienePokemons(t) == \E p \in Pokenests : bill[t][p] > 0

(* darPokemonMasFuerte, sent on every entry to EN_DEADLOCK.                 *)
DarPokemon(t) ==
    /\ ent[t].estado = "EN_DEADLOCK" /\ ent[t].espera = "nada"
    /\ TienePokemons(t)
    /\ aMapa' = [aMapa EXCEPT ![sock[t]] = Append(@, Msg("POKEMON", 0))]
    /\ ent' = [ent EXCEPT ![t].espera = "veredicto"]
    /\ UNCHANGED <<aEntrenador, extremo, sock, cola, archivos, seniales>>

(* With no file, the name's length less that of "XXX.dat" is negative: the  *)
(* process dies in string_substring_until.                                  *)
MorirSinPokemons(t) ==
    /\ ent[t].estado = "EN_DEADLOCK" /\ ent[t].espera = "nada"
    /\ ~TienePokemons(t)
    /\ Cerrar(sock[t])
    /\ sock' = [sock EXCEPT ![t] = 0]
    /\ ent' = [ent EXCEPT ![t].estado = "SALIO"]
    /\ UNCHANGED <<aMapa, cola, archivos, seniales>>

Recibe(t, respuesta) ==
    /\ sock[t] # 0 /\ ent[t].espera = respuesta
    /\ aEntrenador[sock[t]] # <<>>
    /\ aEntrenador' = [aEntrenador EXCEPT ![sock[t]] = Tail(@)]

Leido(t) == Head(aEntrenador[sock[t]])

(* What may come while it waits for each answer.                            *)
Esperados ==
    [nada |-> {"ESTAS_EN_DEADLOCK", "ESTAS_DESBLOQUEADO"},
     coordenada |-> {"COORDENADA"}, ok |-> {"OK"},
     captura |-> {"TE_DOY", "ESTAS_BLOQUEADO"}, copia |-> {}, medalla |-> {"MEDALLA"},
     veredicto |-> {"MORITE", "GANASTE", "ESTAS_EN_DEADLOCK"}]

(* It takes for its answer what was sent to who had the descriptor before:  *)
(* those bytes become a place to walk to or a length, and what it does with *)
(* them is not followed.  Only the answer to a move is not looked at.       *)
LeerLoDeOtro(t) ==
    /\ ent[t].espera \in {"coordenada", "captura", "medalla", "veredicto"}
    /\ Recibe(t, ent[t].espera)
    /\ Leido(t).tipo \notin Esperados[ent[t].espera]
    /\ ent' = [ent EXCEPT ![t].estado = "PERDIDO", ![t].espera = "nada"]
    /\ UNCHANGED <<aMapa, extremo, sock, cola, archivos, seniales>>

RecibirCoordenada(t) ==
    /\ Recibe(t, "coordenada") /\ Leido(t).tipo = "COORDENADA"
    /\ ent' = [ent EXCEPT ![t].meta = Leido(t).dato,
                          ![t].estado = "EN_CAMINO", ![t].espera = "nada"]
    /\ UNCHANGED <<aMapa, extremo, sock, cola, archivos, seniales>>

(* posicionarNuevaCoordenada and the test for arrival.                      *)
LlegoEnUnEje(pos, meta) == pos[1] = meta[1] \/ pos[2] = meta[2]

Llego(pos, meta) == pos = meta

Movido(t) ==
    LET pos == Paso(ent[t].pos, ent[t].ultima) IN
    /\ Recibe(t, "ok")
    /\ ent' = [ent EXCEPT ![t].pos = pos, ![t].espera = "nada",
                 ![t].estado = IF Llego(pos, ent[t].meta) THEN "EN_POKENEST" ELSE @]
    /\ UNCHANGED <<aMapa, extremo, sock, cola, archivos, seniales>>

(* The pokemon's file is copied before the map is told to delete it.        *)
Capturado(t) ==
    /\ Recibe(t, "captura")
    /\ Leido(t).tipo = "TE_DOY"
    /\ bill' = [bill EXCEPT ![t][Objetivo(t)] = @ + 1]
    /\ ent' = [ent EXCEPT ![t].espera = "copia"]
    /\ UNCHANGED <<aMapa, extremo, sock, cola, nido, seniales>>

Acusar(t) ==
    LET todos == ent[t].obj = Len(Objetivos[t]) IN
    /\ ent[t].espera = "copia"
    /\ aMapa' = [aMapa EXCEPT ![sock[t]] = Append(@, Msg("ACK", 0))]
    /\ ent' = [ent EXCEPT ![t].espera = "nada", ![t].obj = @ + 1,
                 ![t].estado = IF todos THEN "CON_TODOS" ELSE "SIN_POKENEST"]
    /\ UNCHANGED <<aEntrenador, extremo, sock, cola, archivos, seniales>>

QuedarBloqueado(t) ==
    /\ Recibe(t, "captura")
    /\ Leido(t).tipo = "ESTAS_BLOQUEADO"
    /\ ent' = [ent EXCEPT ![t].espera = "nada", ![t].estado = "BLOQUEADO"]
    /\ UNCHANGED <<aMapa, extremo, sock, cola, archivos, seniales>>

(* recv of a blocked trainer.                                               *)
Despertar(t) ==
    /\ ent[t].estado = "BLOQUEADO"
    /\ Recibe(t, "nada")
    /\ ent' = [ent EXCEPT ![t].estado =
                 CASE Leido(t).tipo = "ESTAS_EN_DEADLOCK" -> "EN_DEADLOCK"
                   [] Leido(t).tipo = "ESTAS_DESBLOQUEADO" -> "EN_POKENEST"
                   [] OTHER -> "BLOQUEADO"]
    /\ UNCHANGED <<aMapa, extremo, sock, cola, archivos, seniales>>

SeguirBloqueado(t) ==
    /\ Recibe(t, "veredicto")
    /\ Leido(t).tipo \in {"GANASTE", "ESTAS_EN_DEADLOCK"}
    /\ ent' = [ent EXCEPT ![t].espera = "nada", ![t].estado = "BLOQUEADO"]
    /\ UNCHANGED <<aMapa, extremo, sock, cola, archivos, seniales>>

(* fallecerPorDeadlock with a life left: close, and a new handshake.  The   *)
(* socket that handShake returns is dropped (676) and the trainer goes on   *)
(* with the number it closed: it works because the kernel gives that number *)
(* again, the lowest one free, and the model takes it to do so.             *)
FallecerPorDeadlock(t) ==
    /\ sock[t] # 0 /\ ent[t].espera = "veredicto" /\ ent[t].vidas > 0
    /\ aEntrenador[sock[t]] # <<>> /\ Leido(t).tipo = "MORITE"
    /\ Conectar(t)
    /\ aEntrenador' = [aEntrenador EXCEPT ![sock[t]] = <<>>]
    /\ extremo' = [extremo EXCEPT ![sock[t]] = "cortado", ![sock'[t]] = "abierto"]
    /\ ent' = [ent EXCEPT ![t] = [DeNuevo(ent[t]) EXCEPT !.vidas = ent[t].vidas - 1]]
    /\ UNCHANGED <<aMapa, archivos, seniales>>

(* The same without lives: reiniciarJuego asks.  With "s" the pokemon files *)
(* are deleted and the adventure starts again; with "n" the call returns    *)
(* and the loop goes on with a closed socket.                               *)
Reiniciar(t) ==
    /\ Conectar(t)
    /\ bill' = [bill EXCEPT ![t] = [p \in Pokenests |-> 0]]
    /\ ent' = [ent EXCEPT ![t] = [DeNuevo(ent[t]) EXCEPT
                 !.ultima = "SIN_DIRECCION", !.intentos = ent[t].intentos + 1]]

UltimaMuerte(t) ==
    /\ sock[t] # 0 /\ ent[t].espera = "veredicto" /\ ent[t].vidas = 0
    /\ aEntrenador[sock[t]] # <<>> /\ Leido(t).tipo = "MORITE"
    /\ aEntrenador' = [aEntrenador EXCEPT ![sock[t]] = <<>>]
    /\ \/ /\ Reiniciar(t)
          /\ extremo' = [extremo EXCEPT ![sock[t]] = "cortado",
                                        ![sock'[t]] = "abierto"]
       \/ /\ extremo' = [extremo EXCEPT ![sock[t]] = "cortado"]
          /\ sock' = [sock EXCEPT ![t] = 0]
          /\ ent' = [ent EXCEPT ![t].estado = "COLGADO"]
          /\ UNCHANGED <<cola, bill>>
    /\ UNCHANGED <<aMapa, nido, seniales>>

(* The medal ends the map: MAPA_COMPLETADO closes the connection.           *)
Completar(t) ==
    /\ sock[t] # 0 /\ ent[t].espera = "medalla"
    /\ aEntrenador[sock[t]] # <<>> /\ Leido(t).tipo = "MEDALLA"
    /\ Cerrar(sock[t])
    /\ sock' = [sock EXCEPT ![t] = 0]
    /\ ent' = [ent EXCEPT ![t].estado = "MAPA_COMPLETADO",
                          ![t].espera = "nada"]
    /\ UNCHANGED <<aMapa, cola, archivos, seniales>>

(* sig_handler interrupts the main loop anywhere.                           *)
Senial(t) ==
    /\ t \in Sensibles /\ seniales < MaxSeniales /\ seniales' = seniales + 1
    /\ ent[t].estado \notin {"SIN_MAPA", "MAPA_COMPLETADO", "COLGADO", "SALIO"}

SIGUSR1(t) ==
    /\ Senial(t)
    /\ ent' = [ent EXCEPT ![t].vidas = @ + 1]
    /\ UNCHANGED mundo

SIGTERM(t) ==
    /\ Senial(t) /\ ent[t].vidas > 0
    /\ ent' = [ent EXCEPT ![t].vidas = @ - 1]
    /\ UNCHANGED mundo

SIGINT(t) ==
    /\ Senial(t)
    /\ Cerrar(sock[t])
    /\ sock' = [sock EXCEPT ![t] = 0]
    /\ ent' = [ent EXCEPT ![t].estado = "SALIO", ![t].espera = "nada"]
    /\ UNCHANGED <<aMapa, cola, archivos>>

(* Without lives SIGTERM restarts the game in the handler: the connection   *)
(* in use is neither closed nor used again.                                 *)
ReiniciarEnLaSenial(t) ==
    /\ Senial(t) /\ ent[t].vidas = 0
    /\ Reiniciar(t)
    /\ extremo' = [extremo EXCEPT ![sock'[t]] = "abierto"]
    /\ UNCHANGED <<aMapa, aEntrenador, nido>>

EntrenadorPaso(t) ==
    \/ HandShake(t) \/ Conocer(t) \/ RecibirCoordenada(t) \/ Mover(t)
    \/ Movido(t) \/ Capturar(t) \/ Capturado(t) \/ Acusar(t)
    \/ QuedarBloqueado(t) \/ Despertar(t) \/ DarPokemon(t) \/ MorirSinPokemons(t)
    \/ SeguirBloqueado(t) \/ FallecerPorDeadlock(t) \/ UltimaMuerte(t) \/ NotificarFin(t)
    \/ Completar(t) \/ LeerLoDeOtro(t)

EntrenadorSenial(t) ==
    SIGUSR1(t) \/ SIGTERM(t) \/ SIGINT(t) \/ ReiniciarEnLaSenial(t)
=============================================================================
