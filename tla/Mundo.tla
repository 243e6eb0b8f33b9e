------------------------------- MODULE Mundo -------------------------------
(***************************************************************************)
(* What a map and its trainers share: the connections and the directories  *)
(* of the mounted file system that hold the pokemon files.                 *)
(*                                                                         *)
(* A connection is named by the descriptor the map has for it, the lowest  *)
(* free one as the kernel does.  The map gets it from accept, which serves *)
(* in order those that wait in the backlog; here it is given when the      *)
(* trainer connects, so that a number the map frees meanwhile goes to who  *)
(* connects next and not to who waits already.  A message and the data     *)
(* sent right after it are one element of a buffer.                        *)
(***************************************************************************)
EXTENDS Integers, Sequences, FiniteSets, FiniteSetsExt, SequencesExt

CONSTANTS
    Entrenadores,   \* the trainers
    Pokenests,      \* the identifiers of the pokenests of the map
    Objetivos,      \* what each trainer has to capture, in order
    Coordenada,     \* where each pokenest is
    MaxFd           \* descriptors the map can have open

Fds == 1..MaxFd

ASSUME MundoAssumption ==
    /\ MaxFd \in Nat /\ Pokenests # {}
    /\ Objetivos \in [Entrenadores -> Seq(Pokenests)]
    /\ \A t \in Entrenadores : Objetivos[t] # <<>>
    /\ Coordenada \in [Pokenests -> Nat \X Nat]

VARIABLES
    aMapa,          \* bytes the map has not read, by descriptor
    aEntrenador,    \* bytes the trainer has not read, by descriptor
    extremo,        \* "libre", "abierto", "cortado" (the trainer closed)
    sock,           \* the connection each trainer uses, 0 if none
    cola,           \* connections to be accepted, with their trainer
    nido,           \* pokemon files in the directory of each pokenest
    bill            \* pokemon files in the "Dir de Bill" of each trainer

conexiones == <<aMapa, aEntrenador, extremo, sock, cola>>
archivos == <<nido, bill>>
mundo == <<aMapa, aEntrenador, extremo, sock, cola, nido, bill>>

Direcciones == {"IZQUIERDA", "DERECHA", "ABAJO", "ARRIBA",
                "SIN_DIRECCION", "SOBRE_POKENEST"}

(* One step in a direction, as both processes compute it.                   *)
Paso(pos, dir) ==
    CASE dir = "IZQUIERDA" -> <<pos[1] - 1, pos[2]>>
      [] dir = "DERECHA" -> <<pos[1] + 1, pos[2]>>
      [] dir = "ABAJO" -> <<pos[1], pos[2] - 1>>
      [] dir = "ARRIBA" -> <<pos[1], pos[2] + 1>>
      [] OTHER -> pos

Msg(tipo, dato) == [tipo |-> tipo, dato |-> dato]

(* librocket_enviarMensaje: what is sent to a closed end is lost.           *)
Enviado(buf, s, m) ==
    IF extremo[s] = "abierto" THEN [buf EXCEPT ![s] = Append(@, m)] ELSE buf

(* recv returns: something arrived, or the trainer or the map itself closed *)
(* the connection.                                                          *)
Hay(s) == aMapa[s] # <<>>
Cortado(s) == aMapa[s] = <<>> /\ extremo[s] # "abierto"

(* What travels in each sense, by type, and the data sent with it: a       *)
(* pokenest is asked for by its identifier, and answered with its place.    *)
DatosAlMapa ==
    [CONOCER_POKENEST |-> Pokenests, CAPTURAR |-> Pokenests,
     MOVER_POSICION |-> Direcciones, TERMINE_OBJETIVOS |-> {0}, ACK |-> {0},
     POKEMON |-> {0}]
DatosAlEntrenador ==
    [COORDENADA |-> Nat \X Nat, TE_DOY |-> Pokenests, OK |-> {0},
     ESTAS_BLOQUEADO |-> {0}, ESTAS_DESBLOQUEADO |-> {0}, MEDALLA |-> {0},
     ESTAS_EN_DEADLOCK |-> {0}, GANASTE |-> {0}, MORITE |-> {0}]

EsMensaje(m, datos) ==
    /\ m = Msg(m.tipo, m.dato)
    /\ m.tipo \in DOMAIN datos /\ m.dato \in datos[m.tipo]
SonMensajes(s, datos) ==
    /\ Len(s) \in Nat /\ s = [i \in 1..Len(s) |-> s[i]]
    /\ \A i \in 1..Len(s) : EsMensaje(s[i], datos)
SonBuzones(b, datos) ==
    b = [s \in Fds |-> b[s]] /\ \A s \in Fds : SonMensajes(b[s], datos)

MundoTypeOK ==
    /\ SonBuzones(aMapa, DatosAlMapa) /\ SonBuzones(aEntrenador, DatosAlEntrenador)
    /\ extremo \in [Fds -> {"libre", "abierto", "cortado"}]
    /\ sock \in [Entrenadores -> Fds \union {0}]
    /\ cola \in Seq([fd : Fds, quien : Entrenadores])
    /\ nido \in [Pokenests -> Nat]
    /\ bill \in [Entrenadores -> [Pokenests -> Nat]]

MundoInit ==
    /\ aMapa = [s \in Fds |-> <<>>] /\ aEntrenador = [s \in Fds |-> <<>>]
    /\ extremo = [s \in Fds |-> "libre"]
    /\ sock = [t \in Entrenadores |-> 0] /\ cola = <<>>
    /\ bill = [t \in Entrenadores |-> [p \in Pokenests |-> 0]]

(* libconnections_conectar_a_servidor followed by what handShake sends.     *)
Conectar(t) ==
    LET libres == {s \in Fds : extremo[s] = "libre"} IN
    /\ libres # {}
    /\ sock' = [sock EXCEPT ![t] = Min(libres)]
    /\ cola' = Append(cola, [fd |-> Min(libres), quien |-> t])

Cerrar(s) ==
    /\ extremo' = [extremo EXCEPT ![s] = "cortado"]
    /\ aEntrenador' = [aEntrenador EXCEPT ![s] = <<>>]
=============================================================================
