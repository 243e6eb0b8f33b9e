---------------------------- MODULE PokedexCanal ----------------------------
(***************************************************************************)
(* The connections between the PokeDex server and its clients: what each   *)
(* end sent and the other has not read.  Each send is one field, with the  *)
(* name of what it carries, the bytes sent and the value.                  *)
(***************************************************************************)
EXTENDS Archivos, Sequences

VARIABLES
    aServidor,      \* fields the server has not read, by client
    aCliente,       \* fields the client has not read
    extremo,        \* of the client: "afuera", "abierto", "cerrado", and
                    \* "cortado" once a reset answered what was sent to it
    servidor        \* "vivo" or "caido"

canal == <<aServidor, aCliente, extremo, servidor>>

ASSUME CanalAssumption ==
    /\ IsFiniteSet(Rutas) /\ Entradas \subseteq Nat
    /\ MaxArchivos \in Nat /\ Tamanio \in Nat \ {0}

(* NADA is no result, no request and nothing that a call returns.           *)
ASSUME NadaAssumption ==
    /\ NADA \notin Int /\ NADA \notin {"nada", "archivo", "directorio"}
    /\ \A r \in SUBSET Rutas : NADA # r
    /\ NADA \notin Pedido /\ NADA # BASURA

Campo(nombre, bytes, valor) == [campo |-> nombre, bytes |-> bytes, valor |-> valor]
Espera(nombre, bytes) == [campo |-> nombre, bytes |-> bytes]

(* Bytes of a path: its length is sent before it and read first.            *)
Largo == 3
CortadoEn(x) == [x EXCEPT !.bytes = @ - 1]
ENVIO_DATA_DIRECTORIO == 2

CanalInit ==
    /\ aServidor = [c \in Clientes |-> <<>>]
    /\ aCliente = [c \in Clientes |-> <<>>]
    /\ extremo = [c \in Clientes |-> "afuera"]
    /\ servidor = "vivo"
=============================================================================
