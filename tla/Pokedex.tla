------------------------------ MODULE Pokedex ------------------------------
(***************************************************************************)
(* The PokeDex: the clients and the server over their connections.         *)
(***************************************************************************)
EXTENDS PokedexCliente, PokedexServidor

vars == <<cliente, atencion, canal>>

Init == CanalInit /\ ClienteInit /\ ServidorInit

(* A call that returned has no result pending.                              *)
Vuelve(c) == cli[c].pc = "esperando" /\ cli'[c].pc = "libre"
ClienteAvanza(c) ==
    /\ ClientePaso(c)
    /\ efecto' = IF Vuelve(c) \/ dicho'[c] = BASURA
                 THEN [efecto EXCEPT ![c] = NADA] ELSE efecto
    /\ UNCHANGED <<hilo, fs>>

Next == \E c \in Clientes :
          \/ ClienteAvanza(c)
          \/ ClienteQuiere(c) /\ UNCHANGED atencion
          \/ ServidorPaso(c) /\ UNCHANGED cliente

(* The threads of the server and the process of each client keep running;   *)
(* nobody has to mount, call or die.                                        *)
Spec ==
    /\ Init /\ [][Next]_vars
    /\ \A c \in Clientes : /\ WF_vars(ClienteAvanza(c))
                           /\ WF_vars(ServidorPaso(c) /\ UNCHANGED cliente)

-----------------------------------------------------------------------------
Calza(campo, esperado) ==
    campo.campo = esperado.campo /\ campo.bytes = esperado.bytes

(* Client and server agree on every field of every call: the thread finds   *)
(* next the field it reads, of the size it reads, and no request starts     *)
(* while it has not done with the one before.  Only the last field of a     *)
(* client that died may be cut short.                                       *)
EncuadrePedidos ==
    servidor = "vivo" =>
      \A c \in Clientes :
        aServidor[c] # <<>> =>
          LET x == Head(aServidor[c]) IN
          \/ hilo[c].pc \in {"no", "cabecera"} /\ Calza(x, Espera("tipo", 4))
          \/ /\ hilo[c].pc = "campos"
             /\ \/ Calza(x, Lee(c)[hilo[c].k])
                \/ /\ Tail(aServidor[c]) = <<>> /\ extremo[c] # "abierto"
                   /\ x.campo = Lee(c)[hilo[c].k].campo

(* And on every field of every answer, whose number depends on what the     *)
(* fields before it said: nothing of an answer is left to be taken for the  *)
(* next one.                                                                *)
EncuadreRespuestas ==
    \A c \in Clientes :
      aCliente[c] # <<>> =>
        LET e == cli[c]
            recibe == Llamada(e.pedido, e.leido).recibe
        IN  /\ e.pc = "esperando" /\ Len(e.leido) < Len(recibe)
            /\ Calza(Head(aCliente[c]), recibe[Len(e.leido) + 1])

(* The request is made when its last byte is sent: the server cannot tell   *)
(* a last field that was cut from a whole one.                              *)
Mandado(c) ==
    \/ cli[c].i > Len(Manda(c))
    \/ /\ cli[c].pc = "ido" /\ cli[c].i = Len(Manda(c))
       /\ \/ aServidor[c] # <<>> /\ Last(aServidor[c]).campo = "datos"
          \/ hilo[c].pc = "atender" \/ efecto[c] # NADA
Pendiente ==
    [c \in Clientes |-> IF cli[c].pedido # NADA /\ Mandado(c)
                        THEN cli[c].pedido ELSE NADA]

S == INSTANCE Servicio WITH pendiente <- Pendiente, vivo <- servidor = "vivo"

(* The protocol implements the service: whatever the order of the steps of  *)
(* all of them and whoever dies, a request takes effect once and only if it *)
(* was made, and what the FUSE call returns is what that effect found.      *)
ServicioSpec == S!Spec

(* "Debe responder ante todos los mensajes del protocolo": every call of a  *)
(* client returns, but for the read of what is not a file.                  *)
TodoSeContesta ==
    \A c \in Clientes :
      cli[c].pc = "esperando"
        /\ (cli[c].pedido.op # "LEER_ARCHIVO" \/ efecto[c] # NADA)
      ~> cli[c].pc # "esperando"

(* The thread of a client that is gone ends, wherever in a request it was   *)
(* left, unless the server died.                                            *)
HiloTermina ==
    \A c \in Clientes :
      cli[c].pc = "ido" ~> hilo[c].pc = "fin" \/ servidor = "caido"
=============================================================================
