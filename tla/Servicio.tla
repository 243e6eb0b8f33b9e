------------------------------ MODULE Servicio ------------------------------
(***************************************************************************)
(* What the PokeDex server promises to each mounted client: a request made *)
(* in full takes effect at most once, in one step, and what the client is  *)
(* told is what that step found, unless the server is gone.                *)
(***************************************************************************)
EXTENDS Archivos

VARIABLES
    fs,             \* what is at each path
    pendiente,      \* the request of each client
    efecto,         \* what it found, once it has taken effect
    dicho,          \* what its last call returned
    vivo            \* is there a server?

servicio == <<fs, pendiente, efecto, dicho, vivo>>

(* What a call returns for what it found: 0 for what went well where the    *)
(* server says 1, whether the file is there, or the result itself.          *)
Retorno(p, r) ==
    CASE p.op \in {"TRUNCAR_ARCHIVO", "UTIMENS"} -> IF r = 1 THEN 0 ELSE r
      [] p.op = "ABRIR_ARCHIVO" -> r = 0
      [] p.op = "LEER_ARCHIVO" -> 1
      [] OTHER -> r

Init ==
    /\ fs = [r \in Rutas |-> "nada"]
    /\ pendiente = [c \in Clientes |-> NADA]
    /\ efecto = [c \in Clientes |-> NADA]
    /\ dicho = [c \in Clientes |-> NADA]
    /\ vivo = TRUE

Llamar(c) ==
    /\ pendiente[c] = NADA /\ dicho' = [dicho EXCEPT ![c] = NADA]
    /\ UNCHANGED <<fs, pendiente, efecto, vivo>>

Pedir(c, p) ==
    /\ pendiente[c] = NADA /\ pendiente' = [pendiente EXCEPT ![c] = p]
    /\ UNCHANGED <<fs, efecto, dicho, vivo>>

Atender(c) ==
    /\ vivo /\ pendiente[c] # NADA /\ efecto[c] = NADA
    /\ \E e \in Efectos(fs, pendiente[c]) :
          fs' = e[1] /\ efecto' = [efecto EXCEPT ![c] = e[2]]
    /\ UNCHANGED <<pendiente, dicho, vivo>>

Contestado(c, r) ==
    /\ dicho' = [dicho EXCEPT ![c] = r]
    /\ pendiente' = [pendiente EXCEPT ![c] = NADA]
    /\ efecto' = [efecto EXCEPT ![c] = NADA]
    /\ UNCHANGED <<fs, vivo>>

Volver(c) ==
    /\ pendiente[c] # NADA /\ efecto[c] # NADA
    /\ Contestado(c, Retorno(pendiente[c], efecto[c]))

Caer == vivo /\ vivo' = FALSE /\ UNCHANGED <<fs, pendiente, efecto, dicho>>

(* Nothing is known of what is returned without a server.                   *)
VolverSinServidor(c) == ~vivo /\ Contestado(c, BASURA)

Next ==
    \/ Caer
    \/ \E c \in Clientes :
          \/ Llamar(c) \/ Atender(c) \/ Volver(c) \/ VolverSinServidor(c)
          \/ \E p \in Pedido : Pedir(c, p)

Spec == Init /\ [][Next]_servicio
=============================================================================
