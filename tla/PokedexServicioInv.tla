------------------------- MODULE PokedexServicioInv -------------------------
(***************************************************************************)
(* What the refinement of Servicio needs besides the phases of PokedexInv: *)
(* for each connection, that the effect of a call (ef), what the thread    *)
(* has read of the request and what is left of the answer are of the call  *)
(* the client is in.                                                       *)
(***************************************************************************)
EXTENDS PokedexInv

(* The paths the thread has once it has read k fields of p.                 *)
RutasLeidas(p, k) ==
    IF p.op = "RENOMBRAR_ARCHIVO" /\ k = 5 THEN <<p.de, p.a>>
    ELSE IF \E j \in 1 .. k : Campos(p)[j].campo = "ruta" THEN <<p.de>> ELSE <<>>

(* The last field of the request is on its way, whole or cut.               *)
LlevaDatos(A) == A # <<>> /\ A[Len(A)].campo = "datos"

(* Nothing has been done for a client until it has sent the whole request,  *)
(* and nothing has been told to it (d) until it is answered.                *)
LadoCliente(A, e, h, ef, d) ==
    /\ e.pc \in {"afuera", "libre", "mandando", "esperando", "ido"}
    /\ e.pc \in {"afuera", "libre"} => e.pedido = NADA /\ e.i = 1 /\ ef = NADA
    /\ e.pc \in {"mandando", "esperando"} => e.pedido \in Pedido /\ d = NADA
    /\ e.pc = "mandando" => e.i \in 1 .. Len(Campos(e.pedido)) /\ ef = NADA
    /\ e.pc = "mandando" /\ e.i = Len(Campos(e.pedido))
         => ~LlevaDatos(A) /\ h.pc # "atender"
    /\ e.pc = "esperando" => e.i = Len(Campos(e.pedido)) + 1
    /\ e.pc = "ido" => (e.pedido = NADA /\ ef = NADA) \/ e.pedido \in Pedido

(* What arrived of a request is what was sent: all before the field e.i, or *)
(* all the fields when the client was killed within the last one.           *)
Enviado(n, e) ==
    \/ e.i = n + 1
    \/ /\ e.pc = "ido" /\ n = e.i /\ n = Len(Campos(e.pedido))
       /\ Campos(e.pedido)[n].campo = "datos"

LadoServidor(A, e, h, ef) ==
    /\ A # <<>> \/ h.pc \in {"campos", "atender"} =>
         ef = NADA /\ Enviado(Leidos(h) + Len(A), e)
    /\ h.pc \in {"no", "cabecera"} => h.rutas = <<>>
    /\ h.pc \in {"campos", "atender"} => h.rutas = RutasLeidas(e.pedido, h.k)

(* What the client is going to return, once it has read what is left of the *)
(* answer, is what the service says of the effect.                          *)
Respuesta(B, e, h, ef) ==
    e.pc = "esperando" /\ (B # <<>> \/ h.pc = "contestar") =>
      LET r == Falta(B, h) IN
      /\ ef # NADA
      /\ Devuelve(e.pedido, Tras(e.leido, r, Len(r))) = S!Retorno(e.pedido, ef)

Corresponde(A, B, e, h, ef, d) ==
    /\ LadoCliente(A, e, h, ef, d) /\ Respuesta(B, e, h, ef)
    /\ servidor = "vivo" => LadoServidor(A, e, h, ef)

Contenidos == {"nada", "archivo", "directorio"}

Correspondencia ==
    /\ fs \in [Rutas -> Contenidos]
    /\ DOMAIN efecto = Clientes /\ DOMAIN dicho = Clientes
    /\ \A c \in Clientes :
         Corresponde(aServidor[c], aCliente[c], cli[c], hilo[c], efecto[c], dicho[c])
=============================================================================
