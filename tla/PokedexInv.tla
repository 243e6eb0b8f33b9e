----------------------------- MODULE PokedexInv -----------------------------
(***************************************************************************)
(* The inductive invariant behind EncuadrePedidos and EncuadreRespuestas:  *)
(* the phase each client is in, from what is in both directions of its     *)
(* connection (A to the server, B to the client), the state x of its end,  *)
(* what the client is doing (e) and its thread (h).                        *)
(***************************************************************************)
EXTENDS Pokedex

EsSec(s) == Len(s) \in Nat /\ s = [i \in 1 .. Len(s) |-> s[i]]

(* The fields of a request, and how many the thread has read of it.         *)
Campos(p) == Llamada(p, <<>>).manda
Leidos(h) == IF h.pc \in {"no", "cabecera"} THEN 0 ELSE h.k

Quieto(h) == h.pc \in {"no", "cabecera"} /\ h.k = 1

(* The thread is inside of the request p, or has not begun it, and A is     *)
(* what follows of it; the last field of all may be cut.                    *)
Adentro(h, p) ==
    \/ Quieto(h)
    \/ h.pc = "campos" /\ h.op = p.op /\ h.k \in 1 .. Len(Campos(p)) - 1
    \/ h.pc = "atender" /\ h.op = p.op /\ h.k = Len(Campos(p))
EnCamino(A, h, p) ==
    /\ Adentro(h, p)
    /\ Leidos(h) + Len(A) <= Len(Campos(p))
    /\ \A i \in 1 .. Len(A) :
          \/ A[i] = Campos(p)[Leidos(h) + i]
          \/ /\ i = Len(A) /\ Campos(p)[Leidos(h) + i].campo = "datos"
             /\ A[i] = CortadoEn(Campos(p)[Leidos(h) + i])

(* What has been read once n fields of r follow v, and that the client is   *)
(* going to read r to its end and stop there.                               *)
Tras(v, r, n) ==
    [i \in 1 .. Len(v) + n |-> IF i <= Len(v) THEN v[i] ELSE r[i - Len(v)].valor]
Legible(p, v, r) ==
    \A n \in 0 .. Len(r) :
      LET recibe == Llamada(p, Tras(v, r, n)).recibe IN
      /\ n < Len(r) => /\ Len(v) + n < Len(recibe)
                       /\ Calza(r[n + 1], recibe[Len(v) + n + 1])
      /\ n = Len(r) => Len(recibe) = Len(v) + n

-----------------------------------------------------------------------------
Afuera(A, B, x, e, h) ==
    e.pc = "afuera" /\ x = "afuera" /\ A = <<>> /\ B = <<>> /\ h.pc = "no" /\ h.k = 1

Tranquilo(A, B, x, e, h) ==
    /\ e.pc = "libre" /\ e.i = 1 /\ e.leido = <<>>
    /\ x = "abierto" /\ A = <<>> /\ B = <<>> /\ Quieto(h)

Pidiendo(A, B, x, e, h) ==
    /\ e.pc \in {"mandando", "esperando"} /\ e.pedido \in Pedido /\ e.leido = <<>>
    /\ e.i \in 1 .. Len(Campos(e.pedido)) + 1
    /\ e.pc = "esperando" <=> e.i = Len(Campos(e.pedido)) + 1
    /\ x = "abierto" /\ B = <<>>
    /\ EnCamino(A, h, e.pedido) /\ Leidos(h) + Len(A) = e.i - 1
    /\ \A i \in 1 .. Len(A) : A[i] = Campos(e.pedido)[Leidos(h) + i]

(* What is left of the answer: in the connection, and in the thread.        *)
Falta(B, h) == IF h.pc = "contestar" THEN B \o h.cola ELSE B
Respondiendo(A, B, x, e, h) ==
    /\ e.pc = "esperando" /\ e.pedido \in Pedido /\ EsSec(e.leido)
    /\ x = "abierto" /\ A = <<>>
    /\ \/ h.pc = "contestar" /\ EsSec(h.cola) /\ h.cola # <<>>
       \/ h.pc = "cabecera" /\ h.k = 1 /\ B # <<>>
    /\ Legible(e.pedido, e.leido, Falta(B, h))

(* The read of what is not a file.                                          *)
SinRespuesta(A, B, x, e, h) ==
    /\ e.pc = "esperando" /\ x = "abierto" /\ A = <<>> /\ B = <<>>
    /\ h.pc = "cabecera" /\ h.k = 1

Ido(A, B, x, e, h) ==
    /\ e.pc = "ido" /\ x \in {"cerrado", "cortado"} /\ B = <<>>
    /\ \/ A = <<>> /\ (Quieto(h) \/ h.pc \in {"contestar", "fin"})
       \/ e.pedido \in Pedido /\ EnCamino(A, h, e.pedido)

Fase(A, B, x, e, h) ==
    \/ Afuera(A, B, x, e, h) \/ Tranquilo(A, B, x, e, h) \/ Pidiendo(A, B, x, e, h)
    \/ Respondiendo(A, B, x, e, h) \/ SinRespuesta(A, B, x, e, h) \/ Ido(A, B, x, e, h)

(* Once the server is gone only answers on their way are left.              *)
FaseSinServidor(A, B, x, e, h) == B = <<>> \/ Respondiendo(A, B, x, e, h)

Formas ==
    /\ DOMAIN aServidor = Clientes /\ DOMAIN aCliente = Clientes
    /\ DOMAIN extremo = Clientes /\ DOMAIN cli = Clientes /\ DOMAIN hilo = Clientes
    /\ servidor \in {"vivo", "caido"}
    /\ \A c \in Clientes :
         /\ DOMAIN cli[c] = {"pc", "pedido", "i", "leido"}
         /\ DOMAIN hilo[c] = {"pc", "op", "k", "rutas", "cola"}
         /\ EsSec(aServidor[c]) /\ EsSec(aCliente[c])

Fases ==
    \A c \in Clientes :
      IF servidor = "vivo"
      THEN Fase(aServidor[c], aCliente[c], extremo[c], cli[c], hilo[c])
      ELSE FaseSinServidor(aServidor[c], aCliente[c], extremo[c], cli[c], hilo[c])

IInv == Formas /\ Fases
=============================================================================
