-------------------------- MODULE Entrenador_proofs --------------------------
(***************************************************************************)
(* Proofs about the walk of a trainer, for any map and any position.       *)
(***************************************************************************)
EXTENDS Entrenador, TLAPS

Largo(n) == IF n < 0 THEN -n ELSE n
Distancia(a, b) == Largo(a[1] - b[1]) + Largo(a[2] - b[2])

(* Wherever a trainer is and however it came there, the direction it takes *)
(* brings it exactly one step nearer to its pokenest, and it takes none    *)
(* only when it is on it: obtenerDireccion never answers SIN_DIRECCION,    *)
(* though its code has the case.                                           *)
THEOREM CadaPasoAcerca ==
    ASSUME NEW meta \in Int \X Int, NEW pos \in Int \X Int,
           NEW ultima \in Direcciones
    PROVE  LET dir == ObtenerDireccion(meta, pos, ultima) IN
           /\ dir # "SIN_DIRECCION"
           /\ dir = "SOBRE_POKENEST" <=> pos = meta
           /\ pos # meta =>
                Distancia(meta, Paso(pos, dir)) = Distancia(meta, pos) - 1
<1> DEFINE dir == ObtenerDireccion(meta, pos, ultima)
<1>1. PICK mx \in Int, my \in Int, px \in Int, py \in Int :
         meta = <<mx, my>> /\ pos = <<px, py>>
    OBVIOUS
<1>2. pos = meta <=> (px = mx /\ py = my)
    BY <1>1
<1>3. CASE pos = meta
  <2>1. dir = "SOBRE_POKENEST"
      BY <1>1, <1>2, <1>3 DEF ObtenerDireccion
  <2> QED BY <1>3, <2>1
<1>4. CASE pos # meta
  <2>1. \/ dir = "DERECHA" /\ px < mx
        \/ dir = "IZQUIERDA" /\ px > mx
        \/ dir = "ARRIBA" /\ py < my
        \/ dir = "ABAJO" /\ py > my
      BY <1>1, <1>2, <1>4 DEF ObtenerDireccion
  <2>2. Distancia(meta, Paso(pos, dir)) = Distancia(meta, pos) - 1
      BY <1>1, <2>1 DEF Distancia, Largo, Paso
  <2> QED BY <1>4, <2>1, <2>2
<1> QED BY <1>3, <1>4
=============================================================================
