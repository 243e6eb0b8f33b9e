----------------------------- MODULE MCPokedex -----------------------------
(* Two clients and two paths: one client makes every call and may be killed *)
(* at any point; the other one keeps removing what the first one uses.      *)
EXTENDS PokedexServicioInv

CONSTANTS c1, c2

De(op, de, a) == [op |-> op, de |-> de, a |-> a]
PedidosDeDos ==
    [c \in {c1, c2} |->
       IF c = c1 THEN {De(op, "x", "y") : op \in Operaciones}
       ELSE {De("ELIMINAR_ARCHIVO", "x", "x")}]
=============================================================================
