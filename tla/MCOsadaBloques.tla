--------------------------- MODULE MCOsadaBloques ---------------------------
(* Instances of OsadaBloques for TLC: small disks, blocks of two bytes and *)
(* the requests each run needs.                                            *)
EXTENDS OsadaBloquesInv

CONSTANTS h1, h2, eA, eB

Pide(h, op, e, i, n) ==
    [hilo |-> h, op |-> op, arch |-> e, ini |-> i, bytes |-> n]

Escrituras(h, e, is, ns) == {Pide(h, "editar", e, i, n) : i \in is, n \in ns}
Recortes(h, e, ns) == {Pide(h, "truncar", e, 0, n) : n \in ns}
Borrado(h, e) == {Pide(h, "eliminar", e, 0, 0)}
Toque(h, e) == {Pide(h, "utimens", e, 0, 0)}

(* A disk that was never written: the allocation table is all zeroes.      *)
DiscoNuevo == {[b \in Bloques |-> 0]}

(* One client works on both files.                                         *)
PedidosDeUno ==
    UNION {Escrituras(h1, e, {0, 1, 3}, {1, 2, 5})
           \cup Recortes(h1, e, {0, 1, 4, 5})
           \cup Borrado(h1, e) \cup Toque(h1, e) : e \in {eA, eB}}

(* Two clients write to the same file; one of them has another to itself, *)
(* which it also truncates and deletes.                                    *)
PedidosCompartidos ==
    Escrituras(h1, eA, {0, 2}, {3}) \cup Escrituras(h2, eA, {1}, {2})
    \cup Toque(h1, eA)
    \cup Escrituras(h2, eB, {0}, {1, 4}) \cup Recortes(h2, eB, {0, 1, 4})
    \cup Borrado(h2, eB)

(* One client writes to a file the other cuts, and each has one more file. *)
PedidosCruzados ==
    Escrituras(h1, eA, {0}, {4}) \cup Escrituras(h1, eA, {1}, {1})
    \cup Recortes(h2, eA, {0, 2})
    \cup Escrituras(h2, eB, {0}, {4})
=============================================================================
