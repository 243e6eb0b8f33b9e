-------------------------- MODULE EspacioDeNombres --------------------------
(***************************************************************************)
(* What the file table of OSADA promises its clients: a tree.  Each node   *)
(* hangs from the root or from a directory, never from what hangs from     *)
(* itself, and no directory has two nodes of the same name.                *)
(***************************************************************************)
CONSTANTS Entradas, Nombres, RAIZ

VARIABLE arbol   \* the nodes: entry, type, name and entry of the directory

Init == arbol = {}

Ocupado(padre, nombre) == \E n \in arbol : n.padre = padre /\ n.nombre = nombre

EsDirectorio(e) == e = RAIZ \/ \E n \in arbol : n.entrada = e /\ n.tipo = "DIRECTORY"

ConHijos(e) == \E n \in arbol : n.padre = e

(* It is e or hangs from it: it is in every set that has e and what hangs   *)
(* from its members.                                                        *)
CuelgaDe(padre, e) ==
    \A S \in SUBSET Entradas :
        e \in S /\ (\A n \in arbol : n.padre \in S => n.entrada \in S) => padre \in S

Crear(e, tipo, nombre, padre) ==
    /\ \A n \in arbol : n.entrada # e
    /\ EsDirectorio(padre)
    /\ ~Ocupado(padre, nombre)
    /\ arbol' = arbol \cup {[entrada |-> e, tipo |-> tipo,
                             nombre |-> nombre, padre |-> padre]}

Borrar(n) ==
    /\ ~ConHijos(n.entrada)
    /\ arbol' = arbol \ {n}

Mover(n, nombre, padre) ==
    /\ EsDirectorio(padre)
    /\ ~Ocupado(padre, nombre)
    /\ ~CuelgaDe(padre, n.entrada)
    /\ arbol' = (arbol \ {n})
                \cup {[entrada |-> n.entrada, tipo |-> n.tipo,
                      nombre |-> nombre, padre |-> padre]}

Next ==
    \/ \E e \in Entradas, tipo \in {"REGULAR", "DIRECTORY"},
          nombre \in Nombres, padre \in Entradas \cup {RAIZ} :
           Crear(e, tipo, nombre, padre)
    \/ \E n \in arbol :
           \/ Borrar(n)
           \/ \E nombre \in Nombres, padre \in Entradas \cup {RAIZ} :
                  Mover(n, nombre, padre)

Spec == Init /\ [][Next]_arbol
=============================================================================
