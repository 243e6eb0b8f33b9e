---------------------------- MODULE MCOsadaTabla ----------------------------
(* Instances of OsadaTabla for TLC: a table of two entries and paths of    *)
(* one or two names, d and e for directories, f and g for files.           *)
EXTENDS OsadaTabla, SequencesExt

CONSTANTS h1, h2

Pide(h, op, c, d) == [hilo |-> h, op |-> op, camino |-> c, destino |-> d]

Altas(h, cs) == {Pide(h, "crear", c, <<>>) : c \in cs}
AltasDeDirectorio(h, cs) == {Pide(h, "mkdir", c, <<>>) : c \in cs}
Bajas(h, cs) == {Pide(h, "eliminar", c, <<>>) : c \in cs}

(* The kernel of a client refuses to move a directory into itself.         *)
Cambios(h, cs, ds) ==
    UNION {{Pide(h, "renombrar", c, d) : d \in {x \in ds : ~IsPrefix(c, x)}} :
           c \in cs}

(* One client gives the tree its shape; the other deletes its files.       *)
PedidosDeUnAutor ==
    Altas(h1, {<<"f">>, <<"d", "f">>, <<"f", "g">>})
    \cup AltasDeDirectorio(h1, {<<"d">>})
    \cup Bajas(h1, {<<"d">>})
    \cup Cambios(h1, {<<"f">>}, {<<"d", "f">>, <<"g">>})
    \cup Cambios(h1, {<<"d">>}, {<<"e">>, <<"d", "e">>})
    \cup Bajas(h2, {<<"f">>, <<"d", "f">>})

(* They keep to what the theorems about the table take for granted.        *)
ASSUME SuyoDeCadaUno == Pedidos = PedidosDeUnAutor => CadaUnoLoSuyo

(* Two clients create, with different names, and one deletes again.        *)
PedidosDeDosAutores ==
    Altas(h1, {<<"f">>}) \cup AltasDeDirectorio(h1, {<<"d">>})
    \cup Altas(h2, {<<"g">>}) \cup Bajas(h2, {<<"g">>})
=============================================================================
