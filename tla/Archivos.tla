------------------------------ MODULE Archivos ------------------------------
(***************************************************************************)
(* The calls of FuncionesOsada.c over a flat file system: what is left at  *)
(* the paths and what each call finds.  How a path is followed and what    *)
(* two calls at once do to each other are OsadaTabla and OsadaBloques.     *)
(***************************************************************************)
EXTENDS Integers, FiniteSets

CONSTANTS
    Clientes,       \* the clients, one connection each
    Rutas,          \* the paths they use, all in the root
    Entradas,       \* descriptors that a creation may be given
    MaxArchivos,    \* descriptors of the table
    Tamanio,        \* bytes of each read and write
    NADA,           \* no request, or no result
    BASURA          \* what was never written

Operaciones == {"ABRIR_ARCHIVO", "LEER_ARCHIVO", "ESCRIBIR_ARCHIVO",
                "CREAR_ARCHIVO", "CREAR_DIRECTORIO", "RENOMBRAR_ARCHIVO",
                "GET_DIRECTORIO", "GET_ATTR", "ELIMINAR_ARCHIVO",
                "TRUNCAR_ARCHIVO", "UTIMENS"}
Pedido == [op : Operaciones, de : Rutas, a : Rutas]

PATH_INVALIDO == 2
NO_HAY_DESCRIPTORES == -3
ARCHIVO_INEXISTENTE == -4

Existentes(f) == {r \in Rutas : f[r] # "nada"}

(* Every call is a set of pairs: what it leaves in f and what it returns.   *)
Existe(f, r) == {<<f, IF f[r] # "nada" THEN 0 ELSE -1>>}

(* A read of what is not a file gives NULL.                                 *)
Leer(f, r) == {<<f, IF f[r] = "archivo" THEN Tamanio ELSE NADA>>}

Editar(f, r) == {<<f, IF f[r] # "nada" THEN Tamanio ELSE ARCHIVO_INEXISTENTE>>}

Truncar(f, r) == {<<f, IF f[r] # "nada" THEN 1 ELSE ARCHIVO_INEXISTENTE>>}

(* A creation returns the entry it took, which is any free one.             *)
CrearArchivo(f, r) ==
    IF Cardinality(Existentes(f)) >= MaxArchivos THEN {<<f, NO_HAY_DESCRIPTORES>>}
    ELSE IF f[r] # "nada" THEN {<<f, PATH_INVALIDO>>}
    ELSE {<<[f EXCEPT ![r] = "archivo"], e>> : e \in Entradas}

CrearDirectorio(f, r) ==
    IF Cardinality(Existentes(f)) >= MaxArchivos THEN {<<f, NO_HAY_DESCRIPTORES>>}
    ELSE IF f[r] # "nada" THEN {<<f, PATH_INVALIDO>>}
    ELSE {<<[f EXCEPT ![r] = "directorio"], e>> : e \in Entradas}

Renombrar(f, de, a) ==
    IF f[de] # "nada" /\ f[a] = "nada"
    THEN {<<[f EXCEPT ![a] = f[de], ![de] = "nada"], 1>>}
    ELSE {<<f, ARCHIVO_INEXISTENTE>>}

Eliminar(f, r) ==
    IF f[r] = "nada" THEN {<<f, ARCHIVO_INEXISTENTE>>}
    ELSE {<<[f EXCEPT ![r] = "nada"], 1>>}

Utimens(f, r) == {<<f, IF f[r] # "nada" THEN 1 ELSE -1>>}

Atributos(f, r) == {<<f, f[r]>>}

(* The directory is the root.                                               *)
EstructuraDirectorio(f) == {<<f, Existentes(f)>>}

Efectos(f, p) ==
    CASE p.op = "ABRIR_ARCHIVO" -> Existe(f, p.de)
      [] p.op = "LEER_ARCHIVO" -> Leer(f, p.de)
      [] p.op = "ESCRIBIR_ARCHIVO" -> Editar(f, p.de)
      [] p.op = "CREAR_ARCHIVO" -> CrearArchivo(f, p.de)
      [] p.op = "CREAR_DIRECTORIO" -> CrearDirectorio(f, p.de)
      [] p.op = "RENOMBRAR_ARCHIVO" -> Renombrar(f, p.de, p.a)
      [] p.op = "GET_DIRECTORIO" -> EstructuraDirectorio(f)
      [] p.op = "GET_ATTR" -> Atributos(f, p.de)
      [] p.op = "ELIMINAR_ARCHIVO" -> Eliminar(f, p.de)
      [] p.op = "TRUNCAR_ARCHIVO" -> Truncar(f, p.de)
      [] p.op = "UTIMENS" -> Utimens(f, p.de)
=============================================================================
