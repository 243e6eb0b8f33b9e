----------------------- MODULE PokedexServicio_proofs -----------------------
(***************************************************************************)
(* Proof that the protocol of the PokeDex implements Servicio.  First what *)
(* the requests, the effects and the answers are, call by call; then that  *)
(* Correspondencia is an invariant; last the step of the service that each *)
(* step of the protocol is.                                                *)
(***************************************************************************)
EXTENDS PokedexServicioInv, Pokedex_proofs

(* The paths of a request whose only path is the field j.                   *)
UnaSola(p, j) ==
    /\ j \in 2 .. Len(Campos(p)) /\ Campos(p)[j].valor = p.de
    /\ \A k \in 1 .. Len(Campos(p)) : Campos(p)[k].campo = "ruta" <=> k = j

(* What the thread knows of the paths while it reads the request.           *)
BienLeidas(p) ==
    LET m == Campos(p) IN
    /\ RutasLeidas(p, 1) = <<>>
    /\ \A k \in 1 .. Len(m) - 1 :
         RutasLeidas(p, k + 1) = IF m[k + 1].campo = "ruta"
                                 THEN Append(RutasLeidas(p, k), m[k + 1].valor)
                                 ELSE RutasLeidas(p, k)
    /\ RutasLeidas(p, Len(m))[1] = p.de
    /\ p.op = "RENOMBRAR_ARCHIVO" => Last(RutasLeidas(p, Len(m))) = p.a

(* The data, if there are, are the last field.                              *)
DatosAlFinal(p) ==
    \A k \in 1 .. Len(Campos(p)) :
      Campos(p)[k].campo = "datos" => k = Len(Campos(p)) /\ p.op = "ESCRIBIR_ARCHIVO"

(* A request with one path.                                                 *)
LEMMA ConUnaSola ==
    ASSUME NEW p, p.op # "RENOMBRAR_ARCHIVO", NEW j, UnaSola(p, j), Len(Campos(p)) \in Nat
    PROVE  BienLeidas(p)
<1> DEFINE m == Campos(p)
           n == Len(m)
<1>1. /\ j \in 2 .. n /\ n \in Nat /\ m[j].valor = p.de
      /\ \A k \in 1 .. n : m[k].campo = "ruta" <=> k = j
    BY DEF UnaSola
<1>2. ASSUME NEW k \in 1 .. n PROVE RutasLeidas(p, k) = IF j <= k THEN <<p.de>> ELSE <<>>
  <2>1. (\E i \in 1 .. k : m[i].campo = "ruta") <=> j <= k
      BY <1>1
  <2> QED BY <2>1 DEF RutasLeidas
<1>3. Append(<<>>, p.de) = <<p.de>> /\ <<p.de>>[1] = p.de
    OBVIOUS
<1> HIDE DEF m, n
<1>4. ASSUME NEW k \in 1 .. n - 1
      PROVE  RutasLeidas(p, k + 1) = IF m[k + 1].campo = "ruta"
                                     THEN Append(RutasLeidas(p, k), m[k + 1].valor)
                                     ELSE RutasLeidas(p, k)
  <2>1. k \in 1 .. n /\ k + 1 \in 1 .. n
      BY <1>1
  <2>2. CASE k + 1 = j
    <3>1. RutasLeidas(p, k + 1) = <<p.de>> /\ RutasLeidas(p, k) = <<>>
        BY <1>1, <1>2, <2>1, <2>2
    <3> QED BY <1>1, <1>3, <2>1, <2>2, <3>1
  <2>3. CASE k + 1 # j
    <3>1. RutasLeidas(p, k + 1) = RutasLeidas(p, k)
        BY <1>1, <1>2, <2>1, <2>3
    <3> QED BY <1>1, <2>1, <2>3, <3>1
  <2> QED BY <2>2, <2>3
<1>5. RutasLeidas(p, 1) = <<>> /\ RutasLeidas(p, n) = <<p.de>>
    BY <1>1, <1>2
<1> QED BY <1>3, <1>4, <1>5 DEF BienLeidas, m, n

(* A request of one path and nothing else.                                  *)
LEMMA SoloRuta ==
    ASSUME NEW p, Campos(p) = ConRuta(p), p.op # "RENOMBRAR_ARCHIVO"
    PROVE  BienLeidas(p) /\ DatosAlFinal(p)
<1>1. /\ Len(Campos(p)) = 3 /\ Campos(p)[1].campo = "tipo" /\ Campos(p)[2].campo = "largo"
      /\ Campos(p)[3].campo = "ruta" /\ Campos(p)[3].valor = p.de
    BY DEF ConRuta, Tipo, LargoDe, Ruta, Campo
<1>2. UnaSola(p, 3) /\ DatosAlFinal(p)
    BY <1>1 DEF UnaSola, DatosAlFinal
<1> QED BY <1>1, <1>2, ConUnaSola

(* One path after another.                                                  *)
LEMMA DosRutas == ASSUME NEW a, NEW b PROVE Append(<<a>>, b) = <<a, b>>
<1>1. EsSec(<<a>>) /\ Len(<<a>>) = 1
    BY DEF EsSec
<1>2. /\ EsSec(Append(<<a>>, b)) /\ Len(Append(<<a>>, b)) = 2
      /\ Append(<<a>>, b)[1] = a /\ Append(<<a>>, b)[2] = b
    BY <1>1, Agregado
<1>3. <<a, b>> = [i \in 1 .. 2 |-> <<a, b>>[i]]
    OBVIOUS
<1>4. \A i \in 1 .. 2 : Append(<<a>>, b)[i] = <<a, b>>[i]
    BY <1>2
<1>5. Append(<<a>>, b) = [i \in 1 .. 2 |-> Append(<<a>>, b)[i]]
    BY <1>2, Zenon DEF EsSec
<1> QED BY <1>3, <1>4, <1>5, Zenon

(* Every request has its paths and its data where the thread finds them.    *)
LEMMA Leidas ==
    ASSUME NEW p \in Pedido PROVE BienLeidas(p) /\ DatosAlFinal(p)
<1> DEFINE m == Campos(p)
<1>1. CASE p.op \in {"ABRIR_ARCHIVO", "CREAR_ARCHIVO", "CREAR_DIRECTORIO",
                     "ELIMINAR_ARCHIVO", "GET_DIRECTORIO", "GET_ATTR"}
  <2>1. m = ConRuta(p)
      BY <1>1 DEF Campos, Llamada, AbrirArchivo, CrearArchivoPedido,
                  CrearDirectorioPedido, BorrarArchivo, GetDir, GetAttr
  <2> QED BY <1>1, <2>1, SoloRuta
<1>2. CASE p.op = "LEER_ARCHIVO"
  <2>1. m = <<Tipo(p), Size, Offset(4), LargoDe, Ruta(p.de)>>
      BY <1>2 DEF Campos, Llamada, LeerArchivo
  <2>2. /\ Len(m) = 5 /\ m[1].campo = "tipo" /\ m[2].campo = "size"
        /\ m[3].campo = "offset" /\ m[4].campo = "largo" /\ m[5].campo = "ruta"
        /\ m[5].valor = p.de
      BY <2>1 DEF Tipo, Size, Offset, LargoDe, Ruta, Campo
  <2>3. UnaSola(p, 5) /\ DatosAlFinal(p)
      BY <2>2 DEF UnaSola, DatosAlFinal
  <2> QED BY <1>2, <2>2, <2>3, ConUnaSola
<1>3. CASE p.op = "ESCRIBIR_ARCHIVO"
  <2>1. m = <<Tipo(p), Size, Offset(4), LargoDe, Ruta(p.de),
              Campo("datos", Tamanio, "datos")>>
      BY <1>3 DEF Campos, Llamada, EscribirArchivo
  <2>2. /\ Len(m) = 6 /\ m[1].campo = "tipo" /\ m[2].campo = "size"
        /\ m[3].campo = "offset" /\ m[4].campo = "largo" /\ m[5].campo = "ruta"
        /\ m[5].valor = p.de /\ m[6].campo = "datos"
      BY <2>1 DEF Tipo, Size, Offset, LargoDe, Ruta, Campo
  <2>3. UnaSola(p, 5) /\ DatosAlFinal(p)
      BY <1>3, <2>2 DEF UnaSola, DatosAlFinal
  <2> QED BY <1>3, <2>2, <2>3, ConUnaSola
<1>4. CASE p.op = "TRUNCAR_ARCHIVO"
  <2>1. m = <<Tipo(p), Offset(4), LargoDe, Ruta(p.de)>>
      BY <1>4 DEF Campos, Llamada, TruncarArchivo
  <2>2. /\ Len(m) = 4 /\ m[1].campo = "tipo" /\ m[2].campo = "offset"
        /\ m[3].campo = "largo" /\ m[4].campo = "ruta" /\ m[4].valor = p.de
      BY <2>1 DEF Tipo, Offset, LargoDe, Ruta, Campo
  <2>3. UnaSola(p, 4) /\ DatosAlFinal(p)
      BY <2>2 DEF UnaSola, DatosAlFinal
  <2> QED BY <1>4, <2>2, <2>3, ConUnaSola
<1>5. CASE p.op = "UTIMENS"
  <2>1. m = <<Tipo(p), LargoDe, Ruta(p.de), Campo("segundos", 8, 0)>>
      BY <1>5 DEF Campos, Llamada, UtimensPedido
  <2>2. /\ Len(m) = 4 /\ m[1].campo = "tipo" /\ m[2].campo = "largo"
        /\ m[3].campo = "ruta" /\ m[3].valor = p.de /\ m[4].campo = "segundos"
      BY <2>1 DEF Tipo, LargoDe, Ruta, Campo
  <2>3. UnaSola(p, 3) /\ DatosAlFinal(p)
      BY <2>2 DEF UnaSola, DatosAlFinal
  <2> QED BY <1>5, <2>2, <2>3, ConUnaSola
<1>6. CASE p.op = "RENOMBRAR_ARCHIVO"
  <2>1. m = <<Tipo(p), LargoDe, Ruta(p.de), LargoDe, Ruta(p.a)>>
      BY <1>6 DEF Campos, Llamada, RenombrarArchivo
  <2>2. /\ Len(m) = 5 /\ m[1].campo = "tipo" /\ m[2].campo = "largo"
        /\ m[3].campo = "ruta" /\ m[3].valor = p.de /\ m[4].campo = "largo"
        /\ m[5].campo = "ruta" /\ m[5].valor = p.a
      BY <2>1 DEF Tipo, LargoDe, Ruta, Campo
  <2>3. ASSUME NEW k \in 1 .. 4
        PROVE  RutasLeidas(p, k) = IF 3 <= k THEN <<p.de>> ELSE <<>>
    <3>1. (\E i \in 1 .. k : m[i].campo = "ruta") <=> 3 <= k
        BY <2>2
    <3> QED BY <3>1 DEF RutasLeidas
  <2>4. /\ RutasLeidas(p, 1) = <<>> /\ RutasLeidas(p, 2) = <<>>
        /\ RutasLeidas(p, 3) = <<p.de>> /\ RutasLeidas(p, 4) = <<p.de>>
      BY <2>3
  <2>5. RutasLeidas(p, 5) = <<p.de, p.a>>
      BY <1>6 DEF RutasLeidas
  <2>6. /\ Append(<<>>, p.de) = <<p.de>> /\ Append(<<p.de>>, p.a) = <<p.de, p.a>>
        /\ <<p.de, p.a>>[1] = p.de /\ Last(<<p.de, p.a>>) = p.a
    <3>1. Append(<<>>, p.de) = <<p.de>>
        OBVIOUS
    <3>2. Append(<<p.de>>, p.a) = <<p.de, p.a>>
        BY DosRutas
    <3>3. <<p.de, p.a>>[1] = p.de /\ Last(<<p.de, p.a>>) = p.a
        BY DEF Last
    <3> QED BY <3>1, <3>2, <3>3
  <2> HIDE DEF m
  <2>7. ASSUME NEW k \in 1 .. 4
        PROVE  RutasLeidas(p, k + 1) = IF m[k + 1].campo = "ruta"
                                       THEN Append(RutasLeidas(p, k), m[k + 1].valor)
                                       ELSE RutasLeidas(p, k)
    <3>1. CASE k = 1
        BY <2>2, <2>4, <3>1
    <3>2. CASE k = 2
      <4>1. /\ RutasLeidas(p, k + 1) = <<p.de>> /\ RutasLeidas(p, k) = <<>>
            /\ m[k + 1].campo = "ruta" /\ m[k + 1].valor = p.de
          BY <2>2, <2>4, <3>2
      <4> QED BY <2>6, <4>1, Zenon
    <3>3. CASE k = 3
        BY <2>2, <2>4, <3>3
    <3>4. CASE k = 4
      <4>1. /\ RutasLeidas(p, k + 1) = <<p.de, p.a>> /\ RutasLeidas(p, k) = <<p.de>>
            /\ m[k + 1].campo = "ruta" /\ m[k + 1].valor = p.a
          BY <2>2, <2>4, <2>5, <3>4
      <4> QED BY <2>6, <4>1, Zenon
    <3> QED BY <3>1, <3>2, <3>3, <3>4
  <2>8. BienLeidas(p)
      BY <2>2, <2>4, <2>5, <2>6, <2>7 DEF BienLeidas, m
  <2>9. DatosAlFinal(p)
      BY <2>2 DEF DatosAlFinal, m
  <2> QED BY <2>8, <2>9
<1> QED BY <1>1, <1>2, <1>3, <1>4, <1>5, <1>6 DEF Pedido, Operaciones

-----------------------------------------------------------------------------
(* The calls: what they find and what is answered.                          *)

(* The service and the thread run the same call when they are given the     *)
(* same operation and the paths that it uses.                               *)
LEMMA MismosEfectos ==
    ASSUME NEW f, NEW p \in Pedido, NEW q, q.op = p.op, q.de = p.de,
           p.op = "RENOMBRAR_ARCHIVO" => q.a = p.a
    PROVE  Efectos(f, q) = S!Efectos(f, p)
<1>1. CASE p.op \in {"ABRIR_ARCHIVO", "LEER_ARCHIVO", "ESCRIBIR_ARCHIVO"}
    BY <1>1 DEF Efectos, S!Efectos, Existe, S!Existe, Leer, S!Leer, Editar, S!Editar,
                ARCHIVO_INEXISTENTE, S!ARCHIVO_INEXISTENTE
<1>0. Cardinality(Existentes(f)) = S!Cardinality(S!Existentes(f))
  <2>1. Existentes(f) = S!Existentes(f)
      BY DEF Existentes, S!Existentes
  <2> QED BY <2>1 DEF Cardinality, S!Cardinality
<1>2. CASE p.op = "CREAR_ARCHIVO"
  <2>1. Efectos(f, q) = CrearArchivo(f, p.de) /\ S!Efectos(f, p) = S!CrearArchivo(f, p.de)
      BY <1>2 DEF Efectos, S!Efectos
  <2> QED
      BY <1>0, <2>1
      DEF CrearArchivo, S!CrearArchivo,
          NO_HAY_DESCRIPTORES, S!NO_HAY_DESCRIPTORES, PATH_INVALIDO, S!PATH_INVALIDO
<1>3. CASE p.op = "CREAR_DIRECTORIO"
  <2>1. /\ Efectos(f, q) = CrearDirectorio(f, p.de)
        /\ S!Efectos(f, p) = S!CrearDirectorio(f, p.de)
      BY <1>3 DEF Efectos, S!Efectos
  <2> QED
      BY <1>0, <2>1
      DEF CrearDirectorio, S!CrearDirectorio,
          NO_HAY_DESCRIPTORES, S!NO_HAY_DESCRIPTORES, PATH_INVALIDO, S!PATH_INVALIDO
<1>4. CASE p.op = "RENOMBRAR_ARCHIVO"
    BY <1>4 DEF Efectos, S!Efectos, Renombrar, S!Renombrar,
                ARCHIVO_INEXISTENTE, S!ARCHIVO_INEXISTENTE
<1>5. CASE p.op \in {"ELIMINAR_ARCHIVO", "TRUNCAR_ARCHIVO", "UTIMENS"}
    BY <1>5 DEF Efectos, S!Efectos, Eliminar, S!Eliminar, Truncar, S!Truncar,
                Utimens, S!Utimens, ARCHIVO_INEXISTENTE, S!ARCHIVO_INEXISTENTE
<1>6. CASE p.op \in {"GET_ATTR", "GET_DIRECTORIO"}
    BY <1>6 DEF Efectos, S!Efectos, Atributos, S!Atributos, EstructuraDirectorio,
                S!EstructuraDirectorio, Existentes, S!Existentes
<1> QED BY <1>1, <1>2, <1>3, <1>4, <1>5, <1>6 DEF Pedido, Operaciones

(* What each call may find, and that it leaves a file system.               *)
Hallado(p, r) ==
    CASE p.op = "ABRIR_ARCHIVO" -> r \in {0, -1}
      [] p.op = "LEER_ARCHIVO" -> r \in {Tamanio, NADA}
      [] p.op = "UTIMENS" -> r \in {1, -1}
      [] p.op = "GET_ATTR" -> r \in Contenidos
      [] p.op = "GET_DIRECTORIO" -> r \in SUBSET Rutas
      [] OTHER -> r \in Int

(* A call leaves a file system and finds something of its kind; what finds  *)
(* nothing leaves all as it was.                                            *)
LEMMA TiposDeEfectos ==
    ASSUME NEW f \in [Rutas -> Contenidos], NEW p \in Pedido, NEW q, q.op = p.op,
           q.de = p.de, p.op = "RENOMBRAR_ARCHIVO" => q.a = p.a,
           NEW e \in Efectos(f, q)
    PROVE  /\ e[1] \in [Rutas -> Contenidos] /\ Hallado(p, e[2])
           /\ e[2] = NADA => p.op = "LEER_ARCHIVO" /\ e[1] = f
<1> USE CanalAssumption, NadaAssumption DEF Contenidos
<1>0. /\ p.op \in Operaciones /\ q.de \in Rutas
      /\ p.op = "RENOMBRAR_ARCHIVO" => q.a \in Rutas
    BY DEF Pedido
<1>1. CASE p.op \in {"ABRIR_ARCHIVO", "LEER_ARCHIVO", "ESCRIBIR_ARCHIVO"}
    BY <1>1 DEF Efectos, Existe, Leer, Editar, ARCHIVO_INEXISTENTE, Hallado
<1>2. CASE p.op = "CREAR_ARCHIVO"
    BY <1>0, <1>2 DEF Efectos, CrearArchivo, NO_HAY_DESCRIPTORES, PATH_INVALIDO, Hallado
<1>3. CASE p.op = "CREAR_DIRECTORIO"
    BY <1>0, <1>3 DEF Efectos, CrearDirectorio, NO_HAY_DESCRIPTORES, PATH_INVALIDO, Hallado
<1>4. CASE p.op = "RENOMBRAR_ARCHIVO"
    BY <1>0, <1>4 DEF Efectos, Renombrar, ARCHIVO_INEXISTENTE, Hallado
<1>5. CASE p.op \in {"ELIMINAR_ARCHIVO", "TRUNCAR_ARCHIVO", "UTIMENS"}
    BY <1>0, <1>5 DEF Efectos, Eliminar, Truncar, Utimens, ARCHIVO_INEXISTENTE, Hallado
<1>6. CASE p.op = "GET_ATTR"
    BY <1>0, <1>6 DEF Efectos, Atributos, Hallado
<1>7. CASE p.op = "GET_DIRECTORIO"
    BY <1>0, <1>7 DEF Efectos, EstructuraDirectorio, Existentes, Hallado
<1> QED BY <1>0, <1>1, <1>2, <1>3, <1>4, <1>5, <1>6, <1>7 DEF Operaciones

(* What a client that reads the whole of an answer has read.                *)
Leido(m) == Tras(<<>>, m, Len(m))

(* It is the values of its fields.                                          *)
LEMMA LeidoDe ==
    ASSUME NEW m, EsSec(m)
    PROVE  Len(Leido(m)) = Len(m) /\ \A i \in 1 .. Len(m) : Leido(m)[i] = m[i].valor
<1>1. Len(m) \in 0 .. Len(m)
    BY DEF EsSec
<1> QED BY <1>1, TrasDeNada DEF Leido

(* The only field of an answer.                                             *)
LEMMA LeidoUno ==
    ASSUME NEW b, NEW x PROVE Entero(b, x) # <<>> /\ Leido(Entero(b, x))[1] = x
<1> DEFINE m == <<Campo("resultado", b, x)>>
<1>1. EsSec(m) /\ m # <<>> /\ Len(m) = 1 /\ m[1].valor = x
    BY DEF EsSec, Campo
<1>2. Entero(b, x) = m
    BY DEF Entero
<1> HIDE DEF m
<1>3. Leido(m)[1] = m[1].valor
    BY <1>1, LeidoDe
<1> QED BY <1>1, <1>2, <1>3

(* The attributes are told as they were found.                              *)
LEMMA AtributosLeidos ==
    ASSUME NEW r \in Contenidos PROVE Clase(Leido(getAttr(r).manda)) = r
<1> DEFINE m == getAttr(r).manda
<1>1. CASE r = "nada"
  <2>1. m = <<[campo |-> "existe", bytes |-> 4, valor |-> 1]>>
      BY <1>1 DEF getAttr, Existencia, Campo
  <2>2. EsSec(m) /\ Len(m) = 1 /\ m[1].valor = 1
      BY <2>1 DEF EsSec
  <2> HIDE DEF m
  <2>3. Leido(m)[1] = 1
      BY <2>2, LeidoDe
  <2>4. Leido(m)[1] > 0
      BY <2>3
  <2> QED BY <1>1, <2>4, Zenon DEF Clase, m
<1>2. CASE r = "archivo"
  <2>1. m = <<[campo |-> "existe", bytes |-> 4, valor |-> 0],
              [campo |-> "esArchivo", bytes |-> 1, valor |-> TRUE],
              [campo |-> "size", bytes |-> 4, valor |-> Tamanio],
              [campo |-> "lastmod", bytes |-> 4, valor |-> 0]>>
      BY <1>2 DEF getAttr, Existencia, EsArchivo, Lastmod, Campo
  <2>2. EsSec(m) /\ Len(m) = 4 /\ m[1].valor = 0 /\ m[2].valor = TRUE
      BY <2>1 DEF EsSec
  <2> HIDE DEF m
  <2>3. Leido(m)[1] = 0 /\ Leido(m)[2] = TRUE
      BY <2>2, LeidoDe
  <2>4. ~(Leido(m)[1] > 0) /\ Leido(m)[2]
      BY <2>3
  <2> QED BY <1>2, <2>4, Zenon DEF Clase, m
<1>3. CASE r = "directorio"
  <2>1. m = <<[campo |-> "existe", bytes |-> 4, valor |-> 0],
              [campo |-> "esArchivo", bytes |-> 1, valor |-> FALSE],
              [campo |-> "lastmod", bytes |-> 4, valor |-> 0]>>
      BY <1>3 DEF getAttr, Existencia, EsArchivo, Lastmod, Campo
  <2>2. EsSec(m) /\ Len(m) = 3 /\ m[1].valor = 0 /\ m[2].valor = FALSE
      BY <2>1 DEF EsSec
  <2> HIDE DEF m
  <2>3. Leido(m)[1] = 0 /\ Leido(m)[2] = FALSE
      BY <2>2, LeidoDe
  <2>4. ~(Leido(m)[1] > 0) /\ ~Leido(m)[2]
      BY <2>3
  <2> QED BY <1>3, <2>4, Zenon DEF Clase, m
<1> QED BY <1>1, <1>2, <1>3 DEF Contenidos

(* The sequence of a set has its elements, and no other.                     *)
LEMMA EnSecuencia ==
    ASSUME NEW s, IsFiniteSet(s)
    PROVE  /\ Cardinality(s) \in Nat
           /\ s = {SetToSeq(s)[j] : j \in 1 .. Cardinality(s)}
<1> DEFINE n == Cardinality(s)
           g == SetToSeq(s)
<1>1. n \in Nat /\ ExistsBijection(1 .. n, s)
    BY FS_CardinalityType
<1>2. \E f \in [1 .. n -> s] : IsInjective(f)
    BY <1>1 DEF ExistsBijection, Bijection, Injection, IsInjective
<1>3. g \in [1 .. n -> s] /\ IsInjective(g)
    BY <1>2 DEF SetToSeq
<1>4. g \in Injection(1 .. n, s)
    BY <1>3 DEF Injection, IsInjective
<1>5. Cardinality(1 .. n) = n
    BY <1>1, FS_Interval
<1>6. g \in Surjection(1 .. n, s)
    BY <1>4, <1>5, FS_Injection
<1> HIDE DEF g, n
<1>7. s = {g[j] : j \in 1 .. n}
    BY <1>3, <1>6 DEF Surjection
<1> QED BY <1>1, <1>7 DEF g, n

(* Of an answer with the elements of a directory, the names are all of them. *)
LEMMA NombresLeidos ==
    ASSUME NEW s, IsFiniteSet(s), s # NADA, NEW f
    PROVE  LET m == getEstructuraDirectorio(s, f).manda
           IN  m # <<>> /\ Nombres(Leido(m)) = s
<1> DEFINE m == getEstructuraDirectorio(s, f).manda
           n == Cardinality(s)
           g == SetToSeq(s)
<1>1. n \in Nat /\ s = {g[j] : j \in 1 .. n} /\ Cantidad(s) = n
    BY EnSecuencia DEF Cantidad
<1>2. m = [i \in 1 .. 2 + 2 * n |->
             IF i = 1 THEN Campo("tipo", 4, 2)
             ELSE IF i = 2 THEN Campo("cantidad", 4, n)
             ELSE IF i % 2 = 1 THEN Campo("nombre", 17, g[(i - 1) \div 2])
             ELSE Campo("clase", 4, f[g[(i - 1) \div 2]])]
    BY <1>1 DEF getEstructuraDirectorio, ENVIO_DATA_DIRECTORIO
<1> HIDE DEF m, n, g
<1>3. m \in Seq({m[i] : i \in 1 .. 2 + 2 * n}) /\ Len(m) = 2 + 2 * n
    BY <1>1, <1>2
<1>4. EsSec(m) /\ m # <<>>
    BY <1>1, <1>3, EsSecSi, Vacia
<1> DEFINE v == Leido(m)
           impares == {j \in 3 .. Len(v) : j % 2 = 1}
<1>5. Len(v) = 2 + 2 * n /\ \A i \in 1 .. 2 + 2 * n : v[i] = m[i].valor
    BY <1>3, <1>4, LeidoDe
<1> HIDE DEF v
<1>6. ASSUME NEW i \in impares PROVE v[i] \in s
  <2>1. i \in 3 .. 2 + 2 * n /\ i % 2 = 1
      BY <1>5
  <2>2. (i - 1) \div 2 \in 1 .. n
      BY <1>1, <2>1
  <2>3. v[i] = g[(i - 1) \div 2]
      BY <1>1, <1>2, <1>5, <2>1 DEF Campo
  <2> QED BY <1>1, <2>2, <2>3
<1>7. ASSUME NEW x \in s PROVE \E i \in impares : v[i] = x
  <2>1. PICK j \in 1 .. n : x = g[j]
      BY <1>1
  <2>2. /\ 2 * j + 1 \in 3 .. 2 + 2 * n /\ (2 * j + 1) % 2 = 1
        /\ ((2 * j + 1) - 1) \div 2 = j
      BY <1>1
  <2>3. 2 * j + 1 \in impares
      BY <1>5, <2>2
  <2>4. v[2 * j + 1] = g[((2 * j + 1) - 1) \div 2]
      BY <1>1, <1>2, <1>5, <2>2 DEF Campo
  <2> QED BY <2>1, <2>2, <2>3, <2>4
<1>8. {v[i] : i \in impares} = s
    BY <1>6, <1>7
<1>9. Nombres(v) = {v[i] : i \in impares}
    BY DEF Nombres
<1> QED BY <1>4, <1>8, <1>9 DEF v, m

(* Whatever a call finds, if something is answered then it found something, *)
(* and what the client returns is what the service says of it.              *)
LEMMA RespuestaCierta ==
    ASSUME NEW f, NEW p \in Pedido, NEW r, Hallado(p, r),
           Interpretar(p.op, r, f).manda # <<>>
    PROVE  r # NADA /\ Devuelve(p, Leido(Interpretar(p.op, r, f).manda)) = S!Retorno(p, r)
<1> DEFINE m == Interpretar(p.op, r, f).manda
<1> USE CanalAssumption, NadaAssumption
<1>1. CASE p.op = "ABRIR_ARCHIVO"
  <2>1. m = Entero(4, IF r = 0 THEN 0 ELSE 1) /\ r \in {0, -1}
      BY <1>1 DEF Interpretar, abrirArchivo, Hallado
  <2>2. Leido(m)[1] = IF r = 0 THEN 0 ELSE 1
      BY <2>1, LeidoUno
  <2> HIDE DEF m
  <2>3. r # NADA /\ (Leido(m)[1] = 0 <=> r = 0)
      BY <2>1, <2>2
  <2> QED BY <1>1, <2>3 DEF Devuelve, S!Retorno, m
<1>2. CASE p.op = "LEER_ARCHIVO"
  <2>1. r # NADA
      BY <1>2 DEF Interpretar, leerArchivo
  <2> QED BY <1>2, <2>1 DEF Devuelve, S!Retorno
<1>3. CASE p.op \in {"ESCRIBIR_ARCHIVO", "ELIMINAR_ARCHIVO", "RENOMBRAR_ARCHIVO"}
  <2>1. m = Entero(4, r) /\ r \in Int
      BY <1>3 DEF Interpretar, escribirArchivo, eliminarArchivo, renombrarArchivo, Hallado
  <2>2. Leido(m)[1] = r
      BY <2>1, LeidoUno
  <2> HIDE DEF m
  <2> QED BY <1>3, <2>1, <2>2 DEF Devuelve, S!Retorno, m
<1>4. CASE p.op \in {"CREAR_ARCHIVO", "CREAR_DIRECTORIO"}
  <2>1. m = Entero(2, r) /\ r \in Int
      BY <1>4 DEF Interpretar, crearArchivo, crearDirectorio, Hallado
  <2>2. Leido(m)[1] = r
      BY <2>1, LeidoUno
  <2> HIDE DEF m
  <2> QED BY <1>4, <2>1, <2>2 DEF Devuelve, S!Retorno, m
<1>5. CASE p.op = "TRUNCAR_ARCHIVO"
  <2>1. m = Entero(4, r) /\ r \in Int
      BY <1>5 DEF Interpretar, truncarArchivo, Hallado
  <2>2. Leido(m)[1] = r
      BY <2>1, LeidoUno
  <2> HIDE DEF m
  <2> QED BY <1>5, <2>1, <2>2 DEF Devuelve, DevuelveTruncar, S!Retorno, m
<1>6. CASE p.op = "UTIMENS"
  <2>1. m = Entero(4, r) /\ r \in {1, -1}
      BY <1>6 DEF Interpretar, server_utimens, Hallado
  <2>2. Leido(m)[1] = r
      BY <2>1, LeidoUno
  <2> HIDE DEF m
  <2> QED BY <1>6, <2>1, <2>2 DEF Devuelve, DevuelveUtimens, S!Retorno, m
<1>7. CASE p.op = "GET_ATTR"
  <2>1. m = getAttr(r).manda /\ r \in Contenidos
      BY <1>7 DEF Interpretar, Hallado
  <2>2. Clase(Leido(m)) = r
      BY <2>1, AtributosLeidos
  <2> HIDE DEF m
  <2> QED BY <1>7, <2>1, <2>2 DEF Devuelve, S!Retorno, Contenidos, m
<1>8. CASE p.op = "GET_DIRECTORIO"
  <2>1. m = getEstructuraDirectorio(r, f).manda /\ r \in SUBSET Rutas
      BY <1>8 DEF Interpretar, Hallado
  <2>2. IsFiniteSet(r) /\ r # NADA
      BY <2>1, FS_Subset
  <2>3. Nombres(Leido(m)) = r
      BY <2>1, <2>2, NombresLeidos
  <2> HIDE DEF m
  <2> QED BY <1>8, <2>2, <2>3 DEF Devuelve, S!Retorno, m
<1> QED
    BY <1>1, <1>2, <1>3, <1>4, <1>5, <1>6, <1>7, <1>8 DEF Pedido, Operaciones

-----------------------------------------------------------------------------
(* One step, seen from one connection: Correspondencia, and the request the *)
(* service sees.                                                            *)
Pend(A, e, h, ef) ==
    IF /\ e.pedido # NADA
       /\ \/ e.i > Len(Campos(e.pedido))
          \/ /\ e.pc = "ido" /\ e.i = Len(Campos(e.pedido))
             /\ LlevaDatos(A) \/ h.pc = "atender" \/ ef # NADA
    THEN e.pedido ELSE NADA

(* The client that is sending has not sent the last field: the thread has   *)
(* not got it, nor has anything been answered.                              *)
LEMMA Mandando ==
    ASSUME NEW A, NEW B, NEW x, NEW e, NEW h, Fase(A, B, x, e, h), EsSec(A),
           e.pc = "mandando"
    PROVE  /\ e.pedido \in Pedido /\ e.i \in 1 .. Len(Campos(e.pedido))
           /\ Len(Campos(e.pedido)) \in Nat
           /\ x = "abierto" /\ B = <<>> /\ h.pc \notin {"atender", "contestar"}
           /\ Leidos(h) + Len(A) = e.i - 1
           /\ ~LlevaDatos(A)
<1> DEFINE m == Campos(e.pedido)
<1>1. Pidiendo(A, B, x, e, h)
    BY DEF Fase, Afuera, Tranquilo, Respondiendo, SinRespuesta, Ido
<1>2. /\ e.pedido \in Pedido /\ x = "abierto" /\ B = <<>> /\ Adentro(h, e.pedido)
      /\ Leidos(h) + Len(A) = e.i - 1
      /\ e.i \in 1 .. Len(m) + 1 /\ e.i # Len(m) + 1
    BY <1>1 DEF Pidiendo, EnCamino
<1>3. \A i \in 1 .. Len(A) : A[i] = m[Leidos(h) + i]
    BY <1>1 DEF Pidiendo
<1>4. Len(m) \in Nat /\ \A k \in 1 .. Len(m) : m[k].campo = "datos" => k = Len(m)
    BY <1>2, LosCampos, Leidas DEF DatosAlFinal
<1>5. Len(A) \in Nat
    BY DEF EsSec
<1>6. Leidos(h) \in Nat /\ (h.pc = "atender" => Leidos(h) = Len(m))
    BY <1>2, <1>4 DEF Adentro, Quieto, Leidos
<1>7. h.pc # "contestar"
    BY <1>2 DEF Adentro, Quieto
<1> HIDE DEF m
<1>8. e.i \in 1 .. Len(m)
    BY <1>2, <1>4
<1>9. h.pc # "atender"
    BY <1>2, <1>4, <1>5, <1>6, <1>8
<1>10. ~LlevaDatos(A)
  <2>1. SUFFICES ASSUME A # <<>> PROVE A[Len(A)].campo # "datos"
      BY DEF LlevaDatos
  <2>2. Len(A) \in 1 .. Len(A)
      BY <1>5, <2>1, Vacia
  <2>3. A[Len(A)] = m[Leidos(h) + Len(A)]
      BY <1>3, <2>2
  <2>4. Leidos(h) + Len(A) \in 1 .. Len(m) /\ Leidos(h) + Len(A) # Len(m)
      BY <1>2, <1>4, <1>6, <1>8, <2>2
  <2> QED BY <1>4, <2>3, <2>4
<1> QED BY <1>2, <1>4, <1>7, <1>8, <1>9, <1>10 DEF m

(* The client of a thread that runs a call, or is going to.                 *)
LEMMA ConLlamada ==
    ASSUME NEW A, NEW B, NEW x, NEW e, NEW h, Fase(A, B, x, e, h), EsSec(A),
           h.pc \in {"campos", "atender"}
    PROVE  /\ e.pedido \in Pedido /\ EnCamino(A, h, e.pedido) /\ h.op = e.pedido.op
           /\ Len(Campos(e.pedido)) \in Nat
           /\ e.pc \in {"mandando", "esperando", "ido"}
           /\ e.pc = "esperando" => B = <<>> /\ e.leido = <<>>
           /\ h.pc = "atender" => A = <<>> /\ Leidos(h) = Len(Campos(e.pedido))
                                  /\ h.k = Len(Campos(e.pedido))
<1>1. Pidiendo(A, B, x, e, h) \/ Ido(A, B, x, e, h)
    BY DEF Fase, Afuera, Tranquilo, Quieto, Respondiendo, SinRespuesta
<1>2. e.pedido \in Pedido /\ EnCamino(A, h, e.pedido)
    BY <1>1 DEF Pidiendo, Ido, Quieto
<1>3. h.op = e.pedido.op /\ Len(Campos(e.pedido)) \in Nat
    BY <1>2, LosCampos DEF EnCamino, Adentro, Quieto
<1>4. ASSUME h.pc = "atender"
      PROVE  A = <<>> /\ Leidos(h) = Len(Campos(e.pedido)) /\ h.k = Len(Campos(e.pedido))
  <2>1. Leidos(h) = Len(Campos(e.pedido)) /\ h.k = Len(Campos(e.pedido))
      BY <1>2, <1>4 DEF EnCamino, Adentro, Quieto, Leidos
  <2>2. Len(A) \in Nat /\ Leidos(h) + Len(A) <= Len(Campos(e.pedido))
      BY <1>2 DEF EnCamino, EsSec
  <2>3. Len(A) = 0
      BY <1>3, <2>1, <2>2
  <2> QED BY <2>1, <2>3, Vacia
<1>5. /\ e.pc \in {"mandando", "esperando", "ido"}
      /\ e.pc = "esperando" => B = <<>> /\ e.leido = <<>>
    BY <1>1 DEF Pidiendo, Ido
<1> QED BY <1>2, <1>3, <1>4, <1>5

(* The last of what is on its way is still the last when the first is taken. *)
LEMMA UltimoQueda ==
    ASSUME NEW A, EsSec(A), Len(A) > 1
    PROVE  A # <<>> /\ Tail(A) # <<>> /\ Tail(A)[Len(Tail(A))] = A[Len(A)]
<1>1. A # <<>>
    BY Vacia
<1>2. /\ Len(A) \in Nat \ {0} /\ Len(Tail(A)) = Len(A) - 1 /\ EsSec(Tail(A))
      /\ \A i \in 1 .. Len(A) - 1 : Tail(A)[i] = A[i + 1]
    BY <1>1, Resto
<1>3. Len(A) - 1 \in 1 .. Len(A) - 1 /\ Len(A) - 1 + 1 = Len(A)
    BY <1>2
<1>4. Len(Tail(A)) # 0
    BY <1>2
<1> QED BY <1>1, <1>2, <1>3, <1>4, Vacia

(* The client connects.                                                     *)
LEMMA CorConectar ==
    ASSUME NEW A, NEW B, NEW x, NEW e, NEW h, NEW ef, NEW d, Fase(A, B, x, e, h),
           LadoCliente(A, e, h, ef, d), LadoServidor(A, e, h, ef), e.pc = "afuera"
    PROVE  /\ LadoCliente(A, Libre, h, ef, d) /\ LadoServidor(A, Libre, h, ef)
           /\ Respuesta(B, Libre, h, ef)
           /\ Pend(A, Libre, h, ef) = Pend(A, e, h, ef)
<1>1. A = <<>> /\ h.pc = "no"
    BY DEF Fase, Afuera, Tranquilo, Pidiendo, Respondiendo, SinRespuesta, Ido
<1>2. e.pedido = NADA /\ ef = NADA /\ h.rutas = <<>>
    BY <1>1 DEF LadoCliente, LadoServidor
<1>3. LadoServidor(A, Libre, h, ef)
    BY <1>1, <1>2 DEF LadoServidor
<1> QED BY <1>2, <1>3 DEF LadoCliente, Respuesta, Pend, Libre

(* It begins a call: nothing of it is made yet, also without a server.      *)
LEMMA CorLlamar ==
    ASSUME NEW A, NEW B, NEW e, NEW h, NEW ef, NEW d,
           LadoCliente(A, e, h, ef, d), e.pc = "libre", NEW p \in Pedido,
           NEW e2, e2.pc = "mandando", e2.pedido = p, e2.i = e.i
    PROVE  /\ LadoCliente(A, e2, h, ef, NADA) /\ Respuesta(B, e2, h, ef)
           /\ LadoServidor(A, e, h, ef) /\ A = <<>> /\ h.pc \in {"no", "cabecera"}
                => LadoServidor(A, e2, h, ef)
           /\ Pend(A, e, h, ef) = NADA /\ Pend(A, e2, h, ef) = NADA
<1>2. e.i = 1 /\ e.pedido = NADA /\ ef = NADA
    BY DEF LadoCliente
<1>3. /\ Len(Campos(p)) \in Nat /\ 1 \in 1 .. Len(Campos(p)) /\ 1 # Len(Campos(p))
      /\ ~(1 > Len(Campos(p)))
    BY LosCampos
<1>4. LadoCliente(A, e2, h, ef, NADA) /\ Respuesta(B, e2, h, ef)
    BY <1>2, <1>3 DEF LadoCliente, Respuesta
<1>5. ASSUME LadoServidor(A, e, h, ef), A = <<>>, h.pc \in {"no", "cabecera"}
      PROVE  LadoServidor(A, e2, h, ef)
    BY <1>5 DEF LadoServidor
<1>6. Pend(A, e, h, ef) = NADA /\ Pend(A, e2, h, ef) = NADA
    BY <1>2, <1>3 DEF Pend
<1> QED BY <1>4, <1>5, <1>6

(* It sends its next field.                                                 *)
UnoMas(A, e, A2, e2) ==
    /\ A2 = Append(A, Campos(e.pedido)[e.i])
    /\ e2.pedido = e.pedido /\ e2.i = e.i + 1
    /\ e2.pc = IF e.i = Len(Campos(e.pedido)) THEN "esperando" ELSE "mandando"

(* It sends one field more: the request is made with the last.              *)
LEMMA CorMandar ==
    ASSUME NEW A, NEW B, NEW x, NEW e, NEW h, NEW ef, NEW d, Fase(A, B, x, e, h),
           LadoCliente(A, e, h, ef, d), LadoServidor(A, e, h, ef), EsSec(A),
           e.pc = "mandando",
           NEW e2, NEW A2, UnoMas(A, e, A2, e2), EsSec(A2), Fase(A2, B, x, e2, h)
    PROVE  /\ LadoCliente(A2, e2, h, ef, d) /\ LadoServidor(A2, e2, h, ef)
           /\ Respuesta(B, e2, h, ef)
           /\ Pend(A, e, h, ef) = NADA
           /\ Pend(A2, e2, h, ef) = IF e.i = Len(Campos(e.pedido)) THEN e.pedido ELSE NADA
<1> DEFINE m == Campos(e.pedido)
<1>0. /\ A2 = Append(A, m[e.i]) /\ e2.pedido = e.pedido /\ e2.i = e.i + 1
      /\ e2.pc = IF e.i = Len(m) THEN "esperando" ELSE "mandando"
    BY DEF UnoMas
<1>1. /\ e.pedido \in Pedido /\ e.i \in 1 .. Len(m) /\ Len(m) \in Nat /\ B = <<>>
      /\ h.pc \notin {"atender", "contestar"} /\ Leidos(h) + Len(A) = e.i - 1
    BY Mandando
<1>2. e2.pc = "mandando" => ~LlevaDatos(A2)
    BY Mandando
<1>3. Len(A) \in Nat /\ Len(A2) = Len(A) + 1
    BY <1>0, Agregado
<1>4. e.pedido # NADA /\ ef = NADA /\ d = NADA
    BY <1>1, NadaAssumption DEF LadoCliente
<1>5. Leidos(h) \in Int
    BY <1>1, LosCampos, ConLlamada DEF Leidos, Fase, Afuera, Tranquilo, Pidiendo,
       Respondiendo, SinRespuesta, Ido, EnCamino, Adentro, Quieto
<1> HIDE DEF m
<1>6. LadoCliente(A2, e2, h, ef, d)
    BY <1>0, <1>1, <1>2, <1>4 DEF LadoCliente, m
<1>7. LadoServidor(A2, e2, h, ef)
  <2>1. e2.i = Leidos(h) + Len(A2) + 1
      BY <1>0, <1>1, <1>3, <1>5
  <2> QED BY <1>0, <1>4, <2>1 DEF LadoServidor, Enviado
<1>8. Respuesta(B, e2, h, ef)
    BY <1>1 DEF Respuesta
<1>9. /\ Pend(A, e, h, ef) = NADA
      /\ Pend(A2, e2, h, ef) = IF e.i = Len(m) THEN e.pedido ELSE NADA
  <2>1. ~(e.i > Len(m)) /\ (e.i + 1 > Len(m) <=> e.i = Len(m))
      BY <1>1
  <2> QED BY <1>0, <1>4, <2>1 DEF Pend, m
<1> QED BY <1>6, <1>7, <1>8, <1>9 DEF m

(* It reads one field of an answer that has others.                         *)
LEMMA CorSeguir ==
    ASSUME NEW A, NEW B, NEW x, NEW e, NEW h, NEW ef, NEW d,
           Respondiendo(A, B, x, e, h), LadoCliente(A, e, h, ef, d), Respuesta(B, e, h, ef),
           EsSec(B), B # <<>>,
           NEW e2, e2.pc = e.pc, e2.pedido = e.pedido, e2.i = e.i,
           e2.leido = Append(e.leido, Head(B).valor)
    PROVE  /\ LadoCliente(A, e2, h, ef, d) /\ Respuesta(Tail(B), e2, h, ef)
           /\ LadoServidor(A, e, h, ef) => LadoServidor(A, e2, h, ef)
           /\ Pend(A, e2, h, ef) = Pend(A, e, h, ef)
<1> DEFINE r == Falta(B, h)
<1>1. /\ e.pc = "esperando" /\ A = <<>> /\ EsSec(e.leido)
      /\ (h.pc = "contestar" /\ EsSec(h.cola)) \/ h.pc = "cabecera"
    BY DEF Respondiendo
<1>2. EsSec(r) /\ r # <<>> /\ r[1] = B[1] /\ Tail(r) = Falta(Tail(B), h)
    BY <1>1, LoQueFalta
<1>3. Head(B) = B[1]
    BY Resto
<1>4. Len(r) \in Nat \ {0} /\ Len(Tail(r)) = Len(r) - 1
    BY <1>2, Resto
<1> HIDE DEF r
<1>5. \A n \in 0 .. Len(r) - 1 : Tras(e2.leido, Tail(r), n) = Tras(e.leido, r, n + 1)
    BY <1>1, <1>2, <1>3, TrasUnoMas
<1>6. /\ ef # NADA
      /\ Devuelve(e.pedido, Tras(e.leido, r, Len(r))) = S!Retorno(e.pedido, ef)
    BY <1>1 DEF Respuesta, r
<1>7. Tras(e2.leido, Tail(r), Len(Tail(r))) = Tras(e.leido, r, Len(r))
  <2>1. Len(r) - 1 \in 0 .. Len(r) - 1 /\ Len(r) - 1 + 1 = Len(r)
      BY <1>4
  <2> QED BY <1>4, <1>5, <2>1
<1>8. Respuesta(Tail(B), e2, h, ef)
    BY <1>2, <1>6, <1>7 DEF Respuesta
<1>9. LadoCliente(A, e2, h, ef, d)
    BY <1>1 DEF LadoCliente
<1>10. LadoServidor(A, e, h, ef) => LadoServidor(A, e2, h, ef)
    BY <1>1 DEF LadoServidor
<1>11. Pend(A, e2, h, ef) = Pend(A, e, h, ef)
    BY DEF Pend
<1> QED BY <1>8, <1>9, <1>10, <1>11

(* With the first field of B it has read all of the answer: v.              *)
Completa(e, B, v) ==
    /\ v = Append(e.leido, Head(B).valor)
    /\ ~(Len(v) < Len(Llamada(e.pedido, v).recibe))

(* It reads the last: it returns what the service says.                     *)
LEMMA CorVolver ==
    ASSUME NEW A, NEW B, NEW x, NEW e, NEW h, NEW ef, NEW d,
           Respondiendo(A, B, x, e, h), LadoCliente(A, e, h, ef, d), Respuesta(B, e, h, ef),
           EsSec(B), B # <<>>, NEW v, Completa(e, B, v)
    PROVE  /\ Pend(A, e, h, ef) = e.pedido /\ e.pedido \in Pedido /\ ef # NADA
           /\ Devuelve(e.pedido, v) = S!Retorno(e.pedido, ef)
<1> DEFINE r == Falta(B, h)
<1>0. /\ v = Append(e.leido, Head(B).valor)
      /\ ~(Len(v) < Len(Llamada(e.pedido, v).recibe))
    BY DEF Completa
<1>1. /\ e.pc = "esperando" /\ e.pedido \in Pedido /\ EsSec(e.leido)
      /\ (h.pc = "contestar" /\ EsSec(h.cola)) \/ h.pc = "cabecera"
      /\ Legible(e.pedido, e.leido, r)
    BY DEF Respondiendo
<1>2. EsSec(r) /\ r # <<>> /\ r[1] = B[1]
    BY <1>1, LoQueFalta
<1>3. Head(B) = B[1]
    BY Resto
<1>4. Len(r) \in Nat \ {0}
    BY <1>2, Resto
<1> HIDE DEF r
<1>5. ~(Len(r) > 1)
    BY <1>0, <1>1, <1>2, <1>3, Avance
<1>6. Len(r) = 1
  <2>1. \A n \in Nat \ {0} : ~(n > 1) => n = 1
      OBVIOUS
  <2> QED BY <1>4, <1>5, <2>1, Zenon
<1>7. Tras(e.leido, r, Len(r)) = v
    BY <1>0, <1>1, <1>2, <1>3, <1>6, TrasUnoMas
<1>8. /\ ef # NADA
      /\ Devuelve(e.pedido, Tras(e.leido, r, Len(r))) = S!Retorno(e.pedido, ef)
    BY <1>1 DEF Respuesta, r
<1>9. Pend(A, e, h, ef) = e.pedido
  <2>1. e.i = Len(Campos(e.pedido)) + 1 /\ Len(Campos(e.pedido)) \in Nat
      BY <1>1, LosCampos DEF LadoCliente
  <2>2. e.i > Len(Campos(e.pedido))
      BY <2>1
  <2> QED BY <2>2 DEF Pend
<1> QED BY <1>1, <1>7, <1>8, <1>9

(* It is done with the call.                                                *)
LEMMA CorLibre ==
    ASSUME NEW A, NEW B, NEW e, NEW h, NEW ef, NEW d
    PROVE  /\ LadoCliente(A, Libre, h, NADA, d) /\ Respuesta(B, Libre, h, NADA)
           /\ LadoServidor(A, e, h, ef) /\ A = <<>> /\ h.pc \in {"no", "cabecera"}
                => LadoServidor(A, Libre, h, NADA)
           /\ Pend(A, Libre, h, NADA) = NADA
<1>1. Libre.pc = "libre" /\ Libre.pedido = NADA /\ Libre.i = 1
    BY DEF Libre
<1> QED BY <1>1 DEF LadoCliente, Respuesta, LadoServidor, Pend

(* It is gone, and sent nothing more: the request is made, or not, as before.*)
LEMMA CorIrse ==
    ASSUME NEW A, NEW B, NEW e, NEW h, NEW ef, NEW d, LadoCliente(A, e, h, ef, d),
           e.pc \in {"libre", "mandando", "esperando"},
           NEW e2, e2.pc = "ido", e2.pedido = e.pedido, e2.i = e.i
    PROVE  /\ LadoCliente(A, e2, h, ef, d) /\ Respuesta(B, e2, h, ef)
           /\ LadoServidor(A, e, h, ef) => LadoServidor(A, e2, h, ef)
           /\ Pend(A, e2, h, ef) = Pend(A, e, h, ef)
<1>1. LadoCliente(A, e2, h, ef, d) /\ Respuesta(B, e2, h, ef)
    BY DEF LadoCliente, Respuesta
<1>2. LadoServidor(A, e, h, ef) => LadoServidor(A, e2, h, ef)
    BY DEF LadoServidor, Enviado
<1>3. Pend(A, e2, h, ef) = Pend(A, e, h, ef)
  <2>1. CASE e.pc = "mandando"
    <3>1. e.i = Len(Campos(e.pedido)) => ~LlevaDatos(A) /\ h.pc # "atender" /\ ef = NADA
        BY <2>1 DEF LadoCliente
    <3> QED BY <2>1, <3>1 DEF Pend
  <2>2. CASE e.pc = "esperando"
    <3>1. e.i = Len(Campos(e.pedido)) + 1 /\ Len(Campos(e.pedido)) \in Nat
        BY <2>2, LosCampos DEF LadoCliente
    <3>2. e.i # Len(Campos(e.pedido))
        BY <3>1
    <3> QED BY <2>2, <3>2 DEF Pend
  <2>3. CASE e.pc = "libre"
      BY <2>3 DEF LadoCliente, Pend
  <2> QED BY <2>1, <2>2, <2>3
<1> QED BY <1>1, <1>2, <1>3

(* It is killed within the data it sends.                                   *)
Cortado(A, e, A2, e2) ==
    /\ e.pc = "mandando" /\ Campos(e.pedido)[e.i].campo = "datos"
    /\ A2 = Append(A, CortadoEn(Campos(e.pedido)[e.i]))
    /\ e2.pc = "ido" /\ e2.pedido = e.pedido /\ e2.i = e.i

(* It is killed within the data it was sending: that is the request made.   *)
LEMMA CorCortar ==
    ASSUME NEW A, NEW B, NEW x, NEW e, NEW h, NEW ef, NEW d, Fase(A, B, x, e, h),
           LadoCliente(A, e, h, ef, d), LadoServidor(A, e, h, ef), EsSec(A),
           NEW B2, NEW A2, NEW e2, Cortado(A, e, A2, e2)
    PROVE  /\ LadoCliente(A2, e2, h, ef, d) /\ Respuesta(B2, e2, h, ef)
           /\ LadoServidor(A2, e2, h, ef)
           /\ Pend(A, e, h, ef) = NADA
           /\ Pend(A2, e2, h, ef) = e.pedido /\ e.pedido \in Pedido
<1> DEFINE m == Campos(e.pedido)
<1>0. /\ e.pc = "mandando" /\ m[e.i].campo = "datos"
      /\ A2 = Append(A, CortadoEn(m[e.i]))
      /\ e2.pc = "ido" /\ e2.pedido = e.pedido /\ e2.i = e.i
    BY DEF Cortado
<1>1. /\ e.pedido \in Pedido /\ e.i \in 1 .. Len(m) /\ Len(m) \in Nat
      /\ Leidos(h) + Len(A) = e.i - 1
    BY <1>0, Mandando
<1>2. e.i = Len(m) /\ CortadoEn(m[e.i]).campo = "datos"
    BY <1>0, <1>1, Leidas, LosCampos DEF DatosAlFinal
<1>3. /\ Len(A) \in Nat /\ Len(A2) = Len(A) + 1 /\ EsSec(A2)
      /\ A2[Len(A) + 1] = CortadoEn(m[e.i])
    BY <1>0, Agregado
<1>4. Len(A2) # 0
    BY <1>0, <1>3
<1>5. LlevaDatos(A2)
    BY <1>0, <1>2, <1>3, <1>4, Vacia DEF LlevaDatos
<1>6. e.pedido # NADA /\ ef = NADA
    BY <1>0, <1>1, NadaAssumption DEF LadoCliente
<1>7. Leidos(h) \in Int
    BY <1>0, <1>1, LosCampos, ConLlamada DEF Leidos, Fase, Afuera, Tranquilo, Pidiendo,
       Respondiendo, SinRespuesta, Ido, EnCamino, Adentro, Quieto
<1> HIDE DEF m
<1>8. Leidos(h) + Len(A2) = e2.i
    BY <1>0, <1>1, <1>3, <1>7
<1>9. LadoServidor(A2, e2, h, ef)
    BY <1>0, <1>2, <1>6, <1>8 DEF LadoServidor, Enviado, m
<1>10. LadoCliente(A2, e2, h, ef, d) /\ Respuesta(B2, e2, h, ef)
    BY <1>0, <1>1 DEF LadoCliente, Respuesta
<1>11. ~(e.i > Len(m))
    BY <1>0, <1>1
<1> QED BY <1>0, <1>1, <1>2, <1>5, <1>6, <1>9, <1>10, <1>11 DEF Pend, m

(* The thread does something that is not about the call.                    *)
LEMMA CorAparte ==
    ASSUME NEW A, NEW B, NEW e, NEW h, NEW ef, NEW d,
           LadoCliente(A, e, h, ef, d), LadoServidor(A, e, h, ef), Respuesta(B, e, h, ef),
           NEW h2, h.pc \notin {"atender", "contestar"},
           h2.pc \notin {"campos", "atender"}, h2.pc = "cabecera" => h2.rutas = <<>>,
           h2.pc # "no", A = <<>> \/ Leidos(h2) = Leidos(h),
           e.pc = "esperando" => h2.pc # "contestar"
    PROVE  /\ LadoCliente(A, e, h2, ef, d) /\ LadoServidor(A, e, h2, ef)
           /\ Respuesta(B, e, h2, ef)
           /\ Pend(A, e, h2, ef) = Pend(A, e, h, ef)
<1>1. LadoCliente(A, e, h2, ef, d)
    BY DEF LadoCliente
<1>2. LadoServidor(A, e, h2, ef)
    BY DEF LadoServidor
<1>3. Respuesta(B, e, h2, ef)
    BY DEF Respuesta, Falta
<1>4. Pend(A, e, h2, ef) = Pend(A, e, h, ef)
    BY DEF Pend
<1> QED BY <1>1, <1>2, <1>3, <1>4

(* What the first field on its way is called.                               *)
LEMMA PrimerCampo ==
    ASSUME NEW A, NEW h, NEW p \in Pedido, EnCamino(A, h, p), EsSec(A), A # <<>>
    PROVE  /\ Leidos(h) \in Nat /\ Leidos(h) + 1 \in 1 .. Len(Campos(p))
           /\ A[1].campo = Campos(p)[Leidos(h) + 1].campo
           /\ A[1].campo = "ruta" => A[1].valor = Campos(p)[Leidos(h) + 1].valor
<1> DEFINE m == Campos(p)
<1>1. Len(m) \in Nat /\ \A k \in 1 .. Len(m) : CortadoEn(m[k]).campo = m[k].campo
    BY LosCampos
<1>2. Len(A) \in Nat \ {0}
    BY Resto
<1>3. /\ Leidos(h) + Len(A) <= Len(m) /\ Adentro(h, p)
      /\ A[1] = m[Leidos(h) + 1]
           \/ (m[Leidos(h) + 1].campo = "datos" /\ A[1] = CortadoEn(m[Leidos(h) + 1]))
  <2>1. 1 \in 1 .. Len(A)
      BY <1>2
  <2> QED BY <2>1 DEF EnCamino
<1>4. Leidos(h) \in Nat
    BY <1>1, <1>3 DEF Adentro, Quieto, Leidos
<1> HIDE DEF m
<1>5. Leidos(h) + 1 \in 1 .. Len(m)
    BY <1>1, <1>2, <1>3, <1>4
<1>6. A[1].campo = m[Leidos(h) + 1].campo
    BY <1>1, <1>3, <1>5
<1>7. A[1].campo = "ruta" => A[1].valor = m[Leidos(h) + 1].valor
    BY <1>3, <1>6
<1> QED BY <1>4, <1>5, <1>6, <1>7 DEF m

(* The thread reads one field: the request is made, or not, as before.      *)
LEMMA CorLeer ==
    ASSUME NEW A, NEW B, NEW x, NEW e, NEW h, NEW ef, NEW d, Fase(A, B, x, e, h),
           LadoCliente(A, e, h, ef, d), LadoServidor(A, e, h, ef), Respuesta(B, e, h, ef),
           EsSec(A), A # <<>>, h.pc \in {"cabecera", "campos"},
           NEW h2, h2.pc \in {"campos", "atender"}, Leidos(h2) = Leidos(h) + 1,
           h2.pc = "atender" <=> Leidos(h2) = Len(Campos(e.pedido)),
           h2.rutas = RutasLeidas(e.pedido, h2.k), Fase(Tail(A), B, x, e, h2)
    PROVE  /\ LadoCliente(Tail(A), e, h2, ef, d) /\ LadoServidor(Tail(A), e, h2, ef)
           /\ Respuesta(B, e, h2, ef)
           /\ Pend(Tail(A), e, h2, ef) = Pend(A, e, h, ef)
<1> DEFINE m == Campos(e.pedido)
<1>1. e.pedido \in Pedido /\ EnCamino(A, h, e.pedido)
    BY ConPedido
<1>2. /\ EsSec(Tail(A)) /\ Len(A) \in Nat \ {0} /\ Len(Tail(A)) = Len(A) - 1
    BY Resto
<1>3. /\ Leidos(h) \in Nat /\ Leidos(h) + 1 \in 1 .. Len(m)
      /\ A[1].campo = m[Leidos(h) + 1].campo
    BY <1>1, PrimerCampo
<1>4. ef = NADA /\ Enviado(Leidos(h) + Len(A), e)
    BY DEF LadoServidor
<1>5. Leidos(h) + Len(A) <= Len(m)
    BY <1>1 DEF EnCamino
<1>6. Len(m) \in Nat /\ \A k \in 1 .. Len(m) : m[k].campo = "datos" => k = Len(m)
    BY <1>1, LosCampos, Leidas DEF DatosAlFinal
<1>7. LadoCliente(Tail(A), e, h2, ef, d)
  <2>1. e.pc = "mandando" => ~LlevaDatos(Tail(A)) /\ h2.pc # "atender"
      BY <1>2, Mandando
  <2> QED BY <2>1 DEF LadoCliente
<1>8. LadoServidor(Tail(A), e, h2, ef)
  <2>1. Leidos(h2) + Len(Tail(A)) = Leidos(h) + Len(A)
      BY <1>2, <1>3
  <2>2. Enviado(Leidos(h2) + Len(Tail(A)), e)
      BY <1>4, <2>1, Zenon
  <2> QED BY <1>4, <2>2 DEF LadoServidor
<1>9. Respuesta(B, e, h2, ef)
    BY DEF Respuesta, Falta
<1>10. ASSUME e.pc = "ido", e.i = Len(m)
       PROVE  LlevaDatos(Tail(A)) \/ h2.pc = "atender" <=> LlevaDatos(A)
  <2>1. CASE Len(A) > 1
    <3>1. LlevaDatos(Tail(A)) <=> LlevaDatos(A)
        BY <2>1, UltimoQueda DEF LlevaDatos
    <3>2. Leidos(h2) # Len(m)
        BY <1>2, <1>3, <1>5, <1>6, <2>1
    <3> QED BY <3>1, <3>2
  <2>2. CASE Len(A) = 1
    <3>1. ~LlevaDatos(Tail(A))
      <4>1. Len(Tail(A)) = 0
          BY <1>2, <2>2
      <4> QED BY <1>2, <4>1, Vacia DEF LlevaDatos
    <3>2. LlevaDatos(A) <=> m[Leidos(h) + 1].campo = "datos"
        BY <1>3, <2>2 DEF LlevaDatos
    <3>3. \/ e.i = Leidos(h) + 1 + 1
          \/ Leidos(h) + 1 = Len(m) /\ m[Leidos(h) + 1].campo = "datos"
        BY <1>4, <2>2 DEF Enviado
    <3> HIDE DEF m
    <3>4. e.i = Leidos(h) + 1 + 1 => Leidos(h) + 1 # Len(m)
        BY <1>3, <1>6, <1>10
    <3> QED BY <1>3, <1>6, <3>1, <3>2, <3>3, <3>4 DEF m
  <2>3. Len(A) > 1 \/ Len(A) = 1
      BY <1>2
  <2> QED BY <2>1, <2>2, <2>3
<1>11. Pend(Tail(A), e, h2, ef) = Pend(A, e, h, ef)
    BY <1>4, <1>10 DEF Pend
<1> QED BY <1>7, <1>8, <1>9, <1>11

(* The thread reads the type.                                               *)
TipoLeido(A, h, h2) == h2 = [h EXCEPT !.pc = "campos", !.op = Head(A).valor]

(* Then the request is made, or not, as before.                             *)
LEMMA CorCabecera ==
    ASSUME NEW A, NEW B, NEW x, NEW e, NEW h, NEW ef, NEW d, Fase(A, B, x, e, h),
           LadoCliente(A, e, h, ef, d), LadoServidor(A, e, h, ef), Respuesta(B, e, h, ef),
           EsSec(A), A # <<>>, FormaHilo(h), h.pc = "cabecera",
           NEW h3, TipoLeido(A, h, h3)
    PROVE  /\ LadoCliente(Tail(A), e, h3, ef, d) /\ LadoServidor(Tail(A), e, h3, ef)
           /\ Respuesta(B, e, h3, ef)
           /\ Pend(Tail(A), e, h3, ef) = Pend(A, e, h, ef)
<1> DEFINE h2 == [h EXCEPT !.pc = "campos", !.op = Head(A).valor]
<1>1. e.pedido \in Pedido /\ EnCamino(A, h, e.pedido)
    BY ConPedido
<1>2. /\ h2.pc = "campos" /\ h2.k = h.k /\ h2.rutas = h.rutas
      /\ Leidos(h) = 0 /\ Leidos(h2) = 1
  <2>1. h2.pc = "campos" /\ h2.k = h.k /\ h2.rutas = h.rutas
      BY DEF FormaHilo
  <2>2. Leidos(h) = 0 /\ Leidos(h2) = 1
      BY <1>1, Cabecera
  <2> QED BY <2>1, <2>2
<1>3. Fase(Tail(A), B, x, e, h2)
    BY AlLeerCabecera
<1> HIDE DEF h2
<1>4. h2.k = 1
    BY <1>2 DEF Leidos
<1>5. h2.rutas = RutasLeidas(e.pedido, h2.k)
    BY <1>1, <1>2, <1>4, Leidas DEF LadoServidor, BienLeidas
<1>6. Leidos(h2) = Leidos(h) + 1 /\ Leidos(h2) # Len(Campos(e.pedido))
    BY <1>1, <1>2, LosCampos
<1>7. h2.pc \in {"campos", "atender"} /\ h2.pc # "atender"
    BY <1>2
<1>8. /\ LadoCliente(Tail(A), e, h2, ef, d) /\ LadoServidor(Tail(A), e, h2, ef)
      /\ Respuesta(B, e, h2, ef)
      /\ Pend(Tail(A), e, h2, ef) = Pend(A, e, h, ef)
    BY <1>3, <1>5, <1>6, <1>7, CorLeer
<1> QED BY <1>8 DEF TipoLeido, h2

(* The thread reads one field more, and keeps it if it is a path.           *)
CampoLeido(A, h, f, h2) ==
    h2 = [h EXCEPT !.k = @ + 1,
            !.rutas = IF Head(A).campo = "ruta"
                      THEN Append(h.rutas, Head(A).valor) ELSE h.rutas,
            !.pc = IF h.k = Len(Interpretar(h.op, NADA, f).lee) THEN "atender" ELSE @]

(* Then it knows the paths of the request as far as it has read.            *)
LEMMA CorCampo ==
    ASSUME NEW A, NEW B, NEW x, NEW e, NEW h, NEW ef, NEW d, Fase(A, B, x, e, h),
           LadoCliente(A, e, h, ef, d), LadoServidor(A, e, h, ef), Respuesta(B, e, h, ef),
           EsSec(A), A # <<>>, FormaHilo(h), h.pc = "campos", NEW f,
           NEW h3, CampoLeido(A, h, f, h3)
    PROVE  /\ LadoCliente(Tail(A), e, h3, ef, d) /\ LadoServidor(Tail(A), e, h3, ef)
           /\ Respuesta(B, e, h3, ef)
           /\ Pend(Tail(A), e, h3, ef) = Pend(A, e, h, ef)
<1> DEFINE R == IF Head(A).campo = "ruta" THEN Append(h.rutas, Head(A).valor) ELSE h.rutas
           lee == Len(Interpretar(h.op, NADA, f).lee)
           h2 == [h EXCEPT !.k = @ + 1, !.rutas = R,
                    !.pc = IF h.k = lee THEN "atender" ELSE @]
           m == Campos(e.pedido)
<1>1. e.pedido \in Pedido /\ EnCamino(A, h, e.pedido)
    BY ConPedido
<1>2. Fase(Tail(A), B, x, e, h2)
    BY AlLeerCampo
<1>3. Head(A) = A[1]
    BY Resto
<1>4. Len(m) = lee + 1 /\ lee \in Nat
    BY <1>1, PedidoCalza DEF EnCamino, Adentro, Quieto, Iguales
<1>5. h.k \in 1 .. Len(m) - 1 /\ Leidos(h) = h.k
    BY <1>1 DEF EnCamino, Adentro, Quieto, Leidos
<1> HIDE DEF R, lee
<1>6. /\ h2.k = h.k + 1 /\ h2.rutas = R
      /\ h2.pc = IF h.k = lee THEN "atender" ELSE "campos"
    BY DEF FormaHilo
<1> HIDE DEF h2, m
<1>7. Leidos(h2) = Leidos(h) + 1 /\ (h2.pc = "atender" <=> Leidos(h2) = Len(m))
  <2>1. Leidos(h2) = h.k + 1
      BY <1>6 DEF Leidos
  <2> QED BY <1>4, <1>5, <1>6, <2>1
<1>8. h.rutas = RutasLeidas(e.pedido, h.k)
    BY DEF LadoServidor
<1>9. h2.rutas = RutasLeidas(e.pedido, h2.k)
  <2>1. /\ A[1].campo = m[h.k + 1].campo
        /\ A[1].campo = "ruta" => A[1].valor = m[h.k + 1].valor
      BY <1>1, <1>5, PrimerCampo DEF m
  <2>2. RutasLeidas(e.pedido, h.k + 1) =
          IF m[h.k + 1].campo = "ruta"
          THEN Append(RutasLeidas(e.pedido, h.k), m[h.k + 1].valor)
          ELSE RutasLeidas(e.pedido, h.k)
      BY <1>1, <1>5, Leidas DEF BienLeidas, m
  <2>3. R = IF m[h.k + 1].campo = "ruta" THEN Append(h.rutas, m[h.k + 1].valor) ELSE h.rutas
      BY <1>3, <2>1 DEF R
  <2> QED BY <1>6, <1>8, <2>2, <2>3
<1>10. h2.pc \in {"campos", "atender"}
    BY <1>6
<1>11. /\ LadoCliente(Tail(A), e, h2, ef, d) /\ LadoServidor(Tail(A), e, h2, ef)
       /\ Respuesta(B, e, h2, ef)
       /\ Pend(Tail(A), e, h2, ef) = Pend(A, e, h, ef)
  <2> USE DEF m
  <2> QED BY <1>2, <1>7, <1>9, <1>10, CorLeer
<1> QED BY <1>11 DEF CampoLeido, h2, R, lee

(* The thread runs the call q of what it has read, and r is the effect.      *)
Atendido(h, f, q, r, h2) ==
    /\ q.op = h.op /\ q.de = h.rutas[1] /\ q.a = Last(h.rutas)
    /\ r \in Efectos(f, q)
    /\ h2 = Contestando(h, Interpretar(h.op, r[2], f).manda)

(* The call is run: its effect is one of those the service allows for the   *)
(* request, which was made, and what there is to send is what it found.     *)
LEMMA CorAtender ==
    ASSUME NEW A, NEW B, NEW x, NEW e, NEW h, NEW ef, NEW d, Fase(A, B, x, e, h),
           LadoCliente(A, e, h, ef, d), LadoServidor(A, e, h, ef), EsSec(A), FormaHilo(h),
           h.pc = "atender", NEW f \in [Rutas -> Contenidos],
           NEW q, NEW r, NEW h2, Atendido(h, f, q, r, h2)
    PROVE  /\ LadoCliente(A, e, h2, r[2], d) /\ LadoServidor(A, e, h2, r[2])
           /\ Respuesta(B, e, h2, r[2])
           /\ e.pedido \in Pedido /\ ef = NADA /\ r \in S!Efectos(f, e.pedido)
           /\ r[1] \in [Rutas -> Contenidos]
           /\ Pend(A, e, h, ef) = e.pedido /\ Pend(A, e, h2, r[2]) = e.pedido
<1> DEFINE m == Campos(e.pedido)
           n == Len(m)
           cola == Interpretar(h.op, r[2], f).manda
<1>0. /\ q.op = h.op /\ q.de = h.rutas[1] /\ q.a = Last(h.rutas)
      /\ r \in Efectos(f, q) /\ h2 = Contestando(h, cola)
    BY DEF Atendido
<1>1. /\ e.pedido \in Pedido /\ h.op = e.pedido.op /\ n \in Nat
      /\ e.pc \in {"mandando", "esperando", "ido"}
      /\ e.pc = "esperando" => B = <<>> /\ e.leido = <<>>
      /\ A = <<>> /\ Leidos(h) = n /\ h.k = n
    BY ConLlamada
<1>2. e.pc # "mandando"
    BY Mandando
<1>3. Len(A) = 0
    BY <1>1, Vacia
<1>4. ef = NADA /\ Enviado(n, e) /\ h.rutas = RutasLeidas(e.pedido, n)
  <2>1. Leidos(h) + Len(A) = n
      BY <1>1, <1>3
  <2> HIDE DEF n
  <2> QED BY <1>1, <2>1 DEF LadoServidor
<1>5. q.op = e.pedido.op /\ q.de = e.pedido.de
      /\ (e.pedido.op = "RENOMBRAR_ARCHIVO" => q.a = e.pedido.a)
    BY <1>0, <1>1, <1>4, Leidas DEF BienLeidas
<1>6. r \in S!Efectos(f, e.pedido)
    BY <1>0, <1>1, <1>5, MismosEfectos
<1>7. /\ r[1] \in [Rutas -> Contenidos] /\ Hallado(e.pedido, r[2])
      /\ r[2] = NADA => e.pedido.op = "LEER_ARCHIVO"
    BY <1>0, <1>1, <1>5, TiposDeEfectos
<1>8. e.i = n + 1 \/ (e.pc = "ido" /\ e.i = n /\ r[2] # NADA)
  <2>1. ASSUME e.pc = "ido", e.i = n, m[n].campo = "datos" PROVE r[2] # NADA
    <3>1. n \in 1 .. n
        BY <1>1, LosCampos
    <3>2. DatosAlFinal(e.pedido)
        BY <1>1, Leidas
    <3>3. e.pedido.op = "ESCRIBIR_ARCHIVO"
        BY <2>1, <3>1, <3>2 DEF DatosAlFinal
    <3> QED BY <1>7, <3>3
  <2> QED BY <1>4, <2>1 DEF Enviado
<1>9. /\ FormaHilo(h2)
      /\ cola = <<>> => h2 = SinPedido
      /\ cola # <<>> => h2.pc = "contestar" /\ h2.cola = cola
  <2> HIDE DEF cola
  <2> QED BY <1>0, AlSeguir
<1>10. SinPedido.pc = "cabecera" /\ SinPedido.rutas = <<>>
    BY DEF SinPedido
<1>11. cola # <<>> => EsSec(cola)
    BY <1>0, <1>1, <1>5, RespuestaLegible
<1> HIDE DEF cola, n, m
<1>12. e.pedido # NADA
    BY <1>1, NadaAssumption
<1>13. LadoCliente(A, e, h2, r[2], d)
    BY <1>1, <1>2 DEF LadoCliente
<1>14. LadoServidor(A, e, h2, r[2])
    BY <1>1, <1>9, <1>10 DEF LadoServidor
<1>15. Respuesta(B, e, h2, r[2])
  <2>1. SUFFICES ASSUME e.pc = "esperando", B # <<>> \/ h2.pc = "contestar"
                 PROVE  LET s == Falta(B, h2) IN
                        /\ r[2] # NADA
                        /\ Devuelve(e.pedido, Tras(e.leido, s, Len(s)))
                             = S!Retorno(e.pedido, r[2])
      BY DEF Respuesta
  <2>2. B = <<>> /\ e.leido = <<>> /\ cola # <<>> /\ h2.pc = "contestar" /\ h2.cola = cola
      BY <1>1, <1>9, <1>10, <2>1
  <2>3. Falta(B, h2) = cola
      BY <1>11, <2>2, NadaCon DEF Falta
  <2>4. r[2] # NADA /\ Devuelve(e.pedido, Leido(cola)) = S!Retorno(e.pedido, r[2])
    <3>1. cola = Interpretar(e.pedido.op, r[2], f).manda
        BY <1>1 DEF cola
    <3>2. Interpretar(e.pedido.op, r[2], f).manda # <<>>
        BY <2>2, <3>1
    <3> HIDE DEF cola
    <3>3. /\ r[2] # NADA
          /\ Devuelve(e.pedido, Leido(Interpretar(e.pedido.op, r[2], f).manda))
               = S!Retorno(e.pedido, r[2])
        BY <1>1, <1>7, <3>2, RespuestaCierta
    <3> QED BY <3>1, <3>3
  <2> QED BY <2>2, <2>3, <2>4 DEF Leido
<1>16. Pend(A, e, h, ef) = e.pedido /\ Pend(A, e, h2, r[2]) = e.pedido
  <2>1. n + 1 > n
      BY <1>1 DEF n
  <2> QED BY <1>8, <1>12, <2>1 DEF Pend, n, m
<1> QED BY <1>1, <1>4, <1>6, <1>7, <1>13, <1>14, <1>15, <1>16

(* The thread sends one field.                                              *)
Contestado1(B, x, h, B2, h2) ==
    /\ B2 = IF x # "abierto" THEN B ELSE Append(B, Head(h.cola))
    /\ h2 = Contestando(h, Tail(h.cola))

(* One field of the answer is sent: as much of it is left as before.        *)
LEMMA CorContestar ==
    ASSUME NEW A, NEW B, NEW x, NEW e, NEW h, NEW ef, NEW d, Fase(A, B, x, e, h),
           LadoCliente(A, e, h, ef, d), Respuesta(B, e, h, ef),
           EsSec(B), FormaHilo(h), h.pc = "contestar",
           NEW B2, NEW h2, Contestado1(B, x, h, B2, h2)
    PROVE  /\ LadoCliente(A, e, h2, ef, d) /\ LadoServidor(A, e, h2, ef)
           /\ Respuesta(B2, e, h2, ef)
           /\ Pend(A, e, h2, ef) = Pend(A, e, h, ef)
<1> DEFINE cola == Tail(h.cola)
<1>1. /\ FormaHilo(h2)
      /\ cola = <<>> => h2 = SinPedido
      /\ cola # <<>> => h2.pc = "contestar" /\ h2.cola = cola
  <2> HIDE DEF cola
  <2>1. LET g == Contestando(h, cola) IN
        /\ FormaHilo(g)
        /\ cola = <<>> => g = SinPedido
        /\ cola # <<>> => g.pc = "contestar" /\ g.cola = cola
      BY AlSeguir
  <2> QED BY <2>1 DEF Contestado1, cola
<1>2. h2.pc = "contestar" \/ (h2.pc = "cabecera" /\ h2.rutas = <<>>)
    BY <1>1 DEF SinPedido
<1>3. Respondiendo(A, B, x, e, h) \/ Ido(A, B, x, e, h)
    BY DEF Fase, Afuera, Tranquilo, Pidiendo, EnCamino, Adentro, Quieto, SinRespuesta
<1>4. A = <<>> /\ e.pc \in {"esperando", "ido"}
    BY <1>3 DEF Respondiendo, Ido, EnCamino, Adentro, Quieto
<1> HIDE DEF cola
<1>5. LadoCliente(A, e, h2, ef, d) /\ LadoServidor(A, e, h2, ef)
    BY <1>2, <1>4 DEF LadoCliente, LadoServidor
<1>6. Pend(A, e, h2, ef) = Pend(A, e, h, ef)
    BY <1>2, <1>4 DEF Pend
<1>7. Respuesta(B2, e, h2, ef)
  <2>1. CASE e.pc = "ido"
      BY <2>1 DEF Respuesta
  <2>2. CASE Respondiendo(A, B, x, e, h)
    <3>1. x = "abierto" /\ EsSec(h.cola) /\ h.cola # <<>> /\ Falta(B, h) = B \o h.cola
        BY <2>2 DEF Respondiendo, Falta
    <3>2. EsSec(cola) /\ B2 = Append(B, Head(h.cola))
        BY <3>1, Resto DEF Contestado1, cola
    <3>3. EsSec(B2)
        BY <3>2, Agregado
    <3>4. B2 \o cola = B \o h.cola
        BY <3>1, <3>2, Pasado DEF cola
    <3>5. Falta(B2, h2) = B2 \o cola
      <4>1. CASE cola = <<>>
          BY <1>1, <3>3, <4>1, ConNada DEF Falta, SinPedido
      <4>2. CASE cola # <<>>
          BY <1>1, <4>2 DEF Falta
      <4> QED BY <4>1, <4>2
    <3>6. Falta(B2, h2) = Falta(B, h)
        BY <3>1, <3>4, <3>5
    <3> QED BY <3>6 DEF Respuesta
  <2> QED BY <1>3, <2>1, <2>2 DEF Ido
<1> QED BY <1>5, <1>6, <1>7

-----------------------------------------------------------------------------
(* One step of the system.                                                  *)
Ligado(c) ==
    Corresponde(aServidor[c], aCliente[c], cli[c], hilo[c], efecto[c], dicho[c])
PendDe(c) == Pend(aServidor[c], cli[c], hilo[c], efecto[c])
AjenoTodo(d) == Ajeno(d) /\ efecto'[d] = efecto[d] /\ dicho'[d] = dicho[d]
Funciones == DOMAIN efecto = Clientes /\ DOMAIN dicho = Clientes

(* The request that the service sees, connection by connection.             *)
LEMMA PendienteEs ==
    /\ Pendiente = [c \in Clientes |-> PendDe(c)]
    /\ Pendiente' = [c \in Clientes |-> PendDe(c)']
<1>1. Pendiente = [c \in Clientes |-> PendDe(c)]
    BY DEF Pendiente, PendDe, Pend, Mandado, Manda, Campos, LlevaDatos, Last
<1>2. Pendiente' = [c \in Clientes |-> PendDe(c)']
    BY DEF Pendiente, PendDe, Pend, Mandado, Manda, Campos, LlevaDatos, Last
<1> QED BY <1>1, <1>2

(* What is known of a connection before a step.                             *)
LEMMA AntesDe ==
    ASSUME IInv, Correspondencia, NEW c \in Clientes
    PROVE  /\ Dominios /\ Funciones /\ fs \in [Rutas -> Contenidos]
           /\ EsSec(aServidor[c]) /\ EsSec(aCliente[c])
           /\ FormaCli(cli[c]) /\ FormaHilo(hilo[c])
           /\ LadoCliente(aServidor[c], cli[c], hilo[c], efecto[c], dicho[c])
           /\ Respuesta(aCliente[c], cli[c], hilo[c], efecto[c])
           /\ servidor = "vivo" =>
                /\ Fase(aServidor[c], aCliente[c], extremo[c], cli[c], hilo[c])
                /\ LadoServidor(aServidor[c], cli[c], hilo[c], efecto[c])
           /\ servidor = "caido" =>
                FaseSinServidor(aServidor[c], aCliente[c], extremo[c], cli[c], hilo[c])
BY PorCliente DEF De1, Bien, Correspondencia, Corresponde, Funciones

(* A step of one connection that leaves it well, and no other changes: the  *)
(* service sees another request of it at most.                              *)
LEMMA JuntarTodo ==
    ASSUME Correspondencia, NEW c \in Clientes, Funciones', fs' \in [Rutas -> Contenidos],
           Ligado(c)', \A d \in Clientes \ {c} : AjenoTodo(d),
           servidor' = servidor \/ servidor' = "caido"
    PROVE  /\ Correspondencia'
           /\ Pendiente[c] = PendDe(c)
           /\ Pendiente' = [Pendiente EXCEPT ![c] = PendDe(c)']
<1>1. ASSUME NEW d \in Clientes, d # c PROVE Ligado(d)' /\ PendDe(d)' = PendDe(d)
  <2>1. AjenoTodo(d) /\ Ligado(d)
      BY <1>1 DEF Correspondencia, Ligado
  <2>2. servidor' = "vivo" => servidor = "vivo"
      OBVIOUS
  <2>3. Ligado(d)'
      BY <2>1, <2>2 DEF Ligado, Corresponde, AjenoTodo, Ajeno
  <2>4. PendDe(d)' = PendDe(d)
      BY <2>1 DEF PendDe, AjenoTodo, Ajeno
  <2> QED BY <2>3, <2>4
<1>2. \A d \in Clientes : Ligado(d)'
    BY <1>1
<1>3. Correspondencia'
    BY <1>2 DEF Correspondencia, Ligado, Funciones
<1>4. Pendiente[c] = PendDe(c) /\ Pendiente' = [Pendiente EXCEPT ![c] = PendDe(c)']
  <2>1. \A d \in Clientes : d # c => PendDe(d)' = PendDe(d)
      BY <1>1
  <2> QED BY <2>1, PendienteEs
<1> QED BY <1>3, <1>4

(* A step that the service does not see.                                    *)
LEMMA SinVerse ==
    ASSUME Correspondencia, NEW c \in Clientes, Ligado(c)',
           \A d \in Clientes \ {c} : AjenoTodo(d),
           fs' = fs, efecto' = efecto, dicho' = dicho, servidor' = servidor,
           PendDe(c)' = PendDe(c)
    PROVE  Correspondencia' /\ UNCHANGED S!servicio
<1>1. /\ Correspondencia' /\ Pendiente[c] = PendDe(c)
      /\ Pendiente' = [Pendiente EXCEPT ![c] = PendDe(c)']
    BY JuntarTodo DEF Correspondencia, Funciones
<1>2. Pendiente' = Pendiente
    BY <1>1, PendienteEs
<1> QED BY <1>1, <1>2 DEF S!servicio

(* Conectar is not seen.                                                    *)
LEMMA SerConectar ==
    ASSUME IInv, Correspondencia, NEW c \in Clientes, Conectar(c), UNCHANGED atencion
    PROVE  Correspondencia' /\ UNCHANGED S!servicio
<1>1. /\ Dominios /\ servidor = "vivo" /\ cli[c].pc = "afuera"
      /\ LadoCliente(aServidor[c], cli[c], hilo[c], efecto[c], dicho[c])
      /\ LadoServidor(aServidor[c], cli[c], hilo[c], efecto[c])
      /\ Fase(aServidor[c], aCliente[c], extremo[c], cli[c], hilo[c])
    BY AntesDe DEF Conectar
<1>2. /\ cli'[c] = Libre /\ aServidor'[c] = aServidor[c] /\ aCliente'[c] = aCliente[c]
      /\ hilo' = hilo /\ efecto' = efecto /\ dicho' = dicho /\ fs' = fs
      /\ servidor' = servidor
    BY <1>1 DEF Conectar, Dominios, atencion
<1>3. \A d \in Clientes \ {c} : AjenoTodo(d)
    BY <1>1 DEF Conectar, Dominios, AjenoTodo, Ajeno, atencion
<1>4. /\ LadoCliente(aServidor[c], Libre, hilo[c], efecto[c], dicho[c])
      /\ LadoServidor(aServidor[c], Libre, hilo[c], efecto[c])
      /\ Respuesta(aCliente[c], Libre, hilo[c], efecto[c])
      /\ Pend(aServidor[c], Libre, hilo[c], efecto[c]) = PendDe(c)
    BY <1>1, CorConectar DEF PendDe
<1>5. Ligado(c)' /\ PendDe(c)' = PendDe(c)
    BY <1>2, <1>4 DEF Ligado, Corresponde, PendDe
<1> QED BY <1>2, <1>3, <1>5, SinVerse

(* Llamar is Llamar of the service.                                         *)
LEMMA SerLlamar ==
    ASSUME IInv, Correspondencia, NEW c \in Clientes, NEW p \in Pedidos[c],
           Llamar(c, p), UNCHANGED atencion
    PROVE  Correspondencia' /\ S!Llamar(c)
<1> DEFINE e2 == [cli[c] EXCEPT !.pc = "mandando", !.pedido = p]
<1>1. /\ Dominios /\ Funciones /\ fs \in [Rutas -> Contenidos] /\ cli[c].pc = "libre"
      /\ FormaCli(cli[c]) /\ p \in Pedido
      /\ LadoCliente(aServidor[c], cli[c], hilo[c], efecto[c], dicho[c])
      /\ servidor = "vivo" =>
           /\ LadoServidor(aServidor[c], cli[c], hilo[c], efecto[c])
           /\ Fase(aServidor[c], aCliente[c], extremo[c], cli[c], hilo[c])
    BY AntesDe, ClienteAssumption DEF Llamar
<1>2. /\ cli'[c] = e2 /\ aServidor' = aServidor /\ aCliente' = aCliente
      /\ hilo' = hilo /\ efecto' = efecto /\ fs' = fs /\ servidor' = servidor
      /\ dicho' = [dicho EXCEPT ![c] = NADA] /\ dicho'[c] = NADA
    BY <1>1 DEF Llamar, Dominios, Funciones, atencion, canal
<1>3. \A d \in Clientes \ {c} : AjenoTodo(d)
    BY <1>1 DEF Llamar, Dominios, Funciones, AjenoTodo, Ajeno, atencion, canal
<1>4. servidor = "vivo" => aServidor[c] = <<>> /\ hilo[c].pc \in {"no", "cabecera"}
    BY <1>1 DEF Fase, Afuera, Tranquilo, Pidiendo, Respondiendo, SinRespuesta, Ido, Quieto
<1>5. /\ LadoCliente(aServidor[c], e2, hilo[c], efecto[c], NADA)
      /\ Respuesta(aCliente[c], e2, hilo[c], efecto[c])
      /\ servidor = "vivo" => LadoServidor(aServidor[c], e2, hilo[c], efecto[c])
      /\ PendDe(c) = NADA /\ Pend(aServidor[c], e2, hilo[c], efecto[c]) = NADA
  <2>1. e2.pc = "mandando" /\ e2.pedido = p /\ e2.i = cli[c].i
      BY <1>1 DEF FormaCli
  <2> HIDE DEF e2
  <2> QED BY <1>1, <1>4, <2>1, CorLlamar DEF PendDe
<1> HIDE DEF e2
<1>6. Ligado(c)' /\ PendDe(c)' = NADA
    BY <1>2, <1>5 DEF Ligado, Corresponde, PendDe
<1>7. Funciones'
    BY <1>1, <1>2 DEF Funciones
<1>8. /\ Correspondencia' /\ Pendiente[c] = NADA
      /\ Pendiente' = [Pendiente EXCEPT ![c] = NADA]
    BY <1>1, <1>2, <1>3, <1>5, <1>6, <1>7, JuntarTodo
<1>9. Pendiente' = Pendiente
    BY <1>8, PendienteEs
<1> QED BY <1>2, <1>8, <1>9 DEF S!Llamar

(* Mandar is Pedir, when what is sent is the last field, or is not seen.    *)
LEMMA SerMandar ==
    ASSUME IInv, Correspondencia, NEW c \in Clientes, Mandar(c), ClienteAvanza(c)
    PROVE  /\ Correspondencia'
           /\ UNCHANGED S!servicio \/ \E p \in S!Pedido : S!Pedir(c, p)
<1> DEFINE e == cli[c]
           m == Campos(e.pedido)
           e2 == [e EXCEPT !.i = @ + 1,
                    !.pc = IF e.i = Len(m) THEN "esperando" ELSE @]
           A2 == Append(aServidor[c], m[e.i])
<1>1. /\ Dominios /\ Funciones /\ fs \in [Rutas -> Contenidos] /\ e.pc = "mandando"
      /\ FormaCli(e) /\ FormaHilo(hilo[c]) /\ EsSec(aServidor[c]) /\ EsSec(aCliente[c])
      /\ LadoCliente(aServidor[c], e, hilo[c], efecto[c], dicho[c])
      /\ LadoServidor(aServidor[c], e, hilo[c], efecto[c])
      /\ Fase(aServidor[c], aCliente[c], extremo[c], e, hilo[c])
      /\ servidor = "vivo"
    BY AntesDe DEF Mandar
<1>2. /\ cli' = [cli EXCEPT ![c] = e2] /\ aServidor' = [aServidor EXCEPT ![c] = A2]
      /\ dicho' = dicho /\ aCliente' = aCliente /\ extremo' = extremo
      /\ servidor' = servidor /\ hilo' = hilo /\ fs' = fs
    BY DEF Mandar, ClienteAvanza, Manda, Campos
<1>3. cli'[c] = e2 /\ aServidor'[c] = A2
    BY <1>1, <1>2 DEF Dominios
<1>4. e.pedido \in Pedido /\ dicho[c] = NADA /\ e2.pedido = e.pedido /\ e2.i = e.i + 1
      /\ e2.pc = IF e.i = Len(m) THEN "esperando" ELSE "mandando"
    BY <1>1 DEF LadoCliente, FormaCli
<1>5. EsSec(A2)
    BY <1>1, Agregado
<1>6. Fase(A2, aCliente[c], extremo[c], e2, hilo[c])
    BY <1>1, AlMandar
<1> HIDE DEF e2, A2, m
<1>7. efecto' = efecto
  <2>1. ~Vuelve(c)
      BY <1>1 DEF Vuelve
  <2>2. dicho'[c] # BASURA
      BY <1>2, <1>4, NadaAssumption
  <2> QED BY <2>1, <2>2 DEF ClienteAvanza
<1>8. \A d \in Clientes \ {c} : AjenoTodo(d)
    BY <1>1, <1>2, <1>7 DEF Dominios, AjenoTodo, Ajeno
<1>9. /\ LadoCliente(A2, e2, hilo[c], efecto[c], dicho[c])
      /\ LadoServidor(A2, e2, hilo[c], efecto[c])
      /\ Respuesta(aCliente[c], e2, hilo[c], efecto[c])
      /\ PendDe(c) = NADA
      /\ Pend(A2, e2, hilo[c], efecto[c]) = IF e.i = Len(m) THEN e.pedido ELSE NADA
  <2>1. A2 = Append(aServidor[c], Campos(e.pedido)[e.i])
      BY DEF A2, m
  <2>2. e2.pc = IF e.i = Len(Campos(e.pedido)) THEN "esperando" ELSE "mandando"
      BY <1>4 DEF m
  <2> HIDE DEF e
  <2>4. UnoMas(aServidor[c], e, A2, e2)
      BY <1>4, <2>1, <2>2 DEF UnoMas
  <2>3. /\ LadoCliente(A2, e2, hilo[c], efecto[c], dicho[c])
        /\ LadoServidor(A2, e2, hilo[c], efecto[c])
        /\ Respuesta(aCliente[c], e2, hilo[c], efecto[c])
        /\ Pend(aServidor[c], e, hilo[c], efecto[c]) = NADA
        /\ Pend(A2, e2, hilo[c], efecto[c])
             = IF e.i = Len(Campos(e.pedido)) THEN e.pedido ELSE NADA
      BY <1>1, <1>5, <1>6, <2>4, CorMandar
  <2> QED BY <2>3 DEF PendDe, m, e
<1>10. Ligado(c)' /\ PendDe(c)' = IF e.i = Len(m) THEN e.pedido ELSE NADA
    BY <1>2, <1>3, <1>7, <1>9 DEF Ligado, Corresponde, PendDe
<1>11. CASE e.i # Len(m)
    BY <1>2, <1>7, <1>8, <1>9, <1>10, <1>11, SinVerse
<1>12. CASE e.i = Len(m)
  <2>1. Funciones'
      BY <1>1, <1>2, <1>7 DEF Funciones
  <2>2. /\ Correspondencia' /\ Pendiente[c] = NADA
        /\ Pendiente' = [Pendiente EXCEPT ![c] = e.pedido]
      BY <1>1, <1>2, <1>8, <1>9, <1>10, <1>12, <2>1, JuntarTodo
  <2>3. S!Pedir(c, e.pedido)
      BY <1>2, <1>7, <2>2 DEF S!Pedir
  <2>4. e.pedido \in S!Pedido
      BY <1>4 DEF Pedido, S!Pedido, Operaciones, S!Operaciones
  <2> QED BY <2>2, <2>3, <2>4
<1> QED BY <1>11, <1>12

(* Recibir is Volver, when it is the last field, or is not seen.            *)
LEMMA SerRecibir ==
    ASSUME IInv, Correspondencia, NEW c \in Clientes, Recibir(c), ClienteAvanza(c)
    PROVE  Correspondencia' /\ (UNCHANGED S!servicio \/ S!Volver(c))
<1> DEFINE e == cli[c]
           v == Append(e.leido, Head(aCliente[c]).valor)
           sigue == Len(v) < Len(Llamada(e.pedido, v).recibe)
           e2 == [e EXCEPT !.leido = v]
           B2 == Tail(aCliente[c])
<1>1. /\ Dominios /\ Funciones /\ fs \in [Rutas -> Contenidos] /\ e.pc = "esperando"
      /\ FormaCli(e) /\ FormaHilo(hilo[c]) /\ EsSec(aServidor[c]) /\ EsSec(aCliente[c])
      /\ aCliente[c] # <<>>
      /\ LadoCliente(aServidor[c], e, hilo[c], efecto[c], dicho[c])
      /\ Respuesta(aCliente[c], e, hilo[c], efecto[c])
      /\ servidor = "vivo" => LadoServidor(aServidor[c], e, hilo[c], efecto[c])
    BY AntesDe DEF Recibir
<1>2. Respondiendo(aServidor[c], aCliente[c], extremo[c], e, hilo[c])
  <2>1. /\ servidor = "vivo" => Fase(aServidor[c], aCliente[c], extremo[c], e, hilo[c])
        /\ servidor = "caido" =>
             FaseSinServidor(aServidor[c], aCliente[c], extremo[c], e, hilo[c])
      BY AntesDe
  <2> QED BY <1>1, <2>1 DEF Dominios, Fase, Afuera, Tranquilo, Pidiendo, SinRespuesta,
                            Ido, FaseSinServidor
<1>3. /\ aCliente' = [aCliente EXCEPT ![c] = B2]
      /\ aServidor' = aServidor /\ extremo' = extremo
      /\ servidor' = servidor /\ hilo' = hilo /\ fs' = fs
      /\ IF sigue THEN cli' = [cli EXCEPT ![c] = e2] /\ dicho' = dicho
                  ELSE /\ cli' = [cli EXCEPT ![c] = Libre]
                       /\ dicho' = [dicho EXCEPT ![c] = Devuelve(e.pedido, v)]
    BY DEF Recibir, ClienteAvanza
<1>4. aCliente'[c] = B2
    BY <1>1, <1>3 DEF Dominios
<1>5. e.pedido \in Pedido /\ dicho[c] = NADA
    BY <1>1 DEF LadoCliente
<1>6. CASE sigue
  <2>1. e2.pc = "esperando" /\ e2.pedido = e.pedido /\ e2.i = e.i /\ e2.leido = v
      BY <1>1 DEF FormaCli
  <2>2. cli' = [cli EXCEPT ![c] = e2] /\ dicho' = dicho
      BY <1>3, <1>6
  <2> HIDE DEF e2, B2, sigue
  <2>3. cli'[c] = e2
      BY <1>1, <2>2 DEF Dominios
  <2>4. efecto' = efecto
    <3>1. ~Vuelve(c)
        BY <2>1, <2>3 DEF Vuelve
    <3>2. dicho'[c] # BASURA
        BY <1>5, <2>2, NadaAssumption
    <3> QED BY <3>1, <3>2 DEF ClienteAvanza
  <2>5. \A d \in Clientes \ {c} : AjenoTodo(d)
      BY <1>1, <1>3, <2>2, <2>4 DEF Dominios, AjenoTodo, Ajeno
  <2>6. /\ LadoCliente(aServidor[c], e2, hilo[c], efecto[c], dicho[c])
        /\ Respuesta(Tail(aCliente[c]), e2, hilo[c], efecto[c])
        /\ LadoServidor(aServidor[c], e, hilo[c], efecto[c])
             => LadoServidor(aServidor[c], e2, hilo[c], efecto[c])
        /\ Pend(aServidor[c], e2, hilo[c], efecto[c])
             = Pend(aServidor[c], e, hilo[c], efecto[c])
      BY <1>1, <1>2, <2>1, CorSeguir
  <2>7. Ligado(c)' /\ PendDe(c)' = PendDe(c)
      BY <1>1, <1>3, <1>4, <2>2, <2>3, <2>4, <2>6 DEF Ligado, Corresponde, PendDe, B2
  <2> QED BY <1>3, <2>2, <2>4, <2>5, <2>7, SinVerse
<1>7. CASE ~sigue
  <2>1. /\ cli' = [cli EXCEPT ![c] = Libre]
        /\ dicho' = [dicho EXCEPT ![c] = Devuelve(e.pedido, v)]
      BY <1>3, <1>7
  <2>2. cli'[c] = Libre /\ Libre.pc = "libre"
      BY <1>1, <2>1 DEF Dominios, Libre
  <2>3. efecto' = [efecto EXCEPT ![c] = NADA]
    <3>1. Vuelve(c)
        BY <1>1, <2>2 DEF Vuelve
    <3> QED BY <3>1 DEF ClienteAvanza
  <2>4. \A d \in Clientes \ {c} : AjenoTodo(d)
      BY <1>1, <1>3, <2>1, <2>3 DEF Dominios, Funciones, AjenoTodo, Ajeno
  <2>5. /\ PendDe(c) = e.pedido /\ efecto[c] # NADA
        /\ Devuelve(e.pedido, v) = S!Retorno(e.pedido, efecto[c])
    <3>1. v = Append(e.leido, Head(aCliente[c]).valor)
        OBVIOUS
    <3>2. ~(Len(v) < Len(Llamada(e.pedido, v).recibe))
        BY <1>7
    <3>4. Completa(e, aCliente[c], v)
        BY <3>1, <3>2 DEF Completa
    <3> HIDE DEF v, sigue, e
    <3>3. /\ Pend(aServidor[c], e, hilo[c], efecto[c]) = e.pedido
          /\ efecto[c] # NADA /\ Devuelve(e.pedido, v) = S!Retorno(e.pedido, efecto[c])
        BY <1>1, <1>2, <3>4, CorVolver
    <3> QED BY <3>3 DEF PendDe, e
  <2>6. aServidor[c] = <<>> /\ (servidor = "vivo" => hilo[c].pc \in {"no", "cabecera"})
    <3>1. ~sigue => Tranquilo(aServidor[c], B2, extremo[c], Libre, hilo[c])
        BY <1>1, <1>2, AlRecibir
    <3> QED BY <1>7, <3>1 DEF Tranquilo, Quieto
  <2> HIDE DEF B2, sigue, v
  <2>7. /\ LadoCliente(aServidor[c], Libre, hilo[c], NADA, dicho'[c])
        /\ Respuesta(B2, Libre, hilo[c], NADA)
        /\ servidor = "vivo" => LadoServidor(aServidor[c], Libre, hilo[c], NADA)
        /\ Pend(aServidor[c], Libre, hilo[c], NADA) = NADA
      BY <1>1, <2>6, CorLibre
  <2>8. efecto'[c] = NADA
      BY <1>1, <2>3 DEF Funciones
  <2>9. Ligado(c)' /\ PendDe(c)' = NADA
      BY <1>3, <1>4, <2>2, <2>7, <2>8 DEF Ligado, Corresponde, PendDe
  <2>10. Funciones'
      BY <1>1, <2>1, <2>3 DEF Funciones
  <2>11. /\ Correspondencia' /\ Pendiente[c] = e.pedido
         /\ Pendiente' = [Pendiente EXCEPT ![c] = NADA]
      BY <1>1, <1>3, <2>4, <2>5, <2>9, <2>10, JuntarTodo
  <2>12. S!Volver(c)
    <3>1. e.pedido # NADA
        BY <1>5, NadaAssumption
    <3> QED BY <1>3, <2>1, <2>3, <2>5, <2>11, <3>1 DEF S!Volver, S!Contestado
  <2> QED BY <2>11, <2>12
<1> QED BY <1>6, <1>7

(* Without a server it is VolverSinServidor, or is not seen.                *)
LEMMA SerSinServidor ==
    ASSUME IInv, Correspondencia, NEW c \in Clientes, SinServidor(c), ClienteAvanza(c)
    PROVE  Correspondencia' /\ (UNCHANGED S!servicio \/ S!VolverSinServidor(c))
<1> DEFINE e == cli[c]
           e2 == [e EXCEPT !.pc = "ido"]
<1>1. /\ Dominios /\ Funciones /\ fs \in [Rutas -> Contenidos]
      /\ e.pc \in {"mandando", "esperando"} /\ FormaCli(e)
      /\ LadoCliente(aServidor[c], e, hilo[c], efecto[c], dicho[c])
      /\ Respuesta(aCliente[c], e, hilo[c], efecto[c])
      /\ servidor = "caido"
    BY AntesDe DEF SinServidor
<1>2. /\ aCliente' = aCliente /\ aServidor' = aServidor /\ extremo' = extremo
      /\ servidor' = servidor /\ hilo' = hilo /\ fs' = fs
    BY DEF SinServidor, ClienteAvanza, canal
<1>3. CASE cli' = [cli EXCEPT ![c] = e2] /\ dicho' = dicho
  <2>1. e2.pc = "ido" /\ e2.pedido = e.pedido /\ e2.i = e.i
      BY <1>1 DEF FormaCli
  <2> HIDE DEF e2
  <2>2. cli'[c] = e2
      BY <1>1, <1>3 DEF Dominios
  <2>3. efecto' = efecto
    <3>1. ~Vuelve(c)
        BY <2>1, <2>2 DEF Vuelve
    <3>2. dicho'[c] # BASURA
        BY <1>1, <1>3, NadaAssumption DEF LadoCliente
    <3> QED BY <3>1, <3>2 DEF ClienteAvanza
  <2>4. \A d \in Clientes \ {c} : AjenoTodo(d)
      BY <1>1, <1>2, <1>3, <2>3 DEF Dominios, AjenoTodo, Ajeno
  <2>5. /\ LadoCliente(aServidor[c], e2, hilo[c], efecto[c], dicho[c])
        /\ Respuesta(aCliente[c], e2, hilo[c], efecto[c])
        /\ Pend(aServidor[c], e2, hilo[c], efecto[c]) = PendDe(c)
      BY <1>1, <2>1, CorIrse DEF PendDe
  <2>6. Ligado(c)' /\ PendDe(c)' = PendDe(c)
      BY <1>1, <1>2, <1>3, <2>2, <2>3, <2>5 DEF Ligado, Corresponde, PendDe
  <2> QED BY <1>2, <1>3, <2>3, <2>4, <2>6, SinVerse
<1>4. CASE cli' = [cli EXCEPT ![c] = Libre] /\ dicho' = [dicho EXCEPT ![c] = BASURA]
  <2>1. cli'[c] = Libre /\ dicho'[c] = BASURA
      BY <1>1, <1>4 DEF Dominios, Funciones
  <2>2. efecto' = [efecto EXCEPT ![c] = NADA]
      BY <2>1 DEF ClienteAvanza
  <2>3. efecto'[c] = NADA
      BY <1>1, <2>2 DEF Funciones
  <2>4. \A d \in Clientes \ {c} : AjenoTodo(d)
      BY <1>1, <1>2, <1>4, <2>2 DEF Dominios, Funciones, AjenoTodo, Ajeno
  <2>5. /\ LadoCliente(aServidor[c], Libre, hilo[c], NADA, BASURA)
        /\ Respuesta(aCliente[c], Libre, hilo[c], NADA)
        /\ Pend(aServidor[c], Libre, hilo[c], NADA) = NADA
      BY CorLibre
  <2>6. Ligado(c)' /\ PendDe(c)' = NADA
      BY <1>1, <1>2, <2>1, <2>3, <2>5 DEF Ligado, Corresponde, PendDe
  <2>7. Funciones'
      BY <1>1, <1>4, <2>2 DEF Funciones
  <2>8. Correspondencia' /\ Pendiente' = [Pendiente EXCEPT ![c] = NADA]
      BY <1>1, <1>2, <2>4, <2>6, <2>7, JuntarTodo
  <2>9. S!VolverSinServidor(c)
      BY <1>1, <1>2, <1>4, <2>2, <2>8 DEF S!VolverSinServidor, S!Contestado
  <2> QED BY <2>8, <2>9
<1> QED BY <1>3, <1>4 DEF SinServidor

(* To be killed within the data it sends is Pedir; otherwise Morir is not   *)
(* seen.                                                                    *)
LEMMA SerMorir ==
    ASSUME IInv, Correspondencia, NEW c \in Clientes, Morir(c), UNCHANGED atencion
    PROVE  /\ Correspondencia'
           /\ UNCHANGED S!servicio \/ \E p \in S!Pedido : S!Pedir(c, p)
<1> DEFINE e == cli[c]
           e2 == [e EXCEPT !.pc = "ido"]
           A2 == Append(aServidor[c], CortadoEn(Campos(e.pedido)[e.i]))
<1>1. /\ Dominios /\ Funciones /\ fs \in [Rutas -> Contenidos]
      /\ e.pc \in {"libre", "mandando", "esperando"}
      /\ FormaCli(e) /\ FormaHilo(hilo[c]) /\ EsSec(aServidor[c])
      /\ LadoCliente(aServidor[c], e, hilo[c], efecto[c], dicho[c])
      /\ servidor = "vivo" =>
           /\ LadoServidor(aServidor[c], e, hilo[c], efecto[c])
           /\ Fase(aServidor[c], aCliente[c], extremo[c], e, hilo[c])
    BY AntesDe DEF Morir
<1>2. /\ cli' = [cli EXCEPT ![c] = e2] /\ dicho' = dicho /\ servidor' = servidor
      /\ hilo' = hilo /\ fs' = fs /\ efecto' = efecto
    BY DEF Morir, atencion
<1>3. /\ e2.pc = "ido" /\ e2.pedido = e.pedido /\ e2.i = e.i
      /\ cli'[c] = e2 /\ aCliente'[c] = <<>>
    BY <1>1, <1>2 DEF FormaCli, Dominios, Morir
<1>4. ASSUME aServidor' = aServidor \/ aServidor' = [aServidor EXCEPT ![c] = A2]
      PROVE  \A d \in Clientes \ {c} : AjenoTodo(d)
    BY <1>1, <1>2, <1>4 DEF Dominios, AjenoTodo, Ajeno, Morir
<1> HIDE DEF e2, A2
<1>5. CASE aServidor' = aServidor
  <2>1. /\ LadoCliente(aServidor[c], e2, hilo[c], efecto[c], dicho[c])
        /\ Respuesta(<<>>, e2, hilo[c], efecto[c])
        /\ servidor = "vivo" => LadoServidor(aServidor[c], e2, hilo[c], efecto[c])
        /\ Pend(aServidor[c], e2, hilo[c], efecto[c]) = PendDe(c)
    <3> HIDE DEF e
    <3>1. /\ LadoCliente(aServidor[c], e, hilo[c], efecto[c], dicho[c])
          /\ e.pc \in {"libre", "mandando", "esperando"}
        BY <1>1
    <3>2. e2.pc = "ido" /\ e2.pedido = e.pedido /\ e2.i = e.i
        BY <1>3
    <3>3. /\ LadoCliente(aServidor[c], e2, hilo[c], efecto[c], dicho[c])
          /\ Respuesta(<<>>, e2, hilo[c], efecto[c])
          /\ LadoServidor(aServidor[c], e, hilo[c], efecto[c])
               => LadoServidor(aServidor[c], e2, hilo[c], efecto[c])
          /\ Pend(aServidor[c], e2, hilo[c], efecto[c])
               = Pend(aServidor[c], e, hilo[c], efecto[c])
        BY <3>1, <3>2, CorIrse
    <3>4. servidor = "vivo" => LadoServidor(aServidor[c], e, hilo[c], efecto[c])
        BY <1>1
    <3> QED BY <3>3, <3>4 DEF PendDe, e
  <2>2. Ligado(c)' /\ PendDe(c)' = PendDe(c)
      BY <1>2, <1>3, <1>5, <2>1 DEF Ligado, Corresponde, PendDe
  <2> QED BY <1>2, <1>4, <1>5, <2>2, SinVerse
<1>6. CASE /\ e.pc = "mandando" /\ servidor = "vivo"
           /\ Campos(e.pedido)[e.i].campo = "datos"
           /\ aServidor' = [aServidor EXCEPT ![c] = A2]
  <2>1. aServidor'[c] = A2
      BY <1>1, <1>6 DEF Dominios
  <2>2. /\ LadoCliente(A2, e2, hilo[c], efecto[c], dicho[c])
        /\ Respuesta(<<>>, e2, hilo[c], efecto[c])
        /\ LadoServidor(A2, e2, hilo[c], efecto[c])
        /\ PendDe(c) = NADA /\ e.pedido \in Pedido
        /\ Pend(A2, e2, hilo[c], efecto[c]) = e.pedido
    <3>1. Cortado(aServidor[c], e, A2, e2)
        BY <1>3, <1>6 DEF Cortado, A2
    <3> HIDE DEF e
    <3>2. /\ LadoCliente(A2, e2, hilo[c], efecto[c], dicho[c])
          /\ Respuesta(<<>>, e2, hilo[c], efecto[c])
          /\ LadoServidor(A2, e2, hilo[c], efecto[c])
          /\ Pend(aServidor[c], e, hilo[c], efecto[c]) = NADA /\ e.pedido \in Pedido
          /\ Pend(A2, e2, hilo[c], efecto[c]) = e.pedido
        BY <1>1, <1>6, <3>1, CorCortar
    <3> QED BY <3>2 DEF PendDe, e
  <2>3. Ligado(c)' /\ PendDe(c)' = e.pedido
      BY <1>2, <1>3, <2>1, <2>2 DEF Ligado, Corresponde, PendDe
  <2>4. Funciones'
      BY <1>1, <1>2 DEF Funciones
  <2>5. /\ Correspondencia' /\ Pendiente[c] = NADA
        /\ Pendiente' = [Pendiente EXCEPT ![c] = e.pedido]
      BY <1>1, <1>2, <1>4, <1>6, <2>2, <2>3, <2>4, JuntarTodo
  <2>6. S!Pedir(c, e.pedido)
      BY <1>2, <2>5 DEF S!Pedir
  <2>7. e.pedido \in S!Pedido
      BY <2>2 DEF Pedido, S!Pedido, Operaciones, S!Operaciones
  <2> QED BY <2>5, <2>6, <2>7
<1> QED BY <1>5, <1>6 DEF Morir, Manda, Campos, A2

(* What is known before a step of a thread.                                 *)
Antes(c, h) ==
    /\ Dominios /\ Funciones /\ fs \in [Rutas -> Contenidos] /\ servidor = "vivo"
    /\ EsSec(aServidor[c]) /\ EsSec(aCliente[c]) /\ FormaCli(cli[c]) /\ FormaHilo(h)
    /\ LadoCliente(aServidor[c], cli[c], h, efecto[c], dicho[c])
    /\ LadoServidor(aServidor[c], cli[c], h, efecto[c])
    /\ Respuesta(aCliente[c], cli[c], h, efecto[c])
    /\ Fase(aServidor[c], aCliente[c], extremo[c], cli[c], h)
    /\ h = hilo[c]

(* Steps of the thread that are not seen: the call is not run in them.      *)

(* Aceptar is not seen.                                                     *)
LEMMA SerAceptar ==
    ASSUME IInv, Correspondencia, NEW c \in Clientes, Aceptar(c), UNCHANGED cliente
    PROVE  Correspondencia' /\ UNCHANGED S!servicio
<1> DEFINE h == hilo[c]
<1>1. Antes(c, h) /\ h.pc = "no"
    BY AntesDe DEF Antes, Aceptar
<1>2. /\ hilo'[c] = SinPedido /\ aServidor' = aServidor /\ aCliente' = aCliente
      /\ extremo' = extremo /\ servidor' = servidor /\ cli' = cli /\ dicho' = dicho
      /\ fs' = fs /\ efecto' = efecto
    BY <1>1 DEF Aceptar, Antes, Dominios, canal, cliente
<1>3. \A d \in Clientes \ {c} : AjenoTodo(d)
    BY <1>1, <1>2 DEF Aceptar, Antes, Dominios, AjenoTodo, Ajeno
<1>4. /\ SinPedido.pc = "cabecera" /\ SinPedido.rutas = <<>>
      /\ Leidos(SinPedido) = Leidos(h)
    BY <1>1 DEF SinPedido, Leidos
<1>5. /\ LadoCliente(aServidor[c], cli[c], SinPedido, efecto[c], dicho[c])
      /\ LadoServidor(aServidor[c], cli[c], SinPedido, efecto[c])
      /\ Respuesta(aCliente[c], cli[c], SinPedido, efecto[c])
      /\ Pend(aServidor[c], cli[c], SinPedido, efecto[c])
           = Pend(aServidor[c], cli[c], h, efecto[c])
  <2> HIDE DEF h
  <2> QED BY <1>1, <1>4, CorAparte DEF Antes
<1>6. Ligado(c)' /\ PendDe(c)' = PendDe(c)
    BY <1>2, <1>5 DEF Ligado, Corresponde, PendDe
<1> QED BY <1>2, <1>3, <1>6, SinVerse

(* LeerCabecera is not seen.                                                *)
LEMMA SerLeerCabecera ==
    ASSUME IInv, Correspondencia, NEW c \in Clientes, LeerCabecera(c), UNCHANGED cliente
    PROVE  Correspondencia' /\ UNCHANGED S!servicio
<1> DEFINE h == hilo[c]
           A == aServidor[c]
           h2 == [h EXCEPT !.pc = "campos", !.op = Head(A).valor]
<1>1. Antes(c, h) /\ h.pc = "cabecera" /\ A # <<>>
    BY AntesDe DEF Antes, LeerCabecera
<1>2. /\ hilo'[c] = h2 /\ aServidor'[c] = Tail(A) /\ aCliente' = aCliente
      /\ extremo' = extremo /\ servidor' = servidor /\ cli' = cli /\ dicho' = dicho
      /\ fs' = fs /\ efecto' = efecto
    BY <1>1 DEF LeerCabecera, Antes, Dominios, cliente
<1>3. \A d \in Clientes \ {c} : AjenoTodo(d)
    BY <1>1, <1>2 DEF LeerCabecera, Antes, Dominios, AjenoTodo, Ajeno
<1>4. /\ LadoCliente(Tail(A), cli[c], h2, efecto[c], dicho[c])
      /\ LadoServidor(Tail(A), cli[c], h2, efecto[c])
      /\ Respuesta(aCliente[c], cli[c], h2, efecto[c])
      /\ Pend(Tail(A), cli[c], h2, efecto[c]) = PendDe(c)
  <2>1. TipoLeido(A, h, h2)
      BY DEF TipoLeido
  <2> HIDE DEF h, A, h2
  <2>2. /\ Fase(A, aCliente[c], extremo[c], cli[c], h)
        /\ LadoCliente(A, cli[c], h, efecto[c], dicho[c])
        /\ LadoServidor(A, cli[c], h, efecto[c])
        /\ Respuesta(aCliente[c], cli[c], h, efecto[c])
        /\ EsSec(A) /\ A # <<>> /\ FormaHilo(h)
      BY <1>1 DEF Antes, A
  <2>3. /\ LadoCliente(Tail(A), cli[c], h2, efecto[c], dicho[c])
        /\ LadoServidor(Tail(A), cli[c], h2, efecto[c])
        /\ Respuesta(aCliente[c], cli[c], h2, efecto[c])
        /\ Pend(Tail(A), cli[c], h2, efecto[c]) = Pend(A, cli[c], h, efecto[c])
      BY <1>1, <2>1, <2>2, CorCabecera
  <2> QED BY <2>3 DEF PendDe, A, h
<1> HIDE DEF h2
<1>5. Ligado(c)' /\ PendDe(c)' = PendDe(c)
    BY <1>2, <1>4 DEF Ligado, Corresponde, PendDe
<1> QED BY <1>2, <1>3, <1>5, SinVerse

(* LeerCampo is not seen.                                                   *)
LEMMA SerLeerCampo ==
    ASSUME IInv, Correspondencia, NEW c \in Clientes, LeerCampo(c), UNCHANGED cliente
    PROVE  Correspondencia' /\ UNCHANGED S!servicio
<1> DEFINE h == hilo[c]
           A == aServidor[c]
           h2 == [h EXCEPT !.k = @ + 1,
                    !.rutas = IF Head(A).campo = "ruta"
                              THEN Append(h.rutas, Head(A).valor) ELSE h.rutas,
                    !.pc = IF h.k = Len(Interpretar(h.op, NADA, fs).lee)
                           THEN "atender" ELSE @]
<1>1. Antes(c, h) /\ h.pc = "campos" /\ A # <<>>
    BY AntesDe DEF Antes, LeerCampo
<1>2. /\ hilo'[c] = h2 /\ aServidor'[c] = Tail(A) /\ aCliente' = aCliente
      /\ extremo' = extremo /\ servidor' = servidor /\ cli' = cli /\ dicho' = dicho
      /\ fs' = fs /\ efecto' = efecto
    BY <1>1 DEF LeerCampo, Lee, Antes, Dominios, cliente
<1>3. \A d \in Clientes \ {c} : AjenoTodo(d)
    BY <1>1, <1>2 DEF LeerCampo, Antes, Dominios, AjenoTodo, Ajeno
<1>4. /\ LadoCliente(Tail(A), cli[c], h2, efecto[c], dicho[c])
      /\ LadoServidor(Tail(A), cli[c], h2, efecto[c])
      /\ Respuesta(aCliente[c], cli[c], h2, efecto[c])
      /\ Pend(Tail(A), cli[c], h2, efecto[c]) = PendDe(c)
  <2>1. CampoLeido(A, h, fs, h2)
      BY DEF CampoLeido
  <2> HIDE DEF h, A, h2
  <2>2. /\ Fase(A, aCliente[c], extremo[c], cli[c], h)
        /\ LadoCliente(A, cli[c], h, efecto[c], dicho[c])
        /\ LadoServidor(A, cli[c], h, efecto[c])
        /\ Respuesta(aCliente[c], cli[c], h, efecto[c])
        /\ EsSec(A) /\ A # <<>> /\ FormaHilo(h)
      BY <1>1 DEF Antes, A
  <2>3. /\ LadoCliente(Tail(A), cli[c], h2, efecto[c], dicho[c])
        /\ LadoServidor(Tail(A), cli[c], h2, efecto[c])
        /\ Respuesta(aCliente[c], cli[c], h2, efecto[c])
        /\ Pend(Tail(A), cli[c], h2, efecto[c]) = Pend(A, cli[c], h, efecto[c])
      BY <1>1, <2>1, <2>2, CorCampo
  <2> QED BY <2>3 DEF PendDe, A, h
<1> HIDE DEF h2
<1>5. Ligado(c)' /\ PendDe(c)' = PendDe(c)
    BY <1>2, <1>4 DEF Ligado, Corresponde, PendDe
<1> QED BY <1>2, <1>3, <1>5, SinVerse

(* TerminarHilo is not seen.                                                *)
LEMMA SerTerminar ==
    ASSUME IInv, Correspondencia, NEW c \in Clientes, TerminarHilo(c), UNCHANGED cliente
    PROVE  Correspondencia' /\ UNCHANGED S!servicio
<1> DEFINE h == hilo[c]
           h2 == [h EXCEPT !.pc = "fin"]
<1>1. Antes(c, h) /\ h.pc = "cabecera" /\ aServidor[c] = <<>>
    BY AntesDe DEF Antes, TerminarHilo, Desconectado
<1>2. /\ hilo'[c] = h2 /\ aServidor' = aServidor /\ aCliente' = aCliente
      /\ extremo' = extremo /\ servidor' = servidor /\ cli' = cli /\ dicho' = dicho
      /\ fs' = fs /\ efecto' = efecto
    BY <1>1 DEF TerminarHilo, Antes, Dominios, canal, cliente
<1>3. \A d \in Clientes \ {c} : AjenoTodo(d)
    BY <1>1, <1>2 DEF TerminarHilo, Antes, Dominios, AjenoTodo, Ajeno
<1>4. h2.pc = "fin"
    BY <1>1 DEF Antes, FormaHilo
<1> HIDE DEF h2
<1>5. /\ LadoCliente(aServidor[c], cli[c], h2, efecto[c], dicho[c])
      /\ LadoServidor(aServidor[c], cli[c], h2, efecto[c])
      /\ Respuesta(aCliente[c], cli[c], h2, efecto[c])
      /\ Pend(aServidor[c], cli[c], h2, efecto[c])
           = Pend(aServidor[c], cli[c], h, efecto[c])
  <2> HIDE DEF h
  <2> QED BY <1>1, <1>4, CorAparte DEF Antes
<1>6. Ligado(c)' /\ PendDe(c)' = PendDe(c)
    BY <1>2, <1>5 DEF Ligado, Corresponde, PendDe
<1> QED BY <1>2, <1>3, <1>6, SinVerse

(* DejarPedido is not seen: the call is not run.                            *)
LEMMA SerDejar ==
    ASSUME IInv, Correspondencia, NEW c \in Clientes, DejarPedido(c), UNCHANGED cliente
    PROVE  Correspondencia' /\ UNCHANGED S!servicio
<1> DEFINE h == hilo[c]
           h2 == IF h.op = "UTIMENS" THEN Contestando(h, Entero(4, -1)) ELSE SinPedido
<1>1. /\ Antes(c, h) /\ h.pc = "campos" /\ aServidor[c] = <<>>
      /\ extremo[c] \in {"cerrado", "cortado"}
    BY AntesDe DEF Antes, DejarPedido, Desconectado
<1>2. /\ hilo'[c] = h2 /\ aServidor' = aServidor /\ aCliente' = aCliente
      /\ extremo' = extremo /\ servidor' = servidor /\ cli' = cli /\ dicho' = dicho
      /\ fs' = fs /\ efecto' = efecto
    BY <1>1 DEF DejarPedido, Antes, Dominios, canal, cliente
<1>3. \A d \in Clientes \ {c} : AjenoTodo(d)
    BY <1>1, <1>2 DEF DejarPedido, Antes, Dominios, AjenoTodo, Ajeno
<1>4. h2.pc = "contestar" \/ (h2.pc = "cabecera" /\ h2.rutas = <<>>)
  <2>1. SinPedido.pc = "cabecera" /\ SinPedido.rutas = <<>>
      BY DEF SinPedido
  <2>2. LET g == Contestando(h, Entero(4, -1)) IN g = SinPedido \/ g.pc = "contestar"
      BY <1>1, AlSeguir DEF Antes
  <2> QED BY <2>1, <2>2
<1> HIDE DEF h2
<1>5. cli[c].pc = "ido"
    BY <1>1 DEF Antes, Fase, Afuera, Tranquilo, Pidiendo, Respondiendo, SinRespuesta, Ido
<1>6. /\ LadoCliente(aServidor[c], cli[c], h2, efecto[c], dicho[c])
      /\ LadoServidor(aServidor[c], cli[c], h2, efecto[c])
      /\ Respuesta(aCliente[c], cli[c], h2, efecto[c])
      /\ Pend(aServidor[c], cli[c], h2, efecto[c])
           = Pend(aServidor[c], cli[c], h, efecto[c])
  <2> HIDE DEF h
  <2> QED BY <1>1, <1>4, <1>5, CorAparte DEF Antes
<1>7. Ligado(c)' /\ PendDe(c)' = PendDe(c)
    BY <1>2, <1>6 DEF Ligado, Corresponde, PendDe
<1> QED BY <1>2, <1>3, <1>7, SinVerse

(* Atender is Atender: the call takes effect, at once and once.             *)
LEMMA SerAtender ==
    ASSUME IInv, Correspondencia, NEW c \in Clientes, Atender(c), UNCHANGED cliente
    PROVE  Correspondencia' /\ S!Atender(c)
<1> DEFINE h == hilo[c]
           e == cli[c]
           q == [op |-> h.op, de |-> h.rutas[1], a |-> Last(h.rutas)]
<1>1. Antes(c, h) /\ h.pc = "atender"
    BY AntesDe DEF Antes, Atender
<1>2. PICK r \in Efectos(fs, q) :
        /\ fs' = r[1] /\ efecto' = [efecto EXCEPT ![c] = r[2]]
        /\ hilo' = [hilo EXCEPT ![c] = Contestando(h, Interpretar(h.op, r[2], fs).manda)]
    BY DEF Atender
<1> DEFINE h2 == Contestando(h, Interpretar(h.op, r[2], fs).manda)
<1>3. /\ hilo'[c] = h2 /\ efecto'[c] = r[2]
      /\ aServidor' = aServidor /\ aCliente' = aCliente
      /\ extremo' = extremo /\ servidor' = servidor /\ cli' = cli /\ dicho' = dicho
    BY <1>1, <1>2 DEF Atender, Antes, Dominios, Funciones, canal, cliente
<1>4. \A d \in Clientes \ {c} : AjenoTodo(d)
    BY <1>1, <1>2, <1>3 DEF Antes, Dominios, Funciones, AjenoTodo, Ajeno
<1>5. q.op = h.op /\ q.de = h.rutas[1] /\ q.a = Last(h.rutas)
    OBVIOUS
<1> HIDE DEF q
<1>6. Atendido(h, fs, q, r, h2)
    BY <1>5 DEF Atendido
<1> HIDE DEF h2, h, e
<1>7. /\ LadoCliente(aServidor[c], e, h2, r[2], dicho[c])
      /\ LadoServidor(aServidor[c], e, h2, r[2])
      /\ Respuesta(aCliente[c], e, h2, r[2])
      /\ e.pedido \in Pedido /\ efecto[c] = NADA /\ r \in S!Efectos(fs, e.pedido)
      /\ r[1] \in [Rutas -> Contenidos]
      /\ Pend(aServidor[c], e, h, efecto[c]) = e.pedido
      /\ Pend(aServidor[c], e, h2, r[2]) = e.pedido
  <2>1. /\ Fase(aServidor[c], aCliente[c], extremo[c], e, h)
        /\ LadoCliente(aServidor[c], e, h, efecto[c], dicho[c])
        /\ LadoServidor(aServidor[c], e, h, efecto[c])
        /\ EsSec(aServidor[c]) /\ FormaHilo(h) /\ h.pc = "atender"
        /\ fs \in [Rutas -> Contenidos]
      BY <1>1 DEF Antes, e
  <2> QED BY <1>6, <2>1, CorAtender
<1>8. Ligado(c)' /\ PendDe(c) = e.pedido /\ PendDe(c)' = e.pedido
    BY <1>3, <1>7 DEF Ligado, Corresponde, PendDe, e, h
<1>9. Funciones' /\ fs' \in [Rutas -> Contenidos]
    BY <1>1, <1>2, <1>3, <1>7 DEF Antes, Funciones
<1>10. /\ Correspondencia' /\ Pendiente[c] = e.pedido
       /\ Pendiente' = [Pendiente EXCEPT ![c] = e.pedido]
    BY <1>3, <1>4, <1>8, <1>9, JuntarTodo
<1>11. Pendiente' = Pendiente
    BY <1>10, PendienteEs
<1>12. S!Atender(c)
  <2>1. e.pedido # NADA /\ servidor = "vivo"
      BY <1>1, <1>7, NadaAssumption DEF Antes
  <2> QED BY <1>2, <1>3, <1>7, <1>10, <1>11, <2>1 DEF S!Atender
<1> QED BY <1>10, <1>12

(* Contestar is Caer, when it kills the server, or is not seen.             *)
LEMMA SerContestar ==
    ASSUME IInv, Correspondencia, NEW c \in Clientes, Contestar(c), UNCHANGED cliente
    PROVE  Correspondencia' /\ (UNCHANGED S!servicio \/ S!Caer)
<1> DEFINE h == hilo[c]
           e == cli[c]
           x == extremo[c]
           B == aCliente[c]
           B2 == IF x # "abierto" THEN B ELSE Append(B, Head(h.cola))
           h2 == Contestando(h, Tail(h.cola))
<1>1. Antes(c, h) /\ h.pc = "contestar"
    BY AntesDe DEF Antes, Contestar
<1>2. /\ aServidor' = aServidor /\ cli' = cli /\ dicho' = dicho
      /\ fs' = fs /\ efecto' = efecto
    BY DEF Contestar, cliente
<1>3. CASE /\ aCliente' = IF x # "abierto" THEN aCliente
                          ELSE [aCliente EXCEPT ![c] = Append(@, Head(h.cola))]
           /\ extremo' = IF x # "cerrado" THEN extremo
                         ELSE [extremo EXCEPT ![c] = "cortado"]
           /\ hilo' = [hilo EXCEPT ![c] = Contestando(@, Tail(@.cola))]
           /\ UNCHANGED servidor
  <2>1. aCliente'[c] = B2 /\ hilo'[c] = h2 /\ servidor' = servidor
      BY <1>1, <1>3 DEF Antes, Dominios
  <2>2. \A d \in Clientes \ {c} : AjenoTodo(d)
      BY <1>1, <1>2, <1>3 DEF Antes, Dominios, AjenoTodo, Ajeno
  <2>3. Contestado1(B, x, h, B2, h2)
      BY DEF Contestado1
  <2> HIDE DEF B2, h2, e, x, B, h
  <2>4. /\ LadoCliente(aServidor[c], e, h2, efecto[c], dicho[c])
        /\ LadoServidor(aServidor[c], e, h2, efecto[c])
        /\ Respuesta(B2, e, h2, efecto[c])
        /\ Pend(aServidor[c], e, h2, efecto[c]) = Pend(aServidor[c], e, h, efecto[c])
    <3>1. /\ Fase(aServidor[c], B, x, e, h) /\ Respuesta(B, e, h, efecto[c])
          /\ LadoCliente(aServidor[c], e, h, efecto[c], dicho[c])
          /\ EsSec(B) /\ FormaHilo(h)
        BY <1>1 DEF Antes, e, x, B
    <3> QED BY <1>1, <2>3, <3>1, CorContestar
  <2>5. Ligado(c)' /\ PendDe(c)' = PendDe(c)
      BY <1>2, <2>1, <2>4 DEF Ligado, Corresponde, PendDe, e, h
  <2> QED BY <1>2, <2>1, <2>2, <2>5, SinVerse
<1>4. CASE servidor' = "caido" /\ UNCHANGED <<hilo, aCliente, extremo>>
  <2>1. \A d \in Clientes \ {c} : AjenoTodo(d)
      BY <1>2, <1>4 DEF AjenoTodo, Ajeno
  <2>2. Ligado(c)' /\ PendDe(c)' = PendDe(c)
      BY <1>1, <1>2, <1>4 DEF Antes, Ligado, Corresponde, PendDe
  <2>3. Funciones' /\ fs' \in [Rutas -> Contenidos]
      BY <1>1, <1>2 DEF Antes, Funciones
  <2>4. /\ Correspondencia' /\ Pendiente[c] = PendDe(c)
        /\ Pendiente' = [Pendiente EXCEPT ![c] = PendDe(c)']
      BY <1>4, <2>1, <2>2, <2>3, JuntarTodo
  <2>5. Pendiente' = Pendiente
      BY <2>2, <2>4, PendienteEs
  <2>6. servidor = "vivo" /\ servidor' # "vivo"
      BY <1>1, <1>4 DEF Antes
  <2>7. S!Caer
      BY <1>2, <2>5, <2>6 DEF S!Caer
  <2> QED BY <2>4, <2>7
<1> QED BY <1>3, <1>4 DEF Contestar

-----------------------------------------------------------------------------
(* Nobody has asked for anything at the beginning.                          *)
LEMMA AlPrincipio == Init => Correspondencia /\ S!Init
<1> SUFFICES ASSUME Init PROVE Correspondencia /\ S!Init
    OBVIOUS
<1> USE DEF Init, CanalInit, ClienteInit, ServidorInit
<1>1. ASSUME NEW c \in Clientes PROVE Ligado(c) /\ PendDe(c) = NADA
  <2>1. /\ aServidor[c] = <<>> /\ aCliente[c] = <<>>
        /\ cli[c] = [pc |-> "afuera", pedido |-> NADA, i |-> 1, leido |-> <<>>]
        /\ hilo[c] = [SinPedido EXCEPT !.pc = "no"]
        /\ efecto[c] = NADA /\ dicho[c] = NADA
      OBVIOUS
  <2>2. hilo[c].pc = "no" /\ hilo[c].rutas = <<>>
      BY <2>1 DEF SinPedido
  <2>3. cli[c].pc = "afuera" /\ cli[c].pedido = NADA /\ cli[c].i = 1
      BY <2>1
  <2> QED BY <2>1, <2>2, <2>3 DEF Ligado, Corresponde, LadoCliente, LadoServidor,
                                  Respuesta, PendDe, Pend
<1>2. Correspondencia
    BY <1>1 DEF Correspondencia, Ligado, Contenidos
<1>3. Pendiente = [c \in Clientes |-> NADA]
    BY <1>1, PendienteEs
<1> QED BY <1>2, <1>3 DEF S!Init

(* What is of a connection stays so when nothing changes.                   *)
LEMMA AlQuedarseTodo == Correspondencia /\ UNCHANGED vars
                          => Correspondencia' /\ UNCHANGED S!servicio
<1> SUFFICES ASSUME Correspondencia, UNCHANGED vars
             PROVE  Correspondencia' /\ UNCHANGED S!servicio
    OBVIOUS
<1>1. Correspondencia'
    BY DEF Correspondencia, Corresponde, vars, cliente, atencion, canal
<1>2. UNCHANGED S!servicio
    BY DEF S!servicio, Pendiente, Mandado, Manda, vars, cliente, atencion, canal
<1> QED BY <1>1, <1>2

(* Every step keeps the correspondence, and is a step of the service or is  *)
(* not seen by it.                                                          *)
LEMMA PasoDelServicio ==
    IInv /\ Correspondencia /\ [Next]_vars => Correspondencia' /\ [S!Next]_(S!servicio)
<1> SUFFICES ASSUME IInv, Correspondencia, [Next]_vars
             PROVE  Correspondencia' /\ [S!Next]_(S!servicio)
    OBVIOUS
<1>1. ASSUME NEW c \in Clientes, ClienteAvanza(c)
      PROVE  Correspondencia' /\ [S!Next]_(S!servicio)
  <2>1. CASE Mandar(c)
      BY <1>1, <2>1, SerMandar DEF S!Next
  <2>2. CASE Recibir(c)
      BY <1>1, <2>2, SerRecibir DEF S!Next
  <2>3. CASE SinServidor(c)
      BY <1>1, <2>3, SerSinServidor DEF S!Next
  <2> QED BY <1>1, <2>1, <2>2, <2>3 DEF ClienteAvanza, ClientePaso
<1>2. ASSUME NEW c \in Clientes, ClienteQuiere(c), UNCHANGED atencion
      PROVE  Correspondencia' /\ [S!Next]_(S!servicio)
  <2>1. CASE Conectar(c)
      BY <1>2, <2>1, SerConectar
  <2>2. CASE Morir(c)
      BY <1>2, <2>2, SerMorir DEF S!Next
  <2>3. ASSUME NEW p \in Pedidos[c], Llamar(c, p)
        PROVE  Correspondencia' /\ [S!Next]_(S!servicio)
      BY <1>2, <2>3, SerLlamar DEF S!Next
  <2> QED BY <1>2, <2>1, <2>2, <2>3 DEF ClienteQuiere
<1>3. ASSUME NEW c \in Clientes, ServidorPaso(c), UNCHANGED cliente
      PROVE  Correspondencia' /\ [S!Next]_(S!servicio)
  <2>1. CASE Aceptar(c) \/ LeerCabecera(c) \/ LeerCampo(c) \/ TerminarHilo(c)
               \/ DejarPedido(c)
      BY <1>3, <2>1, SerAceptar, SerLeerCabecera, SerLeerCampo, SerTerminar, SerDejar
  <2>2. CASE Atender(c)
      BY <1>3, <2>2, SerAtender DEF S!Next
  <2>3. CASE Contestar(c)
      BY <1>3, <2>3, SerContestar DEF S!Next
  <2> QED BY <1>3, <2>1, <2>2, <2>3 DEF ServidorPaso
<1>4. CASE UNCHANGED vars
    BY <1>4, AlQuedarseTodo
<1> QED BY <1>1, <1>2, <1>3, <1>4 DEF Next

(* What the thread and the connection hold is always of the call that the   *)
(* client is in.                                                            *)
THEOREM Correspondido == Spec => []Correspondencia
<1> QED BY AlPrincipio, PasoDelServicio, Faseado, PTL DEF Spec

(* The protocol implements the service: whatever the order of the steps and *)
(* whoever is killed, for any number of clients and of paths.               *)
THEOREM EsElServicio == Spec => ServicioSpec
<1>1. Spec => S!Init /\ [][S!Next]_(S!servicio)
    BY AlPrincipio, PasoDelServicio, Faseado, Correspondido, PTL DEF Spec
<1> QED BY <1>1 DEF ServicioSpec, S!Spec
=============================================================================
