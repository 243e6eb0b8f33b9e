--------------------------- MODULE Pokedex_proofs ---------------------------
(***************************************************************************)
(* Proofs about the framing of requests and answers.  First what they use  *)
(* of sequences, then that the tables of the two programs agree, then each *)
(* step seen from the connection it is of, and last the steps of Pokedex.  *)
(***************************************************************************)
EXTENDS PokedexInv, FiniteSetTheorems, TLAPS

(* Sequences of elements of a set are such.                                  *)
LEMMA EsSecSi == ASSUME NEW T, NEW s \in Seq(T) PROVE EsSec(s)
BY DEF EsSec

(* A sequence of anything is a sequence of its own elements.                 *)
LEMMA EsSecNo == ASSUME NEW s, EsSec(s) PROVE s \in Seq(Range(s))
BY DEF EsSec, Range

(* The empty sequence, and that only it has length 0.                        *)
LEMMA Vacia ==
    /\ EsSec(<<>>) /\ Len(<<>>) = 0
    /\ \A s : EsSec(s) => (s = <<>> <=> Len(s) = 0)
<1>1. EsSec(<<>>) /\ Len(<<>>) = 0
    BY DEF EsSec
<1>2. ASSUME NEW s, EsSec(s) PROVE s = <<>> <=> Len(s) = 0
    BY <1>2, EsSecNo
<1> QED BY <1>1, <1>2

(* The first element and the rest of a sequence.                             *)
LEMMA Resto ==
    ASSUME NEW s, EsSec(s), s # <<>>
    PROVE  /\ Head(s) = s[1] /\ EsSec(Tail(s))
           /\ Len(s) \in Nat \ {0} /\ Len(Tail(s)) = Len(s) - 1
           /\ \A i \in 1 .. Len(s) - 1 : Tail(s)[i] = s[i + 1]
<1>1. s \in Seq(Range(s))
    BY EsSecNo
<1>2. Tail(s) \in Seq(Range(s))
    BY <1>1
<1>3. EsSec(Tail(s))
    BY <1>2, EsSecSi
<1> QED BY <1>1, <1>3

(* One element more at the end.                                              *)
LEMMA Agregado ==
    ASSUME NEW s, EsSec(s), NEW x
    PROVE  /\ EsSec(Append(s, x))
           /\ Len(s) \in Nat /\ Len(Append(s, x)) = Len(s) + 1
           /\ \A i \in 1 .. Len(s) : Append(s, x)[i] = s[i]
           /\ Append(s, x)[Len(s) + 1] = x
<1>1. s \in Seq(Range(s) \union {x})
    BY EsSecNo
<1>2. Append(s, x) \in Seq(Range(s) \union {x})
    BY <1>1
<1>3. EsSec(Append(s, x))
    BY <1>2, EsSecSi
<1> QED BY <1>1, <1>3

(* Two sequences, one after the other.                                       *)
LEMMA Juntas ==
    ASSUME NEW s, EsSec(s), NEW t, EsSec(t)
    PROVE  /\ EsSec(s \o t)
           /\ Len(s) \in Nat /\ Len(t) \in Nat /\ Len(s \o t) = Len(s) + Len(t)
           /\ \A i \in 1 .. Len(s) : (s \o t)[i] = s[i]
           /\ \A i \in 1 .. Len(t) : (s \o t)[Len(s) + i] = t[i]
<1>1. s \in Seq(Range(s) \union Range(t)) /\ t \in Seq(Range(s) \union Range(t))
    BY EsSecNo
<1>2. s \o t \in Seq(Range(s) \union Range(t))
    BY <1>1
<1>3. EsSec(s \o t)
    BY <1>2, EsSecSi
<1> QED BY <1>1, <1>3

(* One element from the second to the end of the first.                     *)
LEMMA Pasado ==
    ASSUME NEW s, EsSec(s), NEW t, EsSec(t), t # <<>>
    PROVE  Append(s, Head(t)) \o Tail(t) = s \o t
<1> DEFINE a == Append(s, Head(t)) \o Tail(t)
           b == s \o t
<1>1. EsSec(a) /\ EsSec(b) /\ Len(a) = Len(b)
    BY Resto, Agregado, Juntas
<1>2. ASSUME NEW i \in 1 .. Len(b) PROVE a[i] = b[i]
    <2>1. CASE i <= Len(s)
        BY <2>1, Resto, Agregado, Juntas
    <2>2. CASE i = Len(s) + 1
        BY <2>2, Resto, Agregado, Juntas
    <2>3. CASE i > Len(s) + 1
        <3>1. i - Len(s) - 1 \in 1 .. Len(Tail(t))
            BY <2>3, Resto, Juntas, Agregado
        <3>2. a[i] = Tail(t)[i - Len(s) - 1]
            BY <3>1, Resto, Agregado, Juntas
        <3>3. b[i] = t[i - Len(s)]
            BY <3>1, Resto, Juntas
        <3>4. /\ i - Len(s) - 1 \in 1 .. Len(t) - 1
              /\ (i - Len(s) - 1) + 1 = i - Len(s)
            BY <3>1, Resto, Juntas
        <3>5. Tail(t)[i - Len(s) - 1] = t[(i - Len(s) - 1) + 1]
            BY <3>4, Resto
        <3> QED BY <3>2, <3>3, <3>4, <3>5
    <2>4. i <= Len(s) \/ i = Len(s) + 1 \/ i > Len(s) + 1
        <3>1. Len(s) \in Nat /\ i \in Int
            BY Juntas
        <3> QED BY <3>1
    <2> QED BY <2>1, <2>2, <2>3, <2>4
<1> QED BY <1>1, <1>2 DEF EsSec

EsJunta(u, s, t) ==
    /\ EsSec(u) /\ Len(u) = Len(s) + Len(t)
    /\ \A i \in 1 .. Len(s) : u[i] = s[i]
    /\ \A i \in 1 .. Len(t) : u[Len(s) + i] = t[i]

(* The rest of what is the sequence s followed by t.                         *)
LEMMA TailDe ==
    ASSUME NEW s, EsSec(s), s # <<>>, NEW t, EsSec(t), NEW u, EsJunta(u, s, t)
    PROVE  u # <<>> /\ u[1] = s[1] /\ Tail(u) = Tail(s) \o t
<1>u. /\ EsSec(u) /\ Len(u) = Len(s) + Len(t)
      /\ \A i \in 1 .. Len(s) : u[i] = s[i]
      /\ \A i \in 1 .. Len(t) : u[Len(s) + i] = t[i]
    BY DEF EsJunta
<1> DEFINE a == Tail(u)
           b == Tail(s) \o t
<1>1. /\ Len(s) \in Nat \ {0} /\ Len(Tail(s)) = Len(s) - 1 /\ EsSec(Tail(s))
      /\ Len(t) \in Nat
    BY Resto, Juntas
<1>2. \A i \in 1 .. Len(s) - 1 : Tail(s)[i] = s[i + 1]
    BY Resto
<1>3. u # <<>> /\ u[1] = s[1]
    BY <1>u, <1>1, Vacia
<1>4. EsSec(a) /\ Len(a) = Len(s) + Len(t) - 1
    BY <1>u, <1>3, Resto
<1>5. \A i \in 1 .. Len(s) + Len(t) - 1 : a[i] = u[i + 1]
    BY <1>u, <1>3, Resto
<1>6. EsSec(b) /\ Len(b) = Len(s) + Len(t) - 1
    BY <1>1, Juntas
<1>7. /\ \A i \in 1 .. Len(s) - 1 : b[i] = Tail(s)[i]
      /\ \A i \in 1 .. Len(t) : b[Len(s) - 1 + i] = t[i]
    BY <1>1, Juntas
<1> HIDE DEF a, b
<1>8. ASSUME NEW i \in 1 .. Len(b) PROVE a[i] = b[i]
  <2>1. CASE i \in 1 .. Len(s) - 1
    <3>1. a[i] = u[i + 1] /\ i + 1 \in 1 .. Len(s)
        BY <1>1, <1>5, <2>1
    <3> QED BY <1>u, <1>2, <1>7, <2>1, <3>1
  <2>2. CASE i >= Len(s)
    <3>1. PICK j \in 1 .. Len(t) : i = Len(s) - 1 + j
      <4>1. i - Len(s) + 1 \in 1 .. Len(t) /\ i = Len(s) - 1 + (i - Len(s) + 1)
          BY <1>1, <1>6, <2>2
      <4> QED BY <4>1
    <3>2. i + 1 = Len(s) + j /\ i \in 1 .. Len(s) + Len(t) - 1
        BY <1>1, <3>1
    <3> QED BY <1>u, <1>5, <1>7, <3>1, <3>2
  <2> QED BY <1>1, <1>6, <2>1, <2>2
<1>9. a = b
    BY <1>4, <1>6, <1>8 DEF EsSec
<1> QED BY <1>3, <1>9 DEF a, b

(* Nothing moves when the first of s and t together is taken.                *)
LEMMA TailJuntas ==
    ASSUME NEW s, EsSec(s), s # <<>>, NEW t, EsSec(t)
    PROVE  /\ EsSec(s \o t) /\ s \o t # <<>> /\ (s \o t)[1] = s[1]
           /\ Tail(s \o t) = Tail(s) \o t
<1>1. EsSec(s \o t) /\ Len(s \o t) = Len(s) + Len(t)
    BY Juntas
<1>2. /\ \A i \in 1 .. Len(s) : (s \o t)[i] = s[i]
      /\ \A i \in 1 .. Len(t) : (s \o t)[Len(s) + i] = t[i]
    BY Juntas
<1>3. EsJunta(s \o t, s, t)
    BY <1>1, <1>2, Zenon DEF EsJunta
<1> QED BY <1>1, <1>3, TailDe, Zenon

(* Nothing after s.                                                          *)
LEMMA ConNada == ASSUME NEW s, EsSec(s) PROVE s \o <<>> = s
BY EsSecNo

-----------------------------------------------------------------------------
(* The tables of both programs.                                             *)

(* After the type, the server reads the fields the client sends.            *)
Iguales(p, m, lee) ==
    /\ Len(lee) \in Nat \ {0} /\ Len(m) = Len(lee) + 1
    /\ m[1] = Tipo(p)
    /\ \A k \in 1 .. Len(lee) : Calza(m[k + 1], lee[k])
    /\ \A k \in 1 .. Len(m) : CortadoEn(m[k]).campo = m[k].campo

(* The requests of one path.                                                 *)
LEMMA UnaRuta == ASSUME NEW p PROVE Iguales(p, ConRuta(p), LeeRuta)
BY DEF Iguales, Calza, ConRuta, LeeRuta, Tipo, LargoDe, Ruta, Largo4, RutaEs, Campo,
       Espera, CortadoEn

(* Every request of the client has the fields that its handler reads.        *)
LEMMA PedidoCalza ==
    ASSUME NEW p \in Pedido, NEW f
    PROVE  Iguales(p, Campos(p), Interpretar(p.op, NADA, f).lee)
<1> DEFINE lee == Interpretar(p.op, NADA, f).lee
           m == Campos(p)
<1>1. CASE p.op = "ABRIR_ARCHIVO"
  <2>1. m = ConRuta(p)
      BY <1>1 DEF Campos, Llamada, AbrirArchivo
  <2>2. lee = LeeRuta
      BY <1>1 DEF Interpretar, abrirArchivo
  <2> QED BY <2>1, <2>2, UnaRuta
<1>2. CASE p.op = "CREAR_ARCHIVO"
  <2>1. m = ConRuta(p)
      BY <1>2 DEF Campos, Llamada, CrearArchivoPedido
  <2>2. lee = LeeRuta
      BY <1>2 DEF Interpretar, crearArchivo
  <2> QED BY <2>1, <2>2, UnaRuta
<1>3. CASE p.op = "CREAR_DIRECTORIO"
  <2>1. m = ConRuta(p)
      BY <1>3 DEF Campos, Llamada, CrearDirectorioPedido
  <2>2. lee = LeeRuta
      BY <1>3 DEF Interpretar, crearDirectorio
  <2> QED BY <2>1, <2>2, UnaRuta
<1>4. CASE p.op = "ELIMINAR_ARCHIVO"
  <2>1. m = ConRuta(p)
      BY <1>4 DEF Campos, Llamada, BorrarArchivo
  <2>2. lee = LeeRuta
      BY <1>4 DEF Interpretar, eliminarArchivo
  <2> QED BY <2>1, <2>2, UnaRuta
<1>5. CASE p.op = "GET_DIRECTORIO"
  <2>1. m = ConRuta(p)
      BY <1>5 DEF Campos, Llamada, GetDir
  <2>2. lee = LeeRuta
      BY <1>5 DEF Interpretar, getEstructuraDirectorio
  <2> QED BY <2>1, <2>2, UnaRuta
<1>6. CASE p.op = "GET_ATTR"
  <2>1. m = ConRuta(p)
      BY <1>6 DEF Campos, Llamada, GetAttr
  <2>2. lee = LeeRuta
      BY <1>6 DEF Interpretar, getAttr
  <2> QED BY <2>1, <2>2, UnaRuta
<1>7. CASE p.op = "LEER_ARCHIVO"
  <2>1. m = <<Tipo(p), Size, Offset(4), LargoDe, Ruta(p.de)>>
      BY <1>7 DEF Campos, Llamada, LeerArchivo
  <2>2. lee = <<Espera("size", 8), Espera("offset", 4), Largo4, RutaEs>>
      BY <1>7 DEF Interpretar, leerArchivo
  <2> QED
      BY <2>1, <2>2
      DEF Iguales, Calza, Tipo, LargoDe, Ruta, Size, Offset, Largo4, RutaEs, Campo,
          Espera, CortadoEn
<1>8. CASE p.op = "ESCRIBIR_ARCHIVO"
  <2>1. m = <<Tipo(p), Size, Offset(4), LargoDe, Ruta(p.de),
              Campo("datos", Tamanio, "datos")>>
      BY <1>8 DEF Campos, Llamada, EscribirArchivo
  <2>2. lee = <<Espera("size", 8), Espera("offset", 4), Largo4, RutaEs,
                Espera("datos", Tamanio)>>
      BY <1>8 DEF Interpretar, escribirArchivo
  <2> QED
      BY <2>1, <2>2
      DEF Iguales, Calza, Tipo, LargoDe, Ruta, Size, Offset, Largo4, RutaEs, Campo,
          Espera, CortadoEn
<1>9. CASE p.op = "TRUNCAR_ARCHIVO"
  <2>1. m = <<Tipo(p), Offset(4), LargoDe, Ruta(p.de)>>
      BY <1>9 DEF Campos, Llamada, TruncarArchivo
  <2>2. lee = <<Espera("offset", 4), Largo4, RutaEs>>
      BY <1>9 DEF Interpretar, truncarArchivo
  <2> QED
      BY <2>1, <2>2
      DEF Iguales, Calza, Tipo, LargoDe, Ruta, Offset, Largo4, RutaEs, Campo,
          Espera, CortadoEn
<1>10. CASE p.op = "RENOMBRAR_ARCHIVO"
  <2>1. m = <<Tipo(p), LargoDe, Ruta(p.de), LargoDe, Ruta(p.a)>>
      BY <1>10 DEF Campos, Llamada, RenombrarArchivo
  <2>2. lee = <<Largo4, RutaEs, Largo4, RutaEs>>
      BY <1>10 DEF Interpretar, renombrarArchivo
  <2> QED
      BY <2>1, <2>2
      DEF Iguales, Calza, Tipo, LargoDe, Ruta, Largo4, RutaEs, Campo,
          Espera, CortadoEn
<1>11. CASE p.op = "UTIMENS"
  <2>1. m = <<Tipo(p), LargoDe, Ruta(p.de), Campo("segundos", 8, 0)>>
      BY <1>11 DEF Campos, Llamada, UtimensPedido
  <2>2. lee = <<Largo4, RutaEs, Espera("segundos", 8)>>
      BY <1>11 DEF Interpretar, server_utimens
  <2> QED
      BY <2>1, <2>2
      DEF Iguales, Calza, Tipo, LargoDe, Ruta, Largo4, RutaEs, Campo,
          Espera, CortadoEn
<1> QED
    BY <1>1, <1>2, <1>3, <1>4, <1>5, <1>6, <1>7, <1>8, <1>9, <1>10, <1>11
    DEF Pedido, Operaciones

(* An answer of one field.                                                  *)
LEMMA UnCampo ==
    ASSUME NEW p, NEW espera, NEW x, Calza(x, espera),
           \A v : Llamada(p, v).recibe = <<espera>>
    PROVE  EsSec(<<x>>) /\ <<x>> # <<>> /\ Legible(p, <<>>, <<x>>)
<1>1. EsSec(<<x>>) /\ <<x>> # <<>> /\ Len(<<x>>) = 1
    BY DEF EsSec
<1>2. ASSUME NEW n \in 0 .. 1
      PROVE  LET recibe == Llamada(p, Tras(<<>>, <<x>>, n)).recibe IN
             /\ n < 1 => /\ 0 + n < Len(recibe)
                         /\ Calza(<<x>>[n + 1], recibe[0 + n + 1])
             /\ n = 1 => Len(recibe) = 0 + n
  <2>1. Llamada(p, Tras(<<>>, <<x>>, n)).recibe = <<espera>>
      OBVIOUS
  <2>2. CASE n = 0
      BY <2>1, <2>2
  <2>3. CASE n = 1
      BY <2>1, <2>3
  <2> QED BY <2>2, <2>3
<1> QED BY <1>1, <1>2, Vacia DEF Legible

(* What the client has read of an answer it reads from its beginning.       *)
LEMMA TrasDeNada ==
    ASSUME NEW r, EsSec(r), NEW n \in 0 .. Len(r)
    PROVE  LET v == Tras(<<>>, r, n) IN
           /\ EsSec(v) /\ Len(v) = n /\ (v = <<>> <=> n = 0)
           /\ \A i \in 1 .. n : v[i] = r[i].valor
<1> DEFINE v == Tras(<<>>, r, n)
<1>1. n \in Nat
    BY DEF EsSec
<1>2. v = [i \in 1 .. n |-> r[i].valor]
    BY <1>1, Vacia DEF Tras
<1>3. v \in Seq({r[i].valor : i \in 1 .. n})
    BY <1>1, <1>2
<1>4. EsSec(v) /\ Len(v) = n
    BY <1>1, <1>2, <1>3, EsSecSi
<1> QED BY <1>1, <1>2, <1>4, Vacia

(* What the client reads next of r, when it expects e and has read n fields. *)
Pide(e, r, n) ==
    /\ n < Len(r) => n < Len(e) /\ Calza(r[n + 1], e[n + 1])
    /\ n = Len(r) => Len(e) = n

(* An answer read from its beginning.                                        *)
LEMMA LegibleSi ==
    ASSUME NEW p, NEW r, EsSec(r),
           \A n \in 0 .. Len(r) : Pide(Llamada(p, Tras(<<>>, r, n)).recibe, r, n)
    PROVE  Legible(p, <<>>, r)
<1>1. ASSUME NEW n \in 0 .. Len(r)
      PROVE  LET recibe == Llamada(p, Tras(<<>>, r, n)).recibe IN
             /\ n < Len(r) => /\ Len(<<>>) + n < Len(recibe)
                              /\ Calza(r[n + 1], recibe[Len(<<>>) + n + 1])
             /\ n = Len(r) => Len(recibe) = Len(<<>>) + n
  <2> DEFINE e == Llamada(p, Tras(<<>>, r, n)).recibe
  <2>1. Pide(e, r, n)
      OBVIOUS
  <2>2. Len(<<>>) + n = n
      BY Vacia DEF EsSec
  <2> HIDE DEF e
  <2>3. /\ n < Len(r) => /\ Len(<<>>) + n < Len(e)
                         /\ Calza(r[n + 1], e[Len(<<>>) + n + 1])
        /\ n = Len(r) => Len(e) = Len(<<>>) + n
      BY <2>1, <2>2 DEF Pide
  <2> QED BY <2>3 DEF e
<1> QED BY <1>1 DEF Legible

(* The attributes: four fields, three or one.                               *)
LEMMA AtributosLegibles ==
    ASSUME NEW p, p.op = "GET_ATTR", NEW r
    PROVE  LET m == getAttr(r).manda IN EsSec(m) /\ m # <<>> /\ Legible(p, <<>>, m)
<1> DEFINE m == getAttr(r).manda
           v(n) == Tras(<<>>, m, n)
           uno == <<Espera("existe", 4)>>
           dos == <<Espera("existe", 4), Espera("esArchivo", 1)>>
           tres == <<Espera("existe", 4), Espera("esArchivo", 1), Espera("lastmod", 4)>>
           cuatro == <<Espera("existe", 4), Espera("esArchivo", 1), Espera("size", 4),
                       Espera("lastmod", 4)>>
<1>1. ASSUME NEW w
      PROVE  Llamada(p, w).recibe =
               IF w = <<>> \/ w[1] > 0 THEN uno ELSE IF Len(w) < 2 THEN dos
               ELSE IF w[2] THEN cuatro ELSE tres
    BY DEF Llamada, GetAttr
<1>2. CASE r = "nada"
  <2>1. m = <<[campo |-> "existe", bytes |-> 4, valor |-> 1]>>
      BY <1>2 DEF getAttr, Existencia, Campo
  <2>2. /\ m # <<>> /\ Len(m) = 1 /\ EsSec(m)
        /\ m[1].valor = 1 /\ Calza(m[1], Espera("existe", 4))
      BY <2>1 DEF EsSec, Calza, Espera
  <2> HIDE DEF m
  <2>3. ASSUME NEW n \in 0 .. 1 PROVE Pide(Llamada(p, v(n)).recibe, m, n)
    <3>1. (v(n) = <<>> <=> n = 0) /\ (n = 1 => v(n)[1] = 1)
        BY <2>2, TrasDeNada
    <3> HIDE DEF v
    <3>2. Llamada(p, v(n)).recibe = uno
        BY <1>1, <3>1
    <3>3. Pide(uno, m, n)
        BY <2>2 DEF Pide
    <3> QED BY <3>2, <3>3
  <2>4. Legible(p, <<>>, m)
      BY <2>2, <2>3, LegibleSi
  <2> QED BY <2>2, <2>4 DEF m
<1>3. CASE r = "archivo"
  <2>1. m = <<[campo |-> "existe", bytes |-> 4, valor |-> 0],
              [campo |-> "esArchivo", bytes |-> 1, valor |-> TRUE],
              [campo |-> "size", bytes |-> 4, valor |-> Tamanio],
              [campo |-> "lastmod", bytes |-> 4, valor |-> 0]>>
      BY <1>3 DEF getAttr, Existencia, EsArchivo, Lastmod, Campo
  <2>2. /\ m # <<>> /\ Len(m) = 4 /\ EsSec(m)
        /\ m[1].valor = 0 /\ m[2].valor
        /\ Calza(m[1], Espera("existe", 4)) /\ Calza(m[2], Espera("esArchivo", 1))
        /\ Calza(m[3], Espera("size", 4)) /\ Calza(m[4], Espera("lastmod", 4))
      BY <2>1 DEF EsSec, Calza, Espera
  <2> HIDE DEF m
  <2>3. ASSUME NEW n \in 0 .. 4 PROVE Pide(Llamada(p, v(n)).recibe, m, n)
    <3>0. n \in 0 .. Len(m) /\ EsSec(m)
        BY <2>2
    <3>1. /\ (v(n) = <<>> <=> n = 0) /\ Len(v(n)) = n
          /\ \A i \in 1 .. n : v(n)[i] = m[i].valor
        BY <3>0, TrasDeNada
    <3> HIDE DEF v
    <3>2. CASE n = 0
      <4>1. Llamada(p, v(n)).recibe = uno
          BY <1>1, <3>1, <3>2
      <4>2. Pide(uno, m, n)
          BY <2>2, <3>2 DEF Pide
      <4> QED BY <4>1, <4>2
    <3>3. CASE n = 1
      <4>0. v(n) # <<>> /\ v(n)[1] = 0 /\ Len(v(n)) = 1
          BY <2>2, <3>1, <3>3
      <4>1. Llamada(p, v(n)).recibe = dos
          BY <1>1, <4>0
      <4>2. Pide(dos, m, n)
          BY <2>2, <3>3 DEF Pide
      <4> QED BY <4>1, <4>2
    <3>4. CASE n = 2 \/ n = 3 \/ n = 4
      <4>0. ~(v(n) = <<>> \/ v(n)[1] > 0) /\ ~(Len(v(n)) < 2) /\ v(n)[2]
          BY <2>2, <3>1, <3>4
      <4>1. Llamada(p, v(n)).recibe = cuatro
          BY <1>1, <4>0, Zenon
      <4>2. Pide(cuatro, m, n)
          BY <2>2, <3>4 DEF Pide
      <4> QED BY <4>1, <4>2
    <3> QED BY <3>2, <3>3, <3>4
  <2>4. Legible(p, <<>>, m)
      BY <2>2, <2>3, LegibleSi
  <2> QED BY <2>2, <2>4 DEF m
<1>4. CASE r # "nada" /\ r # "archivo"
  <2>1. m = <<[campo |-> "existe", bytes |-> 4, valor |-> 0],
              [campo |-> "esArchivo", bytes |-> 1, valor |-> FALSE],
              [campo |-> "lastmod", bytes |-> 4, valor |-> 0]>>
      BY <1>4 DEF getAttr, Existencia, EsArchivo, Lastmod, Campo
  <2>2. /\ m # <<>> /\ Len(m) = 3 /\ EsSec(m)
        /\ m[1].valor = 0 /\ ~m[2].valor
        /\ Calza(m[1], Espera("existe", 4)) /\ Calza(m[2], Espera("esArchivo", 1))
        /\ Calza(m[3], Espera("lastmod", 4))
      BY <2>1 DEF EsSec, Calza, Espera
  <2> HIDE DEF m
  <2>3. ASSUME NEW n \in 0 .. 3 PROVE Pide(Llamada(p, v(n)).recibe, m, n)
    <3>0. n \in 0 .. Len(m) /\ EsSec(m)
        BY <2>2
    <3>1. /\ (v(n) = <<>> <=> n = 0) /\ Len(v(n)) = n
          /\ \A i \in 1 .. n : v(n)[i] = m[i].valor
        BY <3>0, TrasDeNada
    <3> HIDE DEF v
    <3>2. CASE n = 0
      <4>1. Llamada(p, v(n)).recibe = uno
          BY <1>1, <3>1, <3>2
      <4>2. Pide(uno, m, n)
          BY <2>2, <3>2 DEF Pide
      <4> QED BY <4>1, <4>2
    <3>3. CASE n = 1
      <4>0. v(n) # <<>> /\ v(n)[1] = 0 /\ Len(v(n)) = 1
          BY <2>2, <3>1, <3>3
      <4>1. Llamada(p, v(n)).recibe = dos
          BY <1>1, <4>0
      <4>2. Pide(dos, m, n)
          BY <2>2, <3>3 DEF Pide
      <4> QED BY <4>1, <4>2
    <3>4. CASE n = 2 \/ n = 3
      <4>0. ~(v(n) = <<>> \/ v(n)[1] > 0) /\ ~(Len(v(n)) < 2) /\ ~v(n)[2]
          BY <2>2, <3>1, <3>4
      <4>1. Llamada(p, v(n)).recibe = tres
          BY <1>1, <4>0, Zenon
      <4>2. Pide(tres, m, n)
          BY <2>2, <3>4 DEF Pide
      <4> QED BY <4>1, <4>2
    <3> QED BY <3>2, <3>3, <3>4
  <2>4. Legible(p, <<>>, m)
      BY <2>2, <2>3, LegibleSi
  <2> QED BY <2>2, <2>4 DEF m
<1> QED BY <1>2, <1>3, <1>4

(* A directory: the number of elements, and two fields for each.            *)
Elementos(t) ==
    [i \in 1 .. t |->
       IF i = 1 THEN Espera("tipo", 4) ELSE IF i = 2 THEN Espera("cantidad", 4)
       ELSE IF i % 2 = 1 THEN Espera("nombre", 17) ELSE Espera("clase", 4)]

(* A directory of any number of elements: the second field says how many.    *)
LEMMA DirectorioLegible ==
    ASSUME NEW p, p.op = "GET_DIRECTORIO", NEW r, NEW f, Cantidad(r) \in Nat
    PROVE  LET m == getEstructuraDirectorio(r, f).manda
           IN  EsSec(m) /\ m # <<>> /\ Legible(p, <<>>, m)
<1> DEFINE m == getEstructuraDirectorio(r, f).manda
           v(n) == Tras(<<>>, m, n)
           k == Cantidad(r)
           x(i) == SetToSeq(r)[(i - 1) \div 2]
<1>1. ASSUME NEW w
      PROVE  Llamada(p, w).recibe =
               IF w # <<>> /\ w[1] # 2 THEN <<Espera("tipo", 4)>>
               ELSE Elementos(IF Len(w) < 2 THEN 2 ELSE 2 + 2 * w[2])
    BY DEF Llamada, GetDir, Elementos, ENVIO_DATA_DIRECTORIO
<1>2. m = [i \in 1 .. 2 + 2 * k |->
             IF i = 1 THEN Campo("tipo", 4, 2)
             ELSE IF i = 2 THEN Campo("cantidad", 4, k)
             ELSE IF i % 2 = 1 THEN Campo("nombre", 17, x(i))
             ELSE Campo("clase", 4, f[x(i)])]
    BY DEF getEstructuraDirectorio, ENVIO_DATA_DIRECTORIO
<1>3. k \in Nat
    OBVIOUS
<1> HIDE DEF m, k, x
<1>4. m \in Seq({m[i] : i \in 1 .. 2 + 2 * k}) /\ Len(m) = 2 + 2 * k
    BY <1>2, <1>3
<1>5. EsSec(m) /\ m # <<>>
    BY <1>3, <1>4, EsSecSi, Vacia
<1>6. m[1].valor = 2 /\ m[2].valor = k
    BY <1>2, <1>3 DEF Campo
<1>7. \A t \in Nat, i \in 1 .. 2 + 2 * k : i <= t => Calza(m[i], Elementos(t)[i])
    BY <1>2, <1>3 DEF Campo, Calza, Espera, Elementos
<1>8. \A t \in Nat : Len(Elementos(t)) = t
    BY DEF Elementos
<1>9. ASSUME NEW n \in 0 .. Len(m) PROVE Pide(Llamada(p, v(n)).recibe, m, n)
  <2>1. /\ (v(n) = <<>> <=> n = 0) /\ Len(v(n)) = n
        /\ \A i \in 1 .. n : v(n)[i] = m[i].valor
      BY <1>5, TrasDeNada
  <2> HIDE DEF v
  <2>2. CASE n < 2
    <3>1. ~(v(n) # <<>> /\ v(n)[1] # 2) /\ Len(v(n)) < 2
        BY <1>3, <1>4, <1>6, <2>1, <2>2
    <3>2. Llamada(p, v(n)).recibe = Elementos(2)
        BY <1>1, <3>1
    <3>3. Pide(Elementos(2), m, n)
        BY <1>3, <1>4, <1>7, <1>8, <2>2 DEF Pide
    <3> QED BY <3>2, <3>3
  <2>3. CASE n >= 2
    <3>1. ~(v(n) # <<>> /\ v(n)[1] # 2) /\ ~(Len(v(n)) < 2) /\ v(n)[2] = k
        BY <1>3, <1>4, <1>6, <2>1, <2>3
    <3>2. Llamada(p, v(n)).recibe = Elementos(2 + 2 * k)
        BY <1>1, <3>1
    <3>3. Pide(Elementos(2 + 2 * k), m, n)
        BY <1>3, <1>4, <1>7, <1>8, <2>3 DEF Pide
    <3> QED BY <3>2, <3>3
  <2> QED BY <1>3, <1>4, <2>2, <2>3
<1>10. Legible(p, <<>>, m)
    BY <1>5, <1>9, LegibleSi
<1> QED BY <1>5, <1>10 DEF m

(* Whatever a call finds, its answer is read to its end, or there is none.  *)
LEMMA RespuestaLegible ==
    ASSUME NEW p \in Pedido, NEW f, NEW q, q.op = p.op, NEW e \in Efectos(f, q)
    PROVE  LET m == Interpretar(p.op, e[2], f).manda
           IN  m = <<>> \/ (EsSec(m) /\ m # <<>> /\ Legible(p, <<>>, m))
<1> DEFINE m == Interpretar(p.op, e[2], f).manda
<1>1. CASE p.op = "ABRIR_ARCHIVO"
  <2>1. PICK x : m = <<Campo("resultado", 4, x)>>
      BY <1>1 DEF Interpretar, abrirArchivo, Entero
  <2>2. \A v : Llamada(p, v).recibe = <<Espera("resultado", 4)>>
      BY <1>1 DEF Llamada, AbrirArchivo, Resultado
  <2> QED BY <2>1, <2>2, UnCampo DEF Campo, Espera, Calza
<1>2. CASE p.op = "ESCRIBIR_ARCHIVO"
  <2>1. PICK x : m = <<Campo("resultado", 4, x)>>
      BY <1>2 DEF Interpretar, escribirArchivo, Entero
  <2>2. \A v : Llamada(p, v).recibe = <<Espera("resultado", 4)>>
      BY <1>2 DEF Llamada, EscribirArchivo, Resultado
  <2> QED BY <2>1, <2>2, UnCampo DEF Campo, Espera, Calza
<1>3. CASE p.op = "CREAR_ARCHIVO"
  <2>1. PICK x : m = <<Campo("resultado", 2, x)>>
      BY <1>3 DEF Interpretar, crearArchivo, Entero
  <2>2. \A v : Llamada(p, v).recibe = <<Espera("resultado", 2)>>
      BY <1>3 DEF Llamada, CrearArchivoPedido, Resultado
  <2> QED BY <2>1, <2>2, UnCampo DEF Campo, Espera, Calza
<1>4. CASE p.op = "CREAR_DIRECTORIO"
  <2>1. PICK x : m = <<Campo("resultado", 2, x)>>
      BY <1>4 DEF Interpretar, crearDirectorio, Entero
  <2>2. \A v : Llamada(p, v).recibe = <<Espera("resultado", 2)>>
      BY <1>4 DEF Llamada, CrearDirectorioPedido, Resultado
  <2> QED BY <2>1, <2>2, UnCampo DEF Campo, Espera, Calza
<1>5. CASE p.op = "RENOMBRAR_ARCHIVO"
  <2>1. PICK x : m = <<Campo("resultado", 4, x)>>
      BY <1>5 DEF Interpretar, renombrarArchivo, Entero
  <2>2. \A v : Llamada(p, v).recibe = <<Espera("resultado", 4)>>
      BY <1>5 DEF Llamada, RenombrarArchivo, Resultado
  <2> QED BY <2>1, <2>2, UnCampo DEF Campo, Espera, Calza
<1>6. CASE p.op = "ELIMINAR_ARCHIVO"
  <2>1. PICK x : m = <<Campo("resultado", 4, x)>>
      BY <1>6 DEF Interpretar, eliminarArchivo, Entero
  <2>2. \A v : Llamada(p, v).recibe = <<Espera("resultado", 4)>>
      BY <1>6 DEF Llamada, BorrarArchivo, Resultado
  <2> QED BY <2>1, <2>2, UnCampo DEF Campo, Espera, Calza
<1>7. CASE p.op = "TRUNCAR_ARCHIVO"
  <2>1. PICK x : m = <<Campo("resultado", 4, x)>>
      BY <1>7 DEF Interpretar, truncarArchivo, Entero
  <2>2. \A v : Llamada(p, v).recibe = <<Espera("resultado", 4)>>
      BY <1>7 DEF Llamada, TruncarArchivo, Resultado
  <2> QED BY <2>1, <2>2, UnCampo DEF Campo, Espera, Calza
<1>8. CASE p.op = "UTIMENS"
  <2>1. PICK x : m = <<Campo("resultado", 4, x)>>
      BY <1>8 DEF Interpretar, server_utimens, Entero
  <2>2. \A v : Llamada(p, v).recibe = <<Espera("resultado", 4)>>
      BY <1>8 DEF Llamada, UtimensPedido, Resultado
  <2> QED BY <2>1, <2>2, UnCampo DEF Campo, Espera, Calza
<1>9. CASE p.op = "LEER_ARCHIVO"
  <2>1. e[2] \in {Tamanio, NADA}
      BY <1>9 DEF Efectos, Leer
  <2>2. m = <<>> \/ m = <<Campo("datos", Tamanio, "datos")>>
      BY <1>9, <2>1 DEF Interpretar, leerArchivo
  <2>3. \A v : Llamada(p, v).recibe = <<Espera("datos", Tamanio)>>
      BY <1>9 DEF Llamada, LeerArchivo
  <2>4. Calza(Campo("datos", Tamanio, "datos"), Espera("datos", Tamanio))
      BY DEF Campo, Espera, Calza
  <2>5. LET s == <<Campo("datos", Tamanio, "datos")>>
        IN  EsSec(s) /\ s # <<>> /\ Legible(p, <<>>, s)
      BY <2>3, <2>4, UnCampo
  <2> QED BY <2>2, <2>5
<1>10. CASE p.op = "GET_ATTR"
  <2>1. m = getAttr(e[2]).manda
      BY <1>10 DEF Interpretar
  <2> QED BY <1>10, <2>1, AtributosLegibles
<1>11. CASE p.op = "GET_DIRECTORIO"
  <2>1. e[2] = Existentes(f)
      BY <1>11 DEF Efectos, EstructuraDirectorio
  <2>2. Existentes(f) \subseteq Rutas
      BY DEF Existentes
  <2>3. IsFiniteSet(Existentes(f)) /\ Cardinality(Existentes(f)) \in Nat
      BY <2>2, CanalAssumption, FS_Subset, FS_CardinalityType
  <2>4. Cantidad(e[2]) \in Nat
      BY <2>1, <2>3 DEF Cantidad
  <2>5. m = getEstructuraDirectorio(e[2], f).manda
      BY <1>11 DEF Interpretar
  <2> QED BY <1>11, <2>4, <2>5, DirectorioLegible
<1> QED
    BY <1>1, <1>2, <1>3, <1>4, <1>5, <1>6, <1>7, <1>8, <1>9, <1>10, <1>11
    DEF Pedido, Operaciones

-----------------------------------------------------------------------------
(* One step, seen from one connection.                                      *)
FormaCli(e) == DOMAIN e = {"pc", "pedido", "i", "leido"}
FormaHilo(h) == DOMAIN h = {"pc", "op", "k", "rutas", "cola"}

(* A request starts with its type; cutting a field keeps its name.           *)
LEMMA LosCampos ==
    ASSUME NEW p \in Pedido
    PROVE  /\ Len(Campos(p)) \in Nat /\ Len(Campos(p)) >= 2
           /\ Campos(p)[1].campo = "tipo" /\ Campos(p)[1].bytes = 4
           /\ Campos(p)[1].valor = p.op
           /\ \A k \in 1 .. Len(Campos(p)) :
                 CortadoEn(Campos(p)[k]).campo = Campos(p)[k].campo
<1>1. Iguales(p, Campos(p), Interpretar(p.op, NADA, NADA).lee)
    BY PedidoCalza
<1> QED BY <1>1 DEF Iguales, Tipo, Campo

(* The thread reads the type of the request that is coming.                  *)
LEMMA Cabecera ==
    ASSUME NEW p \in Pedido, NEW A, NEW h, FormaHilo(h), EsSec(A), A # <<>>,
           EnCamino(A, h, p), h.pc = "cabecera"
    PROVE  LET h2 == [h EXCEPT !.pc = "campos", !.op = Head(A).valor] IN
           /\ FormaHilo(h2) /\ h2.pc = "campos"
           /\ Leidos(h) = 0 /\ Leidos(h2) = 1
           /\ A[1] = Campos(p)[1] /\ EnCamino(Tail(A), h2, p)
<1> DEFINE h2 == [h EXCEPT !.pc = "campos", !.op = Head(A).valor]
           m == Campos(p)
<1>1. /\ FormaHilo(h2) /\ h2.pc = "campos" /\ h2.op = Head(A).valor /\ h2.k = h.k
    BY DEF FormaHilo
<1>2. h.k = 1 /\ Leidos(h) = 0 /\ Leidos(h2) = 1
    BY <1>1 DEF EnCamino, Adentro, Quieto, Leidos
<1>3. Head(A) = A[1] /\ Len(A) \in Nat \ {0} /\ Len(Tail(A)) = Len(A) - 1
    BY Resto
<1>4. \A i \in 1 .. Len(A) - 1 : Tail(A)[i] = A[i + 1]
    BY Resto
<1>5. /\ Len(m) \in Nat /\ Len(m) >= 2
      /\ m[1].campo = "tipo" /\ m[1].valor = p.op
    BY LosCampos
<1>6. Leidos(h) + Len(A) <= Len(m)
    BY DEF EnCamino
<1>7. \A i \in 1 .. Len(A) :
          \/ A[i] = m[Leidos(h) + i]
          \/ /\ i = Len(A) /\ m[Leidos(h) + i].campo = "datos"
             /\ A[i] = CortadoEn(m[Leidos(h) + i])
    BY DEF EnCamino
<1> HIDE DEF h2, m
<1>8. A[1] = m[1]
  <2>1. 1 \in 1 .. Len(A) /\ Leidos(h) + 1 = 1
      BY <1>2, <1>3
  <2> QED BY <1>5, <1>7, <2>1
<1>9. Adentro(h2, p)
  <2>1. h2.op = p.op /\ h2.k \in 1 .. Len(m) - 1
      BY <1>1, <1>2, <1>3, <1>5, <1>8
  <2> QED BY <1>1, <2>1 DEF Adentro, m
<1>10. Leidos(h2) + Len(Tail(A)) <= Len(m)
    BY <1>2, <1>3, <1>5, <1>6
<1>11. ASSUME NEW i \in 1 .. Len(Tail(A))
       PROVE  \/ Tail(A)[i] = m[Leidos(h2) + i]
              \/ /\ i = Len(Tail(A)) /\ m[Leidos(h2) + i].campo = "datos"
                 /\ Tail(A)[i] = CortadoEn(m[Leidos(h2) + i])
  <2>1. /\ i + 1 \in 1 .. Len(A) /\ i \in 1 .. Len(A) - 1
        /\ Leidos(h) + (i + 1) = Leidos(h2) + i
        /\ (i + 1 = Len(A) <=> i = Len(Tail(A)))
      BY <1>2, <1>3
  <2> QED BY <1>4, <1>7, <2>1
<1> QED BY <1>1, <1>2, <1>8, <1>9, <1>10, <1>11 DEF EnCamino, h2, m

(* It reads one field more of it.                                            *)
LEMMA UnCampoMas ==
    ASSUME NEW p \in Pedido, NEW A, NEW h, NEW h2, NEW f,
           EsSec(A), A # <<>>, EnCamino(A, h, p), h.pc = "campos",
           h2.op = h.op, h2.k = h.k + 1,
           h2.pc = IF h.k = Len(Interpretar(h.op, NADA, f).lee) THEN "atender" ELSE h.pc
    PROVE  Leidos(h2) = Leidos(h) + 1 /\ EnCamino(Tail(A), h2, p)
<1> DEFINE m == Campos(p)
<1>1. /\ Len(m) = Len(Interpretar(h.op, NADA, f).lee) + 1
      /\ Len(Interpretar(h.op, NADA, f).lee) \in Nat
    BY PedidoCalza DEF EnCamino, Adentro, Quieto, Iguales
<1>2. h.k \in 1 .. Len(m) - 1 /\ h.op = p.op /\ Leidos(h) = h.k
    BY DEF EnCamino, Adentro, Quieto, Leidos
<1>3. Len(A) \in Nat \ {0} /\ Len(Tail(A)) = Len(A) - 1
    BY Resto
<1>4. \A i \in 1 .. Len(A) - 1 : Tail(A)[i] = A[i + 1]
    BY Resto
<1>5. Leidos(h) + Len(A) <= Len(m)
    BY DEF EnCamino
<1>6. \A i \in 1 .. Len(A) :
          \/ A[i] = m[Leidos(h) + i]
          \/ /\ i = Len(A) /\ m[Leidos(h) + i].campo = "datos"
             /\ A[i] = CortadoEn(m[Leidos(h) + i])
    BY DEF EnCamino
<1> HIDE DEF m
<1>7. Leidos(h2) = h.k + 1 /\ Leidos(h2) = Leidos(h) + 1
    BY <1>2 DEF Leidos
<1>8. Adentro(h2, p)
    BY <1>1, <1>2 DEF Adentro, m
<1>9. Leidos(h2) + Len(Tail(A)) <= Len(m)
  <2>1. Len(m) \in Nat /\ h.k \in Nat
      BY <1>1, <1>2
  <2> QED BY <1>2, <1>3, <1>5, <1>7, <2>1
<1>10. ASSUME NEW i \in 1 .. Len(Tail(A))
       PROVE  \/ Tail(A)[i] = m[Leidos(h2) + i]
              \/ /\ i = Len(Tail(A)) /\ m[Leidos(h2) + i].campo = "datos"
                 /\ Tail(A)[i] = CortadoEn(m[Leidos(h2) + i])
  <2>1. /\ i + 1 \in 1 .. Len(A) /\ i \in 1 .. Len(A) - 1
        /\ Leidos(h) + (i + 1) = Leidos(h2) + i
        /\ (i + 1 = Len(A) <=> i = Len(Tail(A)))
      BY <1>2, <1>3, <1>7
  <2> QED BY <1>4, <1>6, <2>1
<1> QED BY <1>7, <1>8, <1>9, <1>10 DEF EnCamino, m

(* The client connects.                                                      *)
LEMMA AlConectar ==
    ASSUME NEW A, NEW B, NEW x, NEW e, NEW h, Fase(A, B, x, e, h), e.pc = "afuera"
    PROVE  FormaCli(Libre) /\ Fase(A, B, "abierto", Libre, h)
BY DEF Fase, Afuera, Tranquilo, Pidiendo, Respondiendo, SinRespuesta, Ido, Libre, Quieto,
       FormaCli

(* It begins a call.                                                         *)
LEMMA AlLlamar ==
    ASSUME NEW A, NEW B, NEW x, NEW e, NEW h, Fase(A, B, x, e, h), FormaCli(e),
           e.pc = "libre", NEW p \in Pedido
    PROVE  LET e2 == [e EXCEPT !.pc = "mandando", !.pedido = p]
           IN  FormaCli(e2) /\ Fase(A, B, x, e2, h)
<1> DEFINE e2 == [e EXCEPT !.pc = "mandando", !.pedido = p]
<1>1. /\ FormaCli(e2) /\ e2.pc = "mandando" /\ e2.pedido = p
      /\ e2.i = e.i /\ e2.leido = e.leido
    BY DEF FormaCli
<1>2. Tranquilo(A, B, x, e, h)
    BY DEF Fase, Afuera, Tranquilo, Pidiendo, Respondiendo, SinRespuesta, Ido
<1>3. Len(A) = 0 /\ Leidos(h) = 0
    BY <1>2, Vacia DEF Tranquilo, Quieto, Leidos
<1> HIDE DEF e2
<1>4. EnCamino(A, h, p)
    BY <1>2, <1>3, LosCampos DEF EnCamino, Adentro, Tranquilo
<1>5. Pidiendo(A, B, x, e2, h)
    BY <1>1, <1>2, <1>3, <1>4, LosCampos DEF Pidiendo, Tranquilo
<1> QED BY <1>1, <1>5 DEF Fase, e2

(* It sends the next field of the call.                                      *)
LEMMA AlMandar ==
    ASSUME NEW A, NEW B, NEW x, NEW e, NEW h, Fase(A, B, x, e, h), FormaCli(e),
           EsSec(A), e.pc = "mandando"
    PROVE  LET m == Campos(e.pedido)
               e2 == [e EXCEPT !.i = @ + 1,
                               !.pc = IF e.i = Len(m) THEN "esperando" ELSE @]
           IN  FormaCli(e2) /\ Fase(Append(A, m[e.i]), B, x, e2, h)
<1> DEFINE m == Campos(e.pedido)
           e2 == [e EXCEPT !.i = @ + 1,
                           !.pc = IF e.i = Len(m) THEN "esperando" ELSE @]
           A2 == Append(A, m[e.i])
<1>1. /\ FormaCli(e2) /\ e2.pedido = e.pedido /\ e2.leido = e.leido /\ e2.i = e.i + 1
      /\ e2.pc = IF e.i = Len(m) THEN "esperando" ELSE "mandando"
    BY DEF FormaCli
<1>2. Pidiendo(A, B, x, e, h)
    BY DEF Fase, Afuera, Tranquilo, Pidiendo, Respondiendo, SinRespuesta, Ido
<1>3. Len(A) \in Nat /\ Len(A2) = Len(A) + 1 /\ A2[Len(A) + 1] = m[e.i]
    BY Agregado
<1>4. \A i \in 1 .. Len(A) : A2[i] = A[i]
    BY Agregado
<1>5. e.pedido \in Pedido /\ Len(m) \in Nat /\ e.i \in 1 .. Len(m)
    BY <1>2, LosCampos DEF Pidiendo
<1>6. /\ Adentro(h, e.pedido) /\ Leidos(h) + Len(A) = e.i - 1 /\ x = "abierto"
      /\ B = <<>> /\ e.leido = <<>>
    BY <1>2 DEF Pidiendo, EnCamino
<1>7. \A i \in 1 .. Len(A) : A[i] = m[Leidos(h) + i]
    BY <1>2 DEF Pidiendo
<1>8. Leidos(h) \in Nat
    BY <1>5, <1>6, LosCampos DEF Adentro, Quieto, Leidos
<1> HIDE DEF m, e2, A2
<1>9. ASSUME NEW i \in 1 .. Len(A2) PROVE A2[i] = m[Leidos(h) + i]
  <2>1. CASE i \in 1 .. Len(A)
      BY <1>4, <1>7, <2>1
  <2>2. CASE i = Len(A) + 1
    <3>1. Leidos(h) + i = e.i
        BY <1>3, <1>5, <1>6, <1>8, <2>2
    <3> QED BY <1>3, <2>2, <3>1
  <2> QED BY <1>3, <2>1, <2>2
<1>10. Leidos(h) + Len(A2) = e2.i - 1 /\ Leidos(h) + Len(A2) <= Len(m)
    BY <1>1, <1>3, <1>5, <1>6, <1>8
<1>11. EnCamino(A2, h, e2.pedido)
    BY <1>1, <1>6, <1>9, <1>10 DEF EnCamino, m
<1>12. /\ e2.pc \in {"mandando", "esperando"} /\ e2.i \in 1 .. Len(m) + 1
       /\ e2.pc = "esperando" <=> e2.i = Len(m) + 1
    BY <1>1, <1>5
<1>13. Pidiendo(A2, B, x, e2, h)
    BY <1>1, <1>5, <1>6, <1>9, <1>10, <1>11, <1>12 DEF Pidiendo, m
<1> QED BY <1>1, <1>13 DEF Fase, e2, A2, m

(* The client reads one field more of an answer it can read to its end.     *)
LEMMA TrasUnoMas ==
    ASSUME NEW v, EsSec(v), NEW r, EsSec(r), r # <<>>
    PROVE  LET w == Append(v, r[1].valor) IN
           /\ Tras(v, r, 0) = v /\ Tras(v, r, 1) = w
           /\ \A n \in 0 .. Len(r) - 1 : Tras(w, Tail(r), n) = Tras(v, r, n + 1)
<1> DEFINE w == Append(v, r[1].valor)
<1>1. Len(v) \in Nat /\ Len(w) = Len(v) + 1 /\ w[Len(v) + 1] = r[1].valor
    BY Agregado
<1>2. (\A i \in 1 .. Len(v) : w[i] = v[i]) /\ EsSec(w)
    BY Agregado
<1>3. Len(r) \in Nat \ {0}
    BY Resto
<1>4. \A i \in 1 .. Len(r) - 1 : Tail(r)[i] = r[i + 1]
    BY Resto
<1> HIDE DEF w
<1>5. Tras(v, r, 0) = v
    BY <1>1 DEF Tras, EsSec
<1>6. Tras(v, r, 1) = w
  <2>1. Tras(v, r, 1) =
              [i \in 1 .. Len(w) |-> IF i <= Len(v) THEN v[i] ELSE r[i - Len(v)].valor]
      BY <1>1 DEF Tras
  <2>2. ASSUME NEW i \in 1 .. Len(w)
        PROVE  w[i] = IF i <= Len(v) THEN v[i] ELSE r[i - Len(v)].valor
    <3>1. CASE i <= Len(v)
        BY <1>1, <1>2, <3>1
    <3>2. CASE i = Len(v) + 1
      <4>1. i - Len(v) = 1
          BY <1>1, <3>2
      <4> QED BY <1>1, <3>2, <4>1
    <3> QED BY <1>1, <3>1, <3>2
  <2> QED BY <1>2, <2>1, <2>2 DEF EsSec
<1>7. ASSUME NEW n \in 0 .. Len(r) - 1 PROVE Tras(w, Tail(r), n) = Tras(v, r, n + 1)
  <2>1. Len(w) + n = Len(v) + (n + 1)
      BY <1>1, <1>3
  <2>2. ASSUME NEW i \in 1 .. Len(w) + n
        PROVE  (IF i <= Len(w) THEN w[i] ELSE Tail(r)[i - Len(w)].valor)
               = (IF i <= Len(v) THEN v[i] ELSE r[i - Len(v)].valor)
    <3>1. CASE i <= Len(v)
        BY <1>1, <1>2, <3>1
    <3>2. CASE i = Len(v) + 1
      <4>1. i - Len(v) = 1 /\ i <= Len(w) /\ ~(i <= Len(v))
          BY <1>1, <3>2
      <4> QED BY <1>1, <3>2, <4>1
    <3>3. CASE i > Len(v) + 1
      <4>1. /\ ~(i <= Len(w)) /\ ~(i <= Len(v))
            /\ i - Len(w) \in 1 .. Len(r) - 1 /\ (i - Len(w)) + 1 = i - Len(v)
          BY <1>1, <1>3, <3>3
      <4> QED BY <1>4, <4>1
    <3>4. Len(v) \in Nat /\ i \in Int
        BY <1>1
    <3> QED BY <3>1, <3>2, <3>3, <3>4
  <2> QED BY <2>1, <2>2 DEF Tras
<1> QED BY <1>5, <1>6, <1>7 DEF w

(* It reads one field more, and then knows whether there are others.         *)
LEMMA Avance ==
    ASSUME NEW p, NEW v, EsSec(v), NEW r, EsSec(r), r # <<>>, Legible(p, v, r)
    PROVE  LET w == Append(v, r[1].valor)
               recibe == Llamada(p, w).recibe
           IN  /\ EsSec(w)
               /\ Len(r) = 1 => Len(recibe) = Len(w)
               /\ Len(r) > 1 => Len(w) < Len(recibe) /\ Legible(p, w, Tail(r))
<1> DEFINE w == Append(v, r[1].valor)
           recibe(n) == Llamada(p, Tras(v, r, n)).recibe
<1>1. EsSec(w) /\ Len(v) \in Nat /\ Len(w) = Len(v) + 1
    BY Agregado
<1>2. Len(r) \in Nat \ {0} /\ Len(Tail(r)) = Len(r) - 1
    BY Resto
<1>3. \A i \in 1 .. Len(r) - 1 : Tail(r)[i] = r[i + 1]
    BY Resto
<1>4. \A n \in 0 .. Len(r) :
        /\ n < Len(r) => /\ Len(v) + n < Len(recibe(n))
                         /\ Calza(r[n + 1], recibe(n)[Len(v) + n + 1])
        /\ n = Len(r) => Len(recibe(n)) = Len(v) + n
    BY DEF Legible
<1>5. /\ Llamada(p, w).recibe = recibe(1)
      /\ \A n \in 0 .. Len(r) - 1 : Llamada(p, Tras(w, Tail(r), n)).recibe = recibe(n + 1)
    BY TrasUnoMas
<1> HIDE DEF w, recibe
<1>6. Len(r) = 1 => Len(recibe(1)) = Len(w)
    BY <1>1, <1>2, <1>4
<1>7. Len(r) > 1 => Len(w) < Len(recibe(1))
  <2>1. 1 \in 0 .. Len(r)
      BY <1>2
  <2>2. Len(r) > 1 => Len(v) + 1 < Len(recibe(1))
      BY <1>4, <2>1
  <2> QED BY <1>1, <2>2
<1>8. ASSUME Len(r) > 1, NEW n \in 0 .. Len(Tail(r))
      PROVE  LET e == Llamada(p, Tras(w, Tail(r), n)).recibe IN
             /\ n < Len(Tail(r)) => /\ Len(w) + n < Len(e)
                                    /\ Calza(Tail(r)[n + 1], e[Len(w) + n + 1])
             /\ n = Len(Tail(r)) => Len(e) = Len(w) + n
  <2> DEFINE e == Llamada(p, Tras(w, Tail(r), n)).recibe
  <2>1. /\ n \in 0 .. Len(r) - 1 /\ n + 1 \in 0 .. Len(r)
        /\ Len(v) + (n + 1) = Len(w) + n
        /\ (n < Len(Tail(r)) <=> n + 1 < Len(r))
        /\ (n = Len(Tail(r)) <=> n + 1 = Len(r))
      BY <1>1, <1>2
  <2>2. e = recibe(n + 1)
      BY <1>5, <2>1
  <2> HIDE DEF e
  <2>3. /\ n + 1 < Len(r) => /\ Len(w) + n < Len(e)
                             /\ Calza(r[(n + 1) + 1], e[Len(w) + n + 1])
        /\ n + 1 = Len(r) => Len(e) = Len(w) + n
      BY <1>4, <2>1, <2>2
  <2>4. n + 1 < Len(r) => Tail(r)[n + 1] = r[(n + 1) + 1]
      BY <1>2, <1>3, <2>1
  <2> QED BY <2>1, <2>3, <2>4 DEF e
<1> QED BY <1>1, <1>5, <1>6, <1>7, <1>8 DEF Legible, w

(* What is left of an answer, in the connection and in the thread.           *)
LEMMA LoQueFalta ==
    ASSUME NEW B, EsSec(B), B # <<>>, NEW h,
           (h.pc = "contestar" /\ EsSec(h.cola)) \/ h.pc = "cabecera"
    PROVE  LET r == Falta(B, h) IN
           EsSec(r) /\ r # <<>> /\ r[1] = B[1] /\ Tail(r) = Falta(Tail(B), h)
<1>1. CASE h.pc = "contestar"
  <2>1. Falta(B, h) = B \o h.cola /\ Falta(Tail(B), h) = Tail(B) \o h.cola
      BY <1>1 DEF Falta
  <2>2. /\ EsSec(B \o h.cola) /\ B \o h.cola # <<>> /\ (B \o h.cola)[1] = B[1]
        /\ Tail(B \o h.cola) = Tail(B) \o h.cola
      BY <1>1, TailJuntas
  <2> QED BY <2>1, <2>2
<1>2. CASE h.pc = "cabecera"
    BY <1>2 DEF Falta
<1> QED BY <1>1, <1>2

(* The client receives: it goes on with the answer, or returns from the call. *)
LEMMA AlRecibir ==
    ASSUME NEW A, NEW B, NEW x, NEW e, NEW h, Respondiendo(A, B, x, e, h),
           FormaCli(e), EsSec(B), B # <<>>
    PROVE  LET v == Append(e.leido, Head(B).valor)
               sigue == Len(v) < Len(Llamada(e.pedido, v).recibe)
               e2 == [e EXCEPT !.leido = v]
           IN  /\ sigue => FormaCli(e2) /\ Respondiendo(A, Tail(B), x, e2, h)
               /\ ~sigue => FormaCli(Libre) /\ Tail(B) = <<>>
                            /\ Tranquilo(A, Tail(B), x, Libre, h)
<1> DEFINE v == Append(e.leido, Head(B).valor)
           sigue == Len(v) < Len(Llamada(e.pedido, v).recibe)
           e2 == [e EXCEPT !.leido = v]
           r == Falta(B, h)
<1>1. /\ FormaCli(e2) /\ e2.pc = e.pc /\ e2.pedido = e.pedido /\ e2.leido = v
      /\ FormaCli(Libre)
    BY DEF FormaCli, Libre
<1>2. /\ e.pc = "esperando" /\ e.pedido \in Pedido /\ EsSec(e.leido)
      /\ x = "abierto" /\ A = <<>> /\ Legible(e.pedido, e.leido, r)
      /\ \/ h.pc = "contestar" /\ EsSec(h.cola) /\ h.cola # <<>>
         \/ h.pc = "cabecera" /\ h.k = 1
    BY DEF Respondiendo
<1>3. Head(B) = B[1] /\ EsSec(Tail(B))
    BY Resto
<1>9. Len(B) \in Nat \ {0} /\ Len(Tail(B)) = Len(B) - 1
    BY Resto
<1>4. EsSec(r) /\ r # <<>> /\ r[1] = B[1] /\ Tail(r) = Falta(Tail(B), h)
    BY <1>2, LoQueFalta
<1>5. Len(r) \in Nat \ {0}
    BY <1>4, Resto
<1> HIDE DEF r
<1>6. /\ EsSec(v) /\ (Len(r) = 1 => ~sigue)
      /\ Len(r) > 1 => sigue /\ Legible(e.pedido, v, Tail(r))
  <2>1. v = Append(e.leido, r[1].valor)
      BY <1>3, <1>4
  <2>2. /\ EsSec(v)
        /\ Len(r) = 1 => Len(Llamada(e.pedido, v).recibe) = Len(v)
        /\ Len(r) > 1 => sigue /\ Legible(e.pedido, v, Tail(r))
      BY <1>2, <1>4, <2>1, Avance
  <2>3. Len(v) \in Nat
      BY <2>2 DEF EsSec
  <2> HIDE DEF v
  <2> QED BY <2>2, <2>3
<1>7. CASE Len(r) = 1
  <2>1. h.pc = "cabecera" /\ r = B
    <3>1. ASSUME h.pc = "contestar" PROVE FALSE
      <4>1. r = B \o h.cola /\ EsSec(h.cola) /\ h.cola # <<>>
          BY <1>2, <3>1 DEF r, Falta
      <4>2. Len(r) = Len(B) + Len(h.cola) /\ Len(h.cola) \in Nat \ {0}
          BY <4>1, Juntas, Resto
      <4>3. \A a, b \in Nat \ {0} : a + b # 1
          OBVIOUS
      <4> QED BY <1>7, <1>9, <4>2, <4>3, Zenon
    <3> QED BY <1>2, <3>1 DEF r, Falta
  <2>2. Tail(B) = <<>>
    <3>1. Len(Tail(B)) = 0
        BY <1>7, <1>9, <2>1
    <3> QED BY <1>3, <3>1, Vacia
  <2>3. Tranquilo(A, Tail(B), x, Libre, h)
      BY <1>2, <2>1, <2>2 DEF Tranquilo, Libre, Quieto
  <2> QED BY <1>1, <1>6, <1>7, <2>2, <2>3
<1>8. CASE Len(r) > 1
  <2>1. h.pc = "cabecera" => Tail(B) # <<>>
    <3>1. h.pc = "cabecera" => r = B
        BY DEF r, Falta
    <3>2. h.pc = "cabecera" => Len(Tail(B)) # 0
        BY <1>8, <1>9, <3>1
    <3> QED BY <1>3, <3>2, Vacia
  <2>2. Respondiendo(A, Tail(B), x, e2, h)
      BY <1>1, <1>2, <1>4, <1>6, <1>8, <2>1 DEF Respondiendo
  <2> QED BY <1>1, <1>6, <1>8, <2>2
<1>10. Len(r) = 1 \/ Len(r) > 1
    BY <1>5
<1> QED BY <1>7, <1>8, <1>10

(* What the one that is killed has sent.                                    *)
Ultimo(A2, A, e) ==
    \/ A2 = A
    \/ /\ e.pc = "mandando" /\ Campos(e.pedido)[e.i].campo = "datos"
       /\ A2 = Append(A, CortadoEn(Campos(e.pedido)[e.i]))

(* The client dies, wherever it was.                                         *)
LEMMA AlMorir ==
    ASSUME NEW A, NEW B, NEW x, NEW e, NEW h, Fase(A, B, x, e, h),
           EsSec(A), e.pc \in {"libre", "mandando", "esperando"},
           NEW x2 \in {"cerrado", "cortado"}, NEW A2, Ultimo(A2, A, e),
           NEW e2, e2.pc = "ido", e2.pedido = e.pedido
    PROVE  Fase(A2, <<>>, x2, e2, h)
<1> DEFINE m == Campos(e.pedido)
<1>1. A2 = A \/ (/\ e.pc = "mandando" /\ m[e.i].campo = "datos"
                 /\ A2 = Append(A, CortadoEn(m[e.i])))
    BY DEF Ultimo
<1>2. \/ Tranquilo(A, B, x, e, h) \/ Pidiendo(A, B, x, e, h)
      \/ Respondiendo(A, B, x, e, h) \/ SinRespuesta(A, B, x, e, h)
    BY DEF Fase, Afuera, Ido
<1>3. CASE \/ Tranquilo(A, B, x, e, h) \/ Respondiendo(A, B, x, e, h)
           \/ SinRespuesta(A, B, x, e, h)
  <2>1. A = <<>> /\ e.pc # "mandando" /\ (Quieto(h) \/ h.pc \in {"contestar", "fin"})
      BY <1>3 DEF Tranquilo, Respondiendo, SinRespuesta, Quieto
  <2>2. Ido(A2, <<>>, x2, e2, h)
      BY <1>1, <2>1 DEF Ido
  <2> QED BY <2>2 DEF Fase
<1>4. CASE Pidiendo(A, B, x, e, h)
  <2>1. /\ e.pedido \in Pedido /\ EnCamino(A, h, e.pedido)
        /\ Leidos(h) + Len(A) = e.i - 1 /\ e.i \in 1 .. Len(m) + 1
        /\ e.pc = "mandando" => e.i # Len(m) + 1
      BY <1>4 DEF Pidiendo
  <2>2. CASE A2 = A
      BY <2>1, <2>2 DEF Fase, Ido
  <2>3. CASE A2 # A
    <3>1. /\ e.pc = "mandando" /\ m[e.i].campo = "datos"
          /\ A2 = Append(A, CortadoEn(m[e.i]))
        BY <1>1, <2>3
    <3>2. /\ Len(A) \in Nat /\ Len(A2) = Len(A) + 1
          /\ A2[Len(A) + 1] = CortadoEn(m[e.i])
        BY <3>1, Agregado
    <3>3. \A i \in 1 .. Len(A) : A2[i] = A[i]
        BY <3>1, Agregado
    <3>4. \A i \in 1 .. Len(A) : A[i] = m[Leidos(h) + i]
        BY <1>4 DEF Pidiendo
    <3>5. Len(m) \in Nat
        BY <2>1, LosCampos
    <3>6. Adentro(h, e.pedido)
        BY <2>1 DEF EnCamino
    <3>7. Leidos(h) \in Nat
        BY <3>5, <3>6 DEF Adentro, Quieto, Leidos
    <3> HIDE DEF m
    <3>8. Leidos(h) + Len(A2) <= Len(m) /\ Leidos(h) + (Len(A) + 1) = e.i
      <4>1. Len(A) \in Nat /\ Len(A2) = Len(A) + 1
          BY <3>2
      <4>2. e.i \in 1 .. Len(m) + 1 /\ e.i # Len(m) + 1
          BY <2>1, <3>1
      <4>3. Leidos(h) + Len(A) = e.i - 1
          BY <2>1
      <4> QED BY <3>5, <3>7, <4>1, <4>2, <4>3
    <3>9. ASSUME NEW i \in 1 .. Len(A2)
          PROVE  \/ A2[i] = m[Leidos(h) + i]
                 \/ /\ i = Len(A2) /\ m[Leidos(h) + i].campo = "datos"
                    /\ A2[i] = CortadoEn(m[Leidos(h) + i])
      <4>1. CASE i \in 1 .. Len(A)
          BY <3>3, <3>4, <4>1
      <4>2. CASE i = Len(A) + 1
          BY <3>1, <3>2, <3>8, <4>2
      <4> QED BY <3>2, <4>1, <4>2
    <3>10. EnCamino(A2, h, e.pedido)
        BY <3>6, <3>8, <3>9 DEF EnCamino, m
    <3> QED BY <2>1, <3>10 DEF Fase, Ido
  <2> QED BY <2>2, <2>3
<1> QED BY <1>2, <1>3, <1>4

(* The server accepts a connection, maybe with a request waiting in it.      *)
LEMMA AlAceptar ==
    ASSUME NEW A, NEW B, NEW x, NEW e, NEW h, Fase(A, B, x, e, h),
           x # "afuera", h.pc = "no"
    PROVE  FormaHilo(SinPedido) /\ Fase(A, B, x, e, SinPedido)
<1>1. /\ FormaHilo(SinPedido) /\ Quieto(SinPedido)
      /\ Leidos(SinPedido) = 0 /\ Leidos(h) = 0
    BY DEF SinPedido, FormaHilo, Quieto, Leidos
<1>2. \A p : EnCamino(A, h, p) => EnCamino(A, SinPedido, p)
    BY <1>1 DEF EnCamino, Adentro
<1>3. CASE Tranquilo(A, B, x, e, h)
    BY <1>1, <1>3 DEF Tranquilo, Fase
<1>4. CASE Pidiendo(A, B, x, e, h)
    BY <1>1, <1>2, <1>4 DEF Pidiendo, Fase
<1>5. CASE Ido(A, B, x, e, h)
    BY <1>1, <1>2, <1>5 DEF Ido, Fase
<1> QED BY <1>1, <1>3, <1>4, <1>5 DEF Fase, Afuera, Respondiendo, SinRespuesta

(* The thread reads one field of a request.                                 *)
LEMMA ConPedido ==
    ASSUME NEW A, NEW B, NEW x, NEW e, NEW h, Fase(A, B, x, e, h), A # <<>>
    PROVE  /\ Pidiendo(A, B, x, e, h) \/ Ido(A, B, x, e, h)
           /\ e.pedido \in Pedido /\ EnCamino(A, h, e.pedido)
BY DEF Fase, Afuera, Tranquilo, Pidiendo, Respondiendo, SinRespuesta, Ido

(* A field of the request goes from the connection to the thread.            *)
LEMMA UnoLeido ==
    ASSUME NEW A, NEW B, NEW x, NEW e, NEW h, NEW h2, Fase(A, B, x, e, h),
           EsSec(A), A # <<>>, Leidos(h2) = Leidos(h) + 1,
           EnCamino(Tail(A), h2, e.pedido)
    PROVE  Fase(Tail(A), B, x, e, h2)
<1> DEFINE m == Campos(e.pedido)
<1>1. e.pedido \in Pedido
    BY ConPedido
<1>2. CASE Ido(A, B, x, e, h)
    BY <1>1, <1>2 DEF Ido, Fase
<1>3. CASE Pidiendo(A, B, x, e, h)
  <2>1. Len(A) \in Nat \ {0} /\ Len(Tail(A)) = Len(A) - 1
      BY Resto
  <2>2. \A i \in 1 .. Len(A) - 1 : Tail(A)[i] = A[i + 1]
      BY Resto
  <2>3. \A i \in 1 .. Len(A) : A[i] = m[Leidos(h) + i]
      BY <1>3 DEF Pidiendo
  <2>4. Leidos(h) + Len(A) = e.i - 1
      BY <1>3 DEF Pidiendo
  <2>5. Leidos(h) \in Nat
      BY <1>1, <1>3, LosCampos DEF Pidiendo, EnCamino, Adentro, Quieto, Leidos
  <2>6. Leidos(h2) + Len(Tail(A)) = e.i - 1
      BY <2>1, <2>4, <2>5
  <2> HIDE DEF m
  <2>7. ASSUME NEW i \in 1 .. Len(Tail(A)) PROVE Tail(A)[i] = m[Leidos(h2) + i]
    <3>1. /\ i + 1 \in 1 .. Len(A) /\ i \in 1 .. Len(A) - 1
          /\ Leidos(h) + (i + 1) = Leidos(h2) + i
        BY <2>1, <2>5
    <3> QED BY <2>2, <2>3, <3>1
  <2>8. Pidiendo(Tail(A), B, x, e, h2)
      BY <1>3, <2>6, <2>7 DEF Pidiendo, m
  <2> QED BY <2>8 DEF Fase
<1> QED BY <1>2, <1>3, ConPedido

(* LeerCabecera, seen from the connection.                                   *)
LEMMA AlLeerCabecera ==
    ASSUME NEW A, NEW B, NEW x, NEW e, NEW h, Fase(A, B, x, e, h), FormaHilo(h),
           EsSec(A), A # <<>>, h.pc = "cabecera"
    PROVE  LET h2 == [h EXCEPT !.pc = "campos", !.op = Head(A).valor]
           IN  FormaHilo(h2) /\ Fase(Tail(A), B, x, e, h2)
<1> DEFINE h2 == [h EXCEPT !.pc = "campos", !.op = Head(A).valor]
<1>1. e.pedido \in Pedido /\ EnCamino(A, h, e.pedido)
    BY ConPedido
<1>2. /\ FormaHilo(h2) /\ Leidos(h) = 0 /\ Leidos(h2) = 1
      /\ EnCamino(Tail(A), h2, e.pedido)
    BY <1>1, Cabecera
<1> HIDE DEF h2
<1>3. Leidos(h2) = Leidos(h) + 1
    BY <1>2
<1> QED BY <1>2, <1>3, UnoLeido DEF h2

(* LeerCampo: after the last field of the table the request is whole.        *)
LEMMA AlLeerCampo ==
    ASSUME NEW A, NEW B, NEW x, NEW e, NEW h, Fase(A, B, x, e, h), FormaHilo(h),
           EsSec(A), A # <<>>, h.pc = "campos", NEW f, NEW R
    PROVE  LET h2 == [h EXCEPT !.k = @ + 1, !.rutas = R,
                        !.pc = IF h.k = Len(Interpretar(h.op, NADA, f).lee)
                               THEN "atender" ELSE @]
           IN  FormaHilo(h2) /\ Fase(Tail(A), B, x, e, h2)
<1> DEFINE lee == Len(Interpretar(h.op, NADA, f).lee)
           h2 == [h EXCEPT !.k = @ + 1, !.rutas = R,
                    !.pc = IF h.k = lee THEN "atender" ELSE @]
<1>1. e.pedido \in Pedido /\ EnCamino(A, h, e.pedido)
    BY ConPedido
<1> HIDE DEF lee
<1>2. /\ FormaHilo(h2) /\ h2.op = h.op /\ h2.k = h.k + 1
      /\ h2.pc = IF h.k = lee THEN "atender" ELSE h.pc
    BY DEF FormaHilo
<1> HIDE DEF h2
<1>3. Leidos(h2) = Leidos(h) + 1 /\ EnCamino(Tail(A), h2, e.pedido)
    BY <1>1, <1>2, UnCampoMas DEF lee
<1> QED BY <1>2, <1>3, UnoLeido DEF h2, lee

(* The end of the connection.                                               *)

(* The thread of a client that is gone ends between two requests.            *)
LEMMA AlTerminar ==
    ASSUME NEW A, NEW B, NEW x, NEW e, NEW h, Fase(A, B, x, e, h), FormaHilo(h),
           A = <<>>, x \in {"cerrado", "cortado"}, h.pc = "cabecera"
    PROVE  LET h2 == [h EXCEPT !.pc = "fin"]
           IN  FormaHilo(h2) /\ Fase(A, B, x, e, h2)
<1> DEFINE h2 == [h EXCEPT !.pc = "fin"]
<1>1. FormaHilo(h2) /\ h2.pc = "fin"
    BY DEF FormaHilo
<1>2. Ido(A, B, x, e, h)
    BY DEF Fase, Afuera, Tranquilo, Pidiendo, Respondiendo, SinRespuesta
<1> HIDE DEF h2
<1>3. Ido(A, B, x, e, h2)
    BY <1>1, <1>2 DEF Ido
<1> QED BY <1>1, <1>3 DEF Fase, h2

(* The thread after it sent part of an answer.                               *)
LEMMA AlSeguir ==
    ASSUME NEW h, FormaHilo(h), NEW cola
    PROVE  LET h2 == Contestando(h, cola) IN
           /\ FormaHilo(h2)
           /\ cola = <<>> => h2 = SinPedido /\ Quieto(h2) /\ h2.pc = "cabecera"
                             /\ h2.k = 1
           /\ cola # <<>> => h2.pc = "contestar" /\ h2.cola = cola
<1>1. CASE cola = <<>>
    BY <1>1 DEF Contestando, SinPedido, Quieto, FormaHilo
<1>2. CASE cola # <<>>
    BY <1>2 DEF Contestando, FormaHilo
<1> QED BY <1>1, <1>2

(* The thread gives up a request that was left half sent.                    *)
LEMMA AlDejar ==
    ASSUME NEW A, NEW B, NEW x, NEW e, NEW h, Fase(A, B, x, e, h), FormaHilo(h),
           A = <<>>, x \in {"cerrado", "cortado"}, h.pc = "campos"
    PROVE  LET h2 == IF h.op = "UTIMENS" THEN Contestando(h, Entero(4, -1)) ELSE SinPedido
           IN  FormaHilo(h2) /\ Fase(A, B, x, e, h2)
<1> DEFINE h2 == IF h.op = "UTIMENS" THEN Contestando(h, Entero(4, -1)) ELSE SinPedido
<1>1. Ido(A, B, x, e, h)
    BY DEF Fase, Afuera, Tranquilo, Pidiendo, Respondiendo, SinRespuesta
<1>2. FormaHilo(SinPedido) /\ Quieto(SinPedido)
    BY DEF SinPedido, FormaHilo, Quieto
<1>3. LET g == Contestando(h, Entero(4, -1))
      IN  FormaHilo(g) /\ (Quieto(g) \/ g.pc = "contestar")
    BY AlSeguir
<1>4. FormaHilo(h2) /\ (Quieto(h2) \/ h2.pc = "contestar")
    BY <1>2, <1>3
<1> HIDE DEF h2
<1>5. Ido(A, B, x, e, h2)
    BY <1>1, <1>4 DEF Ido
<1> QED BY <1>4, <1>5 DEF Fase, h2

(* Nothing before s.                                                         *)
LEMMA NadaCon == ASSUME NEW s, EsSec(s) PROVE <<>> \o s = s
BY EsSecNo

(* The call is run: what there is to send is what the client will read.      *)
LEMMA AlAtender ==
    ASSUME NEW A, NEW B, NEW x, NEW e, NEW h, Fase(A, B, x, e, h), FormaHilo(h),
           EsSec(A), h.pc = "atender",
           NEW f, NEW q, q.op = h.op, NEW r \in Efectos(f, q)
    PROVE  LET h2 == Contestando(h, Interpretar(h.op, r[2], f).manda)
           IN  FormaHilo(h2) /\ Fase(A, B, x, e, h2)
<1> DEFINE cola == Interpretar(h.op, r[2], f).manda
           h2 == Contestando(h, cola)
<1>1. /\ FormaHilo(h2)
      /\ cola = <<>> => Quieto(h2) /\ h2.pc = "cabecera" /\ h2.k = 1
      /\ cola # <<>> => h2.pc = "contestar" /\ h2.cola = cola
    BY AlSeguir
<1>2. Pidiendo(A, B, x, e, h) \/ Ido(A, B, x, e, h)
    BY DEF Fase, Afuera, Tranquilo, Quieto, Respondiendo, SinRespuesta
<1>3. e.pedido \in Pedido /\ EnCamino(A, h, e.pedido)
    BY <1>2 DEF Pidiendo, Ido, Quieto
<1>4. /\ h.op = e.pedido.op /\ Leidos(h) = Len(Campos(e.pedido))
      /\ Len(Campos(e.pedido)) \in Nat
    BY <1>3, LosCampos DEF EnCamino, Adentro, Quieto, Leidos
<1>5. A = <<>> /\ Len(A) = 0
  <2>1. Len(A) \in Nat /\ Leidos(h) + Len(A) <= Len(Campos(e.pedido))
      BY <1>3 DEF EnCamino, EsSec
  <2>2. Len(A) = 0
      BY <1>4, <2>1
  <2> QED BY <2>2, Vacia
<1>6. cola = <<>> \/ (EsSec(cola) /\ cola # <<>> /\ Legible(e.pedido, <<>>, cola))
    BY <1>3, <1>4, RespuestaLegible
<1> HIDE DEF cola, h2
<1>7. CASE Ido(A, B, x, e, h)
    BY <1>1, <1>5, <1>7 DEF Ido, Fase, h2, cola
<1>8. CASE Pidiendo(A, B, x, e, h)
  <2>1. /\ e.pc = "esperando" /\ x = "abierto" /\ B = <<>> /\ e.leido = <<>>
        /\ e.pedido \in Pedido
    <3>1. /\ e.pc \in {"mandando", "esperando"}
          /\ e.pc = "esperando" <=> e.i = Len(Campos(e.pedido)) + 1
          /\ Leidos(h) + Len(A) = e.i - 1 /\ e.i \in 1 .. Len(Campos(e.pedido)) + 1
        BY <1>8 DEF Pidiendo
    <3>2. e.i = Len(Campos(e.pedido)) + 1
        BY <1>4, <1>5, <3>1
    <3> QED BY <1>8, <3>1, <3>2 DEF Pidiendo
  <2>2. CASE cola = <<>>
    <3>1. SinRespuesta(A, B, x, e, h2)
        BY <1>1, <1>5, <2>1, <2>2 DEF SinRespuesta
    <3> QED BY <1>1, <3>1 DEF Fase, h2, cola
  <2>3. CASE cola # <<>>
    <3>1. Falta(B, h2) = cola
        BY <1>1, <1>6, <2>1, <2>3, NadaCon DEF Falta
    <3>2. Respondiendo(A, B, x, e, h2)
        BY <1>1, <1>5, <1>6, <2>1, <2>3, <3>1, Vacia DEF Respondiendo
    <3> QED BY <1>1, <3>2 DEF Fase, h2, cola
  <2> QED BY <2>2, <2>3
<1> QED BY <1>2, <1>7, <1>8

(* One field of the answer goes from the thread to the connection.           *)
LEMMA AlContestar ==
    ASSUME NEW A, NEW B, NEW x, NEW e, NEW h, Fase(A, B, x, e, h), FormaHilo(h),
           EsSec(B), h.pc = "contestar"
    PROVE  LET B2 == IF x # "abierto" THEN B ELSE Append(B, Head(h.cola))
               x2 == IF x # "cerrado" THEN x ELSE "cortado"
               h2 == Contestando(h, Tail(h.cola))
           IN  FormaHilo(h2) /\ Fase(A, B2, x2, e, h2)
<1> DEFINE B2 == IF x # "abierto" THEN B ELSE Append(B, Head(h.cola))
           x2 == IF x # "cerrado" THEN x ELSE "cortado"
           cola == Tail(h.cola)
           h2 == Contestando(h, cola)
<1>1. /\ FormaHilo(h2)
      /\ cola = <<>> => Quieto(h2) /\ h2.pc = "cabecera" /\ h2.k = 1
      /\ cola # <<>> => h2.pc = "contestar" /\ h2.cola = cola
    BY AlSeguir
<1>2. Respondiendo(A, B, x, e, h) \/ Ido(A, B, x, e, h)
    BY DEF Fase, Afuera, Tranquilo, Pidiendo, EnCamino, Adentro, Quieto, SinRespuesta
<1>3. CASE Ido(A, B, x, e, h)
  <2>1. /\ e.pc = "ido" /\ B = <<>> /\ A = <<>> /\ B2 = B
        /\ x2 \in {"cerrado", "cortado"}
      BY <1>3 DEF Ido, EnCamino, Adentro, Quieto
  <2>2. Quieto(h2) \/ h2.pc = "contestar"
      BY <1>1
  <2> HIDE DEF h2, B2, x2
  <2>3. Ido(A, B2, x2, e, h2)
      BY <2>1, <2>2 DEF Ido
  <2> QED BY <1>1, <2>3 DEF Fase, h2, B2, x2
<1>4. CASE Respondiendo(A, B, x, e, h)
  <2>1. /\ x = "abierto" /\ EsSec(h.cola) /\ h.cola # <<>>
        /\ Legible(e.pedido, e.leido, B \o h.cola)
      BY <1>4 DEF Respondiendo, Falta
  <2>2. EsSec(cola) /\ x2 = x /\ B2 = Append(B, Head(h.cola))
      BY <2>1, Resto
  <2>3. EsSec(B2) /\ Len(B2) # 0
      BY <2>2, Agregado
  <2>4. B2 # <<>>
      BY <2>3, Vacia
  <2>5. B2 \o cola = B \o h.cola
      BY <2>1, <2>2, Pasado
  <2>6. Falta(B2, h2) = B2 \o cola
    <3> HIDE DEF h2, cola
    <3>1. CASE cola = <<>>
        BY <1>1, <2>3, <3>1, ConNada DEF Falta
    <3>2. CASE cola # <<>>
        BY <1>1, <3>2 DEF Falta
    <3> QED BY <3>1, <3>2
  <2> HIDE DEF h2, cola, B2, x2
  <2>7. Respondiendo(A, B2, x2, e, h2)
      BY <1>1, <1>4, <2>1, <2>2, <2>4, <2>5, <2>6 DEF Respondiendo
  <2> QED BY <1>1, <2>7 DEF Fase, h2, cola, B2, x2
<1> QED BY <1>2, <1>3, <1>4

-----------------------------------------------------------------------------
(* One step of the system.                                                  *)
Dominios ==
    /\ DOMAIN aServidor = Clientes /\ DOMAIN aCliente = Clientes
    /\ DOMAIN extremo = Clientes /\ DOMAIN cli = Clientes /\ DOMAIN hilo = Clientes
    /\ servidor \in {"vivo", "caido"}

Bien(A, B, x, e, h) ==
    /\ EsSec(A) /\ EsSec(B) /\ FormaCli(e) /\ FormaHilo(h)
    /\ servidor = "vivo" => Fase(A, B, x, e, h)
    /\ servidor = "caido" => FaseSinServidor(A, B, x, e, h)
De1(c) == Bien(aServidor[c], aCliente[c], extremo[c], cli[c], hilo[c])

(* The invariant, connection by connection.                                  *)
LEMMA PorCliente == IInv <=> Dominios /\ \A c \in Clientes : De1(c)
BY DEF IInv, Formas, Fases, Dominios, De1, Bien, FormaCli, FormaHilo

(* What the other connections see of a step.                                *)
Ajeno(d) ==
    /\ aServidor'[d] = aServidor[d] /\ aCliente'[d] = aCliente[d]
    /\ extremo'[d] = extremo[d] /\ cli'[d] = cli[d] /\ hilo'[d] = hilo[d]

(* The death of the server leaves every connection well.                     *)
LEMMA SinServidorQueda ==
    ASSUME NEW A, NEW B, NEW x, NEW e, NEW h, Fase(A, B, x, e, h)
    PROVE  FaseSinServidor(A, B, x, e, h)
BY DEF Fase, Afuera, Tranquilo, Pidiendo, SinRespuesta, Ido, FaseSinServidor

(* A step of one connection that leaves it and the others well.             *)
LEMMA Juntar ==
    ASSUME IInv, NEW c \in Clientes, Dominios', De1(c)',
           \A d \in Clientes \ {c} : Ajeno(d),
           servidor' = servidor \/ servidor' = "caido"
    PROVE  IInv'
<1>1. \A d \in Clientes : De1(d)
    BY PorCliente
<1>2. ASSUME NEW d \in Clientes, d # c PROVE De1(d)'
  <2>1. De1(d) /\ Ajeno(d)
      BY <1>1, <1>2
  <2>2. CASE servidor' = servidor
      BY <2>1, <2>2 DEF De1, Bien, Ajeno
  <2>3. CASE servidor' = "caido" /\ servidor = "vivo"
    <3>1. Fase(aServidor[d], aCliente[d], extremo[d], cli[d], hilo[d])
        BY <2>1, <2>3 DEF De1, Bien
    <3>2. FaseSinServidor(aServidor[d], aCliente[d], extremo[d], cli[d], hilo[d])
        BY <3>1, SinServidorQueda
    <3> QED BY <2>1, <2>3, <3>2 DEF De1, Bien, Ajeno
  <2>4. servidor \in {"vivo", "caido"}
      BY DEF IInv, Formas
  <2> QED BY <2>2, <2>3, <2>4
<1>3. \A d \in Clientes : De1(d)'
    BY <1>2
<1>4. IInv' <=> Dominios' /\ \A d \in Clientes : De1(d)'
    BY DEF IInv, Formas, Fases, Dominios, De1, Bien, FormaCli, FormaHilo
<1> QED BY <1>3, <1>4

(* Conectar preserves the invariant.                                         *)
LEMMA PasoConectar == ASSUME IInv, NEW c \in Clientes, Conectar(c), UNCHANGED <<hilo, fs>>
                      PROVE  IInv'
<1>1. Dominios /\ De1(c)
    BY PorCliente
<1>2. /\ cli'[c] = Libre /\ extremo'[c] = "abierto" /\ aServidor'[c] = aServidor[c]
      /\ aCliente'[c] = aCliente[c] /\ hilo'[c] = hilo[c]
      /\ servidor = "vivo" /\ servidor' = servidor /\ cli[c].pc = "afuera"
    BY <1>1 DEF Conectar, Dominios
<1>3. Dominios' /\ \A d \in Clientes \ {c} : Ajeno(d)
    BY <1>1 DEF Conectar, Dominios, Ajeno
<1>4. FormaCli(Libre) /\ Fase(aServidor[c], aCliente[c], "abierto", Libre, hilo[c])
    BY <1>1, <1>2, AlConectar DEF De1, Bien
<1>5. De1(c)'
    BY <1>1, <1>2, <1>4 DEF De1, Bien
<1> QED BY <1>2, <1>3, <1>5, Juntar

(* Llamar preserves the invariant.                                           *)
LEMMA PasoLlamar ==
    ASSUME IInv, NEW c \in Clientes, NEW p \in Pedidos[c], Llamar(c, p),
           UNCHANGED <<hilo, fs>>
    PROVE  IInv'
<1> DEFINE e2 == [cli[c] EXCEPT !.pc = "mandando", !.pedido = p]
<1>1. Dominios /\ De1(c)
    BY PorCliente
<1>2. /\ cli'[c] = e2 /\ extremo'[c] = extremo[c] /\ aServidor'[c] = aServidor[c]
      /\ aCliente'[c] = aCliente[c] /\ hilo'[c] = hilo[c]
      /\ servidor' = servidor /\ cli[c].pc = "libre"
    BY <1>1 DEF Llamar, Dominios, canal
<1>3. Dominios' /\ \A d \in Clientes \ {c} : Ajeno(d)
    BY <1>1 DEF Llamar, Dominios, Ajeno, canal
<1>4. p \in Pedido
    BY ClienteAssumption
<1>5. /\ EsSec(aServidor[c]) /\ EsSec(aCliente[c]) /\ FormaCli(cli[c]) /\ FormaHilo(hilo[c])
      /\ servidor = "vivo" => Fase(aServidor[c], aCliente[c], extremo[c], cli[c], hilo[c])
      /\ servidor = "caido" =>
           FaseSinServidor(aServidor[c], aCliente[c], extremo[c], cli[c], hilo[c])
    BY <1>1 DEF De1, Bien
<1>6. FormaCli(e2)
    BY <1>5 DEF FormaCli
<1>7. servidor = "vivo" => Fase(aServidor[c], aCliente[c], extremo[c], e2, hilo[c])
    BY <1>2, <1>4, <1>5, AlLlamar
<1>8. servidor = "caido" =>
           FaseSinServidor(aServidor[c], aCliente[c], extremo[c], e2, hilo[c])
    BY <1>2, <1>5 DEF FaseSinServidor, Respondiendo
<1> HIDE DEF e2
<1>9. De1(c)'
    BY <1>2, <1>5, <1>6, <1>7, <1>8 DEF De1, Bien
<1> QED BY <1>2, <1>3, <1>9, Juntar

(* Mandar preserves the invariant.                                           *)
LEMMA PasoMandar == ASSUME IInv, NEW c \in Clientes, Mandar(c), UNCHANGED <<hilo, fs>>
                    PROVE  IInv'
<1> DEFINE m == Campos(cli[c].pedido)
           e2 == [cli[c] EXCEPT !.i = @ + 1,
                    !.pc = IF cli[c].i = Len(m) THEN "esperando" ELSE @]
           A2 == Append(aServidor[c], m[cli[c].i])
<1>1. Dominios /\ De1(c)
    BY PorCliente
<1>2. /\ cli'[c] = e2 /\ extremo'[c] = extremo[c] /\ aServidor'[c] = A2
      /\ aCliente'[c] = aCliente[c] /\ hilo'[c] = hilo[c]
      /\ servidor' = servidor /\ servidor = "vivo" /\ cli[c].pc = "mandando"
    BY <1>1 DEF Mandar, Manda, Campos, Dominios
<1>3. Dominios' /\ \A d \in Clientes \ {c} : Ajeno(d)
    BY <1>1 DEF Mandar, Dominios, Ajeno
<1>4. /\ EsSec(aServidor[c]) /\ EsSec(aCliente[c]) /\ FormaCli(cli[c]) /\ FormaHilo(hilo[c])
      /\ Fase(aServidor[c], aCliente[c], extremo[c], cli[c], hilo[c])
    BY <1>1, <1>2 DEF De1, Bien
<1>5. FormaCli(e2) /\ Fase(A2, aCliente[c], extremo[c], e2, hilo[c])
    BY <1>2, <1>4, AlMandar
<1>6. EsSec(A2)
    BY <1>4, Agregado
<1> HIDE DEF e2, A2
<1>7. De1(c)'
    BY <1>2, <1>4, <1>5, <1>6 DEF De1, Bien
<1> QED BY <1>2, <1>3, <1>7, Juntar

(* Recibir preserves the invariant.                                          *)
LEMMA PasoRecibir == ASSUME IInv, NEW c \in Clientes, Recibir(c), UNCHANGED <<hilo, fs>>
                     PROVE  IInv'
<1> DEFINE v == Append(cli[c].leido, Head(aCliente[c]).valor)
           sigue == Len(v) < Len(Llamada(cli[c].pedido, v).recibe)
           e2 == [cli[c] EXCEPT !.leido = v]
           B2 == Tail(aCliente[c])
<1>1. Dominios /\ De1(c)
    BY PorCliente
<1>2. /\ cli'[c] = IF sigue THEN e2 ELSE Libre
      /\ extremo'[c] = extremo[c] /\ aServidor'[c] = aServidor[c]
      /\ aCliente'[c] = B2 /\ hilo'[c] = hilo[c]
      /\ servidor' = servidor /\ cli[c].pc = "esperando" /\ aCliente[c] # <<>>
    BY <1>1 DEF Recibir, Dominios
<1>3. Dominios' /\ \A d \in Clientes \ {c} : Ajeno(d)
    BY <1>1 DEF Recibir, Dominios, Ajeno
<1>4. /\ EsSec(aServidor[c]) /\ EsSec(aCliente[c]) /\ FormaCli(cli[c]) /\ FormaHilo(hilo[c])
      /\ servidor = "vivo" => Fase(aServidor[c], aCliente[c], extremo[c], cli[c], hilo[c])
      /\ servidor = "caido" =>
           FaseSinServidor(aServidor[c], aCliente[c], extremo[c], cli[c], hilo[c])
      /\ servidor \in {"vivo", "caido"}
    BY <1>1 DEF De1, Bien, Dominios
<1>5. Respondiendo(aServidor[c], aCliente[c], extremo[c], cli[c], hilo[c])
    BY <1>2, <1>4 DEF Fase, Afuera, Tranquilo, Pidiendo, SinRespuesta, Ido, FaseSinServidor
<1>6. /\ sigue => FormaCli(e2) /\ Respondiendo(aServidor[c], B2, extremo[c], e2, hilo[c])
      /\ ~sigue => FormaCli(Libre) /\ B2 = <<>>
                   /\ Tranquilo(aServidor[c], B2, extremo[c], Libre, hilo[c])
    BY <1>2, <1>4, <1>5, AlRecibir
<1>7. EsSec(B2)
    BY <1>2, <1>4, Resto
<1> HIDE DEF sigue, e2, B2
<1>8. CASE sigue
  <2>1. cli'[c] = e2
      BY <1>2, <1>8
  <2> QED
      BY <1>2, <1>3, <1>4, <1>6, <1>7, <1>8, <2>1, Juntar
      DEF De1, Bien, Fase, FaseSinServidor
<1>9. CASE ~sigue
  <2>1. cli'[c] = Libre
      BY <1>2, <1>9
  <2> QED
      BY <1>2, <1>3, <1>4, <1>6, <1>7, <1>9, <2>1, Juntar
      DEF De1, Bien, Fase, FaseSinServidor
<1> QED BY <1>8, <1>9

(* SinServidor preserves the invariant.                                      *)
LEMMA PasoSinServidor ==
    ASSUME IInv, NEW c \in Clientes, SinServidor(c), UNCHANGED <<hilo, fs>>
    PROVE  IInv'
<1>1. Dominios /\ De1(c)
    BY PorCliente
<1>2. /\ cli'[c] = [cli[c] EXCEPT !.pc = "ido"] \/ cli'[c] = Libre
      /\ extremo'[c] = extremo[c] /\ aServidor'[c] = aServidor[c]
      /\ aCliente'[c] = aCliente[c] /\ hilo'[c] = hilo[c]
      /\ servidor' = servidor /\ servidor = "caido" /\ aCliente[c] = <<>>
    BY <1>1 DEF SinServidor, Dominios, canal
<1>3. Dominios' /\ \A d \in Clientes \ {c} : Ajeno(d)
    BY <1>1 DEF SinServidor, Dominios, Ajeno, canal
<1>4. EsSec(aServidor[c]) /\ EsSec(aCliente[c]) /\ FormaCli(cli[c]) /\ FormaHilo(hilo[c])
    BY <1>1 DEF De1, Bien
<1>5. FormaCli(cli'[c])
    BY <1>2, <1>4 DEF FormaCli, Libre
<1>6. De1(c)'
    BY <1>2, <1>4, <1>5 DEF De1, Bien, FaseSinServidor
<1> QED BY <1>2, <1>3, <1>6, Juntar

(* Morir preserves the invariant.                                            *)
LEMMA PasoMorir == ASSUME IInv, NEW c \in Clientes, Morir(c), UNCHANGED <<hilo, fs>>
                   PROVE  IInv'
<1> DEFINE m == Campos(cli[c].pedido)
           e2 == [cli[c] EXCEPT !.pc = "ido"]
           A2 == aServidor'[c]
           x2 == extremo'[c]
<1>1. Dominios /\ De1(c)
    BY PorCliente
<1>2. /\ cli'[c] = e2 /\ x2 \in {"cerrado", "cortado"}
      /\ aCliente'[c] = <<>> /\ hilo'[c] = hilo[c] /\ servidor' = servidor
      /\ cli[c].pc \in {"libre", "mandando", "esperando"}
    BY <1>1 DEF Morir, Dominios
<1>3. Ultimo(A2, aServidor[c], cli[c])
    BY <1>1 DEF Morir, Manda, Campos, Dominios, Ultimo
<1>4. Dominios' /\ \A d \in Clientes \ {c} : Ajeno(d)
    BY <1>1 DEF Morir, Dominios, Ajeno
<1>5. /\ EsSec(aServidor[c]) /\ EsSec(aCliente[c]) /\ FormaCli(cli[c]) /\ FormaHilo(hilo[c])
      /\ servidor = "vivo" => Fase(aServidor[c], aCliente[c], extremo[c], cli[c], hilo[c])
    BY <1>1 DEF De1, Bien
<1>6. EsSec(A2)
  <2>1. EsSec(Append(aServidor[c], CortadoEn(m[cli[c].i])))
      BY <1>5, Agregado
  <2> QED BY <1>3, <1>5, <2>1 DEF Ultimo
<1>7. FormaCli(e2) /\ e2.pc = "ido" /\ e2.pedido = cli[c].pedido
    BY <1>5 DEF FormaCli
<1>8. ASSUME servidor = "vivo", NEW A, A = A2, NEW x, x = x2
      PROVE  Fase(A, <<>>, x, e2, hilo[c])
  <2>1. /\ Fase(aServidor[c], aCliente[c], extremo[c], cli[c], hilo[c])
        /\ cli[c].pc \in {"libre", "mandando", "esperando"}
        /\ x \in {"cerrado", "cortado"} /\ Ultimo(A, aServidor[c], cli[c])
      BY <1>2, <1>3, <1>5, <1>8
  <2> HIDE DEF e2
  <2> QED BY <1>5, <1>7, <2>1, AlMorir
<1> HIDE DEF m, A2, x2, e2
<1>9. De1(c)'
    BY <1>2, <1>5, <1>6, <1>7, <1>8, Vacia DEF De1, Bien, FaseSinServidor, A2, x2
<1> QED BY <1>2, <1>4, <1>9, Juntar

(* A step of the thread of one client.                                      *)

(* Aceptar preserves the invariant.                                          *)
LEMMA PasoAceptar == ASSUME IInv, NEW c \in Clientes, Aceptar(c), UNCHANGED cliente
                     PROVE  IInv'
<1>1. Dominios /\ De1(c)
    BY PorCliente
<1>2. /\ hilo'[c] = SinPedido /\ servidor' = servidor /\ servidor = "vivo"
      /\ aServidor'[c] = aServidor[c] /\ aCliente'[c] = aCliente[c]
      /\ extremo'[c] = extremo[c] /\ cli'[c] = cli[c]
      /\ extremo[c] # "afuera" /\ hilo[c].pc = "no"
    BY <1>1 DEF Aceptar, Dominios, canal, cliente
<1>3. Dominios' /\ \A d \in Clientes \ {c} : Ajeno(d)
    BY <1>1 DEF Aceptar, Dominios, Ajeno, canal, cliente
<1>4. FormaHilo(SinPedido)
      /\ Fase(aServidor[c], aCliente[c], extremo[c], cli[c], SinPedido)
    BY <1>1, <1>2, AlAceptar DEF De1, Bien
<1>5. De1(c)'
    BY <1>1, <1>2, <1>4 DEF De1, Bien
<1> QED BY <1>2, <1>3, <1>5, Juntar

(* LeerCabecera preserves the invariant.                                     *)
LEMMA PasoLeerCabecera ==
    ASSUME IInv, NEW c \in Clientes, LeerCabecera(c), UNCHANGED cliente
    PROVE  IInv'
<1> DEFINE A == aServidor[c]
           h2 == [hilo[c] EXCEPT !.pc = "campos", !.op = Head(A).valor]
<1>1. Dominios /\ De1(c)
    BY PorCliente
<1>2. /\ hilo'[c] = h2 /\ servidor' = servidor /\ servidor = "vivo"
      /\ aServidor'[c] = Tail(A) /\ aCliente'[c] = aCliente[c]
      /\ extremo'[c] = extremo[c] /\ cli'[c] = cli[c]
      /\ A # <<>> /\ hilo[c].pc = "cabecera"
    BY <1>1 DEF LeerCabecera, Dominios, cliente
<1>3. Dominios' /\ \A d \in Clientes \ {c} : Ajeno(d)
    BY <1>1 DEF LeerCabecera, Dominios, Ajeno, cliente
<1>4. /\ EsSec(A) /\ EsSec(aCliente[c]) /\ FormaCli(cli[c]) /\ FormaHilo(hilo[c])
      /\ Fase(A, aCliente[c], extremo[c], cli[c], hilo[c])
    BY <1>1, <1>2 DEF De1, Bien
<1>5. FormaHilo(h2) /\ Fase(Tail(A), aCliente[c], extremo[c], cli[c], h2)
    BY <1>2, <1>4, AlLeerCabecera
<1>6. EsSec(Tail(A))
    BY <1>2, <1>4, Resto
<1> HIDE DEF h2
<1>7. De1(c)'
    BY <1>2, <1>4, <1>5, <1>6 DEF De1, Bien
<1> QED BY <1>2, <1>3, <1>7, Juntar

(* LeerCampo preserves the invariant.                                        *)
LEMMA PasoLeerCampo ==
    ASSUME IInv, NEW c \in Clientes, LeerCampo(c), UNCHANGED cliente
    PROVE  IInv'
<1> DEFINE A == aServidor[c]
           R == IF Head(A).campo = "ruta" THEN Append(hilo[c].rutas, Head(A).valor)
                ELSE hilo[c].rutas
           lee == Len(Interpretar(hilo[c].op, NADA, fs).lee)
           h2 == [hilo[c] EXCEPT !.k = @ + 1, !.rutas = R,
                    !.pc = IF hilo[c].k = lee THEN "atender" ELSE @]
<1>1. Dominios /\ De1(c)
    BY PorCliente
<1>2. /\ servidor' = servidor /\ servidor = "vivo"
      /\ aServidor'[c] = Tail(A) /\ aCliente'[c] = aCliente[c]
      /\ extremo'[c] = extremo[c] /\ cli'[c] = cli[c]
      /\ A # <<>> /\ hilo[c].pc = "campos"
    BY <1>1 DEF LeerCampo, Dominios, cliente
<1>3. hilo'[c] = h2
    BY <1>1 DEF LeerCampo, Dominios, Lee
<1>4. Dominios' /\ \A d \in Clientes \ {c} : Ajeno(d)
    BY <1>1 DEF LeerCampo, Dominios, Ajeno, cliente
<1>5. /\ EsSec(A) /\ EsSec(aCliente[c]) /\ FormaCli(cli[c]) /\ FormaHilo(hilo[c])
      /\ Fase(A, aCliente[c], extremo[c], cli[c], hilo[c])
    BY <1>1, <1>2 DEF De1, Bien
<1> HIDE DEF R
<1>6. FormaHilo(h2) /\ Fase(Tail(A), aCliente[c], extremo[c], cli[c], h2)
    BY <1>2, <1>5, AlLeerCampo
<1>7. EsSec(Tail(A))
    BY <1>2, <1>5, Resto
<1> HIDE DEF h2
<1>8. De1(c)'
    BY <1>2, <1>3, <1>5, <1>6, <1>7 DEF De1, Bien
<1> QED BY <1>2, <1>4, <1>8, Juntar

(* TerminarHilo preserves the invariant.                                     *)
LEMMA PasoTerminar ==
    ASSUME IInv, NEW c \in Clientes, TerminarHilo(c), UNCHANGED cliente
    PROVE  IInv'
<1> DEFINE h2 == [hilo[c] EXCEPT !.pc = "fin"]
<1>1. Dominios /\ De1(c)
    BY PorCliente
<1>2. /\ hilo'[c] = h2 /\ servidor' = servidor /\ servidor = "vivo"
      /\ aServidor'[c] = aServidor[c] /\ aCliente'[c] = aCliente[c]
      /\ extremo'[c] = extremo[c] /\ cli'[c] = cli[c]
      /\ aServidor[c] = <<>> /\ extremo[c] \in {"cerrado", "cortado"}
      /\ hilo[c].pc = "cabecera"
    BY <1>1 DEF TerminarHilo, Desconectado, Dominios, canal, cliente
<1>3. Dominios' /\ \A d \in Clientes \ {c} : Ajeno(d)
    BY <1>1 DEF TerminarHilo, Dominios, Ajeno, canal, cliente
<1>4. /\ EsSec(aServidor[c]) /\ EsSec(aCliente[c]) /\ FormaCli(cli[c]) /\ FormaHilo(hilo[c])
      /\ Fase(aServidor[c], aCliente[c], extremo[c], cli[c], hilo[c])
    BY <1>1, <1>2 DEF De1, Bien
<1>5. FormaHilo(h2) /\ Fase(aServidor[c], aCliente[c], extremo[c], cli[c], h2)
    BY <1>2, <1>4, AlTerminar
<1> HIDE DEF h2
<1>6. De1(c)'
    BY <1>2, <1>4, <1>5 DEF De1, Bien
<1> QED BY <1>2, <1>3, <1>6, Juntar

(* DejarPedido preserves the invariant.                                      *)
LEMMA PasoDejar ==
    ASSUME IInv, NEW c \in Clientes, DejarPedido(c), UNCHANGED cliente
    PROVE  IInv'
<1> DEFINE h2 == IF hilo[c].op = "UTIMENS"
                 THEN Contestando(hilo[c], Entero(4, -1)) ELSE SinPedido
<1>1. Dominios /\ De1(c)
    BY PorCliente
<1>2. /\ hilo'[c] = h2 /\ servidor' = servidor /\ servidor = "vivo"
      /\ aServidor'[c] = aServidor[c] /\ aCliente'[c] = aCliente[c]
      /\ extremo'[c] = extremo[c] /\ cli'[c] = cli[c]
      /\ aServidor[c] = <<>> /\ extremo[c] \in {"cerrado", "cortado"}
      /\ hilo[c].pc = "campos"
    BY <1>1 DEF DejarPedido, Desconectado, Dominios, canal, cliente
<1>3. Dominios' /\ \A d \in Clientes \ {c} : Ajeno(d)
    BY <1>1 DEF DejarPedido, Dominios, Ajeno, canal, cliente
<1>4. /\ EsSec(aServidor[c]) /\ EsSec(aCliente[c]) /\ FormaCli(cli[c]) /\ FormaHilo(hilo[c])
      /\ Fase(aServidor[c], aCliente[c], extremo[c], cli[c], hilo[c])
    BY <1>1, <1>2 DEF De1, Bien
<1>5. FormaHilo(h2) /\ Fase(aServidor[c], aCliente[c], extremo[c], cli[c], h2)
    BY <1>2, <1>4, AlDejar
<1> HIDE DEF h2
<1>6. De1(c)'
    BY <1>2, <1>4, <1>5 DEF De1, Bien
<1> QED BY <1>2, <1>3, <1>6, Juntar

(* Atender preserves the invariant.                                          *)
LEMMA PasoAtender ==
    ASSUME IInv, NEW c \in Clientes, Atender(c), UNCHANGED cliente
    PROVE  IInv'
<1> DEFINE h == hilo[c]
           q == [op |-> h.op, de |-> h.rutas[1], a |-> Last(h.rutas)]
<1>1. Dominios /\ De1(c)
    BY PorCliente
<1>2. PICK r \in Efectos(fs, q) :
        hilo' = [hilo EXCEPT ![c] = Contestando(h, Interpretar(h.op, r[2], fs).manda)]
    BY DEF Atender
<1> DEFINE h2 == Contestando(h, Interpretar(h.op, r[2], fs).manda)
<1>3. /\ servidor' = servidor /\ servidor = "vivo"
      /\ aServidor'[c] = aServidor[c] /\ aCliente'[c] = aCliente[c]
      /\ extremo'[c] = extremo[c] /\ cli'[c] = cli[c] /\ h.pc = "atender"
    BY <1>1 DEF Atender, Dominios, canal, cliente
<1>4. hilo'[c] = h2
    BY <1>1, <1>2 DEF Dominios
<1>5. Dominios' /\ \A d \in Clientes \ {c} : Ajeno(d)
    BY <1>1, <1>2 DEF Atender, Dominios, Ajeno, canal, cliente
<1>6. /\ EsSec(aServidor[c]) /\ EsSec(aCliente[c]) /\ FormaCli(cli[c]) /\ FormaHilo(hilo[c])
      /\ Fase(aServidor[c], aCliente[c], extremo[c], cli[c], hilo[c])
    BY <1>1, <1>3 DEF De1, Bien
<1>7. q.op = h.op
    OBVIOUS
<1> HIDE DEF q
<1>8. FormaHilo(h2) /\ Fase(aServidor[c], aCliente[c], extremo[c], cli[c], h2)
    BY <1>3, <1>6, <1>7, AlAtender
<1> HIDE DEF h2
<1>9. De1(c)'
    BY <1>3, <1>4, <1>6, <1>8 DEF De1, Bien
<1> QED BY <1>3, <1>5, <1>9, Juntar

(* Contestar preserves the invariant, also when it kills the server.         *)
LEMMA PasoContestar ==
    ASSUME IInv, NEW c \in Clientes, Contestar(c), UNCHANGED cliente
    PROVE  IInv'
<1> DEFINE h == hilo[c]
           x == extremo[c]
           B == aCliente[c]
           B2 == IF x # "abierto" THEN B ELSE Append(B, Head(h.cola))
           x2 == IF x # "cerrado" THEN x ELSE "cortado"
           h2 == Contestando(h, Tail(h.cola))
<1>1. Dominios /\ De1(c)
    BY PorCliente
<1>2. /\ servidor = "vivo" /\ h.pc = "contestar"
      /\ aServidor' = aServidor /\ cli' = cli
    BY DEF Contestar, cliente
<1>3. /\ EsSec(aServidor[c]) /\ EsSec(B) /\ FormaCli(cli[c]) /\ FormaHilo(h)
      /\ Fase(aServidor[c], B, x, cli[c], h)
    BY <1>1, <1>2 DEF De1, Bien
<1>4. CASE /\ aCliente' = IF x # "abierto" THEN aCliente
                          ELSE [aCliente EXCEPT ![c] = Append(@, Head(h.cola))]
           /\ extremo' = IF x # "cerrado" THEN extremo
                         ELSE [extremo EXCEPT ![c] = "cortado"]
           /\ hilo' = [hilo EXCEPT ![c] = Contestando(@, Tail(@.cola))]
           /\ UNCHANGED servidor
  <2>1. /\ aCliente'[c] = B2 /\ extremo'[c] = x2 /\ hilo'[c] = h2
        /\ aServidor'[c] = aServidor[c] /\ cli'[c] = cli[c] /\ servidor' = servidor
      BY <1>1, <1>2, <1>4 DEF Dominios
  <2>2. Dominios' /\ \A d \in Clientes \ {c} : Ajeno(d)
      BY <1>1, <1>2, <1>4 DEF Dominios, Ajeno
  <2>3. FormaHilo(h2) /\ Fase(aServidor[c], B2, x2, cli[c], h2)
      BY <1>2, <1>3, AlContestar
  <2>4. EsSec(B2)
    <3>1. EsSec(Append(B, Head(h.cola)))
        BY <1>3, Agregado
    <3> QED BY <1>3, <3>1
  <2> HIDE DEF B2, x2, h2
  <2>5. De1(c)'
      BY <1>2, <1>3, <2>1, <2>3, <2>4 DEF De1, Bien
  <2> QED BY <2>1, <2>2, <2>5, Juntar
<1>5. CASE servidor' = "caido" /\ UNCHANGED <<hilo, aCliente, extremo>>
  <2>1. Dominios' /\ \A d \in Clientes \ {c} : Ajeno(d)
      BY <1>1, <1>2, <1>5 DEF Dominios, Ajeno
  <2>2. FaseSinServidor(aServidor[c], B, x, cli[c], h)
      BY <1>3, SinServidorQueda
  <2>3. De1(c)'
      BY <1>2, <1>3, <1>5, <2>2 DEF De1, Bien
  <2> QED BY <1>5, <2>1, <2>3, Juntar
<1> QED BY <1>4, <1>5 DEF Contestar

-----------------------------------------------------------------------------
(* Nobody is connected at the beginning.                                     *)
LEMMA AlEmpezar == Init => IInv
<1> SUFFICES ASSUME Init PROVE IInv
    OBVIOUS
<1> USE DEF Init, CanalInit, ClienteInit, ServidorInit
<1>1. Dominios
    BY DEF Dominios
<1>2. ASSUME NEW c \in Clientes PROVE De1(c)
  <2>1. /\ aServidor[c] = <<>> /\ aCliente[c] = <<>> /\ extremo[c] = "afuera"
        /\ cli[c] = [pc |-> "afuera", pedido |-> NADA, i |-> 1, leido |-> <<>>]
        /\ hilo[c] = [SinPedido EXCEPT !.pc = "no"] /\ servidor = "vivo"
      OBVIOUS
  <2>2. FormaHilo(hilo[c]) /\ hilo[c].pc = "no" /\ hilo[c].k = 1
      BY <2>1 DEF FormaHilo, SinPedido
  <2>3. FormaCli(cli[c]) /\ cli[c].pc = "afuera"
      BY <2>1 DEF FormaCli
  <2>4. Afuera(aServidor[c], aCliente[c], extremo[c], cli[c], hilo[c])
      BY <2>1, <2>2, <2>3 DEF Afuera
  <2> QED BY <2>1, <2>2, <2>3, <2>4, Vacia DEF De1, Bien, Fase
<1> QED BY <1>1, <1>2, PorCliente

(* A stuttering step.                                                        *)
LEMMA AlQuedarse == IInv /\ UNCHANGED vars => IInv'
BY DEF IInv, Formas, Fases, vars, cliente, atencion, canal

(* Every step preserves the invariant.                                       *)
LEMMA Paso == IInv /\ [Next]_vars => IInv'
<1> SUFFICES ASSUME IInv, [Next]_vars PROVE IInv'
    OBVIOUS
<1>1. ASSUME NEW c \in Clientes, ClienteAvanza(c) PROVE IInv'
  <2>1. UNCHANGED <<hilo, fs>>
      BY <1>1 DEF ClienteAvanza
  <2>2. CASE Mandar(c)
      BY <2>1, <2>2, PasoMandar
  <2>3. CASE Recibir(c)
      BY <2>1, <2>3, PasoRecibir
  <2>4. CASE SinServidor(c)
      BY <2>1, <2>4, PasoSinServidor
  <2> QED BY <1>1, <2>2, <2>3, <2>4 DEF ClienteAvanza, ClientePaso
<1>2. ASSUME NEW c \in Clientes, ClienteQuiere(c), UNCHANGED atencion PROVE IInv'
  <2>1. UNCHANGED <<hilo, fs>>
      BY <1>2 DEF atencion
  <2>2. CASE Conectar(c)
      BY <2>1, <2>2, PasoConectar
  <2>3. CASE Morir(c)
      BY <2>1, <2>3, PasoMorir
  <2>4. ASSUME NEW p \in Pedidos[c], Llamar(c, p) PROVE IInv'
      BY <2>1, <2>4, PasoLlamar
  <2> QED BY <1>2, <2>2, <2>3, <2>4 DEF ClienteQuiere
<1>3. ASSUME NEW c \in Clientes, ServidorPaso(c), UNCHANGED cliente PROVE IInv'
    BY <1>3, PasoAceptar, PasoLeerCabecera, PasoLeerCampo, PasoTerminar, PasoDejar,
       PasoAtender, PasoContestar DEF ServidorPaso
<1> QED BY <1>1, <1>2, <1>3, AlQuedarse DEF Next

(* Whoever calls, dies or is attended, and in any order, each connection is *)
(* in one of the phases.                                                    *)
THEOREM Faseado == Spec => []IInv
<1> QED BY AlEmpezar, Paso, PTL DEF Spec

(* In every phase the thread finds the field it reads.                       *)
LEMMA PedidosEncuadran == IInv => EncuadrePedidos
<1> SUFFICES ASSUME IInv, servidor = "vivo", NEW c \in Clientes, aServidor[c] # <<>>
             PROVE  LET x == Head(aServidor[c]) IN
                    \/ hilo[c].pc \in {"no", "cabecera"} /\ Calza(x, Espera("tipo", 4))
                    \/ /\ hilo[c].pc = "campos"
                       /\ \/ Calza(x, Lee(c)[hilo[c].k])
                          \/ /\ Tail(aServidor[c]) = <<>> /\ extremo[c] # "abierto"
                             /\ x.campo = Lee(c)[hilo[c].k].campo
    BY DEF EncuadrePedidos
<1> DEFINE A == aServidor[c]
           h == hilo[c]
           p == cli[c].pedido
           m == Campos(p)
           L == Leidos(h)
           lee == Interpretar(p.op, NADA, fs).lee
<1>1. /\ Fase(A, aCliente[c], extremo[c], cli[c], h) /\ EsSec(A)
    BY PorCliente DEF De1, Bien
<1>2. /\ Pidiendo(A, aCliente[c], extremo[c], cli[c], h)
           \/ Ido(A, aCliente[c], extremo[c], cli[c], h)
      /\ p \in Pedido /\ EnCamino(A, h, p)
    BY <1>1, ConPedido
<1>3. Head(A) = A[1] /\ EsSec(Tail(A))
    BY <1>1, Resto
<1>13. Len(A) \in Nat \ {0} /\ Len(Tail(A)) = Len(A) - 1
    BY <1>1, Resto
<1>4. /\ Len(lee) \in Nat \ {0} /\ Len(m) = Len(lee) + 1 /\ m[1] = Tipo(p)
      /\ \A k \in 1 .. Len(lee) : Calza(m[k + 1], lee[k])
      /\ \A k \in 1 .. Len(m) : CortadoEn(m[k]).campo = m[k].campo
    BY <1>2, PedidoCalza DEF Iguales
<1>5. /\ Adentro(h, p) /\ L + Len(A) <= Len(m)
      /\ \A i \in 1 .. Len(A) :
            \/ A[i] = m[L + i]
            \/ /\ i = Len(A) /\ m[L + i].campo = "datos" /\ A[i] = CortadoEn(m[L + i])
    BY <1>2 DEF EnCamino
<1>6. Pidiendo(A, aCliente[c], extremo[c], cli[c], h)
        => \A i \in 1 .. Len(A) : A[i] = m[L + i]
    BY DEF Pidiendo
<1>7. ~Pidiendo(A, aCliente[c], extremo[c], cli[c], h) => extremo[c] # "abierto"
    BY <1>2 DEF Ido
<1>8. h.op = p.op => Lee(c) = lee
    BY DEF Lee
<1> HIDE DEF m, L, lee, A
<1>9. 1 \in 1 .. Len(A)
    BY <1>13
<1>10. CASE Quieto(h)
  <2>1. L = 0 /\ h.pc \in {"no", "cabecera"}
      BY <1>10 DEF Quieto, Leidos, L
  <2>2. Calza(m[1], Espera("tipo", 4)) /\ m[1].campo # "datos"
      BY <1>4 DEF Calza, Tipo, Campo, Espera
  <2>3. L + 1 = 1
      BY <2>1
  <2>4. A[1] = m[1]
      BY <1>5, <1>9, <2>2, <2>3
  <2> QED BY <1>3, <2>1, <2>2, <2>4 DEF A
<1>11. CASE h.pc = "campos" /\ h.op = p.op /\ h.k \in 1 .. Len(m) - 1
  <2>1. L = h.k /\ h.k \in 1 .. Len(lee) /\ h.k + 1 \in 1 .. Len(m)
      BY <1>4, <1>11 DEF Leidos, L
  <2>2. Calza(m[h.k + 1], lee[h.k])
      BY <1>4, <2>1
  <2>3. CASE A[1] = m[h.k + 1]
      BY <1>3, <1>8, <1>11, <2>2, <2>3 DEF A
  <2>4. CASE A[1] # m[h.k + 1]
    <3>1. A[1] = CortadoEn(m[h.k + 1])
        BY <1>5, <1>9, <2>1, <2>4
    <3>6. Len(A) = 1
        BY <1>5, <1>9, <2>1, <2>4
    <3>2. ~Pidiendo(A, aCliente[c], extremo[c], cli[c], h)
        BY <1>6, <1>9, <2>1, <2>4
    <3>3. Len(Tail(A)) = 0
        BY <1>13, <3>6
    <3>4. Tail(A) = <<>>
        BY <1>3, <3>3, Vacia
    <3>5. A[1].campo = lee[h.k].campo
        BY <1>4, <2>1, <2>2, <3>1 DEF Calza
    <3> QED BY <1>3, <1>7, <1>8, <1>11, <3>2, <3>4, <3>5 DEF A
  <2> QED BY <2>3, <2>4
<1>12. ~(h.pc = "atender" /\ h.k = Len(m))
  <2>1. h.pc = "atender" /\ h.k = Len(m) => L = Len(m)
      BY DEF Leidos, L
  <2>2. Len(m) \in Nat
      BY <1>4
  <2>3. L + Len(A) <= Len(m)
      BY <1>5
  <2> QED BY <1>13, <2>1, <2>2, <2>3
<1> QED BY <1>5, <1>10, <1>11, <1>12 DEF Adentro, m

(* And the client, when there is something to read.                          *)
LEMMA RespuestasEncuadran == IInv => EncuadreRespuestas
<1> SUFFICES ASSUME IInv, NEW c \in Clientes, aCliente[c] # <<>>
             PROVE  LET e == cli[c]
                        recibe == Llamada(e.pedido, e.leido).recibe
                    IN  /\ e.pc = "esperando" /\ Len(e.leido) < Len(recibe)
                        /\ Calza(Head(aCliente[c]), recibe[Len(e.leido) + 1])
    BY DEF EncuadreRespuestas
<1> DEFINE e == cli[c]
           r == Falta(aCliente[c], hilo[c])
           recibe == Llamada(e.pedido, e.leido).recibe
<1>1. Dominios /\ De1(c)
    BY PorCliente
<1>2. EsSec(aCliente[c]) /\ Respondiendo(aServidor[c], aCliente[c], extremo[c], e, hilo[c])
    BY <1>1 DEF De1, Bien, Dominios, Fase, Afuera, Tranquilo, Pidiendo, SinRespuesta, Ido,
                FaseSinServidor
<1>3. /\ e.pc = "esperando" /\ EsSec(e.leido) /\ Legible(e.pedido, e.leido, r)
      /\ (hilo[c].pc = "contestar" /\ EsSec(hilo[c].cola)) \/ hilo[c].pc = "cabecera"
    BY <1>2 DEF Respondiendo
<1>4. EsSec(r) /\ r # <<>> /\ r[1] = aCliente[c][1]
    BY <1>2, <1>3, LoQueFalta
<1>5. Head(aCliente[c]) = aCliente[c][1]
    BY <1>2, Resto
<1>6. Tras(e.leido, r, 0) = e.leido
    BY <1>3, <1>4, TrasUnoMas
<1>7. Len(r) \in Nat \ {0} /\ Len(e.leido) \in Nat
    BY <1>3, <1>4, Resto DEF EsSec
<1>8. \A n \in 0 .. Len(r) :
        LET q == Llamada(e.pedido, Tras(e.leido, r, n)).recibe IN
        n < Len(r) => /\ Len(e.leido) + n < Len(q)
                      /\ Calza(r[n + 1], q[Len(e.leido) + n + 1])
    BY <1>3 DEF Legible
<1> HIDE DEF e, r
<1>9. 0 \in 0 .. Len(r) /\ 0 < Len(r)
    BY <1>7
<1>10. Len(e.leido) + 0 < Len(recibe) /\ Calza(r[0 + 1], recibe[Len(e.leido) + 0 + 1])
    BY <1>6, <1>8, <1>9
<1> HIDE DEF recibe
<1>11. Len(e.leido) < Len(recibe) /\ Calza(r[1], recibe[Len(e.leido) + 1])
    BY <1>7, <1>10
<1> QED BY <1>3, <1>4, <1>5, <1>11 DEF e, recibe

(* The thread always finds the field it reads next, of the size it reads:   *)
(* whatever calls the clients make, and wherever they are killed.           *)
THEOREM PedidosEncuadrados == Spec => []EncuadrePedidos
<1> QED BY Faseado, PedidosEncuadran, PTL

(* And the client: no answer has a field more or less than it reads, for a  *)
(* directory of any number of elements.                                     *)
THEOREM RespuestasEncuadradas == Spec => []EncuadreRespuestas
<1> QED BY Faseado, RespuestasEncuadran, PTL

=============================================================================
