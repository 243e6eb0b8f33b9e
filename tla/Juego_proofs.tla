---------------------------- MODULE Juego_proofs ----------------------------
(***************************************************************************)
(* The types of Juego hold for any number of trainers, pokenests and       *)
(* descriptors: every index the threads of the map keep is one of the list *)
(* they use it with, and every message is of those its receiver knows.     *)
(***************************************************************************)
EXTENDS JuegoInv, WellFoundedInduction, FiniteSetTheorems, SequenceTheorems, TLAPS

-----------------------------------------------------------------------------
(* Minima and maxima.                                                       *)

MenorQue == {ss \in Nat \X Nat : ss[1] < ss[2]}

(* Nat is well founded.                                                     *)
LEMMA BienFundado == IsWellFoundedOn(MenorQue, Nat)
BY NatLessThanWellFounded, Zenon DEF OpToRel, MenorQue

(* A set of naturals has a least element: the induction used below.         *)
LEMMA HayMenor ==
    ASSUME NEW S \in SUBSET Nat, S # {}
    PROVE  \E x \in S : \A y \in S : x <= y
<1>1. \E x \in S : \A y \in S : ~(<<y, x>> \in MenorQue)
    BY BienFundado, WFMin
<1>2. PICK x \in S : \A y \in S : ~(<<y, x>> \in MenorQue)
    BY <1>1
<1>3. ASSUME NEW y \in S PROVE x <= y
  <2>1. <<y, x>> \notin MenorQue /\ x \in Nat /\ y \in Nat
      BY <1>2
  <2>2. ~(y < x)
      BY <2>1 DEF MenorQue
  <2> QED BY <2>1, <2>2
<1> QED BY <1>3

(* Min is that element.                                                     *)
LEMMA MenorDe ==
    ASSUME NEW S \in SUBSET Nat, S # {}
    PROVE  Min(S) \in S /\ \A x \in S : Min(S) <= x
BY HayMenor DEF Min

(* Max of some indices is one of them.                                      *)
LEMMA MayorDe ==
    ASSUME NEW n \in Nat, NEW S \in SUBSET (1 .. n), S # {}
    PROVE  Max(S) \in S
<1> DEFINE R == {n - x : x \in S}
<1>1. R \in SUBSET Nat /\ R # {}
  <2>1. \A x \in S : n - x \in Nat
      OBVIOUS
  <2>2. PICK x \in S : TRUE
      OBVIOUS
  <2>3. n - x \in R
      BY <2>2
  <2> QED BY <2>1, <2>3
<1>2. PICK r \in R : \A y \in R : r <= y
    BY <1>1, HayMenor
<1>3. PICK x \in S : r = n - x
    BY <1>2
<1>4. ASSUME NEW y \in S PROVE x >= y
  <2>1. n - x <= n - y
      BY <1>2, <1>3
  <2> QED BY <2>1
<1> QED BY <1>4 DEF Max

(* A list of integers that is not empty has a least one.                    *)
LEMMA HayCercano ==
    ASSUME NEW n \in Nat \ {0}, NEW f \in [1 .. n -> Int]
    PROVE  \E i \in 1 .. n : \A j \in 1 .. n : f[i] <= f[j]
<1> DEFINE HayEn(k) == \E i \in 1 .. k : \A j \in 1 .. k : f[i] <= f[j]
           Malos == {k \in 1 .. n : ~HayEn(k)}
<1>1. Malos \in SUBSET Nat
    OBVIOUS
<1>2. SUFFICES ASSUME ~HayEn(n) PROVE FALSE
    OBVIOUS
<1>3. n \in Malos
    BY <1>2
<1> HIDE DEF HayEn
<1>4. PICK k \in Malos : \A m \in Malos : k <= m
    BY <1>1, <1>3, HayMenor
<1>5. HayEn(1)
    BY DEF HayEn
<1>6. k \in 1 .. n /\ k # 1 /\ ~HayEn(k)
    BY <1>4, <1>5
<1>7. HayEn(k - 1)
  <2>1. k - 1 \in 1 .. n /\ ~(k <= k - 1)
      BY <1>6
  <2> QED BY <1>4, <2>1
<1>8. PICK i \in 1 .. k - 1 : \A j \in 1 .. k - 1 : f[i] <= f[j]
    BY <1>7 DEF HayEn
<1>9. \A j \in 1 .. k : j \in 1 .. k - 1 \/ j = k
    BY <1>6
<1>10. f[i] \in Int /\ f[k] \in Int /\ i \in 1 .. k /\ k \in 1 .. k
    BY <1>6, <1>8
<1>11. CASE f[i] <= f[k]
  <2>1. \A j \in 1 .. k : f[i] <= f[j]
      BY <1>8, <1>9, <1>11
  <2> QED BY <2>1, <1>6, <1>10 DEF HayEn
<1>12. CASE ~(f[i] <= f[k])
  <2>1. ASSUME NEW j \in 1 .. k PROVE f[k] <= f[j]
    <3>1. CASE j = k
        BY <3>1, <1>10
    <3>2. CASE j \in 1 .. k - 1
      <4>1. f[i] <= f[j] /\ f[j] \in Int
          BY <3>2, <1>8, <1>6
      <4> QED BY <4>1, <1>10, <1>12
    <3> QED BY <1>9, <3>1, <3>2
  <2> QED BY <2>1, <1>6, <1>10 DEF HayEn
<1> QED BY <1>11, <1>12

-----------------------------------------------------------------------------
(* Lists.                                                                   *)

(* A list with an element less.                                             *)
LEMMA SinElUno ==
    ASSUME NEW S, NEW s \in Seq(S), NEW i \in 1 .. Len(s)
    PROVE  /\ RemoveAt(s, i) \in Seq(S) /\ Len(RemoveAt(s, i)) = Len(s) - 1
           /\ \A j \in 1 .. Len(s) - 1 :
                 RemoveAt(s, i)[j] = IF j < i THEN s[j] ELSE s[j + 1]
<1> DEFINE a == SubSeq(s, 1, i - 1)
           b == SubSeq(s, i + 1, Len(s))
<1>1. a \in Seq(S) /\ Len(a) = i - 1 /\ \A j \in 1 .. i - 1 : a[j] = s[j]
    BY SubSeqProperties
<1>2. b \in Seq(S) /\ Len(b) = Len(s) - i /\ \A j \in 1 .. Len(s) - i : b[j] = s[i + j]
    BY SubSeqProperties
<1>3. RemoveAt(s, i) = a \o b
    BY DEF RemoveAt
<1> HIDE DEF a, b
<1>4. a \o b \in Seq(S) /\ Len(a \o b) = Len(a) + Len(b)
    BY <1>1, <1>2, ConcatProperties
<1>5. \A j \in 1 .. Len(a) + Len(b) :
         (a \o b)[j] = IF j <= Len(a) THEN a[j] ELSE b[j - Len(a)]
    BY <1>1, <1>2, ConcatProperties
<1>6. Len(a) + Len(b) = Len(s) - 1
    BY <1>1, <1>2
<1>7. ASSUME NEW j \in 1 .. Len(s) - 1
      PROVE  (a \o b)[j] = IF j < i THEN s[j] ELSE s[j + 1]
  <2>1. (a \o b)[j] = IF j <= Len(a) THEN a[j] ELSE b[j - Len(a)]
      BY <1>5, <1>6
  <2>2. CASE j < i
    <3>1. j \in 1 .. i - 1 /\ j <= Len(a)
        BY <2>2, <1>1
    <3> QED BY <1>1, <2>1, <3>1, <2>2
  <2>3. CASE ~(j < i)
    <3>1. /\ j - (i - 1) \in 1 .. Len(s) - i /\ i + (j - (i - 1)) = j + 1
          /\ ~(j <= Len(a)) /\ j - Len(a) = j - (i - 1)
        BY <2>3, <1>1
    <3>2. (a \o b)[j] = b[j - (i - 1)]
        BY <2>1, <3>1
    <3> QED BY <1>2, <3>1, <3>2, <2>3
  <2> QED BY <2>2, <2>3
<1> QED BY <1>3, <1>4, <1>6, <1>7

-----------------------------------------------------------------------------
(* Messages.                                                                *)

(* A sequence is what its elements say.                                     *)
LEMMA EsSec ==
    ASSUME NEW S, NEW s \in Seq(S)
    PROVE  Len(s) \in Nat /\ s = [i \in 1 .. Len(s) |-> s[i]]
OBVIOUS

(* What is left of a buffer, and what was first in it.                      *)
LEMMA BuzonMenos ==
    ASSUME NEW b, NEW datos, SonBuzones(b, datos), NEW s \in Fds, b[s] # <<>>
    PROVE  /\ EsMensaje(Head(b[s]), datos)
           /\ SonBuzones([b EXCEPT ![s] = Tail(@)], datos)
<1> DEFINE q == b[s]
           c == [b EXCEPT ![s] = Tail(@)]
<1>1. Len(q) \in Nat /\ q = [i \in 1 .. Len(q) |-> q[i]]
    BY DEF SonBuzones, SonMensajes
<1>2. \A i \in 1 .. Len(q) : EsMensaje(q[i], datos)
    BY DEF SonBuzones, SonMensajes
<1>3. q \in Seq(Range(q))
    BY <1>1 DEF Range
<1> HIDE DEF q
<1>4. Len(q) > 0 /\ Head(q) = q[1] /\ Len(Tail(q)) = Len(q) - 1
      /\ Tail(q) \in Seq(Range(q)) /\ \A i \in 1 .. Len(q) - 1 : Tail(q)[i] = q[i + 1]
  <2>1. q # <<>>
      BY DEF q
  <2>2. Tail(q) \in Seq(Range(q)) /\ Len(Tail(q)) = Len(q) - 1
      BY <1>3, <2>1, HeadTailProperties
  <2>3. \A i \in 1 .. Len(Tail(q)) : Tail(q)[i] = q[i + 1]
      BY <1>3, <2>1, HeadTailProperties
  <2> QED BY <1>1, <1>3, <2>1, <2>2, <2>3
<1>5. Tail(q) = [i \in 1 .. Len(Tail(q)) |-> Tail(q)[i]]
  <2>1. Tail(q) \in Seq(Range(q))
      BY <1>4
  <2> QED BY <2>1, EsSec
<1>6. \A i \in 1 .. Len(Tail(q)) : i + 1 \in 1 .. Len(q)
    BY <1>1, <1>4
<1>7. SonMensajes(Tail(q), datos)
  <2>1. \A i \in 1 .. Len(Tail(q)) : EsMensaje(Tail(q)[i], datos)
      BY <1>2, <1>4, <1>6
  <2>2. Len(Tail(q)) \in Nat
      BY <1>1, <1>4
  <2> QED BY <2>1, <2>2, <1>5 DEF SonMensajes
<1>8. EsMensaje(Head(q), datos)
    BY <1>2, <1>4, <1>1
<1>9. b = [x \in Fds |-> b[x]] /\ q = b[s] /\ \A x \in Fds : SonMensajes(b[x], datos)
    BY DEF SonBuzones, q
<1>10. c = [x \in Fds |-> IF x = s THEN Tail(q) ELSE b[x]]
    BY <1>9
<1>11. SonBuzones(c, datos)
    BY <1>7, <1>9, <1>10 DEF SonBuzones
<1> QED BY <1>8, <1>11 DEF q

(* A message more, wherever it is sent.                                     *)
LEMMA BuzonMas ==
    ASSUME NEW b, NEW datos, SonBuzones(b, datos), NEW s, NEW m, EsMensaje(m, datos)
    PROVE  SonBuzones([b EXCEPT ![s] = Append(@, m)], datos)
<1> DEFINE q == b[s]
           c == [b EXCEPT ![s] = Append(@, m)]
<1>1. b = [x \in Fds |-> b[x]] /\ \A x \in Fds : SonMensajes(b[x], datos)
    BY DEF SonBuzones
<1>2. ASSUME s \in Fds PROVE SonMensajes(Append(q, m), datos)
  <2>1. Len(q) \in Nat /\ q = [i \in 1 .. Len(q) |-> q[i]]
        /\ \A i \in 1 .. Len(q) : EsMensaje(q[i], datos)
      BY <1>1, <1>2 DEF SonMensajes
  <2> DEFINE S == Range(q) \union {m}
  <2> HIDE DEF q
  <2>2. q \in Seq(S)
      BY <2>1 DEF Range
  <2>3. Append(q, m) \in Seq(S) /\ Len(Append(q, m)) = Len(q) + 1
        /\ Append(q, m)[Len(q) + 1] = m
        /\ \A i \in 1 .. Len(q) : Append(q, m)[i] = q[i]
      BY <2>2
  <2>4. \A i \in 1 .. Len(q) + 1 : i \in 1 .. Len(q) \/ i = Len(q) + 1
      BY <2>1
  <2>5. \A i \in 1 .. Len(q) + 1 : EsMensaje(Append(q, m)[i], datos)
      BY <2>1, <2>3, <2>4
  <2>6. Append(q, m) = [i \in 1 .. Len(Append(q, m)) |-> Append(q, m)[i]]
    <3>1. Append(q, m) \in Seq(S)
        BY <2>3
    <3> QED BY <3>1, EsSec
  <2> QED BY <2>1, <2>3, <2>5, <2>6 DEF SonMensajes
<1> HIDE DEF q
<1>3. c = [x \in Fds |-> IF x = s THEN Append(q, m) ELSE b[x]]
    BY <1>1 DEF q
<1> QED BY <1>1, <1>2, <1>3 DEF SonBuzones

(* Enviado.                                                                 *)
LEMMA BuzonEnviado ==
    ASSUME NEW b, NEW datos, SonBuzones(b, datos), NEW s, NEW m, EsMensaje(m, datos)
    PROVE  SonBuzones(Enviado(b, s, m), datos)
BY BuzonMas DEF Enviado

(* What is thrown away at a close.                                          *)
LEMMA BuzonVacio ==
    ASSUME NEW b, NEW datos, SonBuzones(b, datos), NEW s
    PROVE  SonBuzones([b EXCEPT ![s] = <<>>], datos)
<1>1. b = [x \in Fds |-> b[x]] /\ \A x \in Fds : SonMensajes(b[x], datos)
    BY DEF SonBuzones
<1>2. [b EXCEPT ![s] = <<>>] = [x \in Fds |-> IF x = s THEN <<>> ELSE b[x]]
    BY <1>1
<1>3. SonMensajes(<<>>, datos)
    BY DEF SonMensajes
<1> QED BY <1>1, <1>2, <1>3 DEF SonBuzones

-----------------------------------------------------------------------------
(* The operators of the map.                                                *)

(* A search by descriptor finds the first with it, or there is none.        *)
LEMMA LugarEs ==
    ASSUME MapaTypeOK, NEW l \in Seq(1 .. Len(pcb)), NEW s
    PROVE  /\ Lugar(l, s) \in Nat
           /\ Lugar(l, s) = 0 => \A i \in DOMAIN l : pcb[l[i]].fd # s
           /\ Lugar(l, s) # 0 => /\ Lugar(l, s) \in DOMAIN l
                                 /\ pcb[l[Lugar(l, s)]].fd = s
                                 /\ \A i \in DOMAIN l :
                                       pcb[l[i]].fd = s => Lugar(l, s) <= i
<1> DEFINE D == {i \in DOMAIN l : pcb[l[i]].fd = s}
<1>1. CASE D = {}
  <2>1. Lugar(l, s) = 0
      BY <1>1 DEF Lugar
  <2> QED BY <1>1, <2>1
<1>2. CASE D # {}
  <2>1. Lugar(l, s) = Min(D)
      BY <1>2 DEF Lugar
  <2>2. D \in SUBSET Nat /\ 0 \notin D
      OBVIOUS
  <2> HIDE DEF D
  <2>3. Min(D) \in D /\ \A x \in D : Min(D) <= x
      BY <1>2, <2>2, MenorDe
  <2> QED BY <2>1, <2>2, <2>3 DEF D
<1> QED BY <1>1, <1>2

(* getPcbBySockFdListos answers with a t_pcb of a list that is not empty.   *)
LEMMA PcbEnListosEs ==
    ASSUME MapaTypeOK, NEW s, listos # <<>>
    PROVE  PcbEnListos(s) \in 1 .. Len(pcb) /\ \E i \in DOMAIN listos : PcbEnListos(s) = listos[i]
<1>1. listos \in Seq(1 .. Len(pcb))
    BY DEF MapaTypeOK
<1>2. Len(listos) \in DOMAIN listos
    BY <1>1
<1>3. Lugar(listos, s) # 0 => Lugar(listos, s) \in DOMAIN listos
    BY <1>1, LugarEs
<1> DEFINE i == IF Lugar(listos, s) = 0 THEN Len(listos) ELSE Lugar(listos, s)
<1>4. i \in DOMAIN listos
    BY <1>2, <1>3
<1>5. PcbEnListos(s) = listos[i]
    BY DEF PcbEnListos
<1> HIDE DEF i
<1>6. listos[i] \in 1 .. Len(pcb)
    BY <1>1, <1>4
<1> QED BY <1>4, <1>5, <1>6

(* The planner always finds somebody among the ready ones.                  *)
LEMMA ElegidoEs ==
    ASSUME MundoAssumption, MapaAssumption, MapaTypeOK, listos # <<>>
    PROVE  \E i \in DOMAIN listos : Elegido = listos[i]
<1>1. listos \in Seq(1 .. Len(pcb)) /\ Len(listos) \in Nat /\ Len(listos) > 0
  <2>1. listos \in Seq(1 .. Len(pcb))
      BY DEF MapaTypeOK
  <2> QED BY <2>1
<1> DEFINE S == {i \in DOMAIN listos : pcb[listos[i]].desc}
           f == [i \in 1 .. Len(listos) |-> CalcularDistancia(listos[i])]
           C == {i \in DOMAIN listos : \A j \in DOMAIN listos :
                    CalcularDistancia(listos[i]) <= CalcularDistancia(listos[j])}
<1>2. Head(listos) = listos[1] /\ 1 \in DOMAIN listos
    BY <1>1
<1>3. ASSUME S # {} PROVE Min(S) \in DOMAIN listos
  <2>1. S \in SUBSET Nat
      BY <1>1
  <2>2. Min(S) \in S
      BY <1>3, <2>1, MenorDe
  <2> QED BY <2>2
<1>4. Cercano \in DOMAIN listos
  <2>1. \A i \in 1 .. Len(listos) : CalcularDistancia(listos[i]) \in Int
    <3> SUFFICES ASSUME NEW i \in 1 .. Len(listos) PROVE CalcularDistancia(listos[i]) \in Int
        OBVIOUS
    <3> DEFINE q == pcb[listos[i]]
    <3>1. q \in Pcbs
      <4>1. pcb \in Seq(Pcbs)
          BY DEF MapaTypeOK
      <4>2. listos[i] \in 1 .. Len(pcb)
          BY <1>1
      <4> QED BY <4>1, <4>2
    <3>2. q.punto \in Int \X Int /\ q.pide \in Pokenests
        BY <3>1 DEF Pcbs
    <3> HIDE DEF q
    <3>3. Coordenada[q.pide] \in Nat \X Nat
        BY <3>2 DEF MundoAssumption
    <3>4. Coordenada[q.pide][1] \in Int /\ Coordenada[q.pide][2] \in Int
          /\ q.punto[1] \in Int /\ q.punto[2] \in Int
        BY <3>2, <3>3
    <3> QED BY <3>4 DEF CalcularDistancia, q
  <2>2. f \in [1 .. Len(listos) -> Int]
      BY <2>1
  <2>3. PICK i \in 1 .. Len(listos) : \A j \in 1 .. Len(listos) : f[i] <= f[j]
    <3>1. Len(listos) \in Nat \ {0}
        BY <1>1
    <3> HIDE DEF f
    <3> QED BY <3>1, <2>2, HayCercano
  <2>4. DOMAIN listos = 1 .. Len(listos)
      BY <1>1
  <2>5. i \in C
      BY <2>3, <2>4
  <2>6. C \in SUBSET (1 .. Len(listos))
      BY <2>4
  <2> HIDE DEF C, f
  <2>7. Max(C) \in C
      BY <1>1, <2>5, <2>6, MayorDe
  <2>8. Cercano = Max(C)
      BY DEF Cercano, C
  <2> QED BY <2>4, <2>6, <2>7, <2>8
<1>5. Elegido \in {Head(listos), listos[Cercano]} \/ (S # {} /\ Elegido = listos[Min(S)])
    BY DEF Elegido
<1> HIDE DEF S
<1> QED BY <1>2, <1>3, <1>4, <1>5

(* One t_pcb changed.                                                       *)
LEMMA PcbCambiado ==
    ASSUME NEW P \in Seq(Pcbs), NEW q \in 1 .. Len(P), NEW r \in Pcbs
    PROVE  /\ [P EXCEPT ![q] = r] \in Seq(Pcbs)
           /\ Len([P EXCEPT ![q] = r]) = Len(P)
           /\ \A i \in 1 .. Len(P) : [P EXCEPT ![q] = r][i] = IF i = q THEN r ELSE P[i]
BY ExceptSeq

(* That the direction of who runs is known.                                 *)
LEMMA ConocidaEs ==
    ASSUME NEW P \in Seq(Pcbs), pl.corre \in 1 .. Len(P)
    PROVE  /\ Conocida(P) \in Seq(Pcbs) /\ Len(Conocida(P)) = Len(P)
           /\ \A i \in 1 .. Len(P) :
                 Conocida(P)[i] = IF i = pl.corre /\ pl.vez = 2
                                  THEN [P[i] EXCEPT !.desc = FALSE] ELSE P[i]
<1> DEFINE c == pl.corre
           r == [P[c] EXCEPT !.desc = FALSE]
<1>1. P[c] \in Pcbs
    OBVIOUS
<1>2. r \in Pcbs
    BY <1>1 DEF Pcbs
<1>3. CASE pl.vez = 2
  <2>1. Conocida(P) = [P EXCEPT ![c] = r]
      BY <1>3 DEF Conocida
  <2>2. c \in 1 .. Len(P)
      OBVIOUS
  <2> HIDE DEF r
  <2>3. /\ [P EXCEPT ![c] = r] \in Seq(Pcbs)
        /\ Len([P EXCEPT ![c] = r]) = Len(P)
        /\ \A i \in 1 .. Len(P) : [P EXCEPT ![c] = r][i] = IF i = c THEN r ELSE P[i]
      BY <1>2, <2>2, PcbCambiado
  <2>4. ASSUME NEW i \in 1 .. Len(P)
        PROVE  Conocida(P)[i] = IF i = c /\ pl.vez = 2
                                THEN [P[i] EXCEPT !.desc = FALSE] ELSE P[i]
    <3>1. Conocida(P)[i] = IF i = c THEN r ELSE P[i]
        BY <2>1, <2>3
    <3> QED BY <1>3, <3>1 DEF r
  <2> QED BY <2>1, <2>3, <2>4
<1>4. CASE pl.vez # 2
    BY <1>4 DEF Conocida
<1> QED BY <1>3, <1>4

(* The copies of some of the blocked ones are t_pcb.                        *)
LEMMA LosEs ==
    ASSUME MapaTypeOK, NEW f \in [DOMAIN bloqueados -> BOOLEAN], NEW v \in BOOLEAN
    PROVE  /\ Los(f, v) \in Seq(1 .. Len(pcb))
           /\ \A k \in DOMAIN Los(f, v) : \E i \in DOMAIN bloqueados :
                 f[i] = v /\ Los(f, v)[k] = bloqueados[i]
<1> DEFINE n == Len(bloqueados)
           son == {i \in DOMAIN f : f[i] = v}
           H(i) == {j \in son : j <= i}
           g(i) == Cardinality(H(i))
           Este1(k) == CHOOSE i \in son : g(i) = k
<1>1. bloqueados \in Seq(1 .. Len(pcb)) /\ n \in Nat /\ DOMAIN f = 1 .. n
      /\ \A i \in 1 .. n : bloqueados[i] \in 1 .. Len(pcb)
  <2>1. bloqueados \in Seq(1 .. Len(pcb))
      BY DEF MapaTypeOK
  <2> QED BY <2>1
<1>2. son \in SUBSET (1 .. n)
    BY <1>1
<1>3. IsFiniteSet(son)
  <2>1. IsFiniteSet(1 .. n)
      BY <1>1, FS_Interval
  <2> QED BY <1>2, <2>1, FS_Subset
<1>4. Cardinality(son) \in Nat
    BY <1>3, FS_CardinalityType
<1>5. \A i \in Nat : IsFiniteSet(H(i)) /\ g(i) \in Nat
  <2> SUFFICES ASSUME NEW i \in Nat PROVE IsFiniteSet(H(i)) /\ g(i) \in Nat
      OBVIOUS
  <2>1. H(i) \in SUBSET son
      OBVIOUS
  <2> HIDE DEF H, son
  <2> QED BY <1>3, <2>1, FS_Subset, FS_CardinalityType
<1>6. g(0) = 0
  <2>1. H(0) = {}
      BY <1>2
  <2> HIDE DEF H
  <2> QED BY <2>1, FS_EmptySet
<1>7. g(n) = Cardinality(son)
  <2>1. H(n) = son
      BY <1>2
  <2> HIDE DEF H, son
  <2> QED BY <2>1
<1>8. \A i \in Nat \ {0} : IF i \in son THEN g(i) = g(i - 1) + 1 ELSE g(i) = g(i - 1)
  <2> SUFFICES ASSUME NEW i \in Nat \ {0}
               PROVE  IF i \in son THEN g(i) = g(i - 1) + 1 ELSE g(i) = g(i - 1)
      OBVIOUS
  <2>1. i - 1 \in Nat /\ i \notin H(i - 1)
      BY <1>2
  <2>2. CASE i \in son
    <3>1. H(i) = H(i - 1) \union {i}
        BY <1>2, <2>2
    <3> HIDE DEF H
    <3> QED BY <1>5, <2>1, <2>2, <3>1, FS_AddElement
  <2>3. CASE i \notin son
    <3>1. H(i) = H(i - 1)
        BY <1>2, <2>3
    <3> HIDE DEF H
    <3> QED BY <2>3, <3>1
  <2> QED BY <2>2, <2>3
<1> HIDE DEF g, H
<1>9. ASSUME NEW k \in 1 .. Cardinality(son) PROVE \E i \in son : g(i) = k
  <2> DEFINE S == {i \in Nat : g(i) >= k}
  <2>1. n \in S /\ S \in SUBSET Nat
      BY <1>1, <1>4, <1>7
  <2>2. PICK i \in S : \A j \in S : i <= j
      BY <2>1, HayMenor
  <2>3. i \in Nat /\ g(i) >= k /\ i # 0
      BY <2>2, <1>6, <1>4
  <2>4. i - 1 \in Nat /\ i - 1 \notin S
      BY <2>2, <2>3
  <2>5. g(i - 1) < k /\ g(i - 1) \in Nat /\ g(i) \in Nat
      BY <2>3, <2>4, <1>5, <1>4
  <2>6. i \in son /\ g(i) = g(i - 1) + 1
      BY <1>8, <2>3, <2>5
  <2> QED BY <2>3, <2>5, <2>6
<1>10. \A k \in 1 .. Cardinality(son) : Este1(k) \in son
    BY <1>9
<1>11. Los(f, v) = [k \in 1 .. Cardinality(son) |-> bloqueados[Este1(k)]]
    BY DEF Los, g, H
<1>12. \A i \in son : i \in 1 .. n /\ f[i] = v /\ i \in DOMAIN bloqueados
    BY <1>1
<1> HIDE DEF Este1, son, n
<1>13. \A k \in 1 .. Cardinality(son) : bloqueados[Este1(k)] \in 1 .. Len(pcb)
    BY <1>1, <1>10, <1>12
<1>14. [k \in 1 .. Cardinality(son) |-> bloqueados[Este1(k)]] \in Seq(1 .. Len(pcb))
    BY <1>4, <1>13
<1>15. DOMAIN Los(f, v) = 1 .. Cardinality(son)
    BY <1>11
<1> QED BY <1>10, <1>11, <1>12, <1>14, <1>15

-----------------------------------------------------------------------------
(* What a step leaves as it was.                                            *)

Supuestos == MundoAssumption /\ MapaAssumption /\ EntrenadorAssumption

(* The lists only grow without the detection, so its index stays in them.   *)
LEMMA DeteccionQueda ==
    ASSUME Control, dd' = dd, pcb' \in Seq(Pcbs), Len(pcb) <= Len(pcb'),
           bloqueados' \in Seq(1 .. Len(pcb')), Len(bloqueados) <= Len(bloqueados')
    PROVE  DeteccionOK'
<1>1. Len(pcb) \in Nat /\ Len(pcb') \in Nat
  <2>1. pcb \in Seq(Pcbs)
      BY DEF Control, MapaOK, MapaTypeOK
  <2> QED BY <2>1
<1>2. 1 .. Len(pcb) \subseteq 1 .. Len(pcb')
    BY <1>1
<1>3. DeteccionTypeOK /\ ControlDD
    BY DEF Control, DeteccionOK
<1>4. Seq(1 .. Len(pcb)) \subseteq Seq(1 .. Len(pcb'))
    BY <1>2, SeqMonotonic
<1>5. DeteccionTypeOK'
    BY <1>3, <1>4 DEF DeteccionTypeOK, DDs
<1>6. DOMAIN bloqueados \subseteq DOMAIN bloqueados'
  <2>1. bloqueados \in Seq(1 .. Len(pcb))
      BY DEF Control, MapaOK, MapaTypeOK
  <2>2. DOMAIN bloqueados = 1 .. Len(bloqueados) /\ Len(bloqueados) \in Nat
        /\ DOMAIN bloqueados' = 1 .. Len(bloqueados') /\ Len(bloqueados') \in Nat
      BY <2>1
  <2> QED BY <2>2
<1>7. ControlDD'
    BY <1>3, <1>6 DEF ControlDD
<1> QED BY <1>5, <1>7 DEF DeteccionOK

(* A step of the map is nothing to the trainers.                            *)
LEMMA EntrenadorQueda ==
    ASSUME Control, UNCHANGED <<ent, seniales>>
    PROVE  EntrenadorOK'
BY DEF Control, EntrenadorOK, EntrenadorTypeOK, ControlEnt

(* What is not touched of the world keeps its type.                         *)
LEMMA MundoQueda ==
    ASSUME MundoTypeOK, UNCHANGED mundo
    PROVE  MundoTypeOK'
BY DEF mundo, MundoTypeOK, SonBuzones

(* Of the connections and files, only what is in the buffers changes.       *)
LEMMA MundoConBuzones ==
    ASSUME MundoTypeOK, UNCHANGED <<extremo, sock, cola, nido, bill>>,
           SonBuzones(aMapa', DatosAlMapa), SonBuzones(aEntrenador', DatosAlEntrenador)
    PROVE  MundoTypeOK'
BY DEF MundoTypeOK

(* The turn goes on, or is over, for who was served.                        *)
LEMMA SigueEs ==
    ASSUME MapaAssumption, MapaTypeOK, pl.queda > 0, NEW res \in 0 .. 2
    PROVE  /\ Sigue(res) \in Pls /\ Sigue(res).corre = pl.corre
           /\ Sigue(res).pc \in {"recibir", "elegir", "quitar", "rotar"}
           /\ Sigue(res).pc = "recibir" => Sigue(res).queda > 0
           /\ res = 1 => Sigue(res).pc \in {"elegir", "quitar"}
<1>1. pl \in Pls
    BY DEF MapaTypeOK
<1>2. pl.queda - 1 \in Nat /\ (pl.queda # 1 => pl.queda - 1 > 0)
    BY <1>1 DEF Pls
<1>3. {"recibir", "elegir", "quitar", "rotar"} \subseteq Pasos
    BY DEF Pasos
<1>4. modo.alg \in {"RR", "SRDF"}
    BY DEF MapaTypeOK, MapaAssumption
<1>5. CASE modo.alg = "SRDF"
  <2> DEFINE x == IF res = 2 /\ pl.vez = 1 THEN "recibir" ELSE "elegir"
             v == IF res = 2 THEN 2 ELSE 1
             r == [pl EXCEPT !.pc = x, !.vez = v]
  <2>1. Sigue(res) = r
      BY <1>5 DEF Sigue
  <2>2. x \in {"recibir", "elegir"} /\ x \in Pasos /\ v \in 1 .. 2
        /\ (res = 1 => x = "elegir")
      BY <1>3
  <2> HIDE DEF x, v
  <2>3. r \in Pls /\ r.corre = pl.corre /\ r.queda = pl.queda /\ r.pc = x
      BY <1>1, <2>2 DEF Pls
  <2> HIDE DEF r
  <2> QED BY <2>1, <2>2, <2>3
<1>6. CASE modo.alg = "RR" /\ res = 1
  <2>1. Sigue(res) = [pl EXCEPT !.pc = "quitar"]
      BY <1>6 DEF Sigue
  <2> QED BY <1>1, <1>3, <1>6, <2>1 DEF Pls
<1>7. CASE modo.alg = "RR" /\ res = 2
  <2>1. Sigue(res) = [pl EXCEPT !.pc = "elegir"]
      BY <1>7 DEF Sigue
  <2> QED BY <1>1, <1>3, <1>7, <2>1 DEF Pls
<1>8. CASE modo.alg = "RR" /\ res = 0
  <2> DEFINE r == [pl EXCEPT !.queda = @ - 1,
                            !.pc = IF pl.queda = 1 THEN "rotar" ELSE "recibir"]
  <2>1. Sigue(res) = r
      BY <1>8 DEF Sigue
  <2>2. /\ r \in Pls /\ r.corre = pl.corre /\ r.queda = pl.queda - 1
        /\ r.pc = IF pl.queda = 1 THEN "rotar" ELSE "recibir"
      BY <1>1, <1>2, <1>3 DEF Pls
  <2> HIDE DEF r
  <2> QED BY <1>2, <1>8, <2>1, <2>2
<1> QED BY <1>4, <1>5, <1>6, <1>7, <1>8

(* A step of the planner that takes nobody in or out of a list.             *)
LEMMA MapaConPcb ==
    ASSUME Control, pcb' \in Seq(Pcbs), Len(pcb') = Len(pcb),
           UNCHANGED <<modo, rec, listos, bloqueados>>,
           cant' \in [Pokenests -> Int], llave' \in Hilos, llaveB' \in Hilos,
           semGui' \in Nat, semYa' \in Nat, aceptando' \in BOOLEAN,
           caida' \in {"no", "SIGPIPE", "nulo", "fuera de fase"},
           pl' \in Pls, ControlPlan'
    PROVE  MapaOK'
BY DEF Control, MapaOK, MapaTypeOK


(* While it serves, who runs is a ready one and so is the t_pcb that the    *)
(* search by its descriptor finds.                                          *)
LEMMA Sirve ==
    ASSUME Supuestos, Control, pl.pc \in Sirviendo
    PROVE  /\ pl.corre \in 1 .. Len(pcb) /\ pcb \in Seq(Pcbs) /\ Fd \in Fds
           /\ listos # <<>> /\ listos \in Seq(1 .. Len(pcb))
           /\ PcbEnListos(Fd) \in 1 .. Len(pcb)
           /\ pl \in Pls /\ pl.pc # "elegir"
           /\ pl.pc # "rotar" => pl.queda > 0
           /\ Lugar(listos, Fd) \in DOMAIN listos
<1>1. pcb \in Seq(Pcbs) /\ listos \in Seq(1 .. Len(pcb)) /\ MapaTypeOK /\ pl \in Pls
    BY DEF Control, MapaOK, MapaTypeOK
<1>2. pl.pc # "elegir" /\ pl.corre \in 1 .. Len(pcb)
      /\ (pl.pc # "rotar" => pl.queda > 0)
    BY DEF Control, MapaOK, ControlPlan, Sirviendo
<1>3. PICK i \in DOMAIN listos : listos[i] = pl.corre
    BY DEF Control, MapaOK, ControlPlan, Sirviendo
<1>4. listos # <<>>
    BY <1>3
<1>5. pcb[pl.corre] \in Pcbs
    BY <1>1, <1>2
<1>6. Fd \in Fds
    BY <1>5 DEF Fd, Pcbs
<1>7. PcbEnListos(Fd) \in 1 .. Len(pcb)
    BY <1>1, <1>4, PcbEnListosEs
<1>8. pcb[listos[i]].fd = Fd
    BY <1>3 DEF Fd
<1>9. Lugar(listos, Fd) \in DOMAIN listos
    BY <1>1, <1>8, LugarEs
<1> QED BY <1>1, <1>2, <1>4, <1>6, <1>7, <1>9

(* Where the planner is after it has served somebody.                       *)
LEMMA PlanSigue ==
    ASSUME Supuestos, Control, pl.pc \in Sirviendo \ {"rotar"}, NEW res \in 0 .. 2,
           pl' = Sigue(res), Len(pcb') = Len(pcb), res = 1 \/ listos' = listos
    PROVE  pl' \in Pls /\ ControlPlan'
<1>1. pl.queda > 0 /\ pl.corre \in 1 .. Len(pcb) /\ MapaTypeOK /\ MapaAssumption
    BY Sirve DEF Supuestos, Control, MapaOK
<1>2. /\ pl' \in Pls /\ pl'.corre = pl.corre
      /\ pl'.pc \in {"recibir", "elegir", "quitar", "rotar"}
      /\ pl'.pc = "recibir" => pl'.queda > 0
      /\ res = 1 => pl'.pc \in {"elegir", "quitar"}
    BY <1>1, SigueEs
<1>3. \E i \in DOMAIN listos : listos[i] = pl.corre
    BY DEF Control, MapaOK, ControlPlan, Sirviendo
<1>4. pl'.pc \in Sirviendo => \E i \in DOMAIN listos' : listos'[i] = pl'.corre
    BY <1>2, <1>3 DEF Sirviendo
<1> QED BY <1>1, <1>2, <1>4 DEF ControlPlan, Sirviendo

(* Where it is in the middle of serving.                                    *)
LEMMA PlanEnMedio ==
    ASSUME Supuestos, Control, pl.pc \in Sirviendo \ {"rotar"},
           NEW x \in Sirviendo \ {"rotar", "quitando"}, NEW c \in BOOLEAN,
           \/ pl' = [pl EXCEPT !.pc = x]
           \/ pl' = [pl EXCEPT !.pc = x, !.cierra = c],
           Len(pcb') = Len(pcb), listos' = listos
    PROVE  pl' \in Pls /\ ControlPlan'
<1>1. pl.queda > 0 /\ pl.corre \in 1 .. Len(pcb) /\ pl \in Pls
    BY Sirve
<1>2. pl' \in Pls /\ pl'.corre = pl.corre /\ pl'.pc = x /\ pl'.queda = pl.queda
    BY <1>1 DEF Pls, Sirviendo
<1>3. \E i \in DOMAIN listos : listos[i] = pl.corre
    BY DEF Control, MapaOK, ControlPlan, Sirviendo
<1> QED BY <1>1, <1>2, <1>3 DEF ControlPlan, Sirviendo

(* And where it stays when something else moves.                            *)
LEMMA PlanQueda ==
    ASSUME Control, pl' = pl, pcb' \in Seq(Pcbs), Len(pcb) <= Len(pcb'),
           \/ listos' = listos
           \/ \E m \in Seq(1 .. Len(pcb')) : listos' = listos \o m
    PROVE  ControlPlan'
<1>1. pcb \in Seq(Pcbs) /\ listos \in Seq(1 .. Len(pcb)) /\ ControlPlan
    BY DEF Control, MapaOK, MapaTypeOK
<1>2. Len(pcb) \in Nat /\ Len(pcb') \in Nat
    BY <1>1
<1>3. DOMAIN listos \subseteq DOMAIN listos'
      /\ \A i \in DOMAIN listos : listos'[i] = listos[i]
  <2>1. CASE listos' = listos
      BY <2>1
  <2>2. CASE \E m \in Seq(1 .. Len(pcb')) : listos' = listos \o m
    <3>1. PICK m \in Seq(1 .. Len(pcb')) : listos' = listos \o m
        BY <2>2
    <3>2. listos \in Seq(1 .. Len(pcb'))
      <4>1. 1 .. Len(pcb) \subseteq 1 .. Len(pcb')
          BY <1>2
      <4> QED BY <1>1, <4>1, SeqMonotonic
    <3>3. /\ Len(listos \o m) = Len(listos) + Len(m)
          /\ \A i \in 1 .. Len(listos) + Len(m) :
                (listos \o m)[i] = IF i <= Len(listos) THEN listos[i] ELSE m[i - Len(listos)]
        BY <3>1, <3>2, ConcatProperties
    <3>4. listos \o m \in Seq(1 .. Len(pcb'))
        BY <3>1, <3>2, ConcatProperties
    <3>5. /\ DOMAIN listos = 1 .. Len(listos) /\ Len(listos) \in Nat /\ Len(m) \in Nat
          /\ DOMAIN listos' = 1 .. Len(listos) + Len(m)
        BY <3>1, <3>2, <3>3, <3>4
    <3>6. \A i \in 1 .. Len(listos) : i \in 1 .. Len(listos) + Len(m) /\ i <= Len(listos)
        BY <3>5
    <3>7. \A i \in DOMAIN listos : (listos \o m)[i] = listos[i]
        BY <3>3, <3>5, <3>6
    <3>8. DOMAIN listos \subseteq DOMAIN listos'
        BY <3>5, <3>6
    <3> QED BY <3>1, <3>7, <3>8
  <2> QED BY <2>1, <2>2
<1>4. pl.pc # "elegir" => pl.corre \in 1 .. Len(pcb')
    BY <1>1, <1>2 DEF ControlPlan
<1>5. pl.pc \in Sirviendo => \E i \in DOMAIN listos' : listos'[i] = pl.corre
    BY <1>1, <1>3 DEF ControlPlan
<1>6. pl.pc \in {"quitando", "cerrar"} => pl.sitio \in DOMAIN listos'
    BY <1>1, <1>3 DEF ControlPlan
<1> QED BY <1>1, <1>4, <1>5, <1>6 DEF ControlPlan

(* The parts of Control after a step of the map or of the detection.        *)
LEMMA Juntos ==
    ASSUME Control, MundoTypeOK', MapaOK', Len(pcb) <= Len(pcb'), UNCHANGED <<ent, seniales>>,
           \/ DeteccionOK'
           \/ dd' = dd /\ Len(bloqueados) <= Len(bloqueados')
    PROVE  Control'
<1>1. EntrenadorOK'
    BY EntrenadorQueda
<1>2. pcb' \in Seq(Pcbs) /\ bloqueados' \in Seq(1 .. Len(pcb'))
    BY DEF MapaOK, MapaTypeOK
<1>3. DeteccionOK'
    BY <1>2, DeteccionQueda
<1> QED BY <1>1, <1>3 DEF Control

(* Why the map may be followed no further.                                  *)
Caidas == {"no", "SIGPIPE", "nulo", "fuera de fase"}

(* The types of the map, one by one, with the arithmetic of its counters.   *)
LEMMA Tipos ==
    ASSUME Control
    PROVE  /\ MapaTypeOK /\ ControlPlan /\ MundoTypeOK
           /\ modo \in Modos /\ pcb \in Seq(Pcbs) /\ Len(pcb) \in Nat
           /\ listos \in Seq(1 .. Len(pcb)) /\ bloqueados \in Seq(1 .. Len(pcb))
           /\ Len(bloqueados) \in Nat
           /\ rec \in [1 .. MaxPcb -> [Pokenests -> Nat]]
           /\ cant \in [Pokenests -> Int] /\ llave \in Hilos /\ llaveB \in Hilos
           /\ semGui \in Nat /\ semGui + 1 \in Nat /\ (semGui > 0 => semGui - 1 \in Nat)
           /\ semYa \in Nat /\ semYa + 1 \in Nat /\ (semYa > 0 => semYa - 1 \in Nat)
           /\ pl \in Pls /\ aceptando \in BOOLEAN /\ caida \in Caidas
           /\ NADIE \in Hilos /\ "planificador" \in Hilos /\ "perdida" \in Hilos
<1>1. MapaTypeOK /\ ControlPlan /\ MundoTypeOK
    BY DEF Control, MapaOK
<1>2. modo \in Modos /\ pcb \in Seq(Pcbs)
      /\ listos \in Seq(1 .. Len(pcb)) /\ bloqueados \in Seq(1 .. Len(pcb))
    BY <1>1 DEF MapaTypeOK
<1>3. Len(pcb) \in Nat /\ Len(bloqueados) \in Nat
    BY <1>2
<1>4. /\ rec \in [1 .. MaxPcb -> [Pokenests -> Nat]]
      /\ cant \in [Pokenests -> Int] /\ llave \in Hilos /\ llaveB \in Hilos
      /\ semGui \in Nat /\ semYa \in Nat
      /\ pl \in Pls /\ aceptando \in BOOLEAN /\ caida \in Caidas
    BY <1>1 DEF MapaTypeOK, Caidas
<1>5. semGui + 1 \in Nat /\ (semGui > 0 => semGui - 1 \in Nat)
      /\ semYa + 1 \in Nat /\ (semYa > 0 => semYa - 1 \in Nat)
  <2>1. semGui \in Nat /\ semYa \in Nat
      BY <1>4
  <2> QED BY <2>1
<1>6. NADIE \in Hilos /\ "planificador" \in Hilos /\ "perdida" \in Hilos
    BY DEF Hilos
<1> QED BY <1>1, <1>2, <1>3, <1>4, <1>5, <1>6

-----------------------------------------------------------------------------
(* The steps of the map.                                                    *)

(* The answer is a message for the trainer, and it reaches no other.        *)
LEMMA RespondeEs ==
    ASSUME MundoTypeOK, NEW tipo \in DOMAIN DatosAlEntrenador,
           NEW dato \in DatosAlEntrenador[tipo], Responde(tipo, dato)
    PROVE  /\ SonBuzones(aEntrenador', DatosAlEntrenador)
           /\ caida' \in {"no", "SIGPIPE", "nulo", "fuera de fase"}
<1>1. EsMensaje(Msg(tipo, dato), DatosAlEntrenador)
    BY DEF EsMensaje, Msg
<1>2. SonBuzones(aEntrenador, DatosAlEntrenador)
    BY DEF MundoTypeOK
<1>3. SonBuzones(Enviado(aEntrenador, Fd, Msg(tipo, dato)), DatosAlEntrenador)
    BY <1>1, <1>2, BuzonEnviado
<1>4. caida' \in {"no", "SIGPIPE"}
    BY DEF Responde, Envia
<1> QED BY <1>3, <1>4 DEF Responde

(* The request is a message of its type.                                    *)
LEMMA PedidoEs ==
    ASSUME Supuestos, Control, NEW tipo, Pedido(tipo)
    PROVE  /\ SonBuzones(aMapa', DatosAlMapa)
           /\ tipo \in DOMAIN DatosAlMapa /\ Head(aMapa[Fd]).dato \in DatosAlMapa[tipo]
           /\ pl.pc = "recibir" /\ pl.pc \in Sirviendo \ {"rotar"}
<1>1. pl.pc = "recibir" /\ pl.pc \in Sirviendo \ {"rotar"}
    BY DEF Pedido, Sirviendo, Pasos
<1>2. Fd \in Fds
    BY <1>1, Sirve
<1>3. SonBuzones(aMapa, DatosAlMapa)
    BY DEF Control, MundoTypeOK
<1>4. aMapa[Fd] # <<>> /\ Head(aMapa[Fd]).tipo = tipo
      /\ aMapa' = [aMapa EXCEPT ![Fd] = Tail(@)]
    BY DEF Pedido, Hay
<1>5. EsMensaje(Head(aMapa[Fd]), DatosAlMapa)
      /\ SonBuzones([aMapa EXCEPT ![Fd] = Tail(@)], DatosAlMapa)
    BY <1>2, <1>3, <1>4, BuzonMenos
<1> QED BY <1>1, <1>4, <1>5 DEF EsMensaje

(* The first in the queue of connections becomes a ready one.               *)
LEMMA PasoAceptar ==
    ASSUME Supuestos, Control, Aceptar, UNCHANGED <<dd, ent, seniales>>
    PROVE  Control'
<1>1. /\ MapaTypeOK /\ MundoTypeOK /\ pcb \in Seq(Pcbs) /\ Len(pcb) \in Nat
      /\ listos \in Seq(1 .. Len(pcb)) /\ bloqueados \in Seq(1 .. Len(pcb))
  <2>1. MapaTypeOK /\ MundoTypeOK
      BY DEF Control, MapaOK
  <2>2. pcb \in Seq(Pcbs) /\ listos \in Seq(1 .. Len(pcb)) /\ bloqueados \in Seq(1 .. Len(pcb))
      BY <2>1 DEF MapaTypeOK
  <2> QED BY <2>1, <2>2
<1> DEFINE c == Head(cola)
           n == Len(pcb) + 1
<1>2. cola \in Seq([fd : Fds, quien : Entrenadores]) /\ cola # <<>>
    BY <1>1 DEF MundoTypeOK, Aceptar
<1>3. c \in [fd : Fds, quien : Entrenadores] /\ cola' \in Seq([fd : Fds, quien : Entrenadores])
    BY <1>2, HeadTailProperties DEF Aceptar
<1>4. Head(Objetivos[c.quien]) \in Pokenests
  <2>1. Objetivos[c.quien] \in Seq(Pokenests) /\ Objetivos[c.quien] # <<>>
      BY <1>3 DEF Supuestos, MundoAssumption
  <2> QED BY <2>1, HeadTailProperties
<1>5. n \in 1 .. MaxPcb
    BY <1>1 DEF Aceptar, Supuestos, MapaAssumption
<1>6. Nuevo(c) \in Pcbs
    BY <1>3, <1>4, <1>5 DEF Nuevo, Pcbs, Acciones
<1>7. pcb' = Append(pcb, Nuevo(c)) /\ listos' = Append(listos, n)
    BY DEF Aceptar
<1> HIDE DEF c
<1>8. pcb' \in Seq(Pcbs) /\ Len(pcb') = n
    BY <1>1, <1>6, <1>7, AppendProperties
<1>9. 1 .. Len(pcb) \subseteq 1 .. Len(pcb') /\ n \in 1 .. Len(pcb')
    BY <1>1, <1>8
<1>10. listos \in Seq(1 .. Len(pcb')) /\ bloqueados \in Seq(1 .. Len(pcb'))
    BY <1>1, <1>9, SeqMonotonic
<1>11. listos' \in Seq(1 .. Len(pcb')) /\ listos' = listos \o <<n>> /\ <<n>> \in Seq(1 .. Len(pcb'))
    BY <1>7, <1>9, <1>10, AppendProperties, AppendIsConcat
<1>12. ControlPlan'
  <2>1. pl' = pl
      BY DEF Aceptar
  <2> DEFINE m == <<n>>
  <2>2. m \in Seq(1 .. Len(pcb')) /\ listos' = listos \o m
      BY <1>11
  <2> HIDE DEF m
  <2>3. \E k \in Seq(1 .. Len(pcb')) : listos' = listos \o k
      BY <2>2
  <2>4. Len(pcb) <= Len(pcb')
      BY <1>1, <1>8
  <2> QED BY <2>1, <2>3, <2>4, <1>8, PlanQueda
<1>13. MapaOK'
  <2>1. UNCHANGED <<modo, rec, bloqueados, cant, llave, llaveB, semYa, pl, caida>>
        /\ semGui' = semGui + 1 /\ aceptando' = TRUE
      BY DEF Aceptar, mutexes
  <2>2. Len(pcb') <= MaxPcb
      BY <1>5, <1>8
  <2>3. modo' \in Modos /\ rec' \in [1 .. MaxPcb -> [Pokenests -> Nat]]
        /\ cant' \in [Pokenests -> Int] /\ llave' \in Hilos /\ llaveB' \in Hilos
        /\ semYa' \in Nat /\ pl' \in Pls /\ caida' \in {"no", "SIGPIPE", "nulo", "fuera de fase"}
      BY <1>1, <2>1 DEF MapaTypeOK
  <2>5. semGui' \in Nat
    <3>1. semGui \in Nat
        BY <1>1 DEF MapaTypeOK
    <3>2. semGui' = semGui + 1
        BY <2>1
    <3> QED BY <3>1, <3>2
  <2>6. aceptando' \in BOOLEAN
      BY <2>1
  <2>4. bloqueados' \in Seq(1 .. Len(pcb'))
      BY <1>10, <2>1
  <2> QED BY <1>8, <1>11, <1>12, <2>2, <2>3, <2>4, <2>5, <2>6 DEF MapaOK, MapaTypeOK
<1>14. MundoTypeOK'
  <2>1. UNCHANGED <<aMapa, aEntrenador, extremo, sock, nido, bill>>
      BY DEF Aceptar, archivos
  <2> QED BY <1>1, <1>3, <2>1 DEF MundoTypeOK, SonBuzones
<1>15. bloqueados' = bloqueados /\ dd' = dd /\ Len(pcb) <= Len(pcb') /\ Len(bloqueados) \in Nat
    BY <1>1, <1>8 DEF Aceptar
<1> QED BY <1>13, <1>14, <1>15, Juntos

(* The accepting thread was drawn.                                          *)
LEMMA PasoAceptado ==
    ASSUME Supuestos, Control, Aceptado, UNCHANGED <<dd, ent, seniales>>
    PROVE  Control'
<1>1. /\ UNCHANGED mundo /\ UNCHANGED <<modo, pcb, rec, listos, bloqueados, cant, llave,
                                          llaveB, semGui, pl, caida>>
      /\ semYa > 0 /\ semYa' = semYa - 1 /\ aceptando' = FALSE
    BY DEF Aceptado, listas, mutexes
<1>2. pcb' \in Seq(Pcbs) /\ Len(pcb') = Len(pcb) /\ Len(pcb) <= Len(pcb')
    BY <1>1, Tipos
<1>3. ControlPlan'
    BY <1>1, <1>2, PlanQueda
<1>4. MapaOK'
  <2>1. aceptando' \in BOOLEAN /\ pl' \in Pls
      BY <1>1, Tipos
  <2> QED BY <1>1, <1>2, <1>3, <2>1, Tipos, MapaConPcb DEF Caidas
<1>5. MundoTypeOK'
    BY <1>1, MundoQueda, Tipos
<1>6. dd' = dd /\ Len(bloqueados) <= Len(bloqueados')
    BY <1>1, Tipos
<1> QED BY <1>2, <1>4, <1>5, <1>6, Juntos

(* A pass of the screen changes no more than what is pending to be drawn.   *)
LEMMA PasoDibujar ==
    ASSUME Supuestos, Control, Dibujar, UNCHANGED <<dd, ent, seniales>>
    PROVE  Control'
<1> DEFINE vistos == {listos[i] : i \in {j \in DOMAIN listos :
                                  pcb[listos[j]].accion \in EnListos}}
           ya == [p \in DOMAIN pcb |->
                 IF p \in vistos THEN [pcb[p] EXCEPT !.accion = "NADA"]
                                 ELSE pcb[p]]
<1>1. /\ UNCHANGED mundo /\ UNCHANGED <<modo, rec, listos, bloqueados, cant, llave, llaveB,
                                          pl, aceptando, caida>>
      /\ semGui > 0 /\ semGui' = semGui - 1 /\ semYa' \in {semYa, semYa + 1} /\ pcb' = ya
    BY DEF Dibujar, mutexes
<1>2. pcb' \in Seq(Pcbs) /\ Len(pcb') = Len(pcb)
  <2>1. pcb \in Seq(Pcbs) /\ DOMAIN pcb = 1 .. Len(pcb) /\ Len(pcb) \in Nat
      BY Tipos
  <2> DEFINE y(p) == IF p \in vistos THEN [pcb[p] EXCEPT !.accion = "NADA"] ELSE pcb[p]
  <2>2. \A p \in 1 .. Len(pcb) : y(p) \in Pcbs
    <3> SUFFICES ASSUME NEW p \in 1 .. Len(pcb) PROVE y(p) \in Pcbs
        OBVIOUS
    <3>1. pcb[p] \in Pcbs
        BY <2>1
    <3> HIDE DEF vistos
    <3>2. [pcb[p] EXCEPT !.accion = "NADA"] \in Pcbs
        BY <3>1 DEF Pcbs, Acciones
    <3> QED BY <3>1, <3>2
  <2>3. ya = [p \in 1 .. Len(pcb) |-> y(p)]
      BY <2>1
  <2> HIDE DEF y, vistos
  <2>4. ya \in Seq(Pcbs) /\ Len(ya) = Len(pcb)
      BY <2>1, <2>2, <2>3
  <2> QED BY <1>1, <2>4
<1> HIDE DEF vistos
<1>3. ControlPlan'
  <2>1. Len(pcb) <= Len(pcb')
      BY <1>2, Tipos
  <2> QED BY <1>1, <1>2, <2>1, PlanQueda
<1>4. MapaOK'
  <2>1. semGui' \in Nat /\ semYa' \in Nat
      BY <1>1, Tipos
  <2>2. pl' \in Pls /\ aceptando' \in BOOLEAN
      BY <1>1, Tipos
  <2>3. UNCHANGED <<modo, rec, listos, bloqueados>>
        /\ cant' \in [Pokenests -> Int] /\ llave' \in Hilos /\ llaveB' \in Hilos
        /\ caida' \in {"no", "SIGPIPE", "nulo", "fuera de fase"}
      BY <1>1, Tipos DEF Caidas
  <2> QED BY <1>2, <1>3, <2>1, <2>2, <2>3, MapaConPcb
<1>5. MundoTypeOK'
    BY <1>1, MundoQueda, Tipos
<1>6. dd' = dd /\ Len(bloqueados) <= Len(bloqueados') /\ Len(pcb) <= Len(pcb')
    BY <1>1, <1>2, Tipos
<1> QED BY <1>4, <1>5, <1>6, Juntos

(* The planner chooses.                                                     *)
LEMMA PasoElegir ==
    ASSUME Supuestos, Control, Elegir, UNCHANGED <<dd, ent, seniales>>
    PROVE  Control'
<1>1. /\ UNCHANGED mundo /\ UNCHANGED <<modo, pcb, rec, listos, bloqueados, cant, llave,
                                          llaveB, semGui, semYa, aceptando, caida>>
      /\ listos # <<>>
      /\ pl' = [pl EXCEPT !.pc = "recibir", !.corre = Elegido, !.queda = Quantum, !.vez = 1]
    BY DEF Elegir, listas, mutexes, pantalla
<1>2. PICK i \in DOMAIN listos : Elegido = listos[i]
    BY <1>1, ElegidoEs, Tipos DEF Supuestos
<1>3. Elegido \in 1 .. Len(pcb) /\ Elegido \in 0 .. MaxPcb /\ Quantum \in Nat /\ Quantum > 0
  <2>1. listos[i] \in 1 .. Len(pcb)
    <3>1. listos \in Seq(1 .. Len(pcb))
        BY Tipos
    <3> QED BY <1>2, <3>1
  <2>2. Len(pcb) <= MaxPcb /\ Len(pcb) \in Nat /\ MaxPcb \in Nat /\ Quantum \in Nat \ {0}
      BY Tipos DEF MapaTypeOK, Supuestos, MapaAssumption
  <2> QED BY <1>2, <2>1, <2>2
<1>4. pl' \in Pls /\ pl'.pc = "recibir" /\ pl'.corre = Elegido /\ pl'.queda > 0
  <2>1. pl \in Pls
      BY Tipos
  <2>2. ASSUME NEW c \in 0 .. MaxPcb, NEW q \in Nat
        PROVE  [pl EXCEPT !.pc = "recibir", !.corre = c, !.queda = q, !.vez = 1] \in Pls
    <3>1. "recibir" \in Pasos /\ 1 \in 1 .. 2
        BY DEF Pasos
    <3> QED BY <2>1, <3>1 DEF Pls
  <2>3. pl' \in Pls
      BY <1>1, <1>3, <2>2
  <2>4. pl'.pc = "recibir" /\ pl'.corre = Elegido /\ pl'.queda = Quantum
      BY <1>1, <2>1 DEF Pls
  <2> QED BY <1>3, <2>3, <2>4
<1>5. ControlPlan'
    BY <1>1, <1>2, <1>3, <1>4 DEF ControlPlan
<1>6. pcb' \in Seq(Pcbs) /\ Len(pcb') = Len(pcb)
      /\ dd' = dd /\ Len(bloqueados) <= Len(bloqueados') /\ Len(pcb) <= Len(pcb')
    BY <1>1, Tipos
<1>7. MapaOK'
  <2>1. aceptando' \in BOOLEAN
      BY <1>1, Tipos
  <2>2. UNCHANGED <<modo, rec, listos, bloqueados>>
        /\ cant' \in [Pokenests -> Int] /\ llave' \in Hilos /\ llaveB' \in Hilos
        /\ semGui' \in Nat /\ semYa' \in Nat
        /\ caida' \in {"no", "SIGPIPE", "nulo", "fuera de fase"}
      BY <1>1, Tipos DEF Caidas
  <2> QED BY <1>4, <1>5, <1>6, <2>1, <2>2, MapaConPcb
<1>8. MundoTypeOK'
    BY <1>1, MundoQueda, Tipos
<1> QED BY <1>6, <1>7, <1>8, Juntos

(* The end of a turn.                                                       *)
LEMMA PasoRotar ==
    ASSUME Supuestos, Control, Rotar, UNCHANGED <<dd, ent, seniales>>
    PROVE  Control'
<1>1. /\ UNCHANGED mundo /\ UNCHANGED <<modo, pcb, rec, bloqueados, cant, llave,
                                          llaveB, semGui, semYa, aceptando, caida>>
      /\ pl.pc = "rotar" /\ listos' = Append(Tail(listos), pl.corre)
      /\ pl' = [pl EXCEPT !.pc = "elegir"]
    BY DEF Rotar, mutexes, pantalla
<1>2. /\ pl.corre \in 1 .. Len(pcb) /\ listos # <<>> /\ listos \in Seq(1 .. Len(pcb))
      /\ pl \in Pls
    BY <1>1, Sirve DEF Sirviendo, Pasos
<1>3. listos' \in Seq(1 .. Len(pcb))
    BY <1>1, <1>2, HeadTailProperties, AppendProperties
<1>4. pl' \in Pls /\ pl'.pc = "elegir"
    BY <1>1, <1>2 DEF Pls, Pasos
<1>5. ControlPlan'
    BY <1>4 DEF ControlPlan, Sirviendo
<1>6. pcb' \in Seq(Pcbs) /\ Len(pcb') = Len(pcb)
      /\ dd' = dd /\ Len(bloqueados) <= Len(bloqueados') /\ Len(pcb) <= Len(pcb')
    BY <1>1, Tipos
<1>7. MapaOK'
  <2>1. aceptando' \in BOOLEAN
      BY <1>1, Tipos
  <2>2. MapaTypeOK'
      BY <1>1, <1>3, <1>4, <1>6, <2>1, Tipos DEF MapaTypeOK
  <2> QED BY <1>5, <2>2 DEF MapaOK
<1>8. MundoTypeOK'
    BY <1>1, MundoQueda, Tipos
<1> QED BY <1>6, <1>7, <1>8, Juntos

(* Where a pokenest is.                                                     *)
LEMMA PasoObtenerPokenest ==
    ASSUME Supuestos, Control, ObtenerPokenest, UNCHANGED <<dd, ent, seniales>>
    PROVE  Control'
<1> DEFINE p == Head(aMapa[Fd]).dato
           q == PcbEnListos(Fd)
           r == [pcb[q] EXCEPT !.pide = p]
           P == [pcb EXCEPT ![q].pide = p]
<1>1. /\ UNCHANGED <<extremo, sock, cola, nido, bill>>
      /\ UNCHANGED <<modo, rec, listos, bloqueados, cant, llave, llaveB, semGui, semYa,
                      aceptando>>
      /\ Pedido("CONOCER_POKENEST") /\ Responde("COORDENADA", Coordenada[p])
      /\ pcb' = Conocida(P) /\ pl' = Sigue(2)
    BY DEF ObtenerPokenest, archivos, mutexes, pantalla
<1>2. /\ SonBuzones(aMapa', DatosAlMapa) /\ p \in Pokenests
      /\ pl.pc \in Sirviendo \ {"rotar"}
    BY <1>1, PedidoEs DEF DatosAlMapa
<1>3. Coordenada[p] \in Nat \X Nat
    BY <1>2 DEF Supuestos, MundoAssumption
<1>4. SonBuzones(aEntrenador', DatosAlEntrenador) /\ caida' \in Caidas
  <2> HIDE DEF p
  <2>1. "COORDENADA" \in DOMAIN DatosAlEntrenador
        /\ Coordenada[p] \in DatosAlEntrenador["COORDENADA"]
      BY <1>3 DEF DatosAlEntrenador
  <2> QED BY <1>1, <2>1, RespondeEs, Tipos DEF Caidas
<1>5. q \in 1 .. Len(pcb) /\ pl.corre \in 1 .. Len(pcb) /\ pcb \in Seq(Pcbs)
    BY <1>2, Sirve
<1> HIDE DEF p, q
<1>6. r \in Pcbs
  <2>1. pcb[q] \in Pcbs
      BY <1>5
  <2> QED BY <1>2, <2>1 DEF Pcbs
<1>7. P = [pcb EXCEPT ![q] = r]
    OBVIOUS
<1> HIDE DEF r, P
<1>8. P \in Seq(Pcbs) /\ Len(P) = Len(pcb)
    BY <1>5, <1>6, <1>7, PcbCambiado
<1>9. pcb' \in Seq(Pcbs) /\ Len(pcb') = Len(pcb)
    BY <1>1, <1>5, <1>8, ConocidaEs
<1>10. pl' \in Pls /\ ControlPlan'
    BY <1>1, <1>2, <1>9, PlanSigue
<1>11. MapaOK'
  <2>1. aceptando' \in BOOLEAN
      BY <1>1, Tipos
  <2>2. /\ cant' \in [Pokenests -> Int] /\ llave' \in Hilos /\ llaveB' \in Hilos
        /\ semGui' \in Nat /\ semYa' \in Nat
      BY <1>1, Tipos
  <2> QED BY <1>1, <1>4, <1>9, <1>10, <2>1, <2>2, MapaConPcb DEF Caidas
<1>12. MundoTypeOK'
    BY <1>1, <1>2, <1>4, MundoConBuzones, Tipos
<1>13. dd' = dd /\ Len(bloqueados) <= Len(bloqueados') /\ Len(pcb) <= Len(pcb')
    BY <1>1, <1>9, Tipos
<1> QED BY <1>11, <1>12, <1>13, Juntos

(* What a step that keeps the lists has to say.                             *)
LEMMA Cierre ==
    ASSUME Supuestos, Control, pcb' \in Seq(Pcbs), Len(pcb') = Len(pcb),
           UNCHANGED <<modo, rec, listos, bloqueados, aceptando, dd, ent, seniales>>,
           cant' \in [Pokenests -> Int], llave' \in Hilos, llaveB' \in Hilos,
           semGui' \in Nat, semYa' \in Nat, caida' \in Caidas,
           pl' \in Pls, ControlPlan', MundoTypeOK'
    PROVE  Control'
<1>1. aceptando' \in BOOLEAN
    BY Tipos
<1>2. MapaOK'
    BY <1>1, MapaConPcb DEF Caidas
<1>3. Len(pcb) <= Len(pcb') /\ dd' = dd /\ Len(bloqueados) <= Len(bloqueados')
    BY Tipos
<1> QED BY <1>2, <1>3, Juntos

(* The trainer is moved, wherever it says.                                  *)
LEMMA PasoMoverPosicion ==
    ASSUME Supuestos, Control, MoverPosicion, UNCHANGED <<dd, ent, seniales>>
    PROVE  Control'
<1> DEFINE dir == Head(aMapa[Fd]).dato
           q == PcbEnListos(Fd)
           r == [pcb[q] EXCEPT !.punto = Paso(pcb[q].punto, dir), !.accion = "SE_MOVIO"]
<1>1. /\ UNCHANGED <<aEntrenador, extremo, sock, cola, nido, bill>>
      /\ UNCHANGED <<modo, rec, listos, bloqueados, cant, llave, llaveB, semYa,
                      aceptando, caida>>
      /\ Pedido("MOVER_POSICION") /\ semGui' = semGui + 1
      /\ pl' = [pl EXCEPT !.pc = "moviendo"]
    BY DEF MoverPosicion, archivos, mutexes
<1>0. pcb' = [pcb EXCEPT ![q].punto = Paso(@, dir), ![q].accion = "SE_MOVIO"]
    BY DEF MoverPosicion
<1>2. SonBuzones(aMapa', DatosAlMapa) /\ pl.pc \in Sirviendo \ {"rotar"}
    BY <1>1, PedidoEs
<1>3. q \in 1 .. Len(pcb) /\ pcb \in Seq(Pcbs)
    BY <1>2, Sirve
<1> HIDE DEF dir, q
<1>4. r \in Pcbs
  <2>1. pcb[q] \in Pcbs
      BY <1>3
  <2>2. pcb[q].punto \in Int \X Int
      BY <2>1 DEF Pcbs
  <2>3. Paso(pcb[q].punto, dir) \in Int \X Int
      BY <2>2 DEF Paso
  <2> QED BY <2>1, <2>3 DEF Pcbs, Acciones
<1>8. pcb' = [pcb EXCEPT ![q] = r]
  <2>1. pcb[q] \in Pcbs
      BY <1>3
  <2> QED BY <1>0, <1>3, <2>1 DEF Pcbs
<1> HIDE DEF r
<1>5. pcb' \in Seq(Pcbs) /\ Len(pcb') = Len(pcb)
    BY <1>8, <1>3, <1>4, PcbCambiado
<1>6. pl' \in Pls /\ ControlPlan'
  <2>1. "moviendo" \in Sirviendo \ {"rotar", "quitando"} /\ TRUE \in BOOLEAN
      BY DEF Sirviendo, Pasos
  <2> QED BY <1>1, <1>2, <1>5, <2>1, PlanEnMedio
<1>7. MundoTypeOK'
  <2>1. SonBuzones(aEntrenador', DatosAlEntrenador)
      BY <1>1, Tipos DEF MundoTypeOK
  <2> QED BY <1>1, <1>2, <2>1, MundoConBuzones, Tipos
<1> QED BY <1>1, <1>5, <1>6, <1>7, Tipos, Cierre

(* ... and told so.                                                         *)
LEMMA PasoMoviendo ==
    ASSUME Supuestos, Control, Moviendo, UNCHANGED <<dd, ent, seniales>>
    PROVE  Control'
<1>1. /\ UNCHANGED <<aMapa, extremo, sock, cola, nido, bill>>
      /\ UNCHANGED <<modo, rec, listos, bloqueados, cant, llave, llaveB, semGui, aceptando>>
      /\ pl.pc = "moviendo" /\ semYa > 0 /\ semYa' = semYa - 1 /\ Responde("OK", 0)
      /\ pcb' = Conocida(pcb) /\ pl' = Sigue(0)
    BY DEF Moviendo, archivos, mutexes
<1>2. pl.pc \in Sirviendo \ {"rotar"}
    BY <1>1 DEF Sirviendo, Pasos
<1>3. pl.corre \in 1 .. Len(pcb) /\ pcb \in Seq(Pcbs)
    BY <1>2, Sirve
<1>4. pcb' \in Seq(Pcbs) /\ Len(pcb') = Len(pcb)
    BY <1>1, <1>3, ConocidaEs
<1>5. SonBuzones(aEntrenador', DatosAlEntrenador) /\ caida' \in Caidas
  <2>1. "OK" \in DOMAIN DatosAlEntrenador /\ 0 \in DatosAlEntrenador["OK"]
      BY DEF DatosAlEntrenador
  <2> QED BY <1>1, <2>1, RespondeEs, Tipos DEF Caidas
<1>6. pl' \in Pls /\ ControlPlan'
    BY <1>1, <1>2, <1>4, PlanSigue
<1>7. MundoTypeOK'
  <2>1. SonBuzones(aMapa', DatosAlMapa)
      BY <1>1, Tipos DEF MundoTypeOK
  <2> QED BY <1>1, <1>5, <2>1, MundoConBuzones, Tipos
<1> QED BY <1>1, <1>4, <1>5, <1>6, <1>7, Tipos, Cierre

(* A pokemon is offered.                                                    *)
LEMMA PasoEntregar ==
    ASSUME Supuestos, Control, Entregar, UNCHANGED <<dd, ent, seniales>>
    PROVE  Control'
<1> DEFINE p == Head(aMapa[Fd]).dato
<1>1. /\ UNCHANGED <<extremo, sock, cola, nido, bill>>
      /\ UNCHANGED <<modo, pcb, rec, listos, bloqueados, llave, llaveB, semGui, semYa,
                      aceptando>>
      /\ Pedido("CAPTURAR") /\ Responde("TE_DOY", p)
      /\ cant' = [cant EXCEPT ![p] = @ - 1] /\ pl' = [pl EXCEPT !.pc = "entregando"]
    BY DEF Entregar, archivos, mutexes, pantalla, listas
<1>2. /\ SonBuzones(aMapa', DatosAlMapa) /\ p \in Pokenests
      /\ pl.pc \in Sirviendo \ {"rotar"}
    BY <1>1, PedidoEs DEF DatosAlMapa
<1> HIDE DEF p
<1>3. SonBuzones(aEntrenador', DatosAlEntrenador) /\ caida' \in Caidas
  <2>1. "TE_DOY" \in DOMAIN DatosAlEntrenador /\ p \in DatosAlEntrenador["TE_DOY"]
      BY <1>2 DEF DatosAlEntrenador
  <2> QED BY <1>1, <2>1, RespondeEs, Tipos DEF Caidas
<1>4. cant' \in [Pokenests -> Int]
    BY <1>1, <1>2, Tipos
<1>5. pcb' \in Seq(Pcbs) /\ Len(pcb') = Len(pcb)
    BY <1>1, Tipos
<1>6. pl' \in Pls /\ ControlPlan'
  <2>1. "entregando" \in Sirviendo \ {"rotar", "quitando"} /\ TRUE \in BOOLEAN
      BY DEF Sirviendo, Pasos
  <2> QED BY <1>1, <1>2, <1>5, <2>1, PlanEnMedio
<1>7. MundoTypeOK'
    BY <1>1, <1>2, <1>3, MundoConBuzones, Tipos
<1> QED BY <1>1, <1>3, <1>4, <1>5, <1>6, <1>7, Tipos, Cierre

(* There is none.                                                           *)
LEMMA PasoNegar ==
    ASSUME Supuestos, Control, Negar, UNCHANGED <<dd, ent, seniales>>
    PROVE  Control'
<1>1. /\ UNCHANGED <<extremo, sock, cola, nido, bill>>
      /\ UNCHANGED <<modo, pcb, rec, listos, bloqueados, cant, llave, llaveB, semGui, semYa,
                      aceptando>>
      /\ Pedido("CAPTURAR") /\ Responde("ESTAS_BLOQUEADO", 0)
      /\ pl' = [pl EXCEPT !.pc = "bloquear"]
    BY DEF Negar, archivos, mutexes, pantalla, listas
<1>2. SonBuzones(aMapa', DatosAlMapa) /\ pl.pc \in Sirviendo \ {"rotar"}
    BY <1>1, PedidoEs
<1>3. SonBuzones(aEntrenador', DatosAlEntrenador) /\ caida' \in Caidas
  <2>1. "ESTAS_BLOQUEADO" \in DOMAIN DatosAlEntrenador
        /\ 0 \in DatosAlEntrenador["ESTAS_BLOQUEADO"]
      BY DEF DatosAlEntrenador
  <2> QED BY <1>1, <2>1, RespondeEs, Tipos DEF Caidas
<1>4. pcb' \in Seq(Pcbs) /\ Len(pcb') = Len(pcb)
    BY <1>1, Tipos
<1>5. pl' \in Pls /\ ControlPlan'
  <2>1. "bloquear" \in Sirviendo \ {"rotar", "quitando"} /\ TRUE \in BOOLEAN
      BY DEF Sirviendo, Pasos
  <2> QED BY <1>1, <1>2, <1>4, <2>1, PlanEnMedio
<1>6. MundoTypeOK'
    BY <1>1, <1>2, <1>3, MundoConBuzones, Tipos
<1> QED BY <1>1, <1>3, <1>4, <1>5, <1>6, Tipos, Cierre

(* The medal.                                                               *)
LEMMA PasoDarMedalla ==
    ASSUME Supuestos, Control, DarMedalla, UNCHANGED <<dd, ent, seniales>>
    PROVE  Control'
<1>1. /\ UNCHANGED <<extremo, sock, cola, nido, bill>>
      /\ UNCHANGED <<modo, pcb, rec, listos, bloqueados, cant, llave, llaveB, semGui, semYa,
                      aceptando>>
      /\ Pedido("TERMINE_OBJETIVOS") /\ Responde("MEDALLA", 0)
      /\ pl' = [pl EXCEPT !.pc = "soltar", !.cierra = FALSE]
    BY DEF DarMedalla, archivos, mutexes, pantalla, listas
<1>2. SonBuzones(aMapa', DatosAlMapa) /\ pl.pc \in Sirviendo \ {"rotar"}
    BY <1>1, PedidoEs
<1>3. SonBuzones(aEntrenador', DatosAlEntrenador) /\ caida' \in Caidas
  <2>1. "MEDALLA" \in DOMAIN DatosAlEntrenador /\ 0 \in DatosAlEntrenador["MEDALLA"]
      BY DEF DatosAlEntrenador
  <2> QED BY <1>1, <2>1, RespondeEs, Tipos DEF Caidas
<1>4. pcb' \in Seq(Pcbs) /\ Len(pcb') = Len(pcb)
    BY <1>1, Tipos
<1>5. pl' \in Pls /\ ControlPlan'
  <2>1. "soltar" \in Sirviendo \ {"rotar", "quitando"} /\ FALSE \in BOOLEAN
      BY DEF Sirviendo, Pasos
  <2> QED BY <1>1, <1>2, <1>4, <2>1, PlanEnMedio
<1>6. MundoTypeOK'
    BY <1>1, <1>2, <1>3, MundoConBuzones, Tipos
<1> QED BY <1>1, <1>3, <1>4, <1>5, <1>6, Tipos, Cierre

(* The trainer has its copy: the file is deleted and it is recorded.        *)
LEMMA PasoEntregado ==
    ASSUME Supuestos, Control, Entregado, UNCHANGED <<dd, ent, seniales>>
    PROVE  Control'
<1> DEFINE q == PcbEnListos(Fd)
           p == pcb[q].pide
           l == pcb[q].lista
           r == [pcb[q] EXCEPT !.desc = TRUE]
           P == [pcb EXCEPT ![q].desc = TRUE]
<1>1. /\ UNCHANGED <<aEntrenador, extremo, sock, cola, bill>>
      /\ UNCHANGED <<modo, listos, bloqueados, cant, llave, llaveB, semGui, semYa, aceptando,
                      caida>>
      /\ pl.pc = "entregando" /\ aMapa[Fd] # <<>> /\ aMapa' = [aMapa EXCEPT ![Fd] = Tail(@)]
      /\ rec' = [rec EXCEPT ![l][p] = @ + 1]
      /\ nido' = [nido EXCEPT ![p] = IF @ > 0 THEN @ - 1 ELSE 0]
      /\ pcb' = Conocida(P) /\ pl' = Sigue(0)
    BY DEF Entregado, mutexes, pantalla, Hay
<1>2. pl.pc \in Sirviendo \ {"rotar"}
    BY <1>1 DEF Sirviendo, Pasos
<1>3. /\ q \in 1 .. Len(pcb) /\ pcb \in Seq(Pcbs) /\ pl.corre \in 1 .. Len(pcb)
      /\ Fd \in Fds
    BY <1>2, Sirve
<1> HIDE DEF q
<1>4. pcb[q] \in Pcbs
    BY <1>3
<1>5. p \in Pokenests /\ l \in 1 .. MaxPcb /\ r \in Pcbs
    BY <1>4 DEF Pcbs
<1>6. P = [pcb EXCEPT ![q] = r]
    OBVIOUS
<1> HIDE DEF p, l, r, P
<1>7. P \in Seq(Pcbs) /\ Len(P) = Len(pcb)
    BY <1>3, <1>5, <1>6, PcbCambiado
<1>8. pcb' \in Seq(Pcbs) /\ Len(pcb') = Len(pcb)
    BY <1>1, <1>3, <1>7, ConocidaEs
<1>9. pl' \in Pls /\ ControlPlan'
    BY <1>1, <1>2, <1>8, PlanSigue
<1>10. rec' \in [1 .. MaxPcb -> [Pokenests -> Nat]]
  <2>1. rec \in [1 .. MaxPcb -> [Pokenests -> Nat]]
      BY Tipos
  <2>2. [rec[l] EXCEPT ![p] = @ + 1] \in [Pokenests -> Nat]
      BY <1>5, <2>1
  <2> QED BY <1>1, <1>5, <2>1, <2>2
<1>11. nido' \in [Pokenests -> Nat]
  <2>1. nido \in [Pokenests -> Nat]
      BY Tipos DEF MundoTypeOK
  <2> QED BY <1>1, <1>5, <2>1
<1>12. MundoTypeOK'
  <2>1. SonBuzones(aMapa, DatosAlMapa)
      BY Tipos DEF MundoTypeOK
  <2>2. SonBuzones(aMapa', DatosAlMapa)
      BY <1>1, <1>3, <2>1, BuzonMenos
  <2>3. MundoTypeOK
      BY Tipos
  <2> QED BY <1>1, <1>11, <2>2, <2>3 DEF MundoTypeOK, SonBuzones
<1>13. MapaOK'
  <2>1. aceptando' \in BOOLEAN
      BY <1>1, Tipos
  <2>2. listos' \in Seq(1 .. Len(pcb')) /\ bloqueados' \in Seq(1 .. Len(pcb'))
      BY <1>1, <1>8, Tipos
  <2>3. MapaTypeOK'
      BY <1>1, <1>8, <1>9, <1>10, <2>1, <2>2, Tipos DEF MapaTypeOK
  <2> QED BY <1>9, <2>3 DEF MapaOK
<1>14. dd' = dd /\ Len(bloqueados) <= Len(bloqueados') /\ Len(pcb) <= Len(pcb')
    BY <1>1, <1>8, Tipos
<1> QED BY <1>12, <1>13, <1>14, Juntos

(* The trainer is gone, or was refused: the turn is over for it.            *)
LEMMA PasoNoEntregado ==
    ASSUME Supuestos, Control, NoEntregado, UNCHANGED <<dd, ent, seniales>>
    PROVE  Control'
<1>1. /\ UNCHANGED mundo
      /\ UNCHANGED <<modo, rec, listos, bloqueados, cant, llave, llaveB, semGui, semYa,
                      aceptando, caida>>
      /\ pl.pc = "entregando" /\ pcb' = Conocida(pcb) /\ pl' = Sigue(1)
    BY DEF NoEntregado, mutexes, pantalla
<1>2. pl.pc \in Sirviendo \ {"rotar"}
    BY <1>1 DEF Sirviendo, Pasos
<1>3. pl.corre \in 1 .. Len(pcb) /\ pcb \in Seq(Pcbs)
    BY <1>2, Sirve
<1>4. pcb' \in Seq(Pcbs) /\ Len(pcb') = Len(pcb)
    BY <1>1, <1>3, ConocidaEs
<1>5. pl' \in Pls /\ ControlPlan'
    BY <1>1, <1>2, <1>4, PlanSigue
<1>6. MundoTypeOK'
    BY <1>1, MundoQueda, Tipos
<1> QED BY <1>1, <1>4, <1>5, <1>6, Tipos, Cierre

(* A blocked one more.                                                      *)
LEMMA PasoBloquear ==
    ASSUME Supuestos, Control, Bloquear, UNCHANGED <<dd, ent, seniales>>
    PROVE  Control'
<1>1. /\ UNCHANGED mundo
      /\ UNCHANGED <<modo, pcb, rec, listos, cant, llave, semYa, aceptando, caida>>
      /\ pl.pc = "bloquear" /\ bloqueados' = Append(bloqueados, PcbEnListos(Fd))
      /\ llaveB' = "planificador" /\ semGui' = semGui + 1
      /\ pl' = [pl EXCEPT !.pc = "bloqueando"]
    BY DEF Bloquear
<1>2. pl.pc \in Sirviendo \ {"rotar"}
    BY <1>1 DEF Sirviendo, Pasos
<1>3. PcbEnListos(Fd) \in 1 .. Len(pcb)
    BY <1>2, Sirve
<1>4. pcb' \in Seq(Pcbs) /\ Len(pcb') = Len(pcb)
    BY <1>1, Tipos
<1>5. pl' \in Pls /\ ControlPlan'
  <2>1. "bloqueando" \in Sirviendo \ {"rotar", "quitando"} /\ TRUE \in BOOLEAN
      BY DEF Sirviendo, Pasos
  <2> QED BY <1>1, <1>2, <1>4, <2>1, PlanEnMedio
<1>6. bloqueados' \in Seq(1 .. Len(pcb')) /\ Len(bloqueados') = Len(bloqueados) + 1
    BY <1>1, <1>3, <1>4, Tipos, AppendProperties
<1>7. MapaOK'
  <2>1. aceptando' \in BOOLEAN
      BY <1>1, Tipos
  <2>2. listos' \in Seq(1 .. Len(pcb')) /\ llaveB' \in Hilos /\ semGui' \in Nat
      BY <1>1, <1>4, Tipos
  <2>3. MapaTypeOK'
      BY <1>1, <1>4, <1>5, <1>6, <2>1, <2>2, Tipos DEF MapaTypeOK
  <2> QED BY <1>5, <2>3 DEF MapaOK
<1>8. MundoTypeOK'
    BY <1>1, MundoQueda, Tipos
<1>9. dd' = dd /\ Len(bloqueados) <= Len(bloqueados') /\ Len(pcb) <= Len(pcb')
    BY <1>1, <1>4, <1>6, Tipos
<1> QED BY <1>7, <1>8, <1>9, Juntos

(* It was drawn.                                                            *)
LEMMA PasoBloqueado ==
    ASSUME Supuestos, Control, Bloqueado, UNCHANGED <<dd, ent, seniales>>
    PROVE  Control'
<1>1. /\ UNCHANGED mundo
      /\ UNCHANGED <<modo, rec, listos, bloqueados, cant, llave, semGui, aceptando, caida>>
      /\ pl.pc = "bloqueando" /\ semYa > 0 /\ semYa' = semYa - 1 /\ llaveB' = NADIE
      /\ pcb' = Conocida(pcb) /\ pl' = Sigue(1)
    BY DEF Bloqueado
<1>2. pl.pc \in Sirviendo \ {"rotar"}
    BY <1>1 DEF Sirviendo, Pasos
<1>3. pl.corre \in 1 .. Len(pcb) /\ pcb \in Seq(Pcbs)
    BY <1>2, Sirve
<1>4. pcb' \in Seq(Pcbs) /\ Len(pcb') = Len(pcb)
    BY <1>1, <1>3, ConocidaEs
<1>5. pl' \in Pls /\ ControlPlan'
    BY <1>1, <1>2, <1>4, PlanSigue
<1>6. MundoTypeOK'
    BY <1>1, MundoQueda, Tipos
<1> QED BY <1>1, <1>4, <1>5, <1>6, Tipos, Cierre

(* The trainer closed: any of the cases of the message that did not come.   *)
LEMMA PasoDesconectado ==
    ASSUME Supuestos, Control, Desconectado, UNCHANGED <<dd, ent, seniales>>
    PROVE  Control'
<1>1. /\ UNCHANGED mundo
      /\ UNCHANGED <<modo, rec, listos, bloqueados, cant, llave, llaveB, semGui, semYa,
                      aceptando>>
      /\ pl.pc = "recibir"
    BY DEF Desconectado, mutexes, pantalla
<1>2. \/ pcb' = Conocida(pcb) /\ pl' = Sigue(1)
      \/ pcb' = pcb /\ \E c \in BOOLEAN : pl' = [pl EXCEPT !.pc = "soltar", !.cierra = c]
    BY DEF Desconectado
<1>3. caida' \in Caidas
    BY Tipos DEF Desconectado, Envia, Caidas
<1>4. pl.pc \in Sirviendo \ {"rotar"}
    BY <1>1 DEF Sirviendo, Pasos
<1>5. pl.corre \in 1 .. Len(pcb) /\ pcb \in Seq(Pcbs)
    BY <1>4, Sirve
<1>6. pcb' \in Seq(Pcbs) /\ Len(pcb') = Len(pcb)
    BY <1>2, <1>5, ConocidaEs
<1>7. pl' \in Pls /\ ControlPlan'
  <2>1. CASE pl' = Sigue(1)
      BY <1>1, <1>4, <1>6, <2>1, PlanSigue
  <2>2. CASE \E c \in BOOLEAN : pl' = [pl EXCEPT !.pc = "soltar", !.cierra = c]
    <3>1. PICK c \in BOOLEAN : pl' = [pl EXCEPT !.pc = "soltar", !.cierra = c]
        BY <2>2
    <3>2. "soltar" \in Sirviendo \ {"rotar", "quitando"}
        BY DEF Sirviendo, Pasos
    <3> QED BY <1>1, <1>4, <1>6, <3>1, <3>2, PlanEnMedio
  <2> QED BY <1>2, <2>1, <2>2
<1>8. MundoTypeOK'
    BY <1>1, MundoQueda, Tipos
<1> QED BY <1>1, <1>3, <1>6, <1>7, <1>8, Tipos, Cierre

(* What was for the other thread.                                           *)
LEMMA PasoLeerLoAjeno ==
    ASSUME Supuestos, Control, LeerLoAjeno, UNCHANGED <<dd, ent, seniales>>
    PROVE  Control'
<1>1. /\ UNCHANGED mundo
      /\ UNCHANGED <<modo, pcb, rec, listos, bloqueados, cant, llave, llaveB, semGui, semYa,
                      aceptando, pl>>
      /\ caida' \in Caidas
    BY DEF LeerLoAjeno, mutexes, pantalla, listas, Caidas
<1>2. pcb' \in Seq(Pcbs) /\ Len(pcb') = Len(pcb) /\ Len(pcb) <= Len(pcb')
    BY <1>1, Tipos
<1>3. pl' \in Pls /\ ControlPlan'
    BY <1>1, <1>2, Tipos, PlanQueda
<1>4. MundoTypeOK'
    BY <1>1, MundoQueda, Tipos
<1> QED BY <1>1, <1>2, <1>3, <1>4, Tipos, Cierre

(* What a t_pcb holds goes back to the pokenests; a file that a trainer     *)
(* does not have is not taken from it.                                      *)
LEMMA ReintegrarEs ==
    ASSUME MundoTypeOK, MapaTypeOK, NEW l \in 1 .. MaxPcb, NEW q \in Entrenadores,
           Reintegrar(l, q), UNCHANGED conexiones
    PROVE  MundoTypeOK'
<1>1. nido \in [Pokenests -> Nat] /\ bill \in [Entrenadores -> [Pokenests -> Nat]]
    BY DEF MundoTypeOK
<1>2. \A p \in Pokenests : Devuelto(l, q)[p] = bill[q][p] \/ Devuelto(l, q)[p] = 0
    BY DEF Devuelto
<1>3. \A p \in Pokenests : /\ bill[q][p] \in Nat /\ nido[p] \in Nat
                           /\ Devuelto(l, q)[p] \in Nat
                           /\ bill[q][p] - Devuelto(l, q)[p] \in Nat
                           /\ nido[p] + Devuelto(l, q)[p] \in Nat
  <2> SUFFICES ASSUME NEW p \in Pokenests
               PROVE  /\ bill[q][p] \in Nat /\ nido[p] \in Nat
                      /\ Devuelto(l, q)[p] \in Nat
                      /\ bill[q][p] - Devuelto(l, q)[p] \in Nat
                      /\ nido[p] + Devuelto(l, q)[p] \in Nat
      OBVIOUS
  <2>1. bill[q][p] \in Nat /\ nido[p] \in Nat
      BY <1>1
  <2> QED BY <1>2, <2>1
<1>4. nido' \in [Pokenests -> Nat]
    BY <1>3 DEF Reintegrar
<1> DEFINE b == [p \in Pokenests |-> bill[q][p] - Devuelto(l, q)[p]]
<1>5. b \in [Pokenests -> Nat]
    BY <1>3
<1>6. bill' = [bill EXCEPT ![q] = b]
    BY <1>1 DEF Reintegrar
<1> HIDE DEF b
<1>7. bill' \in [Entrenadores -> [Pokenests -> Nat]]
    BY <1>1, <1>5, <1>6
<1> QED BY <1>4, <1>7 DEF MundoTypeOK, conexiones, SonBuzones

(* and to what the map offers.                                              *)
LEMMA SumadoEs ==
    ASSUME MapaTypeOK, NEW l \in 1 .. MaxPcb
    PROVE  Sumado(l) \in [Pokenests -> Int]
<1>1. cant \in [Pokenests -> Int] /\ rec[l] \in [Pokenests -> Nat]
    BY DEF MapaTypeOK
<1> QED BY <1>1 DEF Sumado

(* liberarRecursosListos.                                                   *)
LEMMA PasoSoltar ==
    ASSUME Supuestos, Control, Soltar, UNCHANGED <<dd, ent, seniales>>
    PROVE  Control'
<1> DEFINE q == PcbEnListos(Fd)
           l == pcb[q].lista
           t == pcb[q].quien
           r == [pcb[q] EXCEPT !.accion = "SE_DESCONECTO"]
           i == Lugar(listos, Fd)
<1>1. /\ UNCHANGED conexiones
      /\ UNCHANGED <<modo, rec, listos, bloqueados, llaveB, semYa, aceptando, caida>>
      /\ pl.pc = "soltar" /\ Reintegrar(l, t) /\ cant' = Sumado(l)
      /\ semGui' = semGui + 1 /\ llave' = "planificador"
      /\ pl' = [pl EXCEPT !.pc = "quitando", !.sitio = i]
    BY DEF Soltar
<1>2. pcb' = [pcb EXCEPT ![q] = r]
    BY DEF Soltar
<1>3. pl.pc \in Sirviendo \ {"rotar"}
    BY <1>1 DEF Sirviendo, Pasos
<1>4. /\ q \in 1 .. Len(pcb) /\ pcb \in Seq(Pcbs) /\ i \in DOMAIN listos
      /\ pl.corre \in 1 .. Len(pcb) /\ pl.queda > 0
    BY <1>3, Sirve
<1> HIDE DEF q, i
<1>5. pcb[q] \in Pcbs
    BY <1>4
<1>6. l \in 1 .. MaxPcb /\ t \in Entrenadores /\ r \in Pcbs
    BY <1>5 DEF Pcbs, Acciones
<1> HIDE DEF l, t, r
<1>7. pcb' \in Seq(Pcbs) /\ Len(pcb') = Len(pcb)
    BY <1>2, <1>4, <1>6, PcbCambiado
<1>8. MundoTypeOK'
    BY <1>1, <1>6, Tipos, ReintegrarEs
<1>9. cant' \in [Pokenests -> Int]
    BY <1>1, <1>6, Tipos, SumadoEs
<1>10. pl' \in Pls /\ ControlPlan'
  <2>1. pl \in Pls /\ listos \in Seq(1 .. Len(pcb))
      BY Tipos
  <2>2. i \in Nat
      BY <1>4, <2>1
  <2>3. pl' \in Pls /\ pl'.pc = "quitando" /\ pl'.corre = pl.corre /\ pl'.queda = pl.queda
        /\ pl'.sitio = i
      BY <1>1, <2>1, <2>2 DEF Pls, Pasos
  <2>4. \E j \in DOMAIN listos : listos[j] = pl.corre
      BY <1>3, Tipos DEF ControlPlan
  <2> QED BY <1>1, <1>4, <1>7, <2>3, <2>4 DEF ControlPlan
<1> QED BY <1>1, <1>7, <1>8, <1>9, <1>10, Tipos, Cierre

(* With listaListos empty there is nothing to take out.                     *)
LEMMA PasoQuitarDeVacia ==
    ASSUME Supuestos, Control, QuitarDeVacia, UNCHANGED <<dd, ent, seniales>>
    PROVE  Control'
<1>1. /\ UNCHANGED mundo
      /\ UNCHANGED <<modo, pcb, rec, listos, bloqueados, cant, llaveB, semGui, semYa,
                      aceptando, caida>>
      /\ llave' = "perdida" /\ pl' = [pl EXCEPT !.pc = "elegir"]
    BY DEF QuitarDeVacia, listas, pantalla
<1>2. pl' \in Pls /\ pl'.pc = "elegir"
    BY <1>1, Tipos DEF Pls, Pasos
<1>3. ControlPlan'
    BY <1>2 DEF ControlPlan, Sirviendo
<1>4. pcb' \in Seq(Pcbs) /\ Len(pcb') = Len(pcb)
    BY <1>1, Tipos
<1>5. MundoTypeOK'
    BY <1>1, MundoQueda, Tipos
<1> QED BY <1>1, <1>2, <1>3, <1>4, <1>5, Tipos, Cierre

(* Nor is there for who was taken out already.                              *)
LEMMA PasoYaNoEsta ==
    ASSUME Supuestos, Control, YaNoEsta, UNCHANGED <<dd, ent, seniales>>
    PROVE  Control'
<1>1. /\ UNCHANGED mundo
      /\ UNCHANGED <<modo, pcb, rec, listos, bloqueados, cant, llave, llaveB, semGui, semYa,
                      aceptando, caida>>
      /\ pl' = [pl EXCEPT !.pc = "elegir"]
    BY DEF YaNoEsta, listas, pantalla, mutexes
<1>2. pl' \in Pls /\ pl'.pc = "elegir"
    BY <1>1, Tipos DEF Pls, Pasos
<1>3. ControlPlan'
    BY <1>2 DEF ControlPlan, Sirviendo
<1>4. pcb' \in Seq(Pcbs) /\ Len(pcb') = Len(pcb)
    BY <1>1, Tipos
<1>5. MundoTypeOK'
    BY <1>1, MundoQueda, Tipos
<1> QED BY <1>1, <1>2, <1>3, <1>4, <1>5, Tipos, Cierre

(* The first with the descriptor is going to be taken out.                  *)
LEMMA PasoQuitar ==
    ASSUME Supuestos, Control, Quitar, UNCHANGED <<dd, ent, seniales>>
    PROVE  Control'
<1> DEFINE i == Lugar(listos, Fd)
           q == listos[i]
           r == [pcb[q] EXCEPT !.accion = "SE_BLOQUEO"]
<1>1. /\ UNCHANGED mundo
      /\ UNCHANGED <<modo, rec, listos, bloqueados, cant, llaveB, semYa, aceptando, caida>>
      /\ pl.pc = "quitar" /\ i # 0
      /\ semGui' = semGui + 1 /\ llave' = "planificador"
      /\ pl' = [pl EXCEPT !.pc = "cerrar", !.sitio = i]
    BY DEF Quitar
<1>2. pcb' = [pcb EXCEPT ![q] = r]
    BY DEF Quitar
<1>3. /\ pcb \in Seq(Pcbs) /\ listos \in Seq(1 .. Len(pcb)) /\ pl \in Pls
      /\ pl.corre \in 1 .. Len(pcb)
    BY <1>1, Tipos DEF ControlPlan
<1>4. i \in DOMAIN listos /\ i \in Nat
    BY <1>1, <1>3, Tipos, LugarEs
<1> HIDE DEF i
<1>5. q \in 1 .. Len(pcb)
    BY <1>3, <1>4
<1> HIDE DEF q
<1>6. r \in Pcbs
  <2>1. pcb[q] \in Pcbs
      BY <1>3, <1>5
  <2> QED BY <2>1 DEF Pcbs, Acciones
<1> HIDE DEF r
<1>7. pcb' \in Seq(Pcbs) /\ Len(pcb') = Len(pcb)
    BY <1>2, <1>3, <1>5, <1>6, PcbCambiado
<1>8. pl' \in Pls /\ pl'.pc = "cerrar" /\ pl'.corre = pl.corre /\ pl'.sitio = i
    BY <1>1, <1>3, <1>4 DEF Pls, Pasos
<1>9. ControlPlan'
    BY <1>1, <1>3, <1>4, <1>7, <1>8 DEF ControlPlan, Sirviendo
<1>10. MundoTypeOK'
    BY <1>1, MundoQueda, Tipos
<1> QED BY <1>1, <1>7, <1>8, <1>9, <1>10, Tipos, Cierre

(* What a removal leaves.                                                   *)
LEMMA QuitadoEs ==
    ASSUME Control, Quitado, pl.sitio \in DOMAIN listos
    PROVE  listos' \in Seq(1 .. Len(pcb)) /\ semYa' \in Nat /\ llave' \in Hilos
<1>1. listos \in Seq(1 .. Len(pcb))
    BY Tipos
<1>2. pl.sitio \in 1 .. Len(listos)
    BY <1>1
<1>3. RemoveAt(listos, pl.sitio) \in Seq(1 .. Len(pcb))
    BY <1>1, <1>2, SinElUno
<1> QED BY <1>3, Tipos DEF Quitado

(* A removal that ends the service of a request.                            *)
LEMMA PasoQuitadoPorSi ==
    ASSUME Supuestos, Control, QuitadoPorSi, UNCHANGED <<dd, ent, seniales>>
    PROVE  Control'
<1>1. /\ UNCHANGED <<aMapa, aEntrenador, sock, cola, nido, bill>>
      /\ UNCHANGED <<modo, rec, bloqueados, cant, llaveB, semGui, aceptando, caida>>
      /\ pl.pc = "quitando" /\ Quitado
      /\ extremo' = IF pl.cierra THEN [extremo EXCEPT ![Fd] = "libre"] ELSE extremo
      /\ pcb' = Conocida(pcb) /\ pl' = Sigue(1)
    BY DEF QuitadoPorSi, archivos
<1>2. pl.pc \in Sirviendo \ {"rotar"} /\ pl.sitio \in DOMAIN listos
    BY <1>1, Tipos DEF Sirviendo, Pasos, ControlPlan
<1>3. pl.corre \in 1 .. Len(pcb) /\ pcb \in Seq(Pcbs)
    BY <1>2, Sirve
<1>4. pcb' \in Seq(Pcbs) /\ Len(pcb') = Len(pcb)
    BY <1>1, <1>3, ConocidaEs
<1>5. pl' \in Pls /\ ControlPlan'
    BY <1>1, <1>2, <1>4, PlanSigue
<1>6. listos' \in Seq(1 .. Len(pcb')) /\ semYa' \in Nat /\ llave' \in Hilos
    BY <1>1, <1>2, <1>4, QuitadoEs
<1>7. MapaOK'
  <2>1. aceptando' \in BOOLEAN
      BY <1>1, Tipos
  <2>2. bloqueados' \in Seq(1 .. Len(pcb'))
      BY <1>1, <1>4, Tipos
  <2>3. MapaTypeOK'
      BY <1>1, <1>4, <1>5, <1>6, <2>1, <2>2, Tipos DEF MapaTypeOK
  <2> QED BY <1>5, <2>3 DEF MapaOK
<1>8. MundoTypeOK'
  <2>1. MundoTypeOK
      BY Tipos
  <2>2. extremo' \in [Fds -> {"libre", "abierto", "cortado"}]
    <3>1. extremo \in [Fds -> {"libre", "abierto", "cortado"}]
        BY <2>1 DEF MundoTypeOK
    <3>2. [extremo EXCEPT ![Fd] = "libre"] \in [Fds -> {"libre", "abierto", "cortado"}]
        BY <3>1
    <3> QED BY <1>1, <3>1, <3>2, Zenon
  <2> QED BY <1>1, <2>1, <2>2 DEF MundoTypeOK, SonBuzones
<1>9. dd' = dd /\ Len(bloqueados) <= Len(bloqueados') /\ Len(pcb) <= Len(pcb')
    BY <1>1, <1>4, Tipos
<1> QED BY <1>7, <1>8, <1>9, Juntos

(* The one of the turn.                                                     *)
LEMMA PasoQuitadoDelTurno ==
    ASSUME Supuestos, Control, QuitadoDelTurno, UNCHANGED <<dd, ent, seniales>>
    PROVE  Control'
<1>1. /\ UNCHANGED mundo
      /\ UNCHANGED <<modo, pcb, rec, bloqueados, cant, llaveB, semGui, aceptando, caida>>
      /\ pl.pc = "cerrar" /\ Quitado /\ pl' = [pl EXCEPT !.pc = "elegir"]
    BY DEF QuitadoDelTurno
<1>2. pl.sitio \in DOMAIN listos
    BY <1>1, Tipos DEF ControlPlan
<1>3. listos' \in Seq(1 .. Len(pcb')) /\ semYa' \in Nat /\ llave' \in Hilos
    BY <1>1, <1>2, QuitadoEs
<1>4. pl' \in Pls /\ pl'.pc = "elegir"
    BY <1>1, Tipos DEF Pls, Pasos
<1>5. ControlPlan'
    BY <1>4 DEF ControlPlan, Sirviendo
<1>6. MapaOK'
  <2>1. aceptando' \in BOOLEAN
      BY <1>1, Tipos
  <2>2. MapaTypeOK'
      BY <1>1, <1>3, <1>4, <2>1, Tipos DEF MapaTypeOK
  <2> QED BY <1>5, <2>2 DEF MapaOK
<1>7. MundoTypeOK'
    BY <1>1, MundoQueda, Tipos
<1>8. dd' = dd /\ Len(bloqueados) <= Len(bloqueados') /\ Len(pcb) <= Len(pcb')
    BY <1>1, Tipos
<1> QED BY <1>6, <1>7, <1>8, Juntos

(* Every step of the map.                                                   *)
LEMMA PasoDelMapa ==
    ASSUME Supuestos, Control, MapaPaso, UNCHANGED <<dd, ent, seniales>>
    PROVE  Control'
BY PasoAceptar, PasoAceptado, PasoDibujar, PasoElegir, PasoRotar, PasoObtenerPokenest,
   PasoMoverPosicion, PasoMoviendo, PasoEntregar, PasoEntregado, PasoNoEntregado, PasoNegar,
   PasoBloquear, PasoBloqueado, PasoDarMedalla, PasoDesconectado, PasoLeerLoAjeno, PasoSoltar,
   PasoQuitarDeVacia, PasoQuitar, PasoYaNoEsta, PasoQuitadoPorSi, PasoQuitadoDelTurno
   DEF MapaPaso

-----------------------------------------------------------------------------
(* The steps of the detection.                                              *)

(* The map after a step that leaves its t_pcb and its lists.                *)
LEMMA MapaSinListas ==
    ASSUME Control, UNCHANGED <<modo, pcb, rec, listos, bloqueados, llave, llaveB, pl, aceptando>>,
           cant' \in [Pokenests -> Int], semGui' \in Nat, semYa' \in Nat, caida' \in Caidas
    PROVE  MapaOK'
<1>1. pcb' \in Seq(Pcbs) /\ Len(pcb') = Len(pcb) /\ Len(pcb) <= Len(pcb')
    BY Tipos
<1>2. ControlPlan' /\ pl' \in Pls
    BY <1>1, Tipos, PlanQueda
<1>3. aceptando' \in BOOLEAN
    BY Tipos
<1> QED BY <1>1, <1>2, <1>3, Tipos, MapaConPcb DEF Caidas

(* The thread after it, where it goes and what is known there.              *)
Ubicada(d) ==
    /\ d.pc \in {"primero", "segundo", "pelear"} => Len(d.marcados) > 1
    /\ d.pc \in {"sumar", "morir"} => Len(d.marcados) = 2
    /\ d.i > 0

(* The detection moves on with the same blocked trainers and t_pcb.         *)
LEMMA DeteccionSigue ==
    ASSUME Control, UNCHANGED <<pcb, bloqueados>>, dd' \in DDs, Ubicada(dd'),
           dd'.pc # "liberando" \/ dd'.i \in DOMAIN bloqueados
    PROVE  DeteccionOK'
BY DEF DeteccionOK, DeteccionTypeOK, ControlDD, Ubicada, DDs

(* The types of the thread.                                                 *)
LEMMA TiposDD ==
    ASSUME Control
    PROVE  /\ dd \in DDs /\ ControlDD /\ Ubicada(dd)
           /\ dd.i \in Nat /\ dd.tope \in Nat /\ dd.i + 1 \in Nat /\ dd.i + 1 > 0
           /\ dd.marcados \in Seq(1 .. Len(pcb)) /\ Len(dd.marcados) \in Nat
<1>1. dd \in DDs /\ ControlDD
    BY DEF Control, DeteccionOK, DeteccionTypeOK
<1>2. dd.i \in Nat /\ dd.tope \in Nat /\ dd.marcados \in Seq(1 .. Len(pcb))
    BY <1>1 DEF DDs
<1>3. Len(dd.marcados) \in Nat /\ dd.i + 1 \in Nat /\ dd.i + 1 > 0
    BY <1>2
<1> QED BY <1>1, <1>2, <1>3 DEF ControlDD, Ubicada

(* A step of the thread alone.                                              *)
LEMMA DeteccionSola ==
    ASSUME Supuestos, Control, UNCHANGED <<mundo, mapa, ent, seniales>>, dd' \in DDs,
           Ubicada(dd'), dd'.pc # "liberando"
    PROVE  Control'
<1>1. UNCHANGED <<modo, pcb, rec, listos, bloqueados, cant, llave, llaveB, semGui, semYa, pl,
                  aceptando, caida>>
    BY DEF mapa
<1>2. MapaOK'
    BY <1>1, Tipos, MapaSinListas
<1>3. DeteccionOK'
    BY <1>1, DeteccionSigue
<1>4. MundoTypeOK'
    BY MundoQueda, Tipos
<1>5. Len(pcb) <= Len(pcb')
    BY <1>1, Tipos
<1> QED BY <1>2, <1>3, <1>4, <1>5, Juntos

(* It goes on to wake who can go on.                                        *)
LEMMA PasoHaciaContar ==
    ASSUME Supuestos, Control, NoMirar \/ FinDeBatallas, UNCHANGED <<ent, seniales>>
    PROVE  Control'
<1>1. UNCHANGED <<mundo, mapa>> /\ dd' = [dd EXCEPT !.pc = "contar"]
    BY DEF NoMirar, FinDeBatallas
<1>2. dd' \in DDs /\ dd'.pc = "contar" /\ dd'.i = dd.i
    BY <1>1, TiposDD DEF DDs, PasosDD
<1>3. Ubicada(dd')
    BY <1>2, TiposDD DEF Ubicada
<1> QED BY <1>1, <1>2, <1>3, DeteccionSola

(* It reads the size of listaBloqueados once.                               *)
LEMMA PasoContar ==
    ASSUME Supuestos, Control, Contar, UNCHANGED <<ent, seniales>>
    PROVE  Control'
<1>1. UNCHANGED <<mundo, mapa>>
      /\ dd' = [dd EXCEPT !.pc = "liberar", !.i = 1, !.tope = Len(bloqueados)]
    BY DEF Contar
<1>2. dd' \in DDs /\ dd'.pc = "liberar" /\ dd'.i = 1
    BY <1>1, TiposDD, Tipos DEF DDs, PasosDD
<1>3. Ubicada(dd')
    BY <1>2 DEF Ubicada
<1> QED BY <1>1, <1>2, <1>3, DeteccionSola

(* There is still no pokemon for this one: it looks at the next one.        *)
LEMMA PasoSigueBloqueado ==
    ASSUME Supuestos, Control, SigueBloqueado, UNCHANGED <<ent, seniales>>
    PROVE  Control'
<1>1. UNCHANGED <<mundo, mapa>> /\ dd.pc = "liberar" /\ dd' = [dd EXCEPT !.i = @ + 1]
    BY DEF SigueBloqueado
<1>2. dd' \in DDs /\ dd'.pc = "liberar" /\ dd'.i = dd.i + 1
    BY <1>1, TiposDD DEF DDs
<1>3. Ubicada(dd')
    BY <1>2, TiposDD DEF Ubicada
<1> QED BY <1>1, <1>2, <1>3, DeteccionSola

(* It has looked at all of them, and sleeps.                                *)
LEMMA PasoFinDePasada ==
    ASSUME Supuestos, Control, FinDePasada, UNCHANGED <<ent, seniales>>
    PROVE  Control'
<1>1. UNCHANGED <<mundo, mapa>> /\ dd' = [dd EXCEPT !.pc = "mirar", !.i = 1, !.tope = 0]
    BY DEF FinDePasada
<1>2. dd' \in DDs /\ dd'.pc = "mirar" /\ dd'.i = 1
    BY <1>1, TiposDD DEF DDs, PasosDD
<1>3. Ubicada(dd')
    BY <1>2 DEF Ubicada
<1> QED BY <1>1, <1>2, <1>3, DeteccionSola

(* list_get past the end.                                                   *)
LEMMA PasoPasarseDelFin ==
    ASSUME Supuestos, Control, PasarseDelFin, UNCHANGED <<ent, seniales>>
    PROVE  Control'
<1>1. /\ UNCHANGED <<mundo, dd>>
      /\ UNCHANGED <<modo, pcb, rec, listos, bloqueados, cant, llave, llaveB, semGui, semYa,
                      pl, aceptando>>
      /\ caida' = "nulo"
    BY DEF PasarseDelFin, listas, mutexes, pantalla
<1>2. MapaOK'
  <2>1. caida' \in Caidas
      BY <1>1 DEF Caidas
  <2> QED BY <1>1, <2>1, Tipos, MapaSinListas
<1>3. MundoTypeOK'
    BY <1>1, MundoQueda, Tipos
<1>4. Len(pcb) <= Len(pcb') /\ Len(bloqueados) <= Len(bloqueados') /\ dd' = dd
    BY <1>1, Tipos
<1> QED BY <1>2, <1>3, <1>4, Juntos

(* Two answers without data.                                                *)
LEMMA DosEnviados ==
    ASSUME MundoTypeOK, NEW s1, NEW s2, NEW m1, NEW m2,
           m1 \in {"ESTAS_EN_DEADLOCK", "MORITE"}, m2 \in {"ESTAS_EN_DEADLOCK", "GANASTE"}
    PROVE  SonBuzones(Enviado(Enviado(aEntrenador, s1, Msg(m1, 0)), s2, Msg(m2, 0)),
                      DatosAlEntrenador)
<1>1. EsMensaje(Msg(m1, 0), DatosAlEntrenador) /\ EsMensaje(Msg(m2, 0), DatosAlEntrenador)
    BY DEF EsMensaje, Msg, DatosAlEntrenador
<1>2. SonBuzones(aEntrenador, DatosAlEntrenador)
    BY DEF MundoTypeOK
<1>3. SonBuzones(Enviado(aEntrenador, s1, Msg(m1, 0)), DatosAlEntrenador)
    BY <1>1, <1>2, BuzonEnviado
<1> QED BY <1>1, <1>3, BuzonEnviado

(* The call to a battle.                                                    *)
LEMMA PasoRetar ==
    ASSUME Supuestos, Control, Retar, UNCHANGED <<ent, seniales>>
    PROVE  Control'
<1>1. /\ UNCHANGED <<aMapa, extremo, sock, cola, nido, bill>>
      /\ UNCHANGED <<modo, pcb, rec, listos, bloqueados, cant, llave, llaveB, semGui, semYa,
                      pl, aceptando>>
      /\ Len(dd.marcados) > 1 /\ caida' \in Caidas /\ dd' = [dd EXCEPT !.pc = "primero"]
    BY DEF Retar, listas, mutexes, pantalla, archivos, Envia, Caidas
<1>2. SonBuzones(aEntrenador', DatosAlEntrenador)
    BY DosEnviados, Tipos DEF Retar
<1>3. dd' \in DDs /\ dd'.pc = "primero" /\ dd'.i = dd.i /\ dd'.marcados = dd.marcados
    BY <1>1, TiposDD DEF DDs, PasosDD
<1>4. DeteccionOK'
  <2>1. Ubicada(dd')
      BY <1>1, <1>3, TiposDD DEF Ubicada
  <2> QED BY <1>1, <1>3, <2>1, DeteccionSigue
<1>5. MapaOK'
    BY <1>1, Tipos, MapaSinListas
<1>6. MundoTypeOK'
  <2>1. SonBuzones(aMapa', DatosAlMapa)
      BY <1>1, Tipos DEF MundoTypeOK
  <2> QED BY <1>1, <1>2, <2>1, MundoConBuzones, Tipos
<1>7. Len(pcb) <= Len(pcb')
    BY <1>1, Tipos
<1> QED BY <1>4, <1>5, <1>6, <1>7, Juntos

(* The pokemon each one battles with.                                       *)
LEMMA PasoElige ==
    ASSUME Supuestos, Control, NEW k \in 1 .. 2, NEW aqui \in {"primero", "segundo"},
           NEW luego \in {"segundo", "pelear"}, Elige(k, aqui, luego),
           UNCHANGED <<ent, seniales>>
    PROVE  Control'
<1>1. /\ UNCHANGED <<aEntrenador, extremo, sock, cola, nido, bill>>
      /\ UNCHANGED <<modo, pcb, rec, listos, bloqueados, cant, llave, llaveB, semGui, semYa,
                      pl, aceptando>>
      /\ dd.pc = aqui /\ dd' = [dd EXCEPT !.pc = luego]
    BY DEF Elige, listas, mutexes, pantalla, archivos
<1>2. caida' \in Caidas
    BY Tipos DEF Elige, Caidas
<1>3. Len(dd.marcados) > 1
    BY <1>1, TiposDD DEF Ubicada
<1>4. FdDe(k) \in Fds
  <2>1. dd.marcados[k] \in 1 .. Len(pcb)
      BY <1>3, TiposDD
  <2>2. pcb[dd.marcados[k]] \in Pcbs
      BY <2>1, Tipos
  <2> QED BY <2>2 DEF FdDe, Pcbs
<1>5. SonBuzones(aMapa', DatosAlMapa)
  <2>1. SonBuzones(aMapa, DatosAlMapa)
      BY Tipos DEF MundoTypeOK
  <2>2. CASE aMapa' = aMapa
      BY <2>1, <2>2
  <2>3. CASE Hay(FdDe(k)) /\ aMapa' = [aMapa EXCEPT ![FdDe(k)] = Tail(@)]
      BY <1>4, <2>1, <2>3, BuzonMenos DEF Hay
  <2> QED BY <2>2, <2>3 DEF Elige
<1>6. dd' \in DDs /\ dd'.pc = luego /\ dd'.i = dd.i /\ dd'.marcados = dd.marcados
    BY <1>1, TiposDD DEF DDs, PasosDD
<1>7. DeteccionOK'
  <2>1. Ubicada(dd')
      BY <1>3, <1>6, TiposDD DEF Ubicada
  <2> QED BY <1>1, <1>6, <2>1, DeteccionSigue
<1>8. MapaOK'
    BY <1>1, <1>2, Tipos, MapaSinListas
<1>9. MundoTypeOK'
  <2>1. SonBuzones(aEntrenador', DatosAlEntrenador)
      BY <1>1, Tipos DEF MundoTypeOK
  <2> QED BY <1>1, <1>5, <2>1, MundoConBuzones, Tipos
<1>10. Len(pcb) <= Len(pcb')
    BY <1>1, Tipos
<1> QED BY <1>7, <1>8, <1>9, <1>10, Juntos

(* The winner leaves the list of the marked.                                *)
LEMMA SinElGanadorEs ==
    ASSUME Control, Len(dd.marcados) > 1, NEW k \in 1 .. 2
    PROVE  SinElGanador(k) \in Seq(1 .. Len(pcb))
<1>1. 3 - k \in 1 .. Len(dd.marcados) /\ dd.marcados \in Seq(1 .. Len(pcb))
    BY TiposDD
<1> QED BY <1>1, SinElUno DEF SinElGanador

(* A battle after which there are others.                                   *)
LEMMA PasoPelear ==
    ASSUME Supuestos, Control, Pelear, UNCHANGED <<ent, seniales>>
    PROVE  Control'
<1>1. PICK k \in 1 .. 2 :
        /\ aEntrenador' = Enviado(Enviado(aEntrenador, FdDe(k), Msg("ESTAS_EN_DEADLOCK", 0)),
                                  FdDe(3 - k), Msg("GANASTE", 0))
        /\ dd' = [dd EXCEPT !.pc = "retar", !.marcados = SinElGanador(k)]
    BY DEF Pelear
<1>2. /\ UNCHANGED <<aMapa, extremo, sock, cola, nido, bill>>
      /\ UNCHANGED <<modo, pcb, rec, listos, bloqueados, cant, llave, llaveB, semGui, semYa,
                      pl, aceptando>>
      /\ Len(dd.marcados) > 2 /\ caida' \in Caidas
    BY DEF Pelear, listas, mutexes, pantalla, archivos, Envia, Caidas
<1>3. SonBuzones(aEntrenador', DatosAlEntrenador)
    BY <1>1, DosEnviados, Tipos
<1>4. dd' \in DDs /\ dd'.pc = "retar" /\ dd'.i = dd.i
  <2>1. Len(dd.marcados) > 1
      BY <1>2, TiposDD
  <2>2. SinElGanador(k) \in Seq(1 .. Len(pcb))
      BY <2>1, SinElGanadorEs
  <2>3. Seq(1 .. Len(pcb)) = Seq(1 .. Len(pcb'))
      BY <1>2
  <2> QED BY <1>1, <2>2, <2>3, TiposDD DEF DDs, PasosDD
<1>5. DeteccionOK'
  <2>1. Ubicada(dd')
      BY <1>4, TiposDD DEF Ubicada
  <2> QED BY <1>2, <1>4, <2>1, DeteccionSigue
<1>6. MapaOK'
    BY <1>2, Tipos, MapaSinListas
<1>7. MundoTypeOK'
  <2>1. SonBuzones(aMapa', DatosAlMapa)
      BY <1>2, Tipos DEF MundoTypeOK
  <2> QED BY <1>2, <1>3, <2>1, MundoConBuzones, Tipos
<1>8. Len(pcb) <= Len(pcb')
    BY <1>2, Tipos
<1> QED BY <1>5, <1>6, <1>7, <1>8, Juntos

(* The last one: what the loser has goes back.                              *)
LEMMA PasoPelearUltima ==
    ASSUME Supuestos, Control, PelearUltima, UNCHANGED <<ent, seniales>>
    PROVE  Control'
<1>1. PICK k \in 1 .. 2 :
        /\ Reintegrar(pcb[dd.marcados[k]].lista, pcb[dd.marcados[k]].quien)
        /\ dd' = [dd EXCEPT !.pc = "sumar", !.pierde = k, !.leido = cant]
    BY DEF PelearUltima
<1>2. /\ UNCHANGED <<modo, pcb, rec, listos, bloqueados, cant, llave, llaveB, semGui, semYa,
                      pl, aceptando, caida>>
      /\ UNCHANGED conexiones /\ Len(dd.marcados) = 2
    BY DEF PelearUltima, mapa
<1> DEFINE q == dd.marcados[k]
<1>3. pcb[q] \in Pcbs
  <2>1. q \in 1 .. Len(pcb)
      BY <1>2, TiposDD
  <2> QED BY <2>1, Tipos
<1>4. pcb[q].lista \in 1 .. MaxPcb /\ pcb[q].quien \in Entrenadores
    BY <1>3 DEF Pcbs
<1> HIDE DEF q
<1>5. MundoTypeOK'
    BY <1>1, <1>2, <1>4, Tipos, ReintegrarEs DEF q
<1>6. dd' \in DDs /\ dd'.pc = "sumar" /\ dd'.i = dd.i /\ dd'.marcados = dd.marcados
    BY <1>1, <1>2, TiposDD, Tipos DEF DDs, PasosDD
<1>7. DeteccionOK'
  <2>1. Ubicada(dd')
      BY <1>2, <1>6, TiposDD DEF Ubicada
  <2> QED BY <1>2, <1>6, <2>1, DeteccionSigue
<1>8. MapaOK'
    BY <1>2, Tipos, MapaSinListas
<1>9. Len(pcb) <= Len(pcb')
    BY <1>2, Tipos
<1> QED BY <1>5, <1>7, <1>8, <1>9, Juntos

(* ... to the counts, whatever the interleaving with the planner.           *)
LEMMA PasoSumarRecursos ==
    ASSUME Supuestos, Control, SumarRecursos, UNCHANGED <<ent, seniales>>
    PROVE  Control'
<1> DEFINE l == pcb[dd.marcados[dd.pierde]].lista
<1>1. /\ UNCHANGED mundo
      /\ UNCHANGED <<modo, pcb, rec, listos, bloqueados, llave, llaveB, semGui, semYa, pl,
                      aceptando, caida>>
      /\ dd.pc = "sumar" /\ dd' = [dd EXCEPT !.pc = "morir", !.leido = SinLeer]
    BY DEF SumarRecursos, listas, mutexes, pantalla
<1>2. Len(dd.marcados) = 2 /\ dd.pierde \in 1 .. 2 /\ dd.leido \in [Pokenests -> Int]
    BY <1>1, TiposDD DEF Ubicada, DDs
<1>3. l \in 1 .. MaxPcb
  <2>1. dd.marcados[dd.pierde] \in 1 .. Len(pcb)
      BY <1>2, TiposDD
  <2>2. pcb[dd.marcados[dd.pierde]] \in Pcbs
      BY <2>1, Tipos
  <2> QED BY <2>2 DEF Pcbs
<1> HIDE DEF l
<1>4. cant' \in [Pokenests -> Int]
  <2>1. cant' \in [Pokenests -> UNION {Suma(p, rec[l][p]) : p \in Pokenests}]
      BY DEF SumarRecursos, l
  <2>2. \A p \in Pokenests : Suma(p, rec[l][p]) \subseteq Int
    <3> SUFFICES ASSUME NEW p \in Pokenests PROVE Suma(p, rec[l][p]) \subseteq Int
        OBVIOUS
    <3>1. cant[p] \in Int /\ rec[l][p] \in Nat /\ dd.leido[p] \in Int
        BY <1>2, <1>3, Tipos
    <3> QED BY <3>1 DEF Suma
  <2>3. UNION {Suma(p, rec[l][p]) : p \in Pokenests} \subseteq Int
      BY <2>2
  <2> QED BY <2>1, <2>3
<1>5. dd' \in DDs /\ dd'.pc = "morir" /\ dd'.i = dd.i /\ dd'.marcados = dd.marcados
  <2>1. SinLeer \in [Pokenests -> Int]
      BY DEF SinLeer
  <2> QED BY <1>1, <2>1, TiposDD DEF DDs, PasosDD
<1>6. DeteccionOK'
  <2>1. Ubicada(dd')
      BY <1>2, <1>5, TiposDD DEF Ubicada
  <2> QED BY <1>1, <1>5, <2>1, DeteccionSigue
<1>7. MapaOK'
    BY <1>1, <1>4, Tipos, MapaSinListas
<1>8. MundoTypeOK'
    BY <1>1, MundoQueda, Tipos
<1>9. Len(pcb) <= Len(pcb')
    BY <1>1, Tipos
<1> QED BY <1>6, <1>7, <1>8, <1>9, Juntos

(* The map after a step that only takes somebody out of listaBloqueados.    *)
LEMMA MapaSinUno ==
    ASSUME Control, UNCHANGED <<modo, pcb, rec, listos, cant, llave, llaveB, semGui, pl, aceptando>>,
           bloqueados' \in Seq(1 .. Len(pcb)), semYa' \in Nat, caida' \in Caidas
    PROVE  MapaOK' /\ Len(pcb) <= Len(pcb')
<1>1. pcb' \in Seq(Pcbs) /\ Len(pcb') = Len(pcb) /\ Len(pcb) <= Len(pcb')
    BY Tipos
<1>2. ControlPlan' /\ pl' \in Pls
    BY <1>1, Tipos, PlanQueda
<1>3. aceptando' \in BOOLEAN
    BY Tipos
<1>4. listos' \in Seq(1 .. Len(pcb')) /\ bloqueados' \in Seq(1 .. Len(pcb'))
    BY <1>1, Tipos
<1>5. MapaTypeOK'
    BY <1>1, <1>2, <1>3, <1>4, Tipos DEF MapaTypeOK, Caidas
<1> QED BY <1>1, <1>2, <1>5 DEF MapaOK

(* The loser is told to die and leaves listaBloqueados.                     *)
LEMMA PasoMorir ==
    ASSUME Supuestos, Control, Morir, UNCHANGED <<ent, seniales>>
    PROVE  Control'
<1> DEFINE s == FdDe(dd.pierde)
<1>1. /\ UNCHANGED <<aMapa, extremo, sock, cola, nido, bill>>
      /\ UNCHANGED <<modo, pcb, rec, listos, cant, llave, llaveB, semGui, semYa, pl, aceptando>>
      /\ dd.pc = "morir" /\ bloqueados' = SinElDe(s) /\ caida' \in Caidas
      /\ aEntrenador' = Enviado(Enviado(aEntrenador, s, Msg("MORITE", 0)),
                                FdDe(3 - dd.pierde), Msg("GANASTE", 0))
      /\ dd' = [dd EXCEPT !.pc = "retar", !.marcados = SinElGanador(dd.pierde)]
    BY DEF Morir, mutexes, pantalla, archivos, Envia, Caidas
<1> HIDE DEF s
<1>2. SonBuzones(aEntrenador', DatosAlEntrenador)
    BY <1>1, DosEnviados, Tipos
<1>3. bloqueados' \in Seq(1 .. Len(pcb))
  <2>1. bloqueados \in Seq(1 .. Len(pcb)) /\ DOMAIN bloqueados = 1 .. Len(bloqueados)
      BY Tipos
  <2> DEFINE i == Lugar(bloqueados, s)
  <2>2. i = 0 \/ i \in DOMAIN bloqueados
      BY <2>1, Tipos, LugarEs
  <2>3. bloqueados' = IF i = 0 THEN bloqueados ELSE RemoveAt(bloqueados, i)
      BY <1>1 DEF SinElDe
  <2> HIDE DEF i
  <2>4. i \in 1 .. Len(bloqueados) => RemoveAt(bloqueados, i) \in Seq(1 .. Len(pcb))
      BY <2>1, SinElUno
  <2> QED BY <2>1, <2>2, <2>3, <2>4
<1>4. MapaOK' /\ Len(pcb) <= Len(pcb')
    BY <1>1, <1>3, Tipos, MapaSinUno
<1>5. dd' \in DDs /\ dd' \in DDs' /\ dd'.pc = "retar" /\ dd'.i = dd.i
  <2>0. Len(dd.marcados) = 2
      BY <1>1, TiposDD DEF Ubicada
  <2>1. Len(dd.marcados) > 1 /\ dd.pierde \in 1 .. 2
      BY <2>0, TiposDD DEF DDs
  <2>2. SinElGanador(dd.pierde) \in Seq(1 .. Len(pcb))
      BY <2>1, SinElGanadorEs
  <2>3. Seq(1 .. Len(pcb)) = Seq(1 .. Len(pcb'))
      BY <1>1
  <2> QED BY <1>1, <2>2, <2>3, TiposDD DEF DDs, PasosDD
<1>6. DeteccionOK'
    BY <1>5, TiposDD DEF DeteccionOK, DeteccionTypeOK, ControlDD, Ubicada
<1>7. MundoTypeOK'
  <2>1. SonBuzones(aMapa', DatosAlMapa)
      BY <1>1, Tipos DEF MundoTypeOK
  <2> QED BY <1>1, <1>2, <2>1, MundoConBuzones, Tipos
<1> QED BY <1>4, <1>6, <1>7, Juntos

(* A blocked one whose pokemon is there is told so ...                      *)
LEMMA PasoLiberar ==
    ASSUME Supuestos, Control, Liberar, UNCHANGED <<ent, seniales>>
    PROVE  Control'
<1> DEFINE s == pcb[Este].fd
           r == [pcb[Este] EXCEPT !.accion = "SE_DESBLOQUEO"]
<1>1. /\ UNCHANGED <<aMapa, extremo, sock, cola, nido, bill>>
      /\ UNCHANGED <<modo, rec, listos, bloqueados, cant, llave, llaveB, semYa, pl, aceptando>>
      /\ dd.i <= Len(bloqueados) /\ caida' \in Caidas /\ semGui' = semGui + 1
      /\ aEntrenador' = Enviado(aEntrenador, s, Msg("ESTAS_DESBLOQUEADO", 0))
      /\ dd' = [dd EXCEPT !.pc = "liberando"]
    BY DEF Liberar, mutexes, archivos, Envia, Caidas
<1>2. pcb' = [pcb EXCEPT ![Este] = r]
    BY DEF Liberar
<1>3. dd.i \in DOMAIN bloqueados
  <2>1. dd.i \in Nat /\ dd.i > 0 /\ Len(bloqueados) \in Nat
      BY TiposDD, Tipos DEF Ubicada
  <2>2. DOMAIN bloqueados = 1 .. Len(bloqueados)
      BY Tipos
  <2> QED BY <1>1, <2>1, <2>2
<1>4. Este \in 1 .. Len(pcb)
    BY <1>3, Tipos DEF Este
<1>5. r \in Pcbs
  <2>1. pcb[Este] \in Pcbs
      BY <1>4, Tipos
  <2> QED BY <2>1 DEF Pcbs, Acciones
<1> HIDE DEF r, s
<1>6. pcb' \in Seq(Pcbs) /\ Len(pcb') = Len(pcb)
    BY <1>2, <1>4, <1>5, Tipos, PcbCambiado
<1>7. SonBuzones(aEntrenador', DatosAlEntrenador)
  <2>1. EsMensaje(Msg("ESTAS_DESBLOQUEADO", 0), DatosAlEntrenador)
      BY DEF EsMensaje, Msg, DatosAlEntrenador
  <2>2. SonBuzones(aEntrenador, DatosAlEntrenador)
      BY Tipos DEF MundoTypeOK
  <2> QED BY <1>1, <2>1, <2>2, BuzonEnviado
<1>8. Len(pcb) <= Len(pcb')
    BY <1>6, Tipos
<1>9. ControlPlan' /\ pl' \in Pls
    BY <1>1, <1>6, <1>8, Tipos, PlanQueda
<1>10. MapaOK'
  <2>1. aceptando' \in BOOLEAN
      BY <1>1, Tipos
  <2> QED BY <1>1, <1>6, <1>9, <2>1, Tipos, MapaConPcb DEF Caidas
<1>11. DeteccionOK'
  <2>1. Seq(1 .. Len(pcb)) = Seq(1 .. Len(pcb'))
      BY <1>6
  <2>2. dd' \in DDs /\ dd' \in DDs' /\ dd'.pc = "liberando" /\ dd'.i = dd.i
      BY <1>1, <2>1, TiposDD DEF DDs, PasosDD
  <2> QED BY <1>1, <1>3, <2>2, TiposDD DEF DeteccionOK, DeteccionTypeOK, ControlDD
<1>12. MundoTypeOK'
  <2>1. SonBuzones(aMapa', DatosAlMapa)
      BY <1>1, Tipos DEF MundoTypeOK
  <2> QED BY <1>1, <1>7, <2>1, MundoConBuzones, Tipos
<1> QED BY <1>8, <1>10, <1>11, <1>12, Juntos

(* ... and taken out.                                                       *)
LEMMA PasoLiberado ==
    ASSUME Supuestos, Control, Liberado, UNCHANGED <<ent, seniales>>
    PROVE  Control'
<1>1. /\ UNCHANGED mundo
      /\ UNCHANGED <<modo, pcb, rec, listos, cant, llave, llaveB, semGui, pl, aceptando, caida>>
      /\ dd.pc = "liberando" /\ semYa > 0 /\ semYa' = semYa - 1
      /\ bloqueados' = RemoveAt(bloqueados, dd.i)
      /\ dd' = [dd EXCEPT !.pc = "liberar", !.i = @ + 1]
    BY DEF Liberado, mutexes, SinEste
<1>2. dd.i \in 1 .. Len(bloqueados)
    BY <1>1, TiposDD, Tipos DEF ControlDD
<1>3. bloqueados' \in Seq(1 .. Len(pcb))
    BY <1>1, <1>2, Tipos, SinElUno
<1>4. semYa' \in Nat
    BY <1>1, Tipos
<1>5. MapaOK' /\ Len(pcb) <= Len(pcb')
    BY <1>1, <1>3, <1>4, Tipos, MapaSinUno
<1>6. dd' \in DDs /\ dd' \in DDs' /\ dd'.pc = "liberar" /\ dd'.i = dd.i + 1
  <2>1. Seq(1 .. Len(pcb)) = Seq(1 .. Len(pcb'))
      BY <1>1
  <2> QED BY <1>1, <2>1, TiposDD DEF DDs, PasosDD
<1>7. DeteccionOK'
    BY <1>6, TiposDD DEF DeteccionOK, DeteccionTypeOK, ControlDD
<1>8. MundoTypeOK'
    BY <1>1, MundoQueda, Tipos
<1> QED BY <1>5, <1>7, <1>8, Juntos

(* The copies of those not marked are allocated and become ready.           *)
LEMMA PasoDetectar ==
    ASSUME Supuestos, Control, Detectar, UNCHANGED <<ent, seniales>>
    PROVE  Control'
<1>1. PICK f \in Marcas :
        /\ Len(pcb) + Len(Los(f, FALSE)) <= MaxPcb
        /\ pcb' = pcb \o [k \in DOMAIN Los(f, FALSE) |-> pcb[Los(f, FALSE)[k]]]
        /\ listos' = listos \o [k \in DOMAIN Los(f, FALSE) |-> Len(pcb) + k]
        /\ dd' = [dd EXCEPT !.pc = "retar", !.marcados = Los(f, TRUE)]
    BY DEF Detectar
<1>2. /\ UNCHANGED mundo
      /\ UNCHANGED <<modo, rec, bloqueados, cant, llave, llaveB, semGui, semYa, pl, aceptando,
                      caida>>
    BY DEF Detectar, mutexes, pantalla
<1>3. f \in [DOMAIN bloqueados -> BOOLEAN]
    BY DEF Marcas
<1> DEFINE L == Los(f, FALSE)
           M == Los(f, TRUE)
           n == Len(pcb)
           m == Len(L)
           C == [k \in DOMAIN L |-> pcb[L[k]]]
           K == [k \in DOMAIN L |-> n + k]
<1>4. L \in Seq(1 .. n) /\ M \in Seq(1 .. n)
    BY <1>3, Tipos, LosEs
<1> HIDE DEF L, M
<1>5. m \in Nat /\ n \in Nat /\ DOMAIN L = 1 .. m /\ pcb \in Seq(Pcbs)
      /\ \A k \in 1 .. m : L[k] \in 1 .. n
    BY <1>4, Tipos
<1>6. C \in Seq(Pcbs) /\ Len(C) = m
  <2>1. \A k \in 1 .. m : pcb[L[k]] \in Pcbs
      BY <1>5
  <2>2. C = [k \in 1 .. m |-> pcb[L[k]]]
      BY <1>5
  <2> HIDE DEF m, C
  <2> QED BY <1>5, <2>1, <2>2
<1>7. K \in Seq(1 .. n + m)
  <2>1. \A k \in 1 .. m : n + k \in 1 .. n + m
      BY <1>5
  <2>2. K = [k \in 1 .. m |-> n + k]
      BY <1>5
  <2> HIDE DEF m, K, n
  <2> QED BY <1>5, <2>1, <2>2
<1>8. pcb' = pcb \o C /\ listos' = listos \o K /\ n + m <= MaxPcb
      /\ dd' = [dd EXCEPT !.pc = "retar", !.marcados = M]
    BY <1>1 DEF L, M
<1> HIDE DEF C, K
<1>9. pcb' \in Seq(Pcbs) /\ Len(pcb') = n + m
  <2>1. pcb \o C \in Seq(Pcbs) /\ Len(pcb \o C) = Len(pcb) + Len(C)
      BY <1>5, <1>6, ConcatProperties
  <2> QED BY <1>6, <1>8, <2>1
<1>10. Len(pcb) <= Len(pcb') /\ Len(pcb') <= MaxPcb
       /\ 1 .. Len(pcb) \subseteq 1 .. Len(pcb')
    BY <1>5, <1>8, <1>9
<1>11. listos \in Seq(1 .. Len(pcb')) /\ bloqueados' \in Seq(1 .. Len(pcb'))
       /\ M \in Seq(1 .. Len(pcb'))
    BY <1>2, <1>4, <1>10, Tipos, SeqMonotonic
<1>12. K \in Seq(1 .. Len(pcb'))
    BY <1>7, <1>9
<1>13. listos' \in Seq(1 .. Len(pcb'))
    BY <1>8, <1>11, <1>12, ConcatProperties
<1>14. ControlPlan' /\ pl' \in Pls
  <2>1. \E k \in Seq(1 .. Len(pcb')) : listos' = listos \o k
      BY <1>8, <1>12
  <2> QED BY <1>2, <1>9, <1>10, <2>1, Tipos, PlanQueda
<1>15. MapaOK'
  <2>1. aceptando' \in BOOLEAN
      BY <1>2, Tipos
  <2>2. MapaTypeOK'
      BY <1>2, <1>9, <1>10, <1>11, <1>13, <1>14, <2>1, Tipos DEF MapaTypeOK, Caidas
  <2> QED BY <1>14, <2>2 DEF MapaOK
<1>16. DeteccionOK'
  <2>1. dd' \in DDs' /\ dd'.pc = "retar" /\ dd'.i = dd.i
    <3>1. Seq(1 .. Len(pcb)) \subseteq Seq(1 .. Len(pcb'))
        BY <1>10, SeqMonotonic
    <3> QED BY <1>8, <1>11, <3>1, TiposDD DEF DDs, PasosDD
  <2> QED BY <2>1, TiposDD DEF DeteccionOK, DeteccionTypeOK, ControlDD, Ubicada
<1>17. MundoTypeOK'
    BY <1>2, MundoQueda, Tipos
<1> QED BY <1>10, <1>15, <1>16, <1>17, Juntos

(* Every step of the detection.                                             *)
LEMMA PasoDeLaDeteccion ==
    ASSUME Supuestos, Control, DeteccionPaso, UNCHANGED <<ent, seniales>>
    PROVE  Control'
<1>1. CASE EligePrimero
  <2>1. Elige(1, "primero", "segundo")
      BY <1>1 DEF EligePrimero
  <2> QED BY <2>1, PasoElige
<1>2. CASE EligeSegundo
  <2>1. Elige(2, "segundo", "pelear")
      BY <1>2 DEF EligeSegundo
  <2> QED BY <2>1, PasoElige
<1> QED BY <1>1, <1>2, PasoHaciaContar, PasoContar, PasoSigueBloqueado, PasoFinDePasada,
           PasoPasarseDelFin, PasoRetar, PasoPelear, PasoPelearUltima, PasoSumarRecursos,
           PasoMorir, PasoLiberar, PasoLiberado, PasoDetectar DEF DeteccionPaso

-----------------------------------------------------------------------------
(* The steps of the trainers.                                               *)

(* The map keeps what it has.                                               *)
LEMMA MapaQueda ==
    ASSUME Control, UNCHANGED <<mapa, dd>>, MundoTypeOK', EntrenadorOK'
    PROVE  Control'
<1>1. UNCHANGED <<modo, pcb, rec, listos, bloqueados, cant, llave, llaveB, semGui, semYa, pl,
                  aceptando, caida>>
    BY DEF mapa
<1>2. MapaOK'
    BY <1>1, Tipos, MapaSinListas
<1>3. DeteccionOK'
  <2>1. dd' \in DDs /\ Ubicada(dd') /\ (dd'.pc # "liberando" \/ dd'.i \in DOMAIN bloqueados)
      BY TiposDD DEF ControlDD
  <2> QED BY <1>1, <2>1, DeteccionSigue
<1> QED BY <1>2, <1>3 DEF Control

(* A trainer that does not break its own rules.                             *)
Coherente(t, e) ==
    /\ e \in Ents
    /\ e.estado \in EstadoQueEspera[e.espera]
    /\ e.estado \notin {"CON_TODOS", "MAPA_COMPLETADO", "SALIO", "PERDIDO"}
         => e.obj <= Len(Objetivos[t])

(* What Control says of the trainers.                                       *)
LEMMA TiposEnt ==
    ASSUME Control, NEW t \in Entrenadores
    PROVE  /\ Coherente(t, ent[t]) /\ ent \in [Entrenadores -> Ents]
           /\ seniales \in 0 .. MaxSeniales
BY DEF Control, EntrenadorOK, EntrenadorTypeOK, ControlEnt, Coherente

(* A step of one trainer leaves the others as they are.                     *)
LEMMA UnoCambia ==
    ASSUME Control, NEW t \in Entrenadores, NEW e, Coherente(t, e),
           ent' = [ent EXCEPT ![t] = e], seniales' \in 0 .. MaxSeniales
    PROVE  EntrenadorOK'
<1>1. ent \in [Entrenadores -> Ents]
    BY TiposEnt
<1>2. e \in Ents
    BY DEF Coherente
<1>3. ent' \in [Entrenadores -> Ents]
    BY <1>1, <1>2
<1>4. ASSUME NEW u \in Entrenadores PROVE Coherente(u, ent'[u])
    BY <1>1, TiposEnt
<1> QED BY <1>3, <1>4 DEF EntrenadorOK, EntrenadorTypeOK, ControlEnt, Coherente

(* A message of the trainer, in the connection it has.                      *)
LEMMA MandaUno ==
    ASSUME Control, NEW s, NEW tipo \in DOMAIN DatosAlMapa, NEW dato \in DatosAlMapa[tipo],
           aMapa' = [aMapa EXCEPT ![s] = Append(@, Msg(tipo, dato))],
           UNCHANGED <<aEntrenador, extremo, sock, cola, nido, bill>>
    PROVE  MundoTypeOK'
<1>1. EsMensaje(Msg(tipo, dato), DatosAlMapa)
    BY DEF EsMensaje, Msg
<1>2. SonBuzones(aMapa, DatosAlMapa) /\ SonBuzones(aEntrenador, DatosAlEntrenador)
    BY Tipos DEF MundoTypeOK
<1>3. SonBuzones(aMapa', DatosAlMapa)
    BY <1>1, <1>2, BuzonMas
<1>4. SonBuzones(aEntrenador', DatosAlEntrenador)
    BY <1>2
<1> QED BY <1>3, <1>4, Tipos, MundoConBuzones

(* The answer that is read is a message for a trainer.                      *)
LEMMA RecibeUno ==
    ASSUME Control, NEW t \in Entrenadores, sock[t] # 0, aEntrenador[sock[t]] # <<>>
    PROVE  /\ sock[t] \in Fds /\ EsMensaje(Leido(t), DatosAlEntrenador)
           /\ SonBuzones([aEntrenador EXCEPT ![sock[t]] = Tail(@)], DatosAlEntrenador)
<1>1. sock[t] \in Fds
    BY Tipos DEF MundoTypeOK
<1>2. SonBuzones(aEntrenador, DatosAlEntrenador)
    BY Tipos DEF MundoTypeOK
<1> QED BY <1>1, <1>2, BuzonMenos DEF Leido

(* Only that is read of the world.                                          *)
LEMMA MundoLeido ==
    ASSUME Control, NEW t \in Entrenadores, NEW respuesta, Recibe(t, respuesta),
           UNCHANGED <<aMapa, extremo, sock, cola, nido, bill>>
    PROVE  MundoTypeOK'
<1>1. SonBuzones(aEntrenador', DatosAlEntrenador)
    BY RecibeUno DEF Recibe
<1>2. SonBuzones(aMapa', DatosAlMapa)
    BY Tipos DEF MundoTypeOK
<1> QED BY <1>1, <1>2, Tipos, MundoConBuzones

(* A request, and then the wait.                                            *)
LEMMA PasoPide ==
    ASSUME Control, NEW t \in Entrenadores, NEW estado, NEW r, UNCHANGED <<mapa, dd>>,
           \/ estado = "SIN_POKENEST" /\ r = "coordenada"
           \/ estado = "EN_POKENEST" /\ r = "captura"
           \/ estado = "CON_TODOS" /\ r = "medalla",
           NEW tipo \in DOMAIN DatosAlMapa, NEW dato \in DatosAlMapa[tipo],
           Pide(t, estado, Msg(tipo, dato), r)
    PROVE  Control'
<1>1. /\ UNCHANGED <<aEntrenador, extremo, sock, cola, nido, bill, seniales>>
      /\ ent[t].estado = estado /\ ent' = [ent EXCEPT ![t].espera = r]
      /\ aMapa' = [aMapa EXCEPT ![sock[t]] = Append(@, Msg(tipo, dato))]
    BY DEF Pide, archivos
<1>2. MundoTypeOK'
    BY <1>1, MandaUno
<1> DEFINE e == [ent[t] EXCEPT !.espera = r]
<1>3. Coherente(t, e)
  <2>1. e \in Ents /\ e.estado = estado /\ e.espera = r /\ e.obj = ent[t].obj
      BY <1>1, TiposEnt DEF Coherente, Ents, Respuestas
  <2>2. estado \in EstadoQueEspera[r]
      BY DEF EstadoQueEspera
  <2> HIDE DEF e
  <2> QED BY <1>1, <2>1, <2>2, TiposEnt DEF Coherente
<1>4. ent' = [ent EXCEPT ![t] = e]
    BY <1>1, TiposEnt
<1> HIDE DEF e
<1>5. EntrenadorOK'
    BY <1>1, <1>3, <1>4, TiposEnt, UnoCambia
<1> QED BY <1>2, <1>5, MapaQueda

(* What is asked for.                                                       *)
LEMMA ObjetivoEs ==
    ASSUME Supuestos, Control, NEW t \in Entrenadores,
           ent[t].estado \in {"SIN_POKENEST", "EN_POKENEST"}
    PROVE  Objetivo(t) \in Pokenests
<1>1. ent[t].obj \in Nat \ {0} /\ ent[t].obj <= Len(Objetivos[t])
    BY TiposEnt DEF Coherente, Ents
<1>2. Objetivos[t] \in Seq(Pokenests)
    BY DEF Supuestos, MundoAssumption
<1>3. ent[t].obj \in 1 .. Len(Objetivos[t])
    BY <1>1, <1>2
<1> QED BY <1>2, <1>3 DEF Objetivo

(* The requests that carry a pokenest or nothing.                           *)
LEMMA PasoPedidos ==
    ASSUME Supuestos, Control, NEW t \in Entrenadores, UNCHANGED <<mapa, dd>>,
           Conocer(t) \/ Capturar(t) \/ NotificarFin(t)
    PROVE  Control'
<1>1. DOMAIN DatosAlMapa = {"CONOCER_POKENEST", "CAPTURAR", "MOVER_POSICION",
                            "TERMINE_OBJETIVOS", "ACK", "POKEMON"}
      /\ DatosAlMapa["CONOCER_POKENEST"] = Pokenests /\ DatosAlMapa["CAPTURAR"] = Pokenests
      /\ DatosAlMapa["TERMINE_OBJETIVOS"] = {0}
    BY DEF DatosAlMapa
<1>2. CASE Conocer(t)
  <2>1. Objetivo(t) \in Pokenests
      BY <1>2, ObjetivoEs DEF Conocer, Pide
  <2>2. Pide(t, "SIN_POKENEST", Msg("CONOCER_POKENEST", Objetivo(t)), "coordenada")
      BY <1>2 DEF Conocer
  <2> QED BY <1>1, <2>1, <2>2, PasoPide
<1>3. CASE Capturar(t)
  <2>1. Objetivo(t) \in Pokenests
      BY <1>3, ObjetivoEs DEF Capturar, Pide
  <2>2. Pide(t, "EN_POKENEST", Msg("CAPTURAR", Objetivo(t)), "captura")
      BY <1>3 DEF Capturar
  <2> QED BY <1>1, <2>1, <2>2, PasoPide
<1>4. CASE NotificarFin(t)
  <2>1. Pide(t, "CON_TODOS", Msg("TERMINE_OBJETIVOS", 0), "medalla")
      BY <1>4 DEF NotificarFin
  <2> QED BY <1>1, <2>1, PasoPide
<1> QED BY <1>2, <1>3, <1>4

(* A step in the direction it chooses, which it remembers.                  *)
LEMMA PasoMover ==
    ASSUME Supuestos, Control, NEW t \in Entrenadores, UNCHANGED <<mapa, dd>>, Mover(t)
    PROVE  Control'
<1> DEFINE dir == ObtenerDireccion(ent[t].meta, ent[t].pos, ent[t].ultima)
           e == [ent[t] EXCEPT !.espera = "ok", !.ultima = dir]
<1>1. /\ UNCHANGED <<aEntrenador, extremo, sock, cola, nido, bill, seniales>>
      /\ ent[t].estado = "EN_CAMINO"
      /\ ent' = [ent EXCEPT ![t].espera = "ok", ![t].ultima = dir]
      /\ aMapa' = [aMapa EXCEPT ![sock[t]] = Append(@, Msg("MOVER_POSICION", dir))]
    BY DEF Mover, archivos
<1>2. dir \in Direcciones
    BY DEF ObtenerDireccion, Direcciones
<1> HIDE DEF dir
<1>3. MundoTypeOK'
  <2>1. "MOVER_POSICION" \in DOMAIN DatosAlMapa /\ dir \in DatosAlMapa["MOVER_POSICION"]
      BY <1>2 DEF DatosAlMapa
  <2> QED BY <1>1, <2>1, MandaUno
<1>4. Coherente(t, e)
  <2>1. e \in Ents /\ e.estado = "EN_CAMINO" /\ e.espera = "ok" /\ e.obj = ent[t].obj
      BY <1>1, <1>2, TiposEnt DEF Coherente, Ents, Respuestas
  <2>2. "EN_CAMINO" \in EstadoQueEspera["ok"]
      BY DEF EstadoQueEspera
  <2> HIDE DEF e
  <2> QED BY <1>1, <2>1, <2>2, TiposEnt DEF Coherente
<1>5. ent' = [ent EXCEPT ![t] = e]
    BY <1>1, TiposEnt
<1> HIDE DEF e
<1>6. EntrenadorOK'
    BY <1>1, <1>4, <1>5, TiposEnt, UnoCambia
<1> QED BY <1>3, <1>6, MapaQueda

(* Its strongest pokemon, for the battle.                                   *)
LEMMA PasoDarPokemon ==
    ASSUME Supuestos, Control, NEW t \in Entrenadores, UNCHANGED <<mapa, dd>>, DarPokemon(t)
    PROVE  Control'
<1> DEFINE e == [ent[t] EXCEPT !.espera = "veredicto"]
<1>1. /\ UNCHANGED <<aEntrenador, extremo, sock, cola, nido, bill, seniales>>
      /\ ent[t].estado = "EN_DEADLOCK" /\ ent' = [ent EXCEPT ![t].espera = "veredicto"]
      /\ aMapa' = [aMapa EXCEPT ![sock[t]] = Append(@, Msg("POKEMON", 0))]
    BY DEF DarPokemon, archivos
<1>2. MundoTypeOK'
  <2>1. "POKEMON" \in DOMAIN DatosAlMapa /\ 0 \in DatosAlMapa["POKEMON"]
      BY DEF DatosAlMapa
  <2> QED BY <1>1, <2>1, MandaUno
<1>3. Coherente(t, e)
  <2>1. e \in Ents /\ e.estado = "EN_DEADLOCK" /\ e.espera = "veredicto" /\ e.obj = ent[t].obj
      BY <1>1, TiposEnt DEF Coherente, Ents, Respuestas
  <2>2. "EN_DEADLOCK" \in EstadoQueEspera["veredicto"]
      BY DEF EstadoQueEspera
  <2> HIDE DEF e
  <2> QED BY <1>1, <2>1, <2>2, TiposEnt DEF Coherente
<1>4. ent' = [ent EXCEPT ![t] = e]
    BY <1>1, TiposEnt
<1> HIDE DEF e
<1>5. EntrenadorOK'
    BY <1>1, <1>3, <1>4, TiposEnt, UnoCambia
<1> QED BY <1>2, <1>5, MapaQueda

(* The copy is made: the next objective, if there is one.                   *)
LEMMA PasoAcusar ==
    ASSUME Supuestos, Control, NEW t \in Entrenadores, UNCHANGED <<mapa, dd>>, Acusar(t)
    PROVE  Control'
<1> DEFINE st == IF ent[t].obj = Len(Objetivos[t]) THEN "CON_TODOS" ELSE "SIN_POKENEST"
           e == [ent[t] EXCEPT !.espera = "nada", !.obj = ent[t].obj + 1, !.estado = st]
<1>1. /\ UNCHANGED <<aEntrenador, extremo, sock, cola, nido, bill, seniales>>
      /\ ent[t].espera = "copia"
      /\ aMapa' = [aMapa EXCEPT ![sock[t]] = Append(@, Msg("ACK", 0))]
      /\ ent' = [ent EXCEPT ![t].espera = "nada", ![t].obj = @ + 1, ![t].estado = st]
    BY DEF Acusar, archivos
<1>2. MundoTypeOK'
  <2>1. "ACK" \in DOMAIN DatosAlMapa /\ 0 \in DatosAlMapa["ACK"]
      BY DEF DatosAlMapa
  <2> QED BY <1>1, <2>1, MandaUno
<1>3. ent[t].estado = "EN_POKENEST" /\ ent[t].obj \in Nat \ {0}
      /\ ent[t].obj <= Len(Objetivos[t]) /\ Len(Objetivos[t]) \in Nat
  <2>1. ent[t].estado = "EN_POKENEST"
      BY <1>1, TiposEnt DEF Coherente, EstadoQueEspera
  <2>2. Objetivos[t] \in Seq(Pokenests)
      BY DEF Supuestos, MundoAssumption
  <2>3. ent[t] \in Ents /\ ent[t].obj <= Len(Objetivos[t])
      BY <2>1, TiposEnt DEF Coherente
  <2>4. ent[t].obj \in Nat \ {0}
      BY <2>3 DEF Ents
  <2>5. Len(Objetivos[t]) \in Nat
      BY <2>2
  <2> QED BY <2>1, <2>3, <2>4, <2>5
<1>4. Coherente(t, e)
  <2>1. st \in {"CON_TODOS", "SIN_POKENEST"}
        /\ (st = "SIN_POKENEST" => ent[t].obj + 1 <= Len(Objetivos[t]))
      BY <1>3
  <2> HIDE DEF st
  <2>2. e \in Ents /\ e.estado = st /\ e.espera = "nada" /\ e.obj = ent[t].obj + 1
    <3>1. ent[t] \in Ents
        BY TiposEnt DEF Coherente
    <3>2. ent[t].obj + 1 \in Nat \ {0}
        BY <1>3
    <3>3. st \in Estados
        BY <2>1 DEF Estados
    <3> QED BY <3>1, <3>2, <3>3 DEF Ents, Respuestas
  <2>3. st \in EstadoQueEspera["nada"]
      BY <2>1 DEF EstadoQueEspera, Estados
  <2> HIDE DEF e
  <2> QED BY <2>1, <2>2, <2>3 DEF Coherente
<1>5. ent' = [ent EXCEPT ![t] = e]
    BY <1>1, TiposEnt
<1> HIDE DEF e
<1>6. EntrenadorOK'
    BY <1>1, <1>4, <1>5, TiposEnt, UnoCambia
<1> QED BY <1>2, <1>6, MapaQueda

(* An answer is read and the trainer goes to another state.                 *)
LEMMA PasoRecibe ==
    ASSUME Supuestos, Control, NEW t \in Entrenadores, UNCHANGED <<mapa, dd>>,
           NEW respuesta, Recibe(t, respuesta),
           UNCHANGED <<aMapa, extremo, sock, cola, nido, bill, seniales>>,
           NEW e \in Ents, e.estado # "COLGADO", e.espera = "nada", e.obj = ent[t].obj,
           ent[t].estado \notin {"CON_TODOS", "MAPA_COMPLETADO", "SALIO", "PERDIDO"}
             \/ e.estado \in {"CON_TODOS", "MAPA_COMPLETADO", "SALIO", "PERDIDO"},
           ent' = [ent EXCEPT ![t] = e]
    PROVE  Control'
<1>1. e.estado \in EstadoQueEspera["nada"]
    BY DEF EstadoQueEspera, Ents
<1>2. Coherente(t, e)
    BY <1>1, TiposEnt DEF Coherente
<1>3. seniales' = seniales
    OBVIOUS
<1>4. EntrenadorOK'
    BY <1>2, <1>3, TiposEnt, UnoCambia
<1>5. MundoTypeOK'
    BY MundoLeido
<1> QED BY <1>4, <1>5, MapaQueda

(* The answers that only take it to another state.                          *)
LEMMA PasoRespuesta ==
    ASSUME Supuestos, Control, NEW t \in Entrenadores, UNCHANGED <<mapa, dd>>,
           NEW respuesta, Recibe(t, respuesta),
           UNCHANGED <<aMapa, extremo, sock, cola, nido, bill, seniales>>,
           NEW st \in Estados \ {"COLGADO"},
           ent[t].estado \notin {"CON_TODOS", "MAPA_COMPLETADO", "SALIO", "PERDIDO"}
             \/ st \in {"CON_TODOS", "MAPA_COMPLETADO", "SALIO", "PERDIDO"},
           \/ ent' = [ent EXCEPT ![t].estado = st, ![t].espera = "nada"]
           \/ ent' = [ent EXCEPT ![t].estado = st] /\ ent[t].espera = "nada"
    PROVE  Control'
<1> DEFINE e == ent'[t]
<1>1. ent \in [Entrenadores -> Ents] /\ ent[t] \in Ents
    BY TiposEnt
<1>2. e \in Ents /\ e.estado = st /\ e.espera = "nada" /\ e.obj = ent[t].obj
    BY <1>1 DEF Ents, Respuestas
<1>3. ent' = [ent EXCEPT ![t] = e]
    BY <1>1
<1> HIDE DEF e
<1> QED BY <1>2, <1>3, PasoRecibe

(* Of them: blocked, still blocked, awake, or what was for another.         *)
LEMMA PasoRespuestas ==
    ASSUME Supuestos, Control, NEW t \in Entrenadores, UNCHANGED <<mapa, dd>>,
           \/ QuedarBloqueado(t) \/ SeguirBloqueado(t) \/ Despertar(t) \/ LeerLoDeOtro(t)
    PROVE  Control'
<1>1. CASE QuedarBloqueado(t)
  <2>1. /\ Recibe(t, "captura") /\ UNCHANGED <<aMapa, extremo, sock, cola, nido, bill, seniales>>
        /\ ent' = [ent EXCEPT ![t].estado = "BLOQUEADO", ![t].espera = "nada"]
      BY <1>1 DEF QuedarBloqueado, archivos
  <2>2. ent[t].estado = "EN_POKENEST"
      BY <2>1, TiposEnt DEF Coherente, EstadoQueEspera, Recibe
  <2>3. "BLOQUEADO" \in Estados \ {"COLGADO"}
      BY DEF Estados
  <2> QED BY <2>1, <2>2, <2>3, PasoRespuesta
<1>2. CASE SeguirBloqueado(t)
  <2>1. /\ Recibe(t, "veredicto")
        /\ UNCHANGED <<aMapa, extremo, sock, cola, nido, bill, seniales>>
        /\ ent' = [ent EXCEPT ![t].estado = "BLOQUEADO", ![t].espera = "nada"]
      BY <1>2 DEF SeguirBloqueado, archivos
  <2>2. "BLOQUEADO" \in Estados \ {"COLGADO"}
      BY DEF Estados
  <2>3. ent[t].estado \in {"EN_DEADLOCK", "COLGADO"}
      BY <2>1, TiposEnt DEF Coherente, EstadoQueEspera, Recibe
  <2> QED BY <2>1, <2>2, <2>3, PasoRespuesta
<1>3. CASE Despertar(t)
  <2>1. PICK st \in {"EN_DEADLOCK", "EN_POKENEST", "BLOQUEADO"} :
          ent' = [ent EXCEPT ![t].estado = st]
      BY <1>3 DEF Despertar
  <2>2. /\ Recibe(t, "nada") /\ UNCHANGED <<aMapa, extremo, sock, cola, nido, bill, seniales>>
        /\ ent[t].estado = "BLOQUEADO"
      BY <1>3 DEF Despertar, archivos
  <2>3. st \in Estados \ {"COLGADO"}
      BY DEF Estados
  <2>4. ent[t].espera = "nada"
      BY <2>2 DEF Recibe
  <2> QED BY <2>1, <2>2, <2>3, <2>4, PasoRespuesta
<1>4. CASE LeerLoDeOtro(t)
  <2>1. /\ Recibe(t, ent[t].espera)
        /\ UNCHANGED <<aMapa, extremo, sock, cola, nido, bill, seniales>>
        /\ ent' = [ent EXCEPT ![t].estado = "PERDIDO", ![t].espera = "nada"]
      BY <1>4 DEF LeerLoDeOtro, archivos
  <2>2. "PERDIDO" \in Estados \ {"COLGADO"}
      BY DEF Estados
  <2> QED BY <2>1, <2>2, PasoRespuesta
<1> QED BY <1>1, <1>2, <1>3, <1>4

(* The place of the pokenest is where it walks to.                          *)
LEMMA PasoCoordenada ==
    ASSUME Supuestos, Control, NEW t \in Entrenadores, UNCHANGED <<mapa, dd>>,
           RecibirCoordenada(t)
    PROVE  Control'
<1> DEFINE lugar == Leido(t).dato
<1>1. /\ Recibe(t, "coordenada") /\ Leido(t).tipo = "COORDENADA"
      /\ UNCHANGED <<aMapa, extremo, sock, cola, nido, bill, seniales>>
      /\ ent' = [ent EXCEPT ![t].meta = lugar, ![t].estado = "EN_CAMINO", ![t].espera = "nada"]
    BY DEF RecibirCoordenada, archivos
<1>2. lugar \in Nat \X Nat
  <2>1. EsMensaje(Leido(t), DatosAlEntrenador)
      BY <1>1, RecibeUno DEF Recibe
  <2> QED BY <1>1, <2>1 DEF EsMensaje, DatosAlEntrenador
<1> HIDE DEF lugar
<1>3. ent[t] \in Ents /\ ent[t].estado = "SIN_POKENEST" /\ ent \in [Entrenadores -> Ents]
    BY <1>1, TiposEnt DEF Coherente, EstadoQueEspera, Recibe
<1> DEFINE e == [ent[t] EXCEPT !.estado = "EN_CAMINO", !.espera = "nada", !.meta = lugar]
<1>5. e \in Ents /\ e.estado # "COLGADO" /\ e.espera = "nada" /\ e.obj = ent[t].obj
      /\ ent' = [ent EXCEPT ![t] = e]
    BY <1>1, <1>2, <1>3 DEF Ents, Estados, Respuestas
<1> HIDE DEF e
<1>6. ent[t].estado \notin {"CON_TODOS", "MAPA_COMPLETADO", "SALIO", "PERDIDO"}
    BY <1>3
<1> QED BY <1>1, <1>5, <1>6, PasoRecibe

(* A step keeps a place in the plane.                                       *)
LEMMA PasoEs ==
    ASSUME NEW pos \in Int \X Int, NEW dir
    PROVE  Paso(pos, dir) \in Int \X Int
<1>1. pos[1] \in Int /\ pos[2] \in Int
    OBVIOUS
<1>2. pos[1] - 1 \in Int /\ pos[1] + 1 \in Int /\ pos[2] - 1 \in Int /\ pos[2] + 1 \in Int
    BY <1>1
<1> QED BY <1>1, <1>2 DEF Paso

(* The answer to a move.                                                    *)
LEMMA PasoMovido ==
    ASSUME Supuestos, Control, NEW t \in Entrenadores, UNCHANGED <<mapa, dd>>, Movido(t)
    PROVE  Control'
<1> DEFINE lugar == Paso(ent[t].pos, ent[t].ultima)
           st == IF Llego(lugar, ent[t].meta) THEN "EN_POKENEST" ELSE ent[t].estado
<1>1. /\ Recibe(t, "ok") /\ UNCHANGED <<aMapa, extremo, sock, cola, nido, bill, seniales>>
      /\ ent' = [ent EXCEPT ![t].pos = lugar, ![t].espera = "nada", ![t].estado = st]
    BY DEF Movido, archivos
<1>2. ent[t] \in Ents /\ ent[t].estado = "EN_CAMINO" /\ ent \in [Entrenadores -> Ents]
    BY <1>1, TiposEnt DEF Coherente, EstadoQueEspera, Recibe
<1>3. lugar \in Int \X Int
    BY <1>2, PasoEs DEF Ents
<1>4. st \in Estados \ {"COLGADO"}
    BY <1>2 DEF Estados
<1> HIDE DEF lugar, st
<1> DEFINE e == [ent[t] EXCEPT !.pos = lugar, !.espera = "nada", !.estado = st]
<1>5. e \in Ents /\ e.estado # "COLGADO" /\ e.espera = "nada" /\ e.obj = ent[t].obj
      /\ ent' = [ent EXCEPT ![t] = e]
    BY <1>1, <1>2, <1>3, <1>4 DEF Ents, Respuestas
<1> HIDE DEF e
<1>6. ent[t].estado \notin {"CON_TODOS", "MAPA_COMPLETADO", "SALIO", "PERDIDO"}
    BY <1>2
<1> QED BY <1>1, <1>5, <1>6, PasoRecibe

(* The file is copied before the map is told.                               *)
LEMMA PasoCapturado ==
    ASSUME Supuestos, Control, NEW t \in Entrenadores, UNCHANGED <<mapa, dd>>, Capturado(t)
    PROVE  Control'
<1> DEFINE e == [ent[t] EXCEPT !.espera = "copia"]
<1>1. /\ Recibe(t, "captura") /\ UNCHANGED <<aMapa, extremo, sock, cola, nido, seniales>>
      /\ bill' = [bill EXCEPT ![t][Objetivo(t)] = @ + 1]
      /\ ent' = [ent EXCEPT ![t].espera = "copia"]
    BY DEF Capturado
<1>2. ent[t] \in Ents /\ ent[t].estado = "EN_POKENEST"
    BY <1>1, TiposEnt DEF Coherente, EstadoQueEspera, Recibe
<1>3. Coherente(t, e)
  <2>1. e \in Ents /\ e.estado = "EN_POKENEST" /\ e.espera = "copia" /\ e.obj = ent[t].obj
      BY <1>2 DEF Ents, Respuestas
  <2>2. "EN_POKENEST" \in EstadoQueEspera["copia"]
      BY DEF EstadoQueEspera
  <2> HIDE DEF e
  <2> QED BY <1>2, <2>1, <2>2, TiposEnt DEF Coherente
<1>4. ent' = [ent EXCEPT ![t] = e]
    BY <1>1, TiposEnt
<1> HIDE DEF e
<1>5. EntrenadorOK'
    BY <1>1, <1>3, <1>4, TiposEnt, UnoCambia
<1>6. bill' \in [Entrenadores -> [Pokenests -> Nat]]
  <2>1. bill \in [Entrenadores -> [Pokenests -> Nat]]
      BY Tipos DEF MundoTypeOK
  <2> DEFINE g == [bill[t] EXCEPT ![Objetivo(t)] = @ + 1]
  <2>2. g \in [Pokenests -> Nat]
    <3>1. bill[t] \in [Pokenests -> Nat]
        BY <2>1
    <3> HIDE DEF g
    <3>2. g = [p \in Pokenests |-> IF p = Objetivo(t) THEN bill[t][p] + 1 ELSE bill[t][p]]
        BY <3>1 DEF g
    <3> QED BY <3>1, <3>2
  <2>3. bill' = [bill EXCEPT ![t] = g]
      BY <1>1, <2>1
  <2> HIDE DEF g
  <2> QED BY <2>1, <2>2, <2>3
<1>7. SonBuzones(aEntrenador', DatosAlEntrenador)
    BY <1>1, RecibeUno DEF Recibe
<1>8. MundoTypeOK'
    BY <1>1, <1>6, <1>7, Tipos DEF MundoTypeOK
<1> QED BY <1>5, <1>8, MapaQueda

(* A new connection, on the lowest free descriptor.                         *)
LEMMA ConectarEs ==
    ASSUME Control, NEW t \in Entrenadores, Conectar(t)
    PROVE  /\ sock'[t] \in Fds /\ extremo[sock'[t]] = "libre"
           /\ sock' = [sock EXCEPT ![t] = sock'[t]]
           /\ sock' \in [Entrenadores -> Fds \union {0}]
           /\ cola' = Append(cola, [fd |-> sock'[t], quien |-> t])
           /\ cola' \in Seq([fd : Fds, quien : Entrenadores])
<1> DEFINE libres == {s \in Fds : extremo[s] = "libre"}
           s == Min(libres)
<1>1. /\ libres # {} /\ sock' = [sock EXCEPT ![t] = s]
      /\ cola' = Append(cola, [fd |-> s, quien |-> t])
    BY DEF Conectar
<1>2. libres \in SUBSET Nat
    BY DEF Fds
<1>3. s \in libres
  <2> HIDE DEF libres
  <2> QED BY <1>1, <1>2, MenorDe
<1>4. s \in Fds /\ extremo[s] = "libre"
    BY <1>3
<1> HIDE DEF s
<1>5. sock \in [Entrenadores -> Fds \union {0}] /\ cola \in Seq([fd : Fds, quien : Entrenadores])
    BY Tipos DEF MundoTypeOK
<1>6. sock'[t] = s
    BY <1>1, <1>5
<1>7. [fd |-> s, quien |-> t] \in [fd : Fds, quien : Entrenadores]
    BY <1>4
<1> QED BY <1>1, <1>4, <1>5, <1>6, <1>7, AppendProperties

(* ... with which the trainer begins again.                                 *)
LEMMA DeNuevoEs ==
    ASSUME Supuestos, Control, NEW t \in Entrenadores,
           NEW v \in Nat, NEW n \in Nat, NEW u \in Direcciones
    PROVE  /\ Coherente(t, [DeNuevo(ent[t]) EXCEPT !.vidas = v])
           /\ Coherente(t, [DeNuevo(ent[t]) EXCEPT !.ultima = u, !.intentos = n])
           /\ Coherente(t, DeNuevo(ent[t]))
<1>1. ent[t] \in Ents
    BY TiposEnt DEF Coherente
<1>2. 1 <= Len(Objetivos[t])
  <2>1. Objetivos[t] \in Seq(Pokenests) /\ Objetivos[t] # <<>>
      BY DEF Supuestos, MundoAssumption
  <2> QED BY <2>1, EmptySeq
<1>3. ASSUME NEW e \in Ents, e.estado = "SIN_POKENEST", e.espera = "nada", e.obj = 1
      PROVE  Coherente(t, e)
  <2>1. e.estado \in EstadoQueEspera["nada"]
      BY <1>3 DEF EstadoQueEspera, Estados
  <2> QED BY <1>2, <1>3, <2>1 DEF Coherente
<1>4. /\ DeNuevo(ent[t]) \in Ents /\ DeNuevo(ent[t]).estado = "SIN_POKENEST"
      /\ DeNuevo(ent[t]).espera = "nada" /\ DeNuevo(ent[t]).obj = 1
  <2> DEFINE cero == <<0, 0>>
  <2>1. cero \in Int \X Int
      OBVIOUS
  <2>2. DeNuevo(ent[t]) = [ent[t] EXCEPT !.estado = "SIN_POKENEST", !.pos = cero, !.obj = 1,
                                         !.espera = "nada"]
      BY DEF DeNuevo
  <2> HIDE DEF cero
  <2> DEFINE d == [ent[t] EXCEPT !.estado = "SIN_POKENEST", !.pos = cero, !.obj = 1,
                                 !.espera = "nada"]
  <2>3. d \in Ents /\ d.estado = "SIN_POKENEST" /\ d.espera = "nada" /\ d.obj = 1
    <3>1. "SIN_POKENEST" \in Estados /\ "nada" \in Respuestas /\ 1 \in Nat \ {0}
        BY DEF Estados, Respuestas
    <3> QED BY <1>1, <2>1, <3>1 DEF Ents
  <2> HIDE DEF d
  <2> QED BY <2>2, <2>3 DEF d
<1> DEFINE d == DeNuevo(ent[t])
           d1 == [d EXCEPT !.vidas = v]
           d2 == [d EXCEPT !.ultima = u, !.intentos = n]
<1> HIDE DEF d
<1>5. d \in Ents /\ d.estado = "SIN_POKENEST" /\ d.espera = "nada" /\ d.obj = 1
    BY <1>4 DEF d
<1>6. d1 \in Ents /\ d1.estado = "SIN_POKENEST" /\ d1.espera = "nada" /\ d1.obj = 1
    BY <1>5 DEF Ents
<1>7. d2 \in Ents /\ d2.estado = "SIN_POKENEST" /\ d2.espera = "nada" /\ d2.obj = 1
    BY <1>5 DEF Ents
<1> HIDE DEF d1, d2
<1>8. Coherente(t, d1) /\ Coherente(t, d2) /\ Coherente(t, d)
    BY <1>3, <1>5, <1>6, <1>7
<1> QED BY <1>8 DEF d, d1, d2

(* What a trainer does to the connections when it leaves one or takes one.  *)
LEMMA Enlace ==
    ASSUME Control, NEW t \in Entrenadores,
           UNCHANGED <<aMapa, nido>>, NEW s,
           \/ aEntrenador' = aEntrenador
           \/ aEntrenador' = [aEntrenador EXCEPT ![s] = <<>>],
           extremo' \in [Fds -> {"libre", "abierto", "cortado"}],
           sock' \in [Entrenadores -> Fds \union {0}],
           cola' \in Seq([fd : Fds, quien : Entrenadores]),
           bill' \in [Entrenadores -> [Pokenests -> Nat]]
    PROVE  MundoTypeOK'
<1>1. SonBuzones(aMapa, DatosAlMapa) /\ SonBuzones(aEntrenador, DatosAlEntrenador)
      /\ nido \in [Pokenests -> Nat]
    BY Tipos DEF MundoTypeOK
<1>2. SonBuzones([aEntrenador EXCEPT ![s] = <<>>], DatosAlEntrenador)
    BY <1>1, BuzonVacio
<1>3. SonBuzones(aEntrenador', DatosAlEntrenador)
    BY <1>1, <1>2
<1>4. SonBuzones(aMapa', DatosAlMapa)
    BY <1>1
<1> QED BY <1>1, <1>3, <1>4 DEF MundoTypeOK

(* The handshake.                                                           *)
LEMMA PasoHandShake ==
    ASSUME Supuestos, Control, NEW t \in Entrenadores, UNCHANGED <<mapa, dd>>, HandShake(t)
    PROVE  Control'
<1>1. /\ Conectar(t) /\ UNCHANGED <<aMapa, aEntrenador, nido, bill, seniales>>
      /\ extremo' = [extremo EXCEPT ![sock'[t]] = "abierto"]
      /\ ent' = [ent EXCEPT ![t] = DeNuevo(ent[t])]
    BY DEF HandShake, archivos
<1>2. extremo' \in [Fds -> {"libre", "abierto", "cortado"}]
    BY <1>1, Tipos DEF MundoTypeOK
<1>3. bill' \in [Entrenadores -> [Pokenests -> Nat]]
    BY <1>1, Tipos DEF MundoTypeOK
<1>4. MundoTypeOK'
    BY <1>1, <1>2, <1>3, ConectarEs, Enlace
<1>5. Coherente(t, DeNuevo(ent[t]))
  <2>1. ent[t].vidas \in Nat /\ ent[t].intentos \in Nat /\ ent[t].ultima \in Direcciones
      BY TiposEnt DEF Coherente, Ents
  <2> QED BY <2>1, DeNuevoEs
<1>6. EntrenadorOK'
    BY <1>1, <1>5, TiposEnt, UnoCambia
<1> QED BY <1>4, <1>6, MapaQueda

(* A trainer that leaves: killed by the empty directory or by SIGINT, or    *)
(* with its medal.                                                          *)
LEMMA PasoSeVa ==
    ASSUME Supuestos, Control, NEW t \in Entrenadores, UNCHANGED <<mapa, dd>>,
           Cerrar(sock[t]), sock' = [sock EXCEPT ![t] = 0], UNCHANGED <<aMapa, cola, nido, bill>>,
           seniales' \in 0 .. MaxSeniales, NEW st \in {"SALIO", "MAPA_COMPLETADO"},
           \/ ent' = [ent EXCEPT ![t].estado = st, ![t].espera = "nada"]
           \/ ent' = [ent EXCEPT ![t].estado = st] /\ ent[t].espera = "nada"
    PROVE  Control'
<1>1. /\ extremo' = [extremo EXCEPT ![sock[t]] = "cortado"]
      /\ aEntrenador' = [aEntrenador EXCEPT ![sock[t]] = <<>>]
    BY DEF Cerrar
<1>2. extremo' \in [Fds -> {"libre", "abierto", "cortado"}]
    BY <1>1, Tipos DEF MundoTypeOK
<1>3. sock' \in [Entrenadores -> Fds \union {0}]
    BY Tipos DEF MundoTypeOK
<1>4. /\ cola' \in Seq([fd : Fds, quien : Entrenadores])
      /\ bill' \in [Entrenadores -> [Pokenests -> Nat]]
    BY Tipos DEF MundoTypeOK
<1>5. MundoTypeOK'
    BY <1>1, <1>2, <1>3, <1>4, Enlace
<1> DEFINE e == ent'[t]
<1>6. ent \in [Entrenadores -> Ents] /\ ent[t] \in Ents
    BY TiposEnt
<1>7. e \in Ents /\ e.estado = st /\ e.espera = "nada"
    BY <1>6 DEF Ents, Respuestas, Estados
<1>8. ent' = [ent EXCEPT ![t] = e]
    BY <1>6
<1> HIDE DEF e
<1>9. st \in EstadoQueEspera["nada"]
    BY DEF EstadoQueEspera, Estados
<1>10. Coherente(t, e)
    BY <1>7, <1>9 DEF Coherente
<1>11. EntrenadorOK'
    BY <1>8, <1>10, UnoCambia
<1> QED BY <1>5, <1>11, MapaQueda

(* A life less, and a new connection.                                       *)
LEMMA PasoFallecer ==
    ASSUME Supuestos, Control, NEW t \in Entrenadores, UNCHANGED <<mapa, dd>>,
           FallecerPorDeadlock(t)
    PROVE  Control'
<1>1. /\ Conectar(t) /\ UNCHANGED <<aMapa, nido, bill, seniales>>
      /\ aEntrenador' = [aEntrenador EXCEPT ![sock[t]] = <<>>]
      /\ extremo' = [extremo EXCEPT ![sock[t]] = "cortado", ![sock'[t]] = "abierto"]
      /\ ent' = [ent EXCEPT ![t] = [DeNuevo(ent[t]) EXCEPT !.vidas = ent[t].vidas - 1]]
      /\ ent[t].vidas > 0
    BY DEF FallecerPorDeadlock, archivos
<1>2. extremo' \in [Fds -> {"libre", "abierto", "cortado"}]
    BY <1>1, Tipos DEF MundoTypeOK
<1>3. bill' \in [Entrenadores -> [Pokenests -> Nat]]
    BY <1>1, Tipos DEF MundoTypeOK
<1>4. MundoTypeOK'
    BY <1>1, <1>2, <1>3, ConectarEs, Enlace
<1> DEFINE v == ent[t].vidas - 1
<1>5. v \in Nat
  <2>1. ent[t].vidas \in Nat
      BY TiposEnt DEF Coherente, Ents
  <2> QED BY <1>1, <2>1
<1>6. ent' = [ent EXCEPT ![t] = [DeNuevo(ent[t]) EXCEPT !.vidas = v]]
    BY <1>1
<1> HIDE DEF v
<1>7. Coherente(t, [DeNuevo(ent[t]) EXCEPT !.vidas = v])
  <2>1. 0 \in Nat /\ "ARRIBA" \in Direcciones
      BY DEF Direcciones
  <2> QED BY <1>5, <2>1, DeNuevoEs
<1>8. EntrenadorOK'
    BY <1>1, <1>6, <1>7, TiposEnt, UnoCambia
<1> QED BY <1>4, <1>8, MapaQueda

(* The adventure begins again: a new connection and no pokemons.            *)
LEMMA ReiniciarEs ==
    ASSUME Supuestos, Control, NEW t \in Entrenadores, Reiniciar(t),
           seniales' \in 0 .. MaxSeniales
    PROVE  EntrenadorOK' /\ bill' \in [Entrenadores -> [Pokenests -> Nat]]
<1> DEFINE n == ent[t].intentos + 1
           u == "SIN_DIRECCION"
           e == [DeNuevo(ent[t]) EXCEPT !.ultima = u, !.intentos = n]
<1>1. ent' = [ent EXCEPT ![t] = e]
    BY DEF Reiniciar
<1>2. n \in Nat /\ u \in Direcciones /\ ent[t].vidas \in Nat
    BY TiposEnt DEF Coherente, Ents, Direcciones
<1> HIDE DEF n, u
<1>3. Coherente(t, e)
    BY <1>2, DeNuevoEs
<1> HIDE DEF e
<1>4. EntrenadorOK'
    BY <1>1, <1>3, UnoCambia
<1>5. bill' \in [Entrenadores -> [Pokenests -> Nat]]
  <2>1. [p \in Pokenests |-> 0] \in [Pokenests -> Nat]
      OBVIOUS
  <2> QED BY <2>1, Tipos DEF Reiniciar, MundoTypeOK
<1> QED BY <1>4, <1>5

(* The last life: it begins again, or goes on with a closed socket.         *)
LEMMA PasoUltimaMuerte ==
    ASSUME Supuestos, Control, NEW t \in Entrenadores, UNCHANGED <<mapa, dd>>, UltimaMuerte(t)
    PROVE  Control'
<1>1. /\ UNCHANGED <<aMapa, nido, seniales>> /\ ent[t].espera = "veredicto"
      /\ aEntrenador' = [aEntrenador EXCEPT ![sock[t]] = <<>>]
    BY DEF UltimaMuerte
<1>2. CASE Reiniciar(t) /\ extremo' = [extremo EXCEPT ![sock[t]] = "cortado",
                                                      ![sock'[t]] = "abierto"]
  <2>1. extremo' \in [Fds -> {"libre", "abierto", "cortado"}]
      BY <1>2, Tipos DEF MundoTypeOK
  <2>2. seniales' \in 0 .. MaxSeniales
      BY <1>1, TiposEnt
  <2>3. EntrenadorOK' /\ bill' \in [Entrenadores -> [Pokenests -> Nat]]
      BY <1>2, <2>2, ReiniciarEs
  <2>4. Conectar(t)
      BY <1>2 DEF Reiniciar
  <2>5. MundoTypeOK'
      BY <1>1, <2>1, <2>3, <2>4, ConectarEs, Enlace
  <2> QED BY <2>3, <2>5, MapaQueda
<1>3. CASE /\ extremo' = [extremo EXCEPT ![sock[t]] = "cortado"]
           /\ sock' = [sock EXCEPT ![t] = 0]
           /\ ent' = [ent EXCEPT ![t].estado = "COLGADO"]
           /\ UNCHANGED <<cola, bill>>
  <2>1. extremo' \in [Fds -> {"libre", "abierto", "cortado"}]
      BY <1>3, Tipos DEF MundoTypeOK
  <2>2. sock' \in [Entrenadores -> Fds \union {0}]
      BY <1>3, Tipos DEF MundoTypeOK
  <2>3. /\ cola' \in Seq([fd : Fds, quien : Entrenadores])
        /\ bill' \in [Entrenadores -> [Pokenests -> Nat]]
      BY <1>3, Tipos DEF MundoTypeOK
  <2>4. MundoTypeOK'
      BY <1>1, <2>1, <2>2, <2>3, Enlace
  <2> DEFINE e == [ent[t] EXCEPT !.estado = "COLGADO"]
  <2>5. ent[t].estado \in {"EN_DEADLOCK", "COLGADO"} /\ ent[t] \in Ents
      BY <1>1, TiposEnt DEF Coherente, EstadoQueEspera
  <2>6. /\ e \in Ents /\ e.estado = "COLGADO" /\ e.espera = "veredicto"
        /\ e.obj = ent[t].obj
      BY <1>1, <2>5 DEF Ents, Estados
  <2>7. ent' = [ent EXCEPT ![t] = e]
      BY <1>3
  <2> HIDE DEF e
  <2>8. "COLGADO" \in EstadoQueEspera["veredicto"]
      BY DEF EstadoQueEspera
  <2>9. Coherente(t, e)
      BY <2>5, <2>6, <2>8, TiposEnt DEF Coherente
  <2>10. EntrenadorOK'
      BY <1>1, <2>7, <2>9, TiposEnt, UnoCambia
  <2> QED BY <2>4, <2>10, MapaQueda
<1> QED BY <1>2, <1>3 DEF UltimaMuerte

(* The signals.                                                             *)
LEMMA PasoSenial ==
    ASSUME Supuestos, Control, NEW t \in Entrenadores, UNCHANGED <<mapa, dd>>,
           EntrenadorSenial(t)
    PROVE  Control'
<1>1. Senial(t) /\ seniales' \in 0 .. MaxSeniales
  <2>1. Senial(t) /\ seniales' = seniales + 1 /\ seniales < MaxSeniales
      BY DEF EntrenadorSenial, SIGUSR1, SIGTERM, SIGINT, ReiniciarEnLaSenial, Senial
  <2>2. MaxSeniales \in Nat
      BY DEF Supuestos, EntrenadorAssumption
  <2> QED BY <2>1, <2>2, TiposEnt
<1>2. ent \in [Entrenadores -> Ents] /\ ent[t] \in Ents /\ ent[t].vidas \in Nat
  <2>1. ent \in [Entrenadores -> Ents] /\ ent[t] \in Ents
      BY TiposEnt
  <2> QED BY <2>1 DEF Ents
<1>3. ASSUME NEW v \in Nat, ent' = [ent EXCEPT ![t].vidas = v], UNCHANGED mundo
      PROVE  Control'
  <2> DEFINE e == [ent[t] EXCEPT !.vidas = v]
  <2>1. /\ e \in Ents /\ e.estado = ent[t].estado /\ e.espera = ent[t].espera
        /\ e.obj = ent[t].obj /\ ent' = [ent EXCEPT ![t] = e]
      BY <1>2, <1>3 DEF Ents
  <2> HIDE DEF e
  <2>2. Coherente(t, e)
      BY <2>1, TiposEnt DEF Coherente
  <2>3. EntrenadorOK'
      BY <1>1, <2>1, <2>2, UnoCambia
  <2>4. MundoTypeOK'
      BY <1>3, Tipos, MundoQueda
  <2> QED BY <2>3, <2>4, MapaQueda
<1>4. CASE SIGUSR1(t)
  <2> DEFINE v == ent[t].vidas + 1
  <2>1. v \in Nat /\ ent' = [ent EXCEPT ![t].vidas = v] /\ UNCHANGED mundo
      BY <1>2, <1>4 DEF SIGUSR1
  <2> HIDE DEF v
  <2> QED BY <1>3, <2>1
<1>5. CASE SIGTERM(t)
  <2> DEFINE v == ent[t].vidas - 1
  <2>1. ent[t].vidas > 0 /\ ent' = [ent EXCEPT ![t].vidas = v] /\ UNCHANGED mundo
      BY <1>5 DEF SIGTERM
  <2>2. v \in Nat
      BY <1>2, <2>1
  <2> HIDE DEF v
  <2> QED BY <1>3, <2>1, <2>2
<1>6. CASE SIGINT(t)
  <2>1. /\ Cerrar(sock[t]) /\ sock' = [sock EXCEPT ![t] = 0]
        /\ UNCHANGED <<aMapa, cola, nido, bill>>
        /\ ent' = [ent EXCEPT ![t].estado = "SALIO", ![t].espera = "nada"]
      BY <1>6 DEF SIGINT, archivos
  <2> QED BY <1>1, <2>1, PasoSeVa
<1>7. CASE ReiniciarEnLaSenial(t)
  <2>1. /\ Reiniciar(t) /\ extremo' = [extremo EXCEPT ![sock'[t]] = "abierto"]
        /\ UNCHANGED <<aMapa, aEntrenador, nido>>
      BY <1>7 DEF ReiniciarEnLaSenial
  <2>2. extremo' \in [Fds -> {"libre", "abierto", "cortado"}]
      BY <2>1, Tipos DEF MundoTypeOK
  <2>3. EntrenadorOK' /\ bill' \in [Entrenadores -> [Pokenests -> Nat]]
      BY <1>1, <2>1, ReiniciarEs
  <2>4. Conectar(t)
      BY <2>1 DEF Reiniciar
  <2>5. MundoTypeOK'
      BY <2>1, <2>2, <2>3, <2>4, ConectarEs, Enlace
  <2> QED BY <2>3, <2>5, MapaQueda
<1> QED BY <1>4, <1>5, <1>6, <1>7 DEF EntrenadorSenial

(* Every step of a trainer.                                                 *)
LEMMA PasoDeEntrenador ==
    ASSUME Supuestos, Control, NEW t \in Entrenadores, UNCHANGED <<mapa, dd>>,
           EntrenadorPaso(t) \/ EntrenadorSenial(t)
    PROVE  Control'
<1>1. CASE MorirSinPokemons(t)
  <2>1. /\ Cerrar(sock[t]) /\ sock' = [sock EXCEPT ![t] = 0]
        /\ UNCHANGED <<aMapa, cola, nido, bill, seniales>>
        /\ ent' = [ent EXCEPT ![t].estado = "SALIO"] /\ ent[t].espera = "nada"
      BY <1>1 DEF MorirSinPokemons, archivos
  <2>2. seniales' \in 0 .. MaxSeniales
      BY <2>1, TiposEnt
  <2> QED BY <2>1, <2>2, PasoSeVa
<1>2. CASE Completar(t)
  <2>1. /\ Cerrar(sock[t]) /\ sock' = [sock EXCEPT ![t] = 0]
        /\ UNCHANGED <<aMapa, cola, nido, bill, seniales>>
        /\ ent' = [ent EXCEPT ![t].estado = "MAPA_COMPLETADO", ![t].espera = "nada"]
      BY <1>2 DEF Completar, archivos
  <2>2. seniales' \in 0 .. MaxSeniales
      BY <2>1, TiposEnt
  <2> QED BY <2>1, <2>2, PasoSeVa
<1> QED BY <1>1, <1>2, PasoPedidos, PasoMover, PasoDarPokemon, PasoAcusar, PasoRespuestas,
           PasoCoordenada, PasoMovido, PasoCapturado, PasoHandShake, PasoFallecer,
           PasoUltimaMuerte, PasoSenial DEF EntrenadorPaso

-----------------------------------------------------------------------------
(* The invariant.                                                           *)

(* It holds at the start ...                                                *)
LEMMA ControlInicial ==
    ASSUME Supuestos, Init
    PROVE  Control
<1>1. MundoTypeOK
  <2>1. SonMensajes(<<>>, DatosAlMapa) /\ SonMensajes(<<>>, DatosAlEntrenador)
      BY DEF SonMensajes
  <2>2. /\ aMapa = [s \in Fds |-> <<>>] /\ aEntrenador = [s \in Fds |-> <<>>]
        /\ extremo = [s \in Fds |-> "libre"] /\ sock = [t \in Entrenadores |-> 0]
        /\ cola = <<>> /\ bill = [t \in Entrenadores |-> [p \in Pokenests |-> 0]]
      BY DEF Init, MundoInit
  <2>3. SonBuzones(aMapa, DatosAlMapa) /\ SonBuzones(aEntrenador, DatosAlEntrenador)
      BY <2>1, <2>2 DEF SonBuzones
  <2>4. nido \in [Pokenests -> Nat]
      BY DEF Init, MapaInit, Supuestos, MapaAssumption
  <2>5. cola \in Seq([fd : Fds, quien : Entrenadores])
      BY <2>2
  <2> QED BY <2>2, <2>3, <2>4, <2>5 DEF MundoTypeOK
<1>2. MapaOK
  <2>1. modo \in Modos /\ pcb = <<>> /\ listos = <<>> /\ bloqueados = <<>>
      BY DEF Init, MapaInit
  <2>2. rec = [l \in 1..MaxPcb |-> [p \in Pokenests |-> 0]] /\ cant = Stock
      BY DEF Init, MapaInit
  <2>3. llave = NADIE /\ llaveB = NADIE /\ semGui = 1 /\ semYa = 0 /\ caida = "no"
      BY DEF Init, MapaInit
  <2>4. pl = [pc |-> "elegir", corre |-> 0, queda |-> 0, vez |-> 1, sitio |-> 0,
              cierra |-> FALSE]
      BY DEF Init, MapaInit
  <2>5. aceptando \in BOOLEAN
      BY DEF Init, MapaInit
  <2>6. rec \in [1..MaxPcb -> [Pokenests -> Nat]]
      BY <2>2
  <2>7. cant \in [Pokenests -> Int]
      BY <2>2 DEF Supuestos, MapaAssumption
  <2>8. pl \in Pls
      BY <2>4 DEF Pls, Pasos, Supuestos, MapaAssumption
  <2>9. pcb \in Seq(Pcbs) /\ Len(pcb) = 0 /\ 0 <= MaxPcb
        /\ listos \in Seq(1..Len(pcb)) /\ bloqueados \in Seq(1..Len(pcb))
      BY <2>1 DEF Supuestos, MapaAssumption
  <2>10. MapaTypeOK
      BY <2>1, <2>3, <2>5, <2>6, <2>7, <2>8, <2>9 DEF MapaTypeOK, Hilos, NADIE
  <2>11. ControlPlan
      BY <2>4 DEF ControlPlan, Sirviendo
  <2> QED BY <2>10, <2>11 DEF MapaOK
<1>3. DeteccionOK
  <2>1. dd = [pc |-> "mirar", marcados |-> <<>>, pierde |-> 1, leido |-> SinLeer, i |-> 1,
              tope |-> 0]
      BY DEF Init, DeteccionInit
  <2>2. <<>> \in Seq(1..Len(pcb))
      OBVIOUS
  <2>3. dd \in DDs
      BY <2>1, <2>2 DEF DDs, PasosDD, SinLeer
  <2> QED BY <2>1, <2>3 DEF DeteccionOK, DeteccionTypeOK, ControlDD
<1>4. EntrenadorOK
  <2> DEFINE e(t) == [estado |-> "SIN_MAPA", pos |-> <<0, 0>>, obj |-> 1,
                      ultima |-> "SIN_DIRECCION", meta |-> <<0, 0>>, espera |-> "nada",
                      vidas |-> Vidas[t], intentos |-> 0]
  <2>1. ent = [t \in Entrenadores |-> e(t)] /\ seniales = 0
      BY DEF Init, EntrenadorInit
  <2>2. ASSUME NEW t \in Entrenadores PROVE Coherente(t, e(t))
    <3>1. Vidas[t] \in Nat
        BY DEF Supuestos, EntrenadorAssumption
    <3>2. <<0, 0>> \in Nat \X Nat /\ <<0, 0>> \in Int \X Int
        OBVIOUS
    <3>3. e(t) \in Ents
        BY <3>1, <3>2 DEF Ents, Estados, Respuestas, Direcciones
    <3>4. "SIN_MAPA" \in EstadoQueEspera["nada"]
        BY DEF EstadoQueEspera, Estados
    <3>5. Objetivos[t] \in Seq(Pokenests) /\ Objetivos[t] # <<>>
        BY DEF Supuestos, MundoAssumption
    <3>6. 1 <= Len(Objetivos[t])
        BY <3>5, EmptySeq
    <3> QED BY <3>3, <3>4, <3>6 DEF Coherente
  <2> HIDE DEF e
  <2>3. ent \in [Entrenadores -> Ents]
      BY <2>1, <2>2 DEF Coherente
  <2>4. seniales \in 0 .. MaxSeniales
      BY <2>1 DEF Supuestos, EntrenadorAssumption
  <2>5. \A t \in Entrenadores : Coherente(t, ent[t])
      BY <2>1, <2>2
  <2> QED BY <2>3, <2>4, <2>5 DEF EntrenadorOK, EntrenadorTypeOK, ControlEnt, Coherente
<1> QED BY <1>1, <1>2, <1>3, <1>4 DEF Control

(* ... and every step keeps it.                                             *)
LEMMA ControlPaso ==
    ASSUME Supuestos, Control, [Next]_vars
    PROVE  Control'
<1>1. CASE MapaPaso /\ UNCHANGED <<dd, ent, seniales>>
    BY <1>1, PasoDelMapa
<1>2. CASE DeteccionPaso /\ UNCHANGED <<ent, seniales>>
    BY <1>2, PasoDeLaDeteccion
<1>3. ASSUME NEW t \in Entrenadores, EntrenadorPaso(t) \/ EntrenadorSenial(t),
             UNCHANGED <<mapa, dd>>
      PROVE  Control'
    BY <1>3, PasoDeEntrenador
<1>4. CASE UNCHANGED vars
  <2>1. UNCHANGED <<mundo, mapa, dd, ent, seniales>>
      BY <1>4 DEF vars, deteccion, entrenadores
  <2>2. MundoTypeOK'
      BY <2>1, MundoQueda, Tipos
  <2>3. EntrenadorOK'
      BY <2>1, EntrenadorQueda
  <2> QED BY <2>1, <2>2, <2>3, MapaQueda
<1> QED BY <1>1, <1>2, <1>3, <1>4 DEF Next

(* Where each thread is and what its variables mean there: the planner only *)
(* serves who is in listaListos, the deadlock detection has both fighters   *)
(* of a battle, and each trainer only waits for what its state asks and     *)
(* still has an objective to ask for.                                       *)
THEOREM ControlSiempre == Spec => []Control
<1>1. Supuestos
    BY MundoAssumption, MapaAssumption, EntrenadorAssumption DEF Supuestos
<1>2. Init => Control
    BY <1>1, ControlInicial
<1>3. Control /\ [Next]_vars => Control'
    BY <1>1, ControlPaso
<1> QED BY <1>2, <1>3, PTL DEF Spec

(* Every variable of the map, of its trainers and of what they share keeps  *)
(* its type: no index runs out of a list, and no message is one the other   *)
(* side does not know.                                                      *)
THEOREM TipoDelJuego == Spec => []TypeOK
<1>1. Control => TypeOK
    BY DEF Control, MapaOK, DeteccionOK, EntrenadorOK, TypeOK
<1> QED BY <1>1, ControlSiempre, PTL
=============================================================================
