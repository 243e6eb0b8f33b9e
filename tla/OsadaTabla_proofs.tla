-------------------------- MODULE OsadaTabla_proofs --------------------------
(***************************************************************************)
(* Proofs about OsadaTabla, for any number of clients, entries and names.  *)
(* Types and the marks of the entries in flight hold for any requests;     *)
(* that a creation finds a free entry and writes over nothing, when one    *)
(* client creates (UnAutor); that the table is a tree, when besides each   *)
(* name has one client that deletes it (CadaUnoLoSuyo).                    *)
(***************************************************************************)
EXTENDS OsadaTabla, FiniteSetTheorems, WellFoundedInduction, TLAPS

(* Where a thread is agrees with what it has in hand.                      *)
Control(h) ==
    /\ pc[h] # "libre" => ped[h] \in Pedidos
    /\ pc[h] \in {"destino", "renombrar"} => ped[h].op = "renombrar"
    /\ pc[h] = "eliminar" => desc[h] # NIL
    /\ pc[h] \notin {"buscar", "seguir", "sinEntrada", "ajena"} => pos[h] \in Entradas

Base == TypeOK /\ (\A h \in Hilos : Control(h)) /\ EntradaDeUno

LEMMA NPositivo == NEntradas \in Nat /\ NEntradas > 0 /\ Ajenas \in Nat
<1>1. NEntradas \in Nat \ {0} /\ Ajenas \in Nat
    BY ConstantesTabla
<1> QED BY <1>1

LEMMA TiposFijos ==
    /\ Vacia \in Descriptores /\ DescRaiz \in Descriptores
    /\ TablaVacia \in [Entradas -> Descriptores]
    /\ NoVieja \in [pos: Entradas \cup {RAIZ}, desc: Descriptores,
                    existe: BOOLEAN]
    /\ <<>> \in Seq(Nombres)
    /\ Entradas \subseteq Posiciones
    /\ NIL \notin Descriptores
    /\ 0 \in Posiciones /\ 0 \in Entradas
<1>1. Vacia \in Descriptores /\ DescRaiz \in Descriptores
    BY DEF Vacia, DescRaiz, Descriptores
<1>2. TablaVacia \in [Entradas -> Descriptores]
    BY <1>1 DEF TablaVacia
<1>3. NoVieja \in [pos: Entradas \cup {RAIZ}, desc: Descriptores,
                  existe: BOOLEAN]
    BY <1>1 DEF NoVieja
<1>4. NIL \notin Descriptores
    BY ConstantesTabla DEF Descriptores
<1>5. /\ Entradas \subseteq Posiciones
      /\ 0 \in Posiciones /\ 0 \in Entradas
    BY NPositivo DEF Entradas, Posiciones
<1> QED BY <1>1, <1>2, <1>3, <1>4, <1>5

LEMMA UltimoNombre ==
    ASSUME NEW s \in Seq(Nombres), s # <<>>
    PROVE  Ultimo(s) \in Nombres
<1>1. Len(s) \in 1 .. Len(s)
    OBVIOUS
<1> QED BY <1>1 DEF Ultimo

LEMMA BaseInicial == Init => Base
<1> SUFFICES ASSUME Init PROVE Base
    OBVIOUS
<1>1. TypeOK
    BY TiposFijos, ConstantesTabla DEF Init, TypeOK, Estados
<1>2. \A h \in Hilos : Control(h)
    BY TiposFijos DEF Init, Control
<1>3. EntradaDeUno
    BY DEF Init, EntradaDeUno, Tiene
<1> QED BY <1>1, <1>2, <1>3 DEF Base

(* A step of h that touches its own variables only.                        *)
SoloDe(h) ==
    \A g \in Hilos \ {h} :
        /\ pc'[g] = pc[g] /\ ped'[g] = ped[g] /\ desc'[g] = desc[g]
        /\ pos'[g] = pos[g]

LEMMA ControlAjeno ==
    ASSUME Base, NEW h \in Hilos, SoloDe(h), NEW g \in Hilos \ {h}
    PROVE  Control(g)'
BY DEF Base, Control, SoloDe

(* A thread that neither takes nor gives back an entry.                    *)
LEMMA EntradasIguales ==
    ASSUME Base, NEW h \in Hilos, SoloDe(h), UNCHANGED otorgadas,
           pc[h] \notin {"escribir", "devolver"},
           pc'[h] \notin {"escribir", "devolver"}
    PROVE  EntradaDeUno'
<1>1. \A g \in Hilos, e \in Entradas : Tiene(g, e)' <=> Tiene(g, e)
    BY DEF SoloDe, Tiene
<1> QED BY <1>1 DEF Base, EntradaDeUno

LEMMA OlvidarSolo ==
    ASSUME Base, NEW h \in Hilos, Olvidar(h)
    PROVE  /\ SoloDe(h) /\ pc'[h] = "libre"
           /\ pc' \in [Hilos -> Estados]
           /\ ped' \in [Hilos -> Pedidos \cup {NoPed}]
           /\ copia' \in [Hilos -> [Entradas -> Descriptores]]
           /\ partes' \in [Hilos -> Seq(Nombres)]
           /\ arr' \in [Hilos -> Entradas \cup {RAIZ}]
           /\ desc' \in [Hilos -> Descriptores \cup {NIL}]
           /\ vieja' \in [Hilos -> [pos: Entradas \cup {RAIZ},
                                    desc: Descriptores, existe: BOOLEAN]]
           /\ pos' \in [Hilos -> Posiciones]
           /\ Control(h)'
BY TiposFijos DEF Base, TypeOK, Olvidar, SoloDe, Estados, Control

LEMMA BaseOlvidar ==
    ASSUME Base, NEW h \in Hilos, Olvidar(h), UNCHANGED <<otorgadas, ultima, mutex>>,
           pc[h] \notin {"escribir", "devolver"}, vivo' \in BOOLEAN,
           tabla' \in [Entradas -> Descriptores]
    PROVE  Base'
<1>1. TypeOK'
    BY OlvidarSolo DEF TypeOK, Base
<1>2. EntradaDeUno'
    BY OlvidarSolo, EntradasIguales
<1> QED BY <1>1, <1>2, OlvidarSolo, ControlAjeno DEF Base

-----------------------------------------------------------------------------
LEMMA BasePaso ==
    ASSUME Base, NEW h \in Hilos, Paso(h)
    PROVE  Base'
<1> USE TiposFijos
<1>0. TypeOK /\ Control(h)
    BY DEF Base
<1>a. ASSUME Responder(h), pc[h] \notin {"escribir", "devolver"}
      PROVE  Base'
    BY <1>0, <1>a, BaseOlvidar DEF Responder, compartido, TypeOK
(* A step of h on its own variables that leaves the free entries alone.    *)
<1>b. ASSUME TypeOK', SoloDe(h), Control(h)', UNCHANGED otorgadas,
             pc[h] \notin {"escribir", "devolver"},
             pc'[h] \notin {"escribir", "devolver"}
      PROVE  Base'
    BY <1>b, ControlAjeno, EntradasIguales DEF Base
<1>1. CASE Contar(h)
    <2>1. CASE HayDescriptores /\ pc' = [pc EXCEPT ![h] = "camino"]
               /\ UNCHANGED <<compartido, ped, copia, camino, vieja, pos>>
        BY <1>0, <1>1, <1>b, <2>1
           DEF Contar, compartido, camino, TypeOK, SoloDe, Control, Estados
    <2> QED BY <1>1, <1>a, <2>1 DEF Contar
<1>2. CASE LeerParte(h)
    <2>1. Tail(partes[h]) \in Seq(Nombres)
        BY <1>0, <1>2 DEF LeerParte, TypeOK
    <2>2. /\ arr' \in [Hilos -> Entradas \cup {RAIZ}]
          /\ desc' \in [Hilos -> Descriptores \cup {NIL}]
          /\ \A g \in Hilos \ {h} : desc'[g] = desc[g]
        <3>1. CASE UNCHANGED arr /\ desc' = [desc EXCEPT ![h] = NIL]
            BY <1>0, <3>1 DEF TypeOK
        <3>2. ASSUME NEW e \in Entradas, arr' = [arr EXCEPT ![h] = e],
                     desc' = [desc EXCEPT ![h] = tabla[e]]
              PROVE  <2>2!1 /\ <2>2!2 /\ <2>2!3
            <4>1. tabla[e] \in Descriptores
                BY <1>0 DEF TypeOK
            <4> QED BY <1>0, <3>2, <4>1 DEF TypeOK
        <3> QED BY <1>2, <3>1, <3>2 DEF LeerParte
    <2>3. TypeOK'
        BY <1>0, <1>2, <2>1, <2>2 DEF LeerParte, TypeOK, compartido
    <2> QED BY <1>0, <1>2, <1>b, <2>2, <2>3
            DEF LeerParte, SoloDe, Control, compartido
<1>3. CASE DecidirCrear(h)
    <2>1. CASE pc' = [pc EXCEPT ![h] = "copiar"]
               /\ UNCHANGED <<compartido, ped, copia, camino, vieja, pos>>
        BY <1>0, <1>3, <1>b, <2>1
           DEF DecidirCrear, FinDe, compartido, camino, TypeOK, SoloDe,
               Control, Estados
    <2> QED BY <1>3, <1>a, <2>1 DEF DecidirCrear, FinDe
<1>4. CASE DecidirEliminar(h)
    <2>1. CASE /\ ArchivoExiste(h) /\ pc' = [pc EXCEPT ![h] = "eliminar"]
               /\ UNCHANGED <<compartido, ped, copia, camino, vieja, pos>>
        BY <1>0, <1>4, <1>b, <2>1
           DEF DecidirEliminar, FinDe, compartido, camino, TypeOK, SoloDe,
               Control, Estados, ArchivoExiste
    <2> QED BY <1>4, <1>a, <2>1 DEF DecidirEliminar, FinDe
<1>5. CASE Eliminar(h)
    <2>0. desc[h] \in Descriptores
        BY <1>0, <1>5 DEF Eliminar, Control, TypeOK
    <2>1. [desc[h] EXCEPT !.state = "DELETED"] \in Descriptores
        BY <2>0 DEF Descriptores
    <2>2. tabla' \in [Entradas -> Descriptores]
        BY <1>0, <1>5, <2>1 DEF Eliminar, TypeOK
    <2> QED BY <1>0, <1>5, <2>2, BaseOlvidar DEF Eliminar, TypeOK
<1>6. CASE PasarAlDestino(h)
    <2>1. ped[h] \in Pedidos /\ ped[h].op = "renombrar"
        BY <1>0, <1>6 DEF PasarAlDestino, FinDe, Control
    <2>2. ped[h].destino \in Seq(Nombres)
        BY <2>1, ConstantesTabla
    <2>3. IF ArchivoExiste(h) THEN desc[h] \in Descriptores ELSE TRUE
        BY <1>0 DEF ArchivoExiste, TypeOK
    <2>4. vieja' \in [Hilos -> [pos: Entradas \cup {RAIZ}, desc: Descriptores,
                              existe: BOOLEAN]]
        <3>1. ArchivoExiste(h) \in BOOLEAN /\ arr[h] \in Entradas \cup {RAIZ}
            BY <1>0 DEF ArchivoExiste, TypeOK
        <3> QED BY <1>0, <1>6, <2>3, <3>1 DEF PasarAlDestino, TypeOK
    <2>5. TypeOK'
        BY <1>0, <1>6, <2>2, <2>4 DEF PasarAlDestino, TypeOK, compartido, Estados
    <2> QED BY <1>0, <1>6, <1>b, <2>1, <2>5
            DEF PasarAlDestino, SoloDe, Control, compartido, TypeOK, FinDe
<1>7. CASE DecidirRenombrar(h)
    <2>1. CASE /\ pc' = [pc EXCEPT ![h] = "renombrar"]
               /\ UNCHANGED <<compartido, ped, copia, camino, vieja, pos>>
        BY <1>0, <1>7, <1>b, <2>1
           DEF DecidirRenombrar, FinDe, compartido, camino, TypeOK, SoloDe,
               Control, Estados
    <2> QED BY <1>7, <1>a, <2>1 DEF DecidirRenombrar, FinDe
<1>8. CASE Renombrar(h)
    <2>1. ped[h] \in Pedidos /\ ped[h].op = "renombrar"
        BY <1>0, <1>8 DEF Renombrar, Control
    <2>2. Ultimo(ped[h].destino) \in Nombres
        BY <2>1, ConstantesTabla, UltimoNombre
    <2>3. [vieja[h].desc EXCEPT !.fname = Ultimo(ped[h].destino),
                                !.parent = arr[h]] \in Descriptores
        BY <1>0, <2>2 DEF TypeOK, Descriptores
    <2>4. tabla' \in [Entradas -> Descriptores]
        BY <1>0, <1>8, <2>3 DEF Renombrar, TypeOK
    <2> QED BY <1>0, <1>8, <2>4, BaseOlvidar DEF Renombrar, TypeOK
<1>9. CASE CopiarTabla(h)
    BY <1>0, <1>9, <1>b
       DEF CopiarTabla, compartido, camino, TypeOK, SoloDe, Control, Estados
<1>9a. CASE MirarUltima(h)
    BY <1>0, <1>9a, <1>b
       DEF MirarUltima, compartido, camino, TypeOK, SoloDe, Control, Estados
<1>10. CASE ReiniciarUltima(h)
    <2>1. ultima' \in Posiciones
        BY <1>10 DEF ReiniciarUltima
    <2>2. TypeOK'
        BY <1>0, <1>10, <2>1 DEF ReiniciarUltima, camino, TypeOK, Estados
    <2> QED BY <1>0, <1>10, <1>b, <2>2
            DEF ReiniciarUltima, camino, SoloDe, Control, TypeOK
<1>11. CASE LeerUltima(h)
    BY <1>0, <1>11, <1>b
       DEF LeerUltima, compartido, camino, TypeOK, SoloDe, Control, Estados
<1>12. CASE OtorgarEntrada(h)
    <2>1. ultima' \in Posiciones
        BY <1>12, NPositivo DEF OtorgarEntrada, Despues, Entradas, Posiciones
    <2>2. TypeOK'
        BY <1>0, <1>12, <2>1 DEF OtorgarEntrada, camino, TypeOK, Estados
    <2>3. SoloDe(h) /\ Control(h)'
        BY <1>0, <1>12 DEF OtorgarEntrada, SoloDe, Control, TypeOK, camino
    <2>4. ~otorgadas[pos[h]] /\ otorgadas' = [otorgadas EXCEPT ![pos[h]] = TRUE]
          /\ pos[h] \in Entradas
        BY <1>12 DEF OtorgarEntrada, Sirve
    <2>5. \A e \in Entradas, g \in Hilos :
              Tiene(g, e)' <=> Tiene(g, e) \/ (g = h /\ e = pos[h])
        BY <1>0, <1>12, <2>3 DEF Tiene, OtorgarEntrada, SoloDe, TypeOK
    <2>6. EntradaDeUno'
        BY <1>0, <2>4, <2>5 DEF Base, EntradaDeUno, TypeOK
    <2> QED BY <2>2, <2>3, <2>6, ControlAjeno DEF Base
<1>12a. CASE OtorgarAjena(h)
    <2>1. ultima' \in Posiciones
        BY <1>0, <1>12a, NPositivo DEF OtorgarAjena, Despues, Posiciones, TypeOK
    <2>2. TypeOK'
        BY <1>0, <1>12a, <2>1 DEF OtorgarAjena, camino, TypeOK, Estados
    <2> QED BY <1>0, <1>12a, <1>b, <2>2
            DEF OtorgarAjena, camino, SoloDe, Control, TypeOK
<1>12b. CASE MorirBuscando(h)
    BY <1>0, <1>12b, <1>b DEF MorirBuscando, camino, TypeOK, SoloDe, Control
<1>13. CASE PasarEntrada(h)
    <2>1. Siguiente(pos[h]) \in Posiciones
        BY <1>0, <1>13, NPositivo DEF PasarEntrada, Siguiente, Posiciones, TypeOK
    <2>2. mutex' \in Hilos \cup {NIL} /\ pc' \in [Hilos -> Estados]
          /\ pc'[h] \in {"sinEntrada", "seguir"}
          /\ \A g \in Hilos \ {h} : pc'[g] = pc[g]
        BY <1>0, <1>13 DEF PasarEntrada, TypeOK, Estados
    <2>3. TypeOK'
        BY <1>0, <1>13, <2>1, <2>2 DEF PasarEntrada, camino, TypeOK
    <2> QED BY <1>0, <1>13, <1>b, <2>2, <2>3
            DEF PasarEntrada, camino, SoloDe, Control, TypeOK
<1>14. CASE SeguirBuscando(h)
    BY <1>0, <1>14, <1>b
       DEF SeguirBuscando, compartido, camino, TypeOK, SoloDe, Control, Estados
<1>15. CASE SinEntrada(h)
    <2>1. CASE vivo' = FALSE /\ UNCHANGED <<pc, ped, copia, camino, vieja, pos>>
        BY <1>0, <1>15, <1>b, <2>1
           DEF SinEntrada, camino, TypeOK, SoloDe, Control
    <2>2. CASE Olvidar(h) /\ UNCHANGED vivo
        BY <1>0, <1>15, <2>2, BaseOlvidar DEF SinEntrada, TypeOK
    <2> QED BY <1>15, <2>1, <2>2 DEF SinEntrada
<1>16. CASE EscribirDescriptor(h)
    <2>1. ped[h] \in Pedidos
        BY <1>0, <1>16 DEF EscribirDescriptor, Control
    <2>2. Ultimo(ped[h].camino) \in Nombres
        BY <2>1, ConstantesTabla, UltimoNombre
    <2>3. [state |-> TipoDe(ped[h].op), fname |-> Ultimo(ped[h].camino),
           parent |-> arr[h]] \in Descriptores
        BY <1>0, <2>2 DEF TypeOK, Descriptores, TipoDe
    <2>4. TypeOK'
        BY <1>0, <1>16, <2>3 DEF EscribirDescriptor, camino, TypeOK, Estados
    <2>5. SoloDe(h) /\ Control(h)'
        BY <1>0, <1>16 DEF EscribirDescriptor, SoloDe, Control, TypeOK, camino
    <2>6. \A e \in Entradas, g \in Hilos : Tiene(g, e)' <=> Tiene(g, e)
        BY <1>0, <1>16, <2>5 DEF Tiene, EscribirDescriptor, SoloDe, TypeOK
    <2>7. EntradaDeUno'
        BY <1>16, <2>6 DEF Base, EntradaDeUno, EscribirDescriptor
    <2> QED BY <2>4, <2>5, <2>7, ControlAjeno DEF Base
<1>17. CASE DevolverEntrada(h)
    <2>1. SoloDe(h) /\ pc'[h] = "libre" /\ Control(h)'
        BY <1>17, OlvidarSolo DEF DevolverEntrada
    <2>2. otorgadas' \in [Entradas -> BOOLEAN]
        BY <1>0, <1>17 DEF DevolverEntrada, Devueltas, TypeOK
    <2>3. TypeOK'
        BY <1>0, <1>17, <2>2, OlvidarSolo DEF DevolverEntrada, TypeOK
    <2>4. \A e \in Entradas, g \in Hilos :
              Tiene(g, e)' <=> Tiene(g, e) /\ g # h
        BY <2>1 DEF Tiene, SoloDe
    <2>5. Tiene(h, pos[h]) /\ pos[h] \in Entradas
          /\ otorgadas' = [otorgadas EXCEPT ![pos[h]] = FALSE]
        BY <1>0, <1>17 DEF DevolverEntrada, Devueltas, Tiene, Control
    <2>6. EntradaDeUno'
        <3>0. PICK q \in Entradas : q = pos[h]
            BY <2>5
        <3>1. \A g \in Hilos : Tiene(g, q) => g = h
            BY <2>5, <3>0 DEF Base, EntradaDeUno
        <3>2. otorgadas'[q] = FALSE
            BY <1>0, <2>5, <3>0 DEF TypeOK
        <3>5. \A g \in Hilos : ~Tiene(g, q)'
            BY <2>4, <3>1
        <3>3. \A e \in Entradas \ {q} :
                  otorgadas'[e] = otorgadas[e] /\ ~Tiene(h, e)
            BY <1>0, <2>5, <3>0 DEF TypeOK, Tiene
        <3>4. \A e \in Entradas \ {q}, g \in Hilos :
                  Tiene(g, e)' <=> Tiene(g, e)
            BY <2>4, <3>3
        <3>6. ASSUME NEW e \in Entradas
              PROVE  /\ \A g, k \in Hilos : Tiene(g, e)' /\ Tiene(k, e)' => g = k
                     /\ otorgadas'[e] <=> \E g \in Hilos : Tiene(g, e)'
            <4>1. CASE e = q
                BY <3>2, <3>5, <4>1
            <4>2. CASE e # q
                BY <3>3, <3>4, <4>2 DEF Base, EntradaDeUno
            <4> QED BY <4>1, <4>2
        <3> QED BY <3>6 DEF EntradaDeUno
    <2> QED BY <2>1, <2>3, <2>6, ControlAjeno DEF Base
<1> QED
    BY <1>1, <1>2, <1>3, <1>4, <1>5, <1>6, <1>7, <1>8, <1>9, <1>10, <1>11,
       <1>9a, <1>12, <1>12a, <1>12b, <1>13, <1>14, <1>15, <1>16, <1>17 DEF Paso

LEMMA BaseRecibir ==
    ASSUME Base, NEW h \in Hilos, NEW p \in Pedidos, Recibir(h, p)
    PROVE  Base'
<1>1. p.camino \in Seq(Nombres)
    BY ConstantesTabla
<1>2. TypeOK'
    BY <1>1 DEF Base, TypeOK, Recibir, compartido, Estados
<1>3. SoloDe(h) /\ Control(h)'
    BY DEF Base, TypeOK, Recibir, SoloDe, Control, compartido
<1>4. EntradaDeUno'
    BY <1>3, EntradasIguales DEF Base, TypeOK, Recibir, compartido
<1> QED BY <1>2, <1>3, <1>4, ControlAjeno DEF Base

LEMMA BaseSiempre == Spec => []Base
<1>1. Base /\ [Next]_vars => Base'
    <2> SUFFICES ASSUME Base, [Next]_vars PROVE Base'
        OBVIOUS
    <2>1. CASE UNCHANGED vars
        BY <2>1 DEF vars, camino, Base, TypeOK, Control, EntradaDeUno, Tiene
    <2>2. CASE Next
        BY <2>2, BasePaso, BaseRecibir DEF Next
    <2> QED BY <2>1, <2>2
<1> QED BY BaseInicial, <1>1, PTL DEF Spec

-----------------------------------------------------------------------------
(* Every variable of the file table keeps its type, whatever the clients   *)
(* ask for.  ultimaEntradaLibreDeTabla and the searches may leave the      *)
(* table, no further than the process can read.                            *)
THEOREM TipoDeTabla == Spec => []TypeOK
<1>1. Base => TypeOK
    BY DEF Base
<1> QED BY BaseSiempre, <1>1, PTL

(* The marks of entradasLibresOtorgadas are exact: an entry is marked when *)
(* one thread holds it and only then, however stale the copies of the      *)
(* table that the searches follow.                                         *)
THEOREM EntradaSiempreDeUno == Spec => []EntradaDeUno
<1>1. Base => EntradaDeUno
    BY DEF Base
<1> QED BY BaseSiempre, <1>1, PTL

-----------------------------------------------------------------------------
(* Nobody else creates or moves.                                           *)
SoloBajas(h) ==
    pc[h] \in {"libre", "camino", "eliminar"} /\ (pc[h] # "libre" => ped[h].op = "eliminar")

Creando == {"crear", "mkdir"}
HayLibre(t) == \E e \in Entradas : ~Activa(t, e)

(* What the search went over since ultima, to the end and from the start.  *)
Pasada(a, e) ==
    IF ultima <= pos[a] THEN ultima <= e /\ e < pos[a] ELSE e >= ultima \/ e < pos[a]

(* A creation that counted keeps a free entry in the table and then in its *)
(* copy, and the search has not gone over it yet.                          *)
Promesa(a) ==
    /\ pc[a] \in {"camino", "copiar"} /\ ped[a].op \in Creando => HayLibre(tabla)
    /\ pc[a] = "copiar" => ped[a].op \in Creando
    /\ pc[a] \in {"reiniciar", "cero", "desde", "buscar", "seguir"} => HayLibre(copia[a])
    /\ pc[a] \in {"desde", "buscar", "seguir"} => ultima \in Entradas
    /\ pc[a] \in {"buscar", "seguir"} =>
         /\ pos[a] \in Entradas
         /\ \A e \in Entradas : Pasada(a, e) => Activa(copia[a], e)
    /\ pc[a] = "seguir" => pos[a] # ultima

Cumple(a) ==
    /\ Base /\ vivo /\ mutex = NIL /\ pc[a] \notin {"sinEntrada", "ajena"}
    /\ \A h \in Hilos \ {a} : SoloBajas(h)
    /\ Promesa(a)

(* Fewer active entries than entries: one is free.                         *)
LEMMA CuentaDejaLugar == HayDescriptores => HayLibre(tabla)
<1> SUFFICES ASSUME \A e \in Entradas : Activa(tabla, e) PROVE ~HayDescriptores
    BY DEF HayLibre
<1>1. {e \in Entradas : Activa(tabla, e)} = 0 .. (NEntradas - 1)
    BY DEF Entradas
<1>2. NEntradas \in Nat /\ NEntradas > 0
    BY NPositivo
<1>3. Cardinality(0 .. (NEntradas - 1)) = NEntradas
    BY <1>2, FS_Interval
<1>4. ObtenerCantidadDeArchivos = NEntradas
    BY <1>1, <1>3 DEF ObtenerCantidadDeArchivos
<1>5. ~(NEntradas < NEntradas)
    BY <1>2
<1> QED BY <1>4, <1>5 DEF HayDescriptores

(* Going on from an entry that is not free.                                *)
LEMMA PasaUnaMas ==
    ASSUME NEW u \in Entradas, NEW q \in Entradas, NEW e \in Entradas
    PROVE  LET P(r, x) == IF u <= r THEN u <= x /\ x < r ELSE x >= u \/ x < r
           IN  /\ Siguiente(q) \in Entradas
               /\ Siguiente(q) = u => P(q, e) \/ e = q
               /\ Siguiente(q) # u /\ P(Siguiente(q), e) => P(q, e) \/ e = q
<1>1. NEntradas \in Nat /\ NEntradas > 0 /\ Entradas = 0 .. NEntradas - 1
    BY NPositivo DEF Entradas
<1> QED BY <1>1 DEF Siguiente

(* Nobody else holds an entry while the author searches.                   *)
LEMMA NadaOtorgado ==
    ASSUME NEW a \in Hilos, Cumple(a), pc[a] \notin {"escribir", "devolver"},
           NEW e \in Entradas
    PROVE  ~otorgadas[e]
<1>1. \A h \in Hilos : ~Tiene(h, e)
    BY DEF Cumple, SoloBajas, Tiene
<1> QED BY <1>1 DEF Cumple, Base, EntradaDeUno

(* The others delete, and only that.                                       *)
LEMMA PasosAjenos ==
    ASSUME NEW h \in Hilos, SoloBajas(h), Paso(h)
    PROVE  LeerParte(h) \/ DecidirEliminar(h) \/ Eliminar(h)
BY DEF Paso, SoloBajas, Contar, DecidirCrear, FinDe, PasarAlDestino, DecidirRenombrar,
       Renombrar, CopiarTabla, MirarUltima, ReiniciarUltima, LeerUltima, OtorgarEntrada,
       OtorgarAjena, MorirBuscando, PasarEntrada, SeguirBuscando, SinEntrada,
       EscribirDescriptor, DevolverEntrada

(* So they keep the promise made to the author.                            *)
LEMMA CumpleAjeno ==
    ASSUME NEW a \in Hilos, Cumple(a), NEW h \in Hilos \ {a}, Paso(h)
    PROVE  Cumple(a)'
<1>0. Base /\ Base' /\ TypeOK /\ TypeOK'
    BY BasePaso DEF Cumple, Base
<1>1. SoloBajas(h)
    BY DEF Cumple
<1>2. LeerParte(h) \/ DecidirEliminar(h) \/ Eliminar(h)
    BY <1>1, PasosAjenos
<1>3. /\ UNCHANGED <<otorgadas, ultima, mutex, vivo>>
      /\ \A g \in Hilos \ {h} : /\ pc'[g] = pc[g] /\ ped'[g] = ped[g]
                                /\ copia'[g] = copia[g] /\ pos'[g] = pos[g]
      /\ pc'[h] \in {"libre", "camino", "eliminar"}
      /\ pc'[h] # "libre" => ped'[h] = ped[h] /\ pc[h] # "libre"
    BY <1>0, <1>1, <1>2
       DEF LeerParte, DecidirEliminar, Eliminar, Responder, Olvidar, compartido, camino, TypeOK,
           SoloBajas, FinDe
<1>4. HayLibre(tabla) => HayLibre(tabla')
  <2>1. CASE UNCHANGED tabla
      BY <2>1
  <2>2. CASE Eliminar(h)
    <3>1. ASSUME NEW e \in Entradas, ~Activa(tabla, e) PROVE ~Activa(tabla', e)
      <4>1. CASE e = arr[h]
        <5>1. desc[h] \in Descriptores
            BY <1>0, <2>2 DEF Base, Control, Eliminar, TypeOK
        <5> QED BY <1>0, <2>2, <4>1, <5>1 DEF Eliminar, TypeOK, Activa, Descriptores
      <4>2. CASE e # arr[h]
          BY <1>0, <2>2, <3>1, <4>2 DEF Eliminar, TypeOK, Activa
      <4> QED BY <4>1, <4>2
    <3> QED BY <3>1 DEF HayLibre
  <2> QED BY <1>2, <2>1, <2>2 DEF LeerParte, DecidirEliminar, Responder, compartido
<1>5. \A g \in Hilos \ {a} : SoloBajas(g)'
    BY <1>1, <1>3 DEF Cumple, SoloBajas
<1>6. pc'[a] = pc[a] /\ ped'[a] = ped[a] /\ copia'[a] = copia[a] /\ pos'[a] = pos[a]
    BY <1>3
<1>7. Promesa(a)'
    BY <1>3, <1>4, <1>6 DEF Cumple, Promesa, HayLibre, Pasada, Activa
<1> QED BY <1>0, <1>3, <1>5, <1>6, <1>7 DEF Cumple

(* Each step of the author.                                                *)
LEMMA CumpleSuyo ==
    ASSUME NEW a \in Hilos, Cumple(a), Paso(a)
    PROVE  Cumple(a)'
<1>0. Base /\ Base' /\ TypeOK /\ TypeOK'
    BY BasePaso DEF Cumple, Base
<1>1. Control(a) /\ pc[a] \notin {"sinEntrada", "ajena"} /\ vivo /\ mutex = NIL /\ Promesa(a)
    BY <1>0 DEF Cumple, Base
(* A step that touches nothing of the others.                              *)
<1>a. ASSUME UNCHANGED <<mutex, vivo>>, Promesa(a)', pc'[a] \notin {"sinEntrada", "ajena"},
             \A g \in Hilos \ {a} : pc'[g] = pc[g] /\ ped'[g] = ped[g]
      PROVE  Cumple(a)'
  <2>1. \A g \in Hilos \ {a} : SoloBajas(g)'
      BY <1>a DEF Cumple, SoloBajas
  <2> QED BY <1>0, <1>1, <1>a, <2>1 DEF Cumple
<1>b. ASSUME Olvidar(a), UNCHANGED <<mutex, vivo>> PROVE Cumple(a)'
  <2>1. pc'[a] = "libre" /\ \A g \in Hilos \ {a} : pc'[g] = pc[g] /\ ped'[g] = ped[g]
      BY <1>0, <1>b DEF Olvidar, TypeOK
  <2>2. Promesa(a)'
      BY <2>1 DEF Promesa
  <2> QED BY <1>a, <1>b, <2>1, <2>2
<1>c. ASSUME Responder(a) PROVE Cumple(a)'
    BY <1>b, <1>c DEF Responder, compartido
<1>1a. CASE Contar(a)
  <2>1. CASE HayDescriptores /\ pc' = [pc EXCEPT ![a] = "camino"]
             /\ UNCHANGED <<compartido, ped, copia, camino, vieja, pos>>
    <3>1. HayLibre(tabla)'
        BY <2>1, CuentaDejaLugar DEF HayLibre, Activa, compartido
    <3>2. pc'[a] = "camino" /\ \A g \in Hilos \ {a} : pc'[g] = pc[g] /\ ped'[g] = ped[g]
        BY <1>0, <2>1 DEF TypeOK
    <3>3. Promesa(a)'
        BY <3>1, <3>2 DEF Promesa
    <3> QED BY <1>a, <2>1, <3>2, <3>3 DEF compartido
  <2> QED BY <1>1a, <1>c, <2>1 DEF Contar
<1>2. CASE LeerParte(a)
  <2>1. UNCHANGED <<compartido, pc, ped, copia, pos>> /\ pc[a] \in {"camino", "destino"}
      BY <1>2 DEF LeerParte
  <2>2. Promesa(a)'
      BY <1>1, <2>1 DEF Promesa, HayLibre, Activa, compartido
  <2> QED BY <1>1, <1>a, <2>1, <2>2 DEF compartido
<1>3. CASE DecidirCrear(a)
  <2>1. CASE pc' = [pc EXCEPT ![a] = "copiar"]
             /\ UNCHANGED <<compartido, ped, copia, camino, vieja, pos>>
    <3>1. /\ pc'[a] = "copiar" /\ pc[a] = "camino" /\ ped[a].op \in Creando
          /\ \A g \in Hilos \ {a} : pc'[g] = pc[g] /\ ped'[g] = ped[g]
        BY <1>0, <1>3, <2>1 DEF TypeOK, DecidirCrear, FinDe, Creando
    <3>2. Promesa(a)'
        BY <1>1, <2>1, <3>1 DEF Promesa, HayLibre, Activa, compartido
    <3> QED BY <1>a, <2>1, <3>1, <3>2 DEF compartido
  <2> QED BY <1>3, <1>c, <2>1 DEF DecidirCrear
<1>4. CASE DecidirEliminar(a)
  <2>1. CASE pc' = [pc EXCEPT ![a] = "eliminar"]
             /\ UNCHANGED <<compartido, ped, copia, camino, vieja, pos>>
    <3>1. pc'[a] = "eliminar" /\ \A g \in Hilos \ {a} : pc'[g] = pc[g] /\ ped'[g] = ped[g]
        BY <1>0, <2>1 DEF TypeOK
    <3>2. Promesa(a)'
        BY <3>1 DEF Promesa
    <3> QED BY <1>a, <2>1, <3>1, <3>2 DEF compartido
  <2> QED BY <1>4, <1>c, <2>1 DEF DecidirEliminar
<1>5. CASE Eliminar(a)
    BY <1>5, <1>b DEF Eliminar
<1>6. CASE PasarAlDestino(a)
  <2>1. pc'[a] = "destino" /\ \A g \in Hilos \ {a} : pc'[g] = pc[g] /\ ped'[g] = ped[g]
      BY <1>0, <1>6 DEF TypeOK, PasarAlDestino
  <2>2. Promesa(a)'
      BY <2>1 DEF Promesa
  <2> QED BY <1>6, <1>a, <2>1, <2>2 DEF compartido, PasarAlDestino
<1>7. CASE DecidirRenombrar(a)
  <2>1. CASE pc' = [pc EXCEPT ![a] = "renombrar"]
             /\ UNCHANGED <<compartido, ped, copia, camino, vieja, pos>>
    <3>1. pc'[a] = "renombrar" /\ \A g \in Hilos \ {a} : pc'[g] = pc[g] /\ ped'[g] = ped[g]
        BY <1>0, <2>1 DEF TypeOK
    <3>2. Promesa(a)'
        BY <3>1 DEF Promesa
    <3> QED BY <1>a, <2>1, <3>1, <3>2 DEF compartido
  <2> QED BY <1>7, <1>c, <2>1 DEF DecidirRenombrar
<1>8. CASE Renombrar(a)
    BY <1>8, <1>b DEF Renombrar
<1>9. CASE CopiarTabla(a)
  <2>1. /\ pc'[a] = "reiniciar" /\ copia'[a] = tabla /\ pc[a] = "copiar"
        /\ \A g \in Hilos \ {a} : pc'[g] = pc[g] /\ ped'[g] = ped[g]
      BY <1>0, <1>9 DEF TypeOK, CopiarTabla
  <2>2. HayLibre(copia'[a])
      BY <1>1, <2>1 DEF Promesa
  <2>3. Promesa(a)'
      BY <2>1, <2>2 DEF Promesa, HayLibre, Activa
  <2> QED BY <1>9, <1>a, <2>1, <2>3 DEF compartido, CopiarTabla
<1>9a. CASE MirarUltima(a)
  <2>1. /\ pc'[a] \in {"cero", "desde"} /\ copia'[a] = copia[a] /\ pc[a] = "reiniciar"
        /\ pc'[a] = "desde" => ~(ultima >= NEntradas - 1)
        /\ ultima' = ultima
        /\ \A g \in Hilos \ {a} : pc'[g] = pc[g] /\ ped'[g] = ped[g]
      BY <1>0, <1>9a DEF TypeOK, MirarUltima, compartido
  <2>2. pc'[a] = "desde" => ultima' \in Entradas
      BY <1>0, <2>1, NPositivo DEF TypeOK, Entradas, Posiciones
  <2>3. Promesa(a)'
      BY <1>1, <2>1, <2>2 DEF Promesa, HayLibre, Activa
  <2> QED BY <1>9a, <1>a, <2>1, <2>3 DEF MirarUltima, compartido
<1>10. CASE ReiniciarUltima(a)
  <2>1. /\ pc'[a] = "desde" /\ copia'[a] = copia[a] /\ pc[a] = "cero"
        /\ \A g \in Hilos \ {a} : pc'[g] = pc[g] /\ ped'[g] = ped[g]
      BY <1>0, <1>10 DEF TypeOK, ReiniciarUltima
  <2>2. ultima' \in Entradas
      BY <1>10, NPositivo DEF ReiniciarUltima, Entradas
  <2>3. Promesa(a)'
      BY <1>1, <2>1, <2>2 DEF Promesa, HayLibre, Activa
  <2> QED BY <1>10, <1>a, <2>1, <2>3 DEF ReiniciarUltima
<1>11. CASE LeerUltima(a)
  <2>1. /\ pc'[a] = "buscar" /\ copia'[a] = copia[a] /\ pc[a] = "desde"
        /\ pos'[a] = ultima /\ ultima' = ultima
        /\ \A g \in Hilos \ {a} : pc'[g] = pc[g] /\ ped'[g] = ped[g]
      BY <1>0, <1>11 DEF TypeOK, LeerUltima, compartido
  <2>2. ultima \in Entradas
      BY <1>1, <2>1 DEF Promesa
  <2>3. \A e \in Entradas : ~Pasada(a, e)'
    <3>1. \A e \in Entradas : e \in Int /\ ultima \in Int
        BY <2>2, NPositivo DEF Entradas
    <3> QED BY <2>1, <3>1 DEF Pasada
  <2>4. Promesa(a)'
      BY <1>1, <2>1, <2>2, <2>3 DEF Promesa, HayLibre, Activa
  <2> QED BY <1>11, <1>a, <2>1, <2>4 DEF LeerUltima, compartido
<1>12. CASE OtorgarEntrada(a)
  <2>1. /\ pc'[a] = "escribir"
        /\ \A g \in Hilos \ {a} : pc'[g] = pc[g] /\ ped'[g] = ped[g]
      BY <1>0, <1>12 DEF TypeOK, OtorgarEntrada
  <2>2. Promesa(a)'
      BY <2>1 DEF Promesa
  <2> QED BY <1>12, <1>a, <2>1, <2>2 DEF OtorgarEntrada
<1>12a. ~OtorgarAjena(a) /\ ~MorirBuscando(a)
    BY <1>1 DEF OtorgarAjena, MorirBuscando, Promesa
<1>13. CASE PasarEntrada(a)
  <2>0. PICK q \in Entradas : q = pos[a]
      BY <1>1, <1>13 DEF PasarEntrada, Promesa
  <2>1. ultima \in Entradas /\ HayLibre(copia[a])
        /\ \A e \in Entradas : Pasada(a, e) => Activa(copia[a], e)
      BY <1>1, <1>13 DEF Promesa, PasarEntrada
  <2>2. Activa(copia[a], q)
      BY <1>13, <2>0, NadaOtorgado DEF PasarEntrada, Sirve
  <2>3. pos'[a] = Siguiente(q) /\ ultima' = ultima /\ copia' = copia
      BY <1>0, <1>13, <2>0 DEF PasarEntrada, TypeOK
  <2>4. PICK u \in Entradas : u = ultima
      BY <2>1
  <2>5. Siguiente(q) # u
    <3>1. SUFFICES ASSUME Siguiente(q) = u PROVE FALSE
        OBVIOUS
    <3>2. \A e \in Entradas : Pasada(a, e) \/ e = q
        BY <2>0, <2>4, <3>1, PasaUnaMas DEF Pasada
    <3> QED BY <2>1, <2>2, <3>2 DEF HayLibre
  <2>6. /\ pc'[a] = "seguir" /\ UNCHANGED <<mutex, vivo, ped>>
        /\ \A g \in Hilos \ {a} : pc'[g] = pc[g]
      BY <1>0, <1>13, <2>3, <2>4, <2>5 DEF PasarEntrada, TypeOK
  <2>7. \A e \in Entradas : Pasada(a, e)' => Pasada(a, e) \/ e = q
      BY <2>0, <2>3, <2>4, <2>5, PasaUnaMas DEF Pasada
  <2>8. Siguiente(q) \in Entradas
      BY PasaUnaMas
  <2>9. Promesa(a)'
      BY <2>1, <2>2, <2>3, <2>4, <2>5, <2>6, <2>7, <2>8 DEF Promesa, HayLibre, Activa
  <2> QED BY <1>a, <2>6, <2>9
<1>14. CASE SeguirBuscando(a)
  <2>1. /\ pc[a] = "seguir" /\ pos[a] # ultima
        /\ UNCHANGED <<compartido, ped, copia, pos>>
      BY <1>1, <1>14 DEF SeguirBuscando, Promesa
  <2>2. pc'[a] = "buscar" /\ \A g \in Hilos \ {a} : pc'[g] = pc[g]
      BY <1>0, <1>14, <2>1 DEF SeguirBuscando, TypeOK
  <2>3. \A e \in Entradas : Pasada(a, e)' <=> Pasada(a, e)
      BY <2>1 DEF Pasada, compartido
  <2>4. Promesa(a)'
      BY <1>1, <2>1, <2>2, <2>3 DEF Promesa, HayLibre, Activa, compartido
  <2> QED BY <1>a, <2>1, <2>2, <2>4 DEF compartido
<1>15. ~SinEntrada(a)
    BY <1>1 DEF SinEntrada, Promesa
<1>16. CASE EscribirDescriptor(a)
  <2>1. /\ pc'[a] = "devolver"
        /\ \A g \in Hilos \ {a} : pc'[g] = pc[g] /\ ped'[g] = ped[g]
      BY <1>0, <1>16 DEF TypeOK, EscribirDescriptor
  <2>2. Promesa(a)'
      BY <2>1 DEF Promesa
  <2> QED BY <1>16, <1>a, <2>1, <2>2 DEF EscribirDescriptor
<1>17. CASE DevolverEntrada(a)
    BY <1>17, <1>b DEF DevolverEntrada
<1> QED
    BY <1>1a, <1>2, <1>3, <1>4, <1>5, <1>6, <1>7, <1>8, <1>9, <1>10, <1>11,
       <1>9a, <1>12, <1>12a, <1>13, <1>14, <1>15, <1>16, <1>17 DEF Paso

LEMMA CumpleRecibir ==
    ASSUME NEW a \in Hilos, DeUno(a), Cumple(a), NEW h \in Hilos, NEW p \in Pedidos,
           Recibir(h, p)
    PROVE  Cumple(a)'
<1>1. Base /\ Base' /\ TypeOK
    BY BaseRecibir DEF Cumple, Base
<1>2. /\ pc' = [pc EXCEPT ![h] = IF p.op \in Creando THEN "contar" ELSE "camino"]
      /\ ped' = [ped EXCEPT ![h] = p]
      /\ UNCHANGED <<compartido, pos>> /\ pc[h] = "libre" /\ p.hilo = h
      /\ \A g \in Hilos \ {h} : copia'[g] = copia[g]
    BY <1>1 DEF Recibir, Creando, TypeOK
<1>3. \A g \in Hilos \ {h} : pc'[g] = pc[g] /\ ped'[g] = ped[g]
    BY <1>1, <1>2 DEF TypeOK
<1>4. ped'[h] = p /\ pc'[h] = IF p.op \in Creando THEN "contar" ELSE "camino"
    BY <1>1, <1>2 DEF TypeOK
<1>5. \A g \in Hilos \ {a} : SoloBajas(g)'
  <2>1. h # a => p.op = "eliminar"
      BY <1>2 DEF DeUno
  <2> QED BY <1>3, <1>4, <2>1 DEF Cumple, SoloBajas, Creando
<1>6. Promesa(a)'
  <2>1. CASE h = a
      BY <1>4, <2>1 DEF Promesa
  <2>2. CASE h # a
      BY <1>2, <1>3, <2>2 DEF Cumple, Promesa, HayLibre, Pasada, Activa, compartido
  <2> QED BY <2>1, <2>2
<1>7. pc'[a] \notin {"sinEntrada", "ajena"}
    BY <1>3, <1>4 DEF Cumple
<1> QED BY <1>1, <1>2, <1>5, <1>6, <1>7 DEF Cumple, compartido

LEMMA CumpleSiempre ==
    ASSUME NEW a \in Hilos, DeUno(a)
    PROVE  Spec => []Cumple(a)
<1>1. Init => Cumple(a)
    BY BaseInicial DEF Init, Cumple, SoloBajas, Promesa
<1>2. Cumple(a) /\ [Next]_vars => Cumple(a)'
  <2> SUFFICES ASSUME Cumple(a), [Next]_vars PROVE Cumple(a)'
      OBVIOUS
  <2>1. CASE UNCHANGED vars
      BY <2>1 DEF vars, camino, Cumple, SoloBajas, Promesa, HayLibre, Pasada, Activa, Base,
                  TypeOK, Control, EntradaDeUno, Tiene
  <2>2. CASE Next
      BY <2>2, CumpleSuyo, CumpleAjeno, CumpleRecibir DEF Next
  <2> QED BY <2>1, <2>2
<1> QED BY <1>1, <1>2, PTL DEF Spec

(* A creation that counted finds an entry, and gives the mutex back: the   *)
(* search never leaves the table and never ends in the break of            *)
(* obtenerEstructuraDeArchivoLibre, when one client creates and moves,     *)
(* whatever the others delete meanwhile.                                   *)
THEOREM SiempreHayEntradaDeUno == UnAutor => (Spec => []SiempreHayEntrada)
<1> SUFFICES ASSUME NEW a \in Hilos, DeUno(a) PROVE Spec => []SiempreHayEntrada
    BY DEF UnAutor
<1>1. Cumple(a) => SiempreHayEntrada
  <2>1. ASSUME Cumple(a) PROVE pos[a] \in Entradas
      BY <2>1 DEF Cumple, Base, Control, Promesa
  <2>2. ASSUME Cumple(a), NEW h \in Hilos \ {a} PROVE pos[h] \in Entradas
      BY <2>2 DEF Cumple, Base, Control, SoloBajas
  <2> QED BY <2>1, <2>2 DEF Cumple, SoloBajas, SiempreHayEntrada
<1> QED BY CumpleSiempre, <1>1, PTL

-----------------------------------------------------------------------------
(* The copy that the author searches has whatever the table has, and the    *)
(* entry it was given is still free.                                        *)
SigueLibre(a) ==
    /\ pc[a] \in {"reiniciar", "cero", "desde", "buscar", "seguir"} =>
         \A e \in Entradas : Activa(tabla, e) => Activa(copia[a], e)
    /\ pc[a] = "escribir" => ~Activa(tabla, pos[a])

LEMMA LibreAjeno ==
    ASSUME NEW a \in Hilos, Cumple(a), SigueLibre(a), NEW h \in Hilos \ {a}, Paso(h)
    PROVE  SigueLibre(a)'
<1>0. TypeOK /\ Control(h) /\ Control(a) /\ SoloBajas(h)
    BY DEF Cumple, Base
<1>1. LeerParte(h) \/ DecidirEliminar(h) \/ Eliminar(h)
    BY <1>0, PasosAjenos
<1>2. pc'[a] = pc[a] /\ copia'[a] = copia[a] /\ pos'[a] = pos[a]
    BY <1>0, <1>1
       DEF LeerParte, DecidirEliminar, Eliminar, Responder, Olvidar, compartido, camino, TypeOK
<1>3. \A e \in Entradas : Activa(tabla', e) => Activa(tabla, e)
  <2>1. CASE UNCHANGED tabla
      BY <2>1
  <2>2. CASE Eliminar(h)
    <3>1. desc[h] \in Descriptores
        BY <1>0, <2>2 DEF Control, Eliminar, TypeOK
    <3>2. ASSUME NEW e \in Entradas, ~Activa(tabla, e) PROVE ~Activa(tabla', e)
      <4>1. CASE e = arr[h]
          BY <1>0, <2>2, <3>1, <4>1 DEF Eliminar, TypeOK, Activa, Descriptores
      <4>2. CASE e # arr[h]
          BY <1>0, <2>2, <3>2, <4>2 DEF Eliminar, TypeOK, Activa
      <4> QED BY <4>1, <4>2
    <3> QED BY <3>2
  <2> QED BY <1>1, <2>1, <2>2 DEF LeerParte, DecidirEliminar, Responder, compartido
<1>4. pc[a] = "escribir" => pos[a] \in Entradas
    BY <1>0 DEF Control
<1> QED BY <1>2, <1>3, <1>4 DEF SigueLibre, Activa

LEMMA LibrePropio ==
    ASSUME NEW a \in Hilos, Cumple(a), SigueLibre(a), Paso(a)
    PROVE  SigueLibre(a)'
<1>0. TypeOK
    BY DEF Cumple, Base
<1>1. CASE pc'[a] \notin {"reiniciar", "cero", "desde", "buscar", "seguir", "escribir"}
    BY <1>1 DEF SigueLibre
<1>2. CASE CopiarTabla(a)
  <2>1. pc'[a] = "reiniciar" /\ copia'[a] = tabla /\ tabla' = tabla
      BY <1>0, <1>2 DEF CopiarTabla, TypeOK, compartido
  <2> QED BY <2>1 DEF SigueLibre, Activa
<1>3. CASE OtorgarEntrada(a)
  <2>1. /\ pc[a] = "buscar" /\ pc'[a] = "escribir" /\ UNCHANGED <<tabla, pos>>
        /\ pos[a] \in Entradas /\ ~Activa(copia[a], pos[a])
      BY <1>0, <1>3 DEF OtorgarEntrada, TypeOK, Sirve
  <2> QED BY <2>1 DEF SigueLibre, Activa
<1>4. CASE \/ MirarUltima(a) \/ ReiniciarUltima(a) \/ LeerUltima(a)
           \/ PasarEntrada(a) \/ SeguirBuscando(a)
  <2>1. /\ pc[a] \in {"reiniciar", "cero", "desde", "buscar", "seguir"} /\ pc'[a] # "escribir"
        /\ UNCHANGED <<tabla, copia>>
      BY <1>0, <1>4 DEF MirarUltima, ReiniciarUltima, LeerUltima, PasarEntrada, SeguirBuscando,
                        TypeOK, compartido
  <2> QED BY <2>1 DEF SigueLibre, Activa
<1>5. ASSUME Responder(a) \/ Olvidar(a) PROVE pc'[a] = "libre"
    BY <1>0, <1>5 DEF Responder, Olvidar, TypeOK
<1>6. ~SinEntrada(a) /\ ~OtorgarAjena(a) /\ ~MorirBuscando(a)
    BY DEF SinEntrada, OtorgarAjena, MorirBuscando, Cumple, Promesa
<1>7. \/ pc'[a] \notin {"reiniciar", "cero", "desde", "buscar", "seguir", "escribir"}
      \/ CopiarTabla(a) \/ OtorgarEntrada(a)
      \/ MirarUltima(a) \/ ReiniciarUltima(a) \/ LeerUltima(a)
      \/ PasarEntrada(a) \/ SeguirBuscando(a)
  <2>1. Contar(a) \/ LeerParte(a) \/ DecidirCrear(a) \/ DecidirEliminar(a) =>
            pc'[a] \in {"libre", "camino", "destino", "copiar", "eliminar"}
      BY <1>0, <1>5 DEF Contar, LeerParte, DecidirCrear, DecidirEliminar, TypeOK
  <2>2. PasarAlDestino(a) \/ DecidirRenombrar(a) \/ EscribirDescriptor(a) =>
            pc'[a] \in {"libre", "destino", "renombrar", "devolver"}
      BY <1>0, <1>5 DEF PasarAlDestino, DecidirRenombrar, EscribirDescriptor, TypeOK
  <2>3. Eliminar(a) \/ Renombrar(a) \/ DevolverEntrada(a) => pc'[a] = "libre"
      BY <1>5 DEF Eliminar, Renombrar, DevolverEntrada
  <2> QED BY <1>6, <2>1, <2>2, <2>3 DEF Paso
<1> QED BY <1>1, <1>2, <1>3, <1>4, <1>7

LEMMA LibreRecibir ==
    ASSUME NEW a \in Hilos, Cumple(a), SigueLibre(a), NEW h \in Hilos, NEW p \in Pedidos,
           Recibir(h, p)
    PROVE  SigueLibre(a)'
<1>0. TypeOK
    BY DEF Cumple, Base
<1>1. CASE h = a
  <2>1. pc'[a] \in {"contar", "camino"}
      BY <1>0, <1>1 DEF Recibir, TypeOK
  <2> QED BY <2>1 DEF SigueLibre
<1>2. CASE h # a
  <2>1. pc'[a] = pc[a] /\ copia'[a] = copia[a] /\ UNCHANGED <<tabla, pos>>
      BY <1>0, <1>2 DEF Recibir, TypeOK, compartido
  <2> QED BY <2>1 DEF SigueLibre, Activa
<1> QED BY <1>1, <1>2

(* With one client that creates, no creation writes over a file or a        *)
(* directory: what OsadaPisada shows takes two creations that cross.        *)
THEOREM NadaPisadoDeUno == UnAutor => (Spec => NadaPisado)
<1> SUFFICES ASSUME NEW a \in Hilos, DeUno(a) PROVE Spec => NadaPisado
    BY DEF UnAutor
<1>1. Init => SigueLibre(a)
    BY DEF Init, SigueLibre
<1>2. Cumple(a) /\ SigueLibre(a) /\ [Next]_vars => SigueLibre(a)'
  <2> SUFFICES ASSUME Cumple(a), SigueLibre(a), [Next]_vars PROVE SigueLibre(a)'
      OBVIOUS
  <2>1. CASE UNCHANGED vars
      BY <2>1 DEF vars, SigueLibre, Activa
  <2>2. CASE Next
      BY <2>2, LibrePropio, LibreAjeno, LibreRecibir DEF Next
  <2> QED BY <2>1, <2>2
<1>3. Cumple(a) /\ SigueLibre(a) =>
        \A h \in Hilos : pc[h] = "escribir" /\ pc'[h] = "devolver" => ~Activa(tabla, pos[h])
    BY DEF Cumple, SoloBajas, SigueLibre
<1>4. Spec => []Cumple(a)
    BY CumpleSiempre
<1> QED BY <1>1, <1>2, <1>3, <1>4, PTL DEF Spec, NadaPisado

-----------------------------------------------------------------------------
(* What is in the table has a name, and hangs from the root or from a       *)
(* directory.                                                               *)
TablaOK(a, duenio) ==
    \A e \in Entradas : Activa(tabla, e) =>
        /\ tabla[e].fname \in Nombres
        /\ tabla[e].state = "DIRECTORY" => duenio[tabla[e].fname] = a
        /\ tabla[e].parent # RAIZ => tabla[tabla[e].parent].state = "DIRECTORY"

(* What another client is to delete is there, and is a file of its own.     *)
AjenasOK(h, duenio) ==
    /\ pc[h] # "libre" => ped[h].hilo = h /\ (partes[h] # <<>> => Ultimo(partes[h]) = Ultimo(ped[h].camino))
    /\ pc[h] = "libre" => arr[h] = RAIZ /\ desc[h] = DescRaiz
    /\ pc[h] = "camino" /\ arr[h] = RAIZ /\ desc[h] # NIL => partes[h] # <<>>
    /\ pc[h] = "eliminar" => partes[h] = <<>> /\ desc[h] # NIL /\ arr[h] # RAIZ
    /\ pc[h] # "libre" /\ partes[h] = <<>> /\ desc[h] # NIL =>
         /\ Activa(tabla, arr[h])
         /\ duenio[tabla[arr[h]].fname] = h

(* The directories of a path, from the root.                                *)
Ramas(n) == UNION {[1 .. k -> Entradas] : k \in 0 .. n}
Fin(c) == IF c = <<>> THEN RAIZ ELSE c[Len(c)]
EsRama(c, nombres) ==
    \A i \in 1 .. Len(c) :
        /\ tabla[c[i]].state = "DIRECTORY" /\ tabla[c[i]].fname = nombres[i]
        /\ tabla[c[i]].parent = IF i = 1 THEN RAIZ ELSE c[i - 1]

(* A file found at a path: it is there as it was found, or was deleted by   *)
(* the client it belongs to.                                                *)
EsArchivo(e, d, padre, nombre, a, duenio) ==
    /\ e \in Entradas /\ d.state = "REGULAR" /\ d.parent = padre /\ d.fname = nombre
    /\ tabla[e] = d \/ (~Activa(tabla, e) /\ duenio[nombre] # a)

Falta(padre, nombre) ==
    \A e \in Entradas : ~(Activa(tabla, e) /\ tabla[e].fname = nombre /\ tabla[e].parent = padre)

(* The author is walking a path, or has walked it.                          *)
Quedan(h, k, nombres) ==
    /\ Len(partes[h]) = Len(nombres) - k
    /\ \A i \in 1 .. Len(partes[h]) : partes[h][i] = nombres[k + i]
Anda(a, nombres, duenio) ==
    \E c \in Ramas(Len(nombres)) :
        /\ EsRama(c, nombres)
        /\ \/ /\ arr[a] = Fin(c) /\ Quedan(a, Len(c), nombres)
              /\ desc[a] = IF c = <<>> THEN DescRaiz ELSE tabla[arr[a]]
           \/ /\ desc[a] = NIL /\ arr[a] = Fin(c)
              /\ Len(c) < Len(nombres) /\ Quedan(a, Len(c) + 1, nombres)
              /\ Falta(Fin(c), nombres[Len(c) + 1])
           \/ /\ desc[a] # NIL /\ Len(c) < Len(nombres) /\ Quedan(a, Len(c) + 1, nombres)
              /\ EsArchivo(arr[a], desc[a], Fin(c), nombres[Len(c) + 1], a, duenio)

(* What renombrar found at the old path.                                    *)
Origen(a, duenio) ==
    \E c \in Ramas(Len(ped[a].camino)) :
        /\ EsRama(c, ped[a].camino)
        /\ \/ /\ c # <<>> /\ Len(c) = Len(ped[a].camino)
              /\ vieja[a].pos = Fin(c) /\ vieja[a].desc = tabla[Fin(c)]
           \/ \E p \in Entradas \cup {RAIZ} :
                 EsArchivo(vieja[a].pos, vieja[a].desc, p, Ultimo(ped[a].camino), a, duenio)

(* What a copy of the table of the author has and the table has not was     *)
(* deleted since.                                                           *)
CopiaAnterior(a) ==
    \A e \in Entradas : Activa(tabla, e) =>
        Activa(copia[a], e) /\ copia[a][e].parent = tabla[e].parent

PropiasOK(a, duenio) ==
    /\ pc[a] # "libre" => ped[a].hilo = a
    /\ pc[a] \in {"libre", "contar"} => arr[a] = RAIZ /\ desc[a] = DescRaiz
    /\ pc[a] = "contar" => partes[a] = ped[a].camino /\ ped[a].op \in Creando
    /\ pc[a] \in {"camino", "eliminar", "copiar", "reiniciar", "cero", "desde", "buscar",
                  "seguir", "escribir"} => Anda(a, ped[a].camino, duenio)
    /\ pc[a] \in {"destino", "renombrar"} =>
         Anda(a, ped[a].destino, duenio) /\ (vieja[a].existe => Origen(a, duenio))
    /\ pc[a] \in {"copiar", "reiniciar", "cero", "desde", "buscar", "seguir", "escribir"}
         => ArchivoNoPathValido(a) /\ ped[a].op \in Creando
    /\ pc[a] = "renombrar" => PuedeRenombrar(a)
    /\ pc[a] \in {"camino", "eliminar"} /\ ped[a].op = "eliminar" => CopiaAnterior(a)
    /\ pc[a] = "eliminar" => ArchivoExiste(a) /\ ~TieneHijos(a) /\ ped[a].op = "eliminar"
    /\ pc[a] \in {"reiniciar", "cero", "desde", "buscar", "seguir"} => CopiaAnterior(a)
    /\ pc[a] = "escribir" => ~Activa(tabla, pos[a])

Ordenada(a, duenio) ==
    /\ Cumple(a) /\ TablaOK(a, duenio) /\ PropiasOK(a, duenio)
    /\ \A h \in Hilos \ {a} : AjenasOK(h, duenio)

(* A step of the others: it deletes a file of theirs, or nothing.           *)
SoloQuita(a, duenio) ==
    \A e \in Entradas :
        \/ tabla'[e] = tabla[e]
        \/ /\ tabla[e].state = "REGULAR" /\ duenio[tabla[e].fname] # a
           /\ ~Activa(tabla', e)
(* A step leaves what belongs to h, and to h.                               *)
Respeta(h, duenio) ==
    \A e \in Entradas : Activa(tabla, e) /\ duenio[tabla[e].fname] = h =>
        Activa(tabla', e) /\ duenio[tabla'[e].fname] = h

(* A set of naturals has a least element.                                   *)
MenorQue == {ss \in Nat \X Nat : ss[1] < ss[2]}
LEMMA HayPrimero ==
    ASSUME NEW S \in SUBSET Nat, S # {}
    PROVE  \E x \in S : \A y \in S : x <= y
<1>1. IsWellFoundedOn(MenorQue, Nat)
    BY NatLessThanWellFounded, Zenon DEF OpToRel, MenorQue
<1>2. \E x \in S : \A y \in S : ~(<<y, x>> \in MenorQue)
    BY <1>1, WFMin
<1>3. PICK x \in S : \A y \in S : ~(<<y, x>> \in MenorQue)
    BY <1>2
<1>4. ASSUME NEW y \in S PROVE x <= y
  <2>1. <<y, x>> \notin MenorQue /\ x \in Nat /\ y \in Nat
      BY <1>3
  <2>2. ~(y < x)
      BY <2>1 DEF MenorQue
  <2> QED BY <2>1, <2>2
<1> QED BY <1>4

(* The search by name and directory finds something, if it is there.        *)
LEMMA SiNoHallaFalta ==
    ASSUME NEW padre, NEW nombre, \A e \in Entradas : ~Hallada(e, padre, nombre)
    PROVE  Falta(padre, nombre)
<1> DEFINE Sirven == {e \in Entradas : /\ Activa(tabla, e) /\ tabla[e].fname = nombre
                                       /\ tabla[e].parent = padre}
<1>1. SUFFICES ASSUME Sirven # {} PROVE FALSE
    BY DEF Falta
<1>2. Sirven \in SUBSET Nat
    BY NPositivo DEF Entradas
<1>3. PICK x \in Sirven : \A y \in Sirven : x <= y
    BY <1>1, <1>2, HayPrimero
<1>4. Hallada(x, padre, nombre)
    BY <1>3 DEF Hallada
<1> QED BY <1>3, <1>4

LEMMA FinDeRama ==
    ASSUME NEW n \in Nat, NEW c \in Ramas(n)
    PROVE  /\ Len(c) \in 0 .. n /\ c \in [1 .. Len(c) -> Entradas] /\ c \in Seq(Entradas)
           /\ c # <<>> <=> Len(c) # 0
           /\ c # <<>> => Fin(c) \in Entradas /\ Len(c) \in 1 .. Len(c)
           /\ Fin(c) \in Entradas \cup {RAIZ}
<1>1. PICK k \in 0 .. n : c \in [1 .. k -> Entradas]
    BY DEF Ramas
<1>2. c \in Seq(Entradas) /\ Len(c) = k
    BY <1>1
<1>3. c # <<>> <=> k # 0
    BY <1>1, <1>2
<1>4. c # <<>> => Fin(c) \in Entradas
    BY <1>1, <1>2, <1>3 DEF Fin
<1> QED BY <1>1, <1>2, <1>3, <1>4 DEF Fin

(* The directories are the author's: a deletion of another leaves a path.   *)
LEMMA RamaQuieta ==
    ASSUME NEW n \in Nat, NEW c \in Ramas(n), NEW nombres, EsRama(c, nombres),
           \A e \in Entradas : tabla[e].state = "DIRECTORY" => tabla'[e] = tabla[e]
    PROVE  EsRama(c, nombres)'
<1>1. \A i \in 1 .. Len(c) : c[i] \in Entradas
    BY FinDeRama
<1> QED BY <1>1 DEF EsRama

LEMMA ArchivoQuieto ==
    ASSUME NEW a \in Hilos, NEW duenio, NEW e, NEW d, NEW padre, NEW nombre,
           EsArchivo(e, d, padre, nombre, a, duenio), SoloQuita(a, duenio)
    PROVE  EsArchivo(e, d, padre, nombre, a, duenio)'
BY DEF EsArchivo, SoloQuita, Activa

LEMMA AndaQuieta ==
    ASSUME NEW a \in Hilos, NEW duenio, NEW nombres, Len(nombres) \in Nat,
           Anda(a, nombres, duenio), SoloQuita(a, duenio),
           arr'[a] = arr[a], desc'[a] = desc[a], partes'[a] = partes[a]
    PROVE  Anda(a, nombres, duenio)'
<1>1. PICK c \in Ramas(Len(nombres)) :
        /\ EsRama(c, nombres)
        /\ \/ /\ arr[a] = Fin(c) /\ Quedan(a, Len(c), nombres)
              /\ desc[a] = IF c = <<>> THEN DescRaiz ELSE tabla[arr[a]]
           \/ /\ desc[a] = NIL /\ arr[a] = Fin(c)
              /\ Len(c) < Len(nombres) /\ Quedan(a, Len(c) + 1, nombres)
              /\ Falta(Fin(c), nombres[Len(c) + 1])
           \/ /\ desc[a] # NIL /\ Len(c) < Len(nombres) /\ Quedan(a, Len(c) + 1, nombres)
              /\ EsArchivo(arr[a], desc[a], Fin(c), nombres[Len(c) + 1], a, duenio)
    BY DEF Anda
<1>2. \A e \in Entradas : tabla[e].state = "DIRECTORY" => tabla'[e] = tabla[e]
    BY DEF SoloQuita
<1>3. EsRama(c, nombres)'
    BY <1>1, <1>2, RamaQuieta
<1>4. \A k : Quedan(a, k, nombres) => Quedan(a, k, nombres)'
    BY DEF Quedan
<1>5. Falta(Fin(c), nombres[Len(c) + 1]) => Falta(Fin(c), nombres[Len(c) + 1])'
    BY DEF Falta, SoloQuita, Activa
<1>6. EsArchivo(arr[a], desc[a], Fin(c), nombres[Len(c) + 1], a, duenio) =>
        EsArchivo(arr[a], desc[a], Fin(c), nombres[Len(c) + 1], a, duenio)'
    BY DEF EsArchivo, SoloQuita, Activa
<1>7. c # <<>> /\ arr[a] = Fin(c) => tabla'[arr[a]] = tabla[arr[a]]
    BY <1>1, <1>2, FinDeRama DEF EsRama, Fin
<1> QED BY <1>1, <1>3, <1>4, <1>5, <1>6, <1>7 DEF Anda

LEMMA OrigenQuieto ==
    ASSUME NEW a \in Hilos, NEW duenio, Len(ped[a].camino) \in Nat, Origen(a, duenio),
           SoloQuita(a, duenio), vieja'[a] = vieja[a], ped'[a] = ped[a]
    PROVE  Origen(a, duenio)'
<1>0. PICK nombres : nombres = ped[a].camino
    OBVIOUS
<1>1. PICK c \in Ramas(Len(nombres)) :
        /\ EsRama(c, nombres)
        /\ \/ /\ c # <<>> /\ Len(c) = Len(nombres)
              /\ vieja[a].pos = Fin(c) /\ vieja[a].desc = tabla[Fin(c)]
           \/ \E p \in Entradas \cup {RAIZ} :
                 EsArchivo(vieja[a].pos, vieja[a].desc, p, Ultimo(nombres), a, duenio)
    BY <1>0 DEF Origen
<1>2. \A e \in Entradas : tabla[e].state = "DIRECTORY" => tabla'[e] = tabla[e]
    BY DEF SoloQuita
<1>3. EsRama(c, nombres)'
    BY <1>0, <1>1, <1>2, RamaQuieta
<1>6. \A p : EsArchivo(vieja[a].pos, vieja[a].desc, p, Ultimo(nombres), a, duenio) =>
        EsArchivo(vieja[a].pos, vieja[a].desc, p, Ultimo(nombres), a, duenio)'
    BY DEF EsArchivo, SoloQuita, Activa
<1>7. c # <<>> => tabla'[Fin(c)] = tabla[Fin(c)]
    BY <1>0, <1>1, <1>2, FinDeRama DEF EsRama, Fin
<1> QED BY <1>0, <1>1, <1>3, <1>6, <1>7 DEF Origen

LEMMA Rutas ==
    ASSUME NEW p \in Pedidos
    PROVE  /\ p.camino \in Seq(Nombres) /\ Len(p.camino) \in Nat \ {0}
           /\ Ultimo(p.camino) \in Nombres
           /\ p.destino \in Seq(Nombres) /\ Len(p.destino) \in Nat
           /\ p.op = "renombrar" => Len(p.destino) \in Nat \ {0} /\ Ultimo(p.destino) \in Nombres
           /\ p.hilo \in Hilos /\ p.op \in Operaciones
<1>1. /\ p.camino \in Seq(Nombres) /\ p.destino \in Seq(Nombres) /\ p.hilo \in Hilos
      /\ p.op \in Operaciones /\ p.camino # <<>> /\ (p.op = "renombrar" => p.destino # <<>>)
    BY ConstantesTabla
<1>2. Len(p.camino) \in Nat /\ Len(p.destino) \in Nat
    BY <1>1
<1>3. Len(p.camino) # 0 /\ (p.op = "renombrar" => Len(p.destino) # 0)
    BY <1>1
<1> QED BY <1>1, <1>2, <1>3, UltimoNombre

(* What a walk that ended found, when it found something.                   *)
LEMMA Hallado ==
    ASSUME NEW a \in Hilos, NEW duenio, NEW nombres \in Seq(Nombres), nombres # <<>>, TypeOK,
           Anda(a, nombres, duenio), partes[a] = <<>>, desc[a] # NIL
    PROVE  /\ arr[a] \in Entradas
           /\ \/ /\ \E c \in Ramas(Len(nombres)) :
                      /\ EsRama(c, nombres) /\ c # <<>> /\ Len(c) = Len(nombres)
                      /\ arr[a] = Fin(c)
                 /\ desc[a] = tabla[arr[a]] /\ desc[a].state = "DIRECTORY"
                 /\ desc[a].fname = Ultimo(nombres)
              \/ \E p \in Entradas \cup {RAIZ} :
                   EsArchivo(arr[a], desc[a], p, Ultimo(nombres), a, duenio)
<1>1. PICK c \in Ramas(Len(nombres)) :
        /\ EsRama(c, nombres)
        /\ \/ /\ arr[a] = Fin(c) /\ Quedan(a, Len(c), nombres)
              /\ desc[a] = IF c = <<>> THEN DescRaiz ELSE tabla[arr[a]]
           \/ /\ Len(c) < Len(nombres) /\ Quedan(a, Len(c) + 1, nombres)
              /\ EsArchivo(arr[a], desc[a], Fin(c), nombres[Len(c) + 1], a, duenio)
    BY DEF Anda
<1>2. Len(nombres) \in Nat /\ Len(nombres) # 0 /\ Len(partes[a]) = 0
    BY DEF TypeOK
<1>3. PICK k \in 0 .. Len(nombres) : k = Len(c)
    BY <1>2, FinDeRama
<1>4. CASE /\ arr[a] = Fin(c) /\ Quedan(a, k, nombres)
           /\ desc[a] = IF c = <<>> THEN DescRaiz ELSE tabla[arr[a]]
  <2>1. k = Len(nombres)
      BY <1>2, <1>4 DEF Quedan
  <2>2. c # <<>> /\ Fin(c) \in Entradas
      BY <1>2, <1>3, <2>1, FinDeRama
  <2>3. k \in 1 .. Len(c) /\ Fin(c) = c[k]
      BY <1>2, <1>3, <2>1, <2>2 DEF Fin
  <2>4. tabla[Fin(c)].state = "DIRECTORY" /\ tabla[Fin(c)].fname = nombres[k]
      BY <1>1, <2>3 DEF EsRama
  <2> QED BY <1>1, <1>3, <1>4, <2>1, <2>2, <2>4 DEF Ultimo
<1>5. CASE /\ k < Len(nombres) /\ Quedan(a, k + 1, nombres)
           /\ EsArchivo(arr[a], desc[a], Fin(c), nombres[k + 1], a, duenio)
  <2>1. k + 1 = Len(nombres)
      BY <1>2, <1>5 DEF Quedan
  <2>2. Fin(c) \in Entradas \cup {RAIZ}
      BY <1>2, FinDeRama
  <2>3. EsArchivo(arr[a], desc[a], Fin(c), Ultimo(nombres), a, duenio)
      BY <1>5, <2>1 DEF Ultimo
  <2>4. arr[a] \in Entradas
      BY <2>3 DEF EsArchivo
  <2> QED BY <2>2, <2>3, <2>4
<1> QED BY <1>1, <1>3, <1>4, <1>5

(* What is deleted is there, belongs to who deletes it, and has nothing     *)
(* that hangs from it.                                                      *)
LEMMA BajaLimpia ==
    ASSUME NEW a \in Hilos, NEW duenio, Repartidos(a, duenio), Ordenada(a, duenio),
           NEW h \in Hilos, Eliminar(h)
    PROVE  /\ arr[h] \in Entradas /\ Activa(tabla, arr[h])
           /\ duenio[tabla[arr[h]].fname] = h
           /\ \A e \in Entradas : Activa(tabla, e) => tabla[e].parent # arr[h]
           /\ h # a => tabla[arr[h]].state = "REGULAR"
<1>0. TypeOK /\ Control(h) /\ TablaOK(a, duenio) /\ RAIZ \notin Entradas
    BY ConstantesTabla DEF Ordenada, Cumple, Base
<1>1. CASE h # a
  <2>1. AjenasOK(h, duenio) /\ pc[h] = "eliminar"
      BY <1>1 DEF Ordenada, Eliminar
  <2>2. arr[h] \in Entradas /\ Activa(tabla, arr[h]) /\ duenio[tabla[arr[h]].fname] = h
      BY <1>0, <2>1 DEF AjenasOK, TypeOK
  <2>3. tabla[arr[h]].state # "DIRECTORY" /\ tabla[arr[h]] \in Descriptores
      BY <1>0, <1>1, <2>2 DEF TablaOK, TypeOK
  <2>4. tabla[arr[h]].state = "REGULAR"
      BY <2>2, <2>3 DEF Activa, Descriptores
  <2>5. \A e \in Entradas : Activa(tabla, e) => tabla[e].parent # arr[h]
      BY <1>0, <2>2, <2>3 DEF TablaOK
  <2> QED BY <2>2, <2>4, <2>5
<1>2. CASE h = a
  <2>1. /\ PropiasOK(a, duenio) /\ pc[a] = "eliminar"
      BY <1>2 DEF Ordenada, Eliminar
  <2>2. /\ ArchivoExiste(a) /\ ~TieneHijos(a) /\ ped[a].op = "eliminar" /\ CopiaAnterior(a)
        /\ ped[a].hilo = a /\ Anda(a, ped[a].camino, duenio)
      BY <2>1 DEF PropiasOK
  <2>3. ped[a] \in Pedidos
      BY <1>0, <1>2, <2>1 DEF Control
  <2>4. PICK nombres \in Seq(Nombres) : nombres = ped[a].camino
      BY <2>3, Rutas
  <2>5. nombres # <<>> /\ duenio[Ultimo(nombres)] = a
      BY <2>2, <2>3, <2>4, ConstantesTabla DEF Repartidos
  <2>6. Anda(a, nombres, duenio) /\ partes[a] = <<>> /\ desc[a] # NIL
      BY <2>2, <2>4 DEF ArchivoExiste
  <2>7. /\ arr[a] \in Entradas
        /\ \/ desc[a] = tabla[arr[a]] /\ desc[a].state = "DIRECTORY" /\ desc[a].fname = Ultimo(nombres)
           \/ \E p \in Entradas \cup {RAIZ} :
                EsArchivo(arr[a], desc[a], p, Ultimo(nombres), a, duenio)
      BY <1>0, <2>5, <2>6, Hallado
  <2>8. /\ arr[a] \in Entradas /\ tabla[arr[a]].fname = Ultimo(nombres)
        /\ Activa(tabla, arr[a])
      BY <2>5, <2>7 DEF EsArchivo, Activa
  <2>9. \A e \in Entradas : Activa(tabla, e) => tabla[e].parent # arr[a]
      BY <2>2 DEF TieneHijos, CopiaAnterior
  <2> QED BY <1>2, <2>5, <2>8, <2>9
<1> QED BY <1>1, <1>2

LEMMA BajaEnTabla ==
    ASSUME NEW a \in Hilos, NEW duenio, Repartidos(a, duenio), Ordenada(a, duenio),
           NEW h \in Hilos, Eliminar(h)
    PROVE  /\ TablaOK(a, duenio)'
           /\ h # a => SoloQuita(a, duenio)
           /\ \A g \in Hilos \ {h} : Respeta(g, duenio)
<1>0. TypeOK /\ TablaOK(a, duenio) /\ RAIZ \notin Entradas
    BY ConstantesTabla DEF Ordenada, Cumple, Base
<1>1. PICK x \in Entradas :
        /\ x = arr[h] /\ Activa(tabla, x) /\ duenio[tabla[x].fname] = h
        /\ \A e \in Entradas : Activa(tabla, e) => tabla[e].parent # x
        /\ h # a => tabla[x].state = "REGULAR"
    BY BajaLimpia
<1>2. /\ \A e \in Entradas \ {x} : tabla'[e] = tabla[e]
      /\ ~Activa(tabla', x)
  <2>1. desc[h] \in Descriptores
      BY <1>0 DEF Ordenada, Cumple, Base, Control, Eliminar, TypeOK
  <2> QED BY <1>0, <1>1, <2>1 DEF Eliminar, Activa, TypeOK, Descriptores
<1>3. TablaOK(a, duenio)'
  <2> SUFFICES ASSUME NEW e \in Entradas, Activa(tabla', e)
               PROVE  /\ tabla'[e].fname \in Nombres
                      /\ tabla'[e].state = "DIRECTORY" => duenio[tabla'[e].fname] = a
                      /\ tabla'[e].parent # RAIZ =>
                           tabla'[tabla'[e].parent].state = "DIRECTORY"
      BY DEF TablaOK, Activa
  <2>1. e # x /\ tabla'[e] = tabla[e] /\ Activa(tabla, e)
      BY <1>2 DEF Activa
  <2>2. tabla[e].parent # x /\ tabla[e].parent \in Entradas \cup {RAIZ}
      BY <1>0, <1>1, <2>1 DEF TypeOK, Descriptores
  <2> QED BY <1>0, <1>2, <2>1, <2>2 DEF TablaOK
<1>4. h # a => SoloQuita(a, duenio)
    BY <1>1, <1>2 DEF SoloQuita
<1>5. \A g \in Hilos \ {h} : Respeta(g, duenio)
    BY <1>1, <1>2 DEF Respeta, Activa
<1> QED BY <1>3, <1>4, <1>5

(* The others, when they are not the ones who take the step.                *)
LEMMA AjenaQuieta ==
    ASSUME NEW duenio, NEW h \in Hilos, TypeOK, SoloBajas(h), AjenasOK(h, duenio),
           Respeta(h, duenio), pc'[h] = pc[h], ped'[h] = ped[h], partes'[h] = partes[h], arr'[h] = arr[h],
           desc'[h] = desc[h]
    PROVE  AjenasOK(h, duenio)'
<1>1. pc[h] # "libre" /\ partes[h] = <<>> /\ desc[h] # NIL /\ arr[h] \in Entradas
        => Activa(tabla', arr[h]) /\ duenio[tabla'[arr[h]].fname] = h
    BY DEF AjenasOK, Respeta
<1>2. pc[h] # "libre" /\ partes[h] = <<>> /\ desc[h] # NIL => arr[h] \in Entradas
    BY DEF AjenasOK, SoloBajas, TypeOK
<1> QED BY <1>1, <1>2 DEF AjenasOK

(* What is left of a path after one name.                                   *)
LEMMA ColaDe ==
    ASSUME NEW s \in Seq(Nombres), s # <<>>
    PROVE  /\ Len(s) \in Nat \ {0} /\ Len(Tail(s)) = Len(s) - 1 /\ Head(s) = s[1]
           /\ \A i \in 1 .. Len(Tail(s)) : Tail(s)[i] = s[i + 1]
           /\ Tail(s) # <<>> => Ultimo(Tail(s)) = Ultimo(s)
           /\ Tail(s) = <<>> => Head(s) = Ultimo(s)
<1>1. Len(s) \in Nat \ {0} /\ Len(Tail(s)) = Len(s) - 1 /\ Head(s) = s[1]
    OBVIOUS
<1>2. \A i \in 1 .. Len(Tail(s)) : Tail(s)[i] = s[i + 1]
    OBVIOUS
<1>3. PICK n \in Nat \ {0} : n = Len(s)
    BY <1>1
<1>4. Len(Tail(s)) = n - 1
    BY <1>1, <1>3
<1>5. ASSUME Tail(s) # <<>> PROVE Ultimo(Tail(s)) = Ultimo(s)
  <2>1. n - 1 # 0
      BY <1>4, <1>5
  <2>2. n - 1 \in 1 .. n - 1 /\ (n - 1) + 1 = n
      BY <2>1
  <2>3. Tail(s)[n - 1] = s[(n - 1) + 1]
      BY <1>2, <1>4, <2>2
  <2> QED BY <1>3, <1>4, <2>2, <2>3 DEF Ultimo
<1>6. ASSUME Tail(s) = <<>> PROVE Head(s) = Ultimo(s)
  <2>0. PICK t : t = Tail(s)
      OBVIOUS
  <2>1. t = <<>> => Len(t) = 0
      OBVIOUS
  <2>2. n - 1 = 0
      BY <1>4, <1>6, <2>0, <2>1
  <2>3. n = 1
      BY <2>2
  <2> QED BY <1>1, <1>3, <2>3 DEF Ultimo
<1> QED BY <1>1, <1>2, <1>5, <1>6

(* The author, when it does not take the step.                              *)
LEMMA PropiasQuietas ==
    ASSUME NEW a \in Hilos, NEW duenio, Ordenada(a, duenio), SoloQuita(a, duenio),
           pc'[a] = pc[a], ped'[a] = ped[a], copia'[a] = copia[a], partes'[a] = partes[a],
           arr'[a] = arr[a], desc'[a] = desc[a], vieja'[a] = vieja[a], pos'[a] = pos[a]
    PROVE  PropiasOK(a, duenio)'
<1>0. TypeOK /\ Control(a) /\ PropiasOK(a, duenio) /\ Promesa(a)
    BY DEF Ordenada, Cumple, Base
<1>1. PICK camA, desA : camA = ped[a].camino /\ desA = ped[a].destino
    OBVIOUS
<1>2. pc[a] # "libre" => Len(camA) \in Nat /\ Len(desA) \in Nat
    BY <1>0, <1>1, Rutas DEF Control
<1>3. pc[a] # "libre" /\ Anda(a, camA, duenio) => Anda(a, camA, duenio)'
    BY <1>2, AndaQuieta
<1>4. pc[a] # "libre" /\ Anda(a, desA, duenio) => Anda(a, desA, duenio)'
    BY <1>2, AndaQuieta
<1>5. pc[a] # "libre" /\ Origen(a, duenio) => Origen(a, duenio)'
    BY <1>1, <1>2, OrigenQuieto
<1>6. CopiaAnterior(a) => CopiaAnterior(a)'
    BY DEF CopiaAnterior, SoloQuita, Activa
<1>7. ~TieneHijos(a) => ~TieneHijos(a)'
    BY DEF TieneHijos, Activa
<1>8. pc[a] = "escribir" => pos[a] \in Entradas
    BY <1>0 DEF Control
<1>9. pc[a] = "escribir" => ~Activa(tabla', pos[a])
    BY <1>0, <1>8 DEF PropiasOK, SoloQuita, Activa
<1>10. camA' = camA /\ desA' = desA /\ ped'[a].camino = camA /\ ped'[a].destino = desA
    BY <1>1
<1>11. /\ ArchivoNoPathValido(a) => ArchivoNoPathValido(a)'
       /\ ArchivoExiste(a) => ArchivoExiste(a)'
       /\ PuedeRenombrar(a) => PuedeRenombrar(a)'
    BY DEF ArchivoNoPathValido, ArchivoExiste, PuedeRenombrar
<1>a. /\ pc[a] # "libre" => ped[a].hilo = a
      /\ pc[a] \in {"libre", "contar"} => arr[a] = RAIZ /\ desc[a] = DescRaiz
      /\ pc[a] = "contar" => partes[a] = camA /\ ped[a].op \in Creando
      /\ pc[a] \in {"camino", "eliminar", "copiar", "reiniciar", "cero", "desde", "buscar",
                    "seguir", "escribir"} => Anda(a, camA, duenio)'
      /\ pc[a] \in {"destino", "renombrar"} =>
           Anda(a, desA, duenio)' /\ (vieja[a].existe => Origen(a, duenio)')
    BY <1>0, <1>1, <1>3, <1>4, <1>5 DEF PropiasOK
<1>b. /\ pc[a] \in {"copiar", "reiniciar", "cero", "desde", "buscar", "seguir", "escribir"}
           => ArchivoNoPathValido(a)' /\ ped[a].op \in Creando
      /\ pc[a] = "renombrar" => PuedeRenombrar(a)'
      /\ pc[a] \in {"camino", "eliminar"} /\ ped[a].op = "eliminar" => CopiaAnterior(a)'
      /\ pc[a] = "eliminar" => ArchivoExiste(a)' /\ ~TieneHijos(a)' /\ ped[a].op = "eliminar"
      /\ pc[a] \in {"reiniciar", "cero", "desde", "buscar", "seguir"} => CopiaAnterior(a)'
      /\ pc[a] = "escribir" => ~Activa(tabla', pos[a])
    BY <1>0, <1>6, <1>7, <1>9, <1>11 DEF PropiasOK
<1> HIDE DEF PropiasOK
<1> QED BY ONLY <1>10, <1>a, <1>b, pc'[a] = pc[a], ped'[a] = ped[a], partes'[a] = partes[a],
            arr'[a] = arr[a], desc'[a] = desc[a], vieja'[a] = vieja[a], pos'[a] = pos[a]
        DEF PropiasOK, Activa

LEMMA OrdenAjeno ==
    ASSUME NEW a \in Hilos, NEW duenio, Repartidos(a, duenio), Ordenada(a, duenio),
           NEW h \in Hilos \ {a}, Paso(h)
    PROVE  Ordenada(a, duenio)'
<1>0. TypeOK /\ Control(h) /\ Cumple(a) /\ TablaOK(a, duenio)
    BY DEF Ordenada, Cumple, Base
<1>1. SoloBajas(h) /\ AjenasOK(h, duenio)
    BY DEF Ordenada, Cumple
<1>2. LeerParte(h) \/ DecidirEliminar(h) \/ Eliminar(h)
    BY <1>1, PasosAjenos
<1>3. /\ TablaOK(a, duenio)' /\ SoloQuita(a, duenio)
      /\ \A g \in Hilos \ {h} : Respeta(g, duenio)
  <2>1. CASE UNCHANGED tabla
      BY <1>0, <2>1 DEF TablaOK, SoloQuita, Respeta, Activa
  <2>2. CASE Eliminar(h)
      BY <2>2, BajaEnTabla
  <2> QED BY <1>2, <2>1, <2>2 DEF LeerParte, DecidirEliminar, Responder, compartido
<1>4. \A g \in Hilos \ {h} :
        /\ pc'[g] = pc[g] /\ ped'[g] = ped[g] /\ copia'[g] = copia[g]
        /\ partes'[g] = partes[g] /\ arr'[g] = arr[g] /\ desc'[g] = desc[g]
        /\ vieja'[g] = vieja[g] /\ pos'[g] = pos[g]
    BY <1>0, <1>2 DEF LeerParte, DecidirEliminar, Eliminar, Responder, Olvidar, camino, TypeOK
<1>5. PropiasOK(a, duenio)'
    BY <1>3, <1>4, PropiasQuietas
<1>6. \A g \in Hilos \ {a, h} : AjenasOK(g, duenio)'
    BY <1>0, <1>3, <1>4, AjenaQuieta DEF Ordenada, Cumple
<1>7. AjenasOK(h, duenio)'
  <2>1. ASSUME Olvidar(h) PROVE AjenasOK(h, duenio)'
      BY <1>0, <2>1 DEF Olvidar, TypeOK, AjenasOK
  <2>2. CASE DecidirEliminar(h) /\ ~Olvidar(h)
    <3>1. /\ ArchivoExiste(h) /\ pc' = [pc EXCEPT ![h] = "eliminar"] /\ pc[h] = "camino"
          /\ UNCHANGED <<compartido, ped, copia, camino, vieja, pos>>
        BY <2>2 DEF DecidirEliminar, Responder, FinDe
    <3>2. pc'[h] = "eliminar"
        BY <1>0, <3>1 DEF TypeOK
    <3> QED BY <1>1, <3>1, <3>2 DEF AjenasOK, ArchivoExiste, compartido, camino, Activa
  <2>3. CASE LeerParte(h)
    <3>1. /\ pc[h] = "camino" /\ ped[h].op = "eliminar" /\ ped[h] \in Pedidos /\ ped[h].hilo = h
        BY <1>0, <1>1, <2>3 DEF LeerParte, SoloBajas, Control, AjenasOK
    <3>2. /\ partes[h] \in Seq(Nombres) /\ partes[h] # <<>>
          /\ Ultimo(partes[h]) = Ultimo(ped[h].camino)
        BY <1>0, <1>1, <2>3 DEF LeerParte, TypeOK, AjenasOK
    <3>3. /\ partes'[h] = Tail(partes[h])
          /\ UNCHANGED <<compartido, pc, ped>>
        BY <1>0, <2>3 DEF LeerParte, TypeOK
    <3>4. /\ Tail(partes[h]) # <<>> => Ultimo(Tail(partes[h])) = Ultimo(partes[h])
          /\ Tail(partes[h]) = <<>> => Head(partes[h]) = Ultimo(partes[h])
        BY <3>2, ColaDe
    <3>5. duenio[Ultimo(ped[h].camino)] = h
        BY <3>1 DEF Repartidos
    <3>6. CASE desc'[h] = NIL
        BY <3>1, <3>2, <3>3, <3>4, <3>6 DEF AjenasOK
    <3>7. CASE desc'[h] # NIL
      <4>1. PICK e \in Entradas : Hallada(e, arr[h], Head(partes[h])) /\ arr'[h] = e
          BY <1>0, <2>3, <3>7 DEF LeerParte, TypeOK
      <4>2. Activa(tabla, e) /\ tabla[e].fname = Head(partes[h])
          BY <4>1 DEF Hallada
      <4>3. arr'[h] # RAIZ
          BY <4>1, ConstantesTabla
      <4> QED BY <3>1, <3>2, <3>3, <3>4, <3>5, <4>1, <4>2, <4>3
              DEF AjenasOK, compartido, Activa
    <3> QED BY <3>6, <3>7
  <2> QED BY <1>2, <2>1, <2>2, <2>3 DEF Eliminar
<1> QED BY <1>3, <1>5, <1>6, <1>7, CumpleAjeno DEF Ordenada

(* A walk begins at the root, with all the path to go.                      *)
LEMMA AndaEmpieza ==
    ASSUME NEW a \in Hilos, NEW duenio, NEW nombres \in Seq(Nombres), TypeOK,
           arr[a] = RAIZ, desc[a] = DescRaiz, partes[a] = nombres
    PROVE  Anda(a, nombres, duenio)
<1>1. <<>> \in Ramas(Len(nombres))
  <2>1. <<>> \in [1 .. 0 -> Entradas] /\ 0 \in 0 .. Len(nombres)
      OBVIOUS
  <2> QED BY <2>1 DEF Ramas
<1>2. EsRama(<<>>, nombres)
    BY DEF EsRama
<1>3. Quedan(a, Len(<<>>), nombres) /\ Fin(<<>>) = RAIZ
    BY DEF Quedan, Fin
<1> QED BY <1>1, <1>2, <1>3 DEF Anda

(* One name more.                                                           *)
LEMMA AndaUnaMas ==
    ASSUME NEW a \in Hilos, NEW duenio, NEW nombres \in Seq(Nombres), TypeOK,
           Anda(a, nombres, duenio), LeerParte(a)
    PROVE  Anda(a, nombres, duenio)'
<1>1. /\ partes[a] \in Seq(Nombres) /\ partes[a] # <<>> /\ desc[a] # NIL
      /\ desc[a].state = "DIRECTORY" /\ UNCHANGED tabla
    BY DEF LeerParte, EsDirectorio, TypeOK, compartido
<1>2. PICK c \in Ramas(Len(nombres)) :
        /\ EsRama(c, nombres) /\ arr[a] = Fin(c) /\ Quedan(a, Len(c), nombres)
    BY <1>1 DEF Anda, EsArchivo
<1>3. PICK k \in 0 .. Len(nombres) : k = Len(c)
    BY FinDeRama
<1>4. /\ c \in Seq(Entradas) /\ c \in [1 .. k -> Entradas] /\ (c = <<>> <=> k = 0)
      /\ Len(nombres) \in Nat
    BY <1>3, FinDeRama
<1>5. /\ Len(partes[a]) = Len(nombres) - k /\ Len(partes[a]) \in Nat \ {0}
      /\ \A i \in 1 .. Len(partes[a]) : partes[a][i] = nombres[k + i]
    BY <1>1, <1>2, <1>3, ColaDe DEF Quedan
<1>6. k < Len(nombres) /\ k + 1 \in 0 .. Len(nombres)
    BY <1>4, <1>5
<1>7. Quedan(a, k + 1, nombres)'
  <2>1. partes'[a] = Tail(partes[a])
      BY DEF LeerParte, TypeOK
  <2>2. /\ Len(partes'[a]) = Len(partes[a]) - 1
        /\ \A i \in 1 .. Len(partes'[a]) : partes'[a][i] = partes[a][i + 1]
      BY <1>1, <2>1, ColaDe
  <2>3. Len(partes'[a]) = Len(nombres) - (k + 1)
      BY <1>4, <1>5, <2>2
  <2>4. ASSUME NEW i \in 1 .. Len(partes'[a]) PROVE partes'[a][i] = nombres[(k + 1) + i]
    <3>1. i + 1 \in 1 .. Len(partes[a]) /\ k + (i + 1) = (k + 1) + i
        BY <1>5, <2>2
    <3> QED BY <1>5, <2>2, <3>1
  <2> QED BY <2>3, <2>4 DEF Quedan
<1>8. Head(partes[a]) = nombres[k + 1]
  <2>1. 1 \in 1 .. Len(partes[a])
      BY <1>5
  <2> QED BY <1>1, <1>5, <2>1, ColaDe
<1>9. EsRama(c, nombres)'
    BY <1>1, <1>2, <1>4, RamaQuieta
<1>10. CASE \A e \in Entradas : ~Hallada(e, arr[a], Head(partes[a]))
  <2>1. desc'[a] = NIL /\ arr'[a] = Fin(c)
      BY <1>2, <1>10 DEF LeerParte, TypeOK
  <2>2. Falta(Fin(c), nombres[k + 1])
      BY <1>2, <1>8, <1>10, SiNoHallaFalta
  <2>3. Falta(Fin(c), nombres[k + 1])'
      BY <1>1, <2>2 DEF Falta, Activa
  <2>4. Len(c)' = k /\ k < Len(nombres)
      BY <1>3, <1>6
  <2> QED BY <1>2, <1>3, <1>7, <1>9, <2>1, <2>3, <2>4 DEF Anda
<1>11. ASSUME NEW e \in Entradas, Hallada(e, arr[a], Head(partes[a])), arr'[a] = e,
              desc'[a] = tabla[e]
       PROVE  Anda(a, nombres, duenio)'
  <2>1. /\ Activa(tabla, e) /\ tabla[e].fname = nombres[k + 1] /\ tabla[e].parent = Fin(c)
        /\ tabla[e] \in Descriptores
      BY <1>2, <1>8, <1>11 DEF Hallada, TypeOK
  <2>2. tabla[e].state \in {"DIRECTORY", "REGULAR"} /\ tabla[e] # NIL
      BY <2>1, TiposFijos DEF Activa, Descriptores
  <2>3. CASE tabla[e].state = "REGULAR"
    <3>1. EsArchivo(arr[a], desc[a], Fin(c), nombres[k + 1], a, duenio)'
        BY <1>1, <1>11, <2>1, <2>3 DEF EsArchivo
    <3>2. desc'[a] # NIL
        BY <1>11, <2>2
    <3> QED BY <1>2, <1>3, <1>6, <1>7, <1>9, <3>1, <3>2 DEF Anda
  <2>4. CASE tabla[e].state = "DIRECTORY"
    <3>1. PICK d : d = Append(c, e)
        OBVIOUS
    <3>2. /\ d \in Seq(Entradas) /\ Len(d) = k + 1 /\ d[k + 1] = e
          /\ \A i \in 1 .. k : d[i] = c[i]
        BY <1>3, <1>4, <3>1
    <3>3. d \in [1 .. k + 1 -> Entradas] /\ d # <<>>
        BY <1>4, <3>2
    <3>4. d \in Ramas(Len(nombres)) /\ Fin(d) = e
        BY <1>6, <3>2, <3>3 DEF Ramas, Fin
    <3>5. EsRama(d, nombres)
      <4> SUFFICES ASSUME NEW i \in 1 .. k + 1
                   PROVE  /\ tabla[d[i]].state = "DIRECTORY" /\ tabla[d[i]].fname = nombres[i]
                          /\ tabla[d[i]].parent = IF i = 1 THEN RAIZ ELSE d[i - 1]
          BY <3>2 DEF EsRama
      <4>1. CASE i = k + 1
        <5>1. Fin(c) = IF i = 1 THEN RAIZ ELSE d[i - 1]
          <6>1. CASE k = 0
              BY <1>4, <4>1, <6>1 DEF Fin
          <6>2. CASE k # 0
            <7>1. k \in 1 .. k /\ i # 1 /\ i - 1 = k
                BY <4>1, <6>2
            <7> QED BY <1>3, <1>4, <3>2, <6>2, <7>1 DEF Fin
          <6> QED BY <6>1, <6>2
        <5> QED BY <2>1, <2>4, <3>2, <4>1, <5>1
      <4>2. CASE i # k + 1
        <5>1. i \in 1 .. k /\ (i # 1 => i - 1 \in 1 .. k)
            BY <4>2
        <5> QED BY <1>2, <1>3, <3>2, <5>1 DEF EsRama
      <4> QED BY <4>1, <4>2
    <3>6. EsRama(d, nombres)'
        BY <1>1, <1>4, <3>4, <3>5, RamaQuieta
    <3>7. Quedan(a, Len(d), nombres)'
        BY <1>7, <3>2
    <3>8. desc'[a] = tabla'[arr'[a]] /\ arr'[a] = Fin(d)
        BY <1>1, <1>11, <3>4
    <3> QED BY <3>3, <3>4, <3>6, <3>7, <3>8 DEF Anda
  <2> QED BY <2>2, <2>3, <2>4
<1> QED BY <1>10, <1>11 DEF LeerParte, TypeOK

(* What a walk that ended did not find, and where.                          *)
LEMMA NoHallado ==
    ASSUME NEW a \in Hilos, NEW duenio, NEW nombres \in Seq(Nombres), nombres # <<>>, TypeOK,
           Anda(a, nombres, duenio), ArchivoNoPathValido(a)
    PROVE  \E c \in Ramas(Len(nombres)) :
               /\ EsRama(c, nombres) /\ arr[a] = Fin(c)
               /\ arr[a] # RAIZ => arr[a] \in Entradas /\ tabla[arr[a]].state = "DIRECTORY"
               /\ Falta(arr[a], Ultimo(nombres))
<1>0. partes[a] = <<>> /\ desc[a] = NIL /\ NIL \notin Descriptores
    BY TiposFijos DEF ArchivoNoPathValido
<1>1. PICK c \in Ramas(Len(nombres)) :
        /\ EsRama(c, nombres)
        /\ \/ /\ arr[a] = Fin(c) /\ Quedan(a, Len(c), nombres)
              /\ desc[a] = IF c = <<>> THEN DescRaiz ELSE tabla[arr[a]]
           \/ /\ arr[a] = Fin(c) /\ Len(c) < Len(nombres) /\ Quedan(a, Len(c) + 1, nombres)
              /\ Falta(Fin(c), nombres[Len(c) + 1])
    BY <1>0 DEF Anda
<1>2. c # <<>> => Fin(c) \in Entradas
    BY FinDeRama
<1>3. ~(arr[a] = Fin(c) /\ desc[a] = IF c = <<>> THEN DescRaiz ELSE tabla[arr[a]])
    BY <1>0, <1>2, TiposFijos DEF TypeOK
<1>4. PICK k \in 0 .. Len(nombres) : k = Len(c)
    BY FinDeRama
<1>5. /\ arr[a] = Fin(c) /\ Quedan(a, k + 1, nombres)
      /\ Falta(Fin(c), nombres[k + 1])
    BY <1>1, <1>3, <1>4
<1>6. k + 1 = Len(nombres)
  <2>1. Len(partes[a]) = 0
      BY <1>0
  <2>2. Len(nombres) \in Nat
      OBVIOUS
  <2> QED BY <1>5, <2>1, <2>2 DEF Quedan
<1>7. arr[a] # RAIZ => arr[a] \in Entradas /\ tabla[arr[a]].state = "DIRECTORY"
  <2>1. arr[a] # RAIZ => c # <<>>
      BY <1>5 DEF Fin
  <2>2. c # <<>> => k \in 1 .. k /\ Fin(c) = c[k]
      BY <1>4, FinDeRama DEF Fin
  <2> QED BY <1>1, <1>2, <1>4, <1>5, <2>1, <2>2 DEF EsRama
<1> QED BY <1>1, <1>5, <1>6, <1>7 DEF Ultimo

LEMMA OrigenDice ==
    ASSUME NEW a \in Hilos, NEW duenio, TypeOK, ped[a] \in Pedidos, Origen(a, duenio)
    PROVE  /\ vieja[a].pos \in Entradas /\ vieja[a].desc.fname = Ultimo(ped[a].camino)
           /\ vieja[a].desc.state \in {"REGULAR", "DIRECTORY"}
           /\ \/ tabla[vieja[a].pos] = vieja[a].desc
              \/ /\ ~Activa(tabla, vieja[a].pos) /\ vieja[a].desc.state = "REGULAR"
<1>0. PICK nombres \in Seq(Nombres) : nombres = ped[a].camino
    BY Rutas
<1>1. PICK c \in Ramas(Len(nombres)) :
        /\ EsRama(c, nombres)
        /\ \/ /\ c # <<>> /\ Len(c) = Len(nombres)
              /\ vieja[a].pos = Fin(c) /\ vieja[a].desc = tabla[Fin(c)]
           \/ \E p \in Entradas \cup {RAIZ} :
                 EsArchivo(vieja[a].pos, vieja[a].desc, p, Ultimo(nombres), a, duenio)
    BY <1>0 DEF Origen
<1>2. CASE c # <<>> /\ Len(c) = Len(nombres) /\ vieja[a].pos = Fin(c) /\ vieja[a].desc = tabla[Fin(c)]
  <2>1. Fin(c) \in Entradas /\ Len(c) \in 1 .. Len(c) /\ Fin(c) = c[Len(c)]
      BY <1>2, FinDeRama DEF Fin
  <2>2. tabla[Fin(c)].state = "DIRECTORY" /\ tabla[Fin(c)].fname = Ultimo(nombres)
      BY <1>1, <1>2, <2>1 DEF EsRama, Ultimo
  <2> QED BY <1>0, <1>2, <2>1, <2>2
<1>3. CASE \E p \in Entradas \cup {RAIZ} :
                 EsArchivo(vieja[a].pos, vieja[a].desc, p, Ultimo(nombres), a, duenio)
    BY <1>0, <1>3 DEF EsArchivo
<1> QED BY <1>1, <1>2, <1>3

(* A descriptor written by the author leaves the table in order.            *)
LEMMA AltaEnTabla ==
    ASSUME NEW a \in Hilos, NEW duenio, TypeOK, TablaOK(a, duenio), NEW x \in Entradas,
           NEW d \in Descriptores, tabla' = [tabla EXCEPT ![x] = d],
           d.state # "DELETED", d.fname \in Nombres,
           d.state = "DIRECTORY" => duenio[d.fname] = a,
           d.parent # RAIZ => d.parent \in Entradas /\ tabla[d.parent].state = "DIRECTORY",
           tabla[x].state = "DIRECTORY" => d.state = "DIRECTORY",
           Activa(tabla, x) => duenio[d.fname] = duenio[tabla[x].fname]
    PROVE  TablaOK(a, duenio)' /\ \A g \in Hilos : Respeta(g, duenio)
<1>1. tabla'[x] = d /\ \A e \in Entradas \ {x} : tabla'[e] = tabla[e]
    BY DEF TypeOK
<1>2. \A e \in Entradas : tabla[e].state = "DIRECTORY" => tabla'[e].state = "DIRECTORY"
    BY <1>1
<1>3. TablaOK(a, duenio)'
  <2> SUFFICES ASSUME NEW e \in Entradas, Activa(tabla', e)
               PROVE  /\ tabla'[e].fname \in Nombres
                      /\ tabla'[e].state = "DIRECTORY" => duenio[tabla'[e].fname] = a
                      /\ tabla'[e].parent # RAIZ =>
                           tabla'[tabla'[e].parent].state = "DIRECTORY"
      BY DEF TablaOK, Activa
  <2>1. CASE e = x
      BY <1>1, <1>2, <2>1
  <2>2. CASE e # x
    <3>1. tabla'[e] = tabla[e] /\ Activa(tabla, e) /\ tabla[e].parent \in Entradas \cup {RAIZ}
        BY <1>1, <2>2 DEF Activa, TypeOK, Descriptores
    <3> QED BY <1>2, <3>1 DEF TablaOK
  <2> QED BY <2>1, <2>2
<1>4. \A g \in Hilos : Respeta(g, duenio)
    BY <1>1 DEF Respeta, Activa
<1> QED BY <1>3, <1>4

(* A step of the author that leaves the table and what its walk found.      *)
LEMMA Mantiene ==
    ASSUME NEW a \in Hilos, NEW duenio, TypeOK, Control(a), pc[a] # "libre",
           UNCHANGED <<tabla, ped, partes, arr, desc, vieja>>
    PROVE  /\ Anda(a, ped[a].camino, duenio) => Anda(a, ped[a].camino, duenio)'
           /\ Anda(a, ped[a].destino, duenio) => Anda(a, ped[a].destino, duenio)'
           /\ Origen(a, duenio) => Origen(a, duenio)'
           /\ copia' = copia /\ CopiaAnterior(a) => CopiaAnterior(a)'
           /\ copia' = copia /\ ~TieneHijos(a) => ~TieneHijos(a)'
           /\ ArchivoNoPathValido(a) => ArchivoNoPathValido(a)'
           /\ ArchivoExiste(a) => ArchivoExiste(a)'
           /\ PuedeRenombrar(a) => PuedeRenombrar(a)'
<1>1. PICK camA, desA : camA = ped[a].camino /\ desA = ped[a].destino
    OBVIOUS
<1>2. Len(camA) \in Nat /\ Len(desA) \in Nat
    BY <1>1, Rutas DEF Control
<1>3. SoloQuita(a, duenio)
    BY DEF SoloQuita
<1>4. Anda(a, camA, duenio) => Anda(a, camA, duenio)'
    BY <1>2, <1>3, AndaQuieta
<1>5. Anda(a, desA, duenio) => Anda(a, desA, duenio)'
    BY <1>2, <1>3, AndaQuieta
<1>6. Origen(a, duenio) => Origen(a, duenio)'
    BY <1>1, <1>2, <1>3, OrigenQuieto
<1>7. camA' = camA /\ desA' = desA /\ camA = (ped[a].camino)' /\ desA = (ped[a].destino)'
    BY <1>1
<1>8. /\ copia' = copia /\ CopiaAnterior(a) => CopiaAnterior(a)'
      /\ copia' = copia /\ ~TieneHijos(a) => ~TieneHijos(a)'
    BY DEF CopiaAnterior, TieneHijos, Activa
<1>9. /\ ArchivoNoPathValido(a) => ArchivoNoPathValido(a)'
      /\ ArchivoExiste(a) => ArchivoExiste(a)'
      /\ PuedeRenombrar(a) => PuedeRenombrar(a)'
    BY DEF ArchivoNoPathValido, ArchivoExiste, PuedeRenombrar
<1> QED BY <1>1, <1>4, <1>5, <1>6, <1>7, <1>8, <1>9

(* What renombrar found at the old path, kept for the end.                  *)
LEMMA GuardaOrigen ==
    ASSUME NEW a \in Hilos, NEW duenio, TypeOK, ped[a] \in Pedidos,
           Anda(a, ped[a].camino, duenio), PasarAlDestino(a), vieja'[a].existe
    PROVE  Origen(a, duenio)'
<1>1. PICK nombres \in Seq(Nombres) : nombres = ped[a].camino /\ nombres # <<>>
    BY ConstantesTabla
<1>2. /\ ArchivoExiste(a) /\ vieja'[a].pos = arr[a] /\ vieja'[a].desc = desc[a]
      /\ UNCHANGED <<tabla, ped>>
    BY DEF PasarAlDestino, TypeOK, compartido
<1>3. Anda(a, nombres, duenio) /\ partes[a] = <<>> /\ desc[a] # NIL
    BY <1>1, <1>2 DEF ArchivoExiste
<1>4. \/ /\ \E c \in Ramas(Len(nombres)) :
                /\ EsRama(c, nombres) /\ c # <<>> /\ Len(c) = Len(nombres)
                /\ arr[a] = Fin(c)
         /\ desc[a] = tabla[arr[a]]
      \/ \E p \in Entradas \cup {RAIZ} :
           EsArchivo(arr[a], desc[a], p, Ultimo(nombres), a, duenio)
    BY <1>1, <1>3, Hallado
<1>5. \A c : EsRama(c, nombres) => EsRama(c, nombres)'
    BY <1>2 DEF EsRama
<1>6. \A p : EsArchivo(arr[a], desc[a], p, Ultimo(nombres), a, duenio) =>
             EsArchivo(vieja[a].pos, vieja[a].desc, p, Ultimo(nombres), a, duenio)'
    BY <1>2 DEF EsArchivo, Activa
<1>7. nombres = (ped[a].camino)'
    BY <1>1, <1>2
<1>8. CASE \E c \in Ramas(Len(nombres)) :
              /\ EsRama(c, nombres) /\ c # <<>> /\ Len(c) = Len(nombres)
              /\ arr[a] = Fin(c) /\ desc[a] = tabla[arr[a]]
  <2>1. PICK c \in Ramas(Len(nombres)) :
              /\ EsRama(c, nombres) /\ c # <<>> /\ Len(c) = Len(nombres)
              /\ arr[a] = Fin(c) /\ desc[a] = tabla[arr[a]]
      BY <1>8
  <2>2. EsRama(c, nombres)'
      BY <1>5, <2>1
  <2>3. vieja'[a].pos = Fin(c) /\ vieja'[a].desc = tabla'[Fin(c)]
      BY <1>2, <2>1
  <2> QED BY <1>7, <2>1, <2>2, <2>3 DEF Origen
<1>9. CASE \E p \in Entradas \cup {RAIZ} :
           EsArchivo(arr[a], desc[a], p, Ultimo(nombres), a, duenio)
  <2>1. <<>> \in Ramas(Len(nombres))
    <3>1. <<>> \in [1 .. 0 -> Entradas] /\ 0 \in 0 .. Len(nombres)
        OBVIOUS
    <3> QED BY <3>1 DEF Ramas
  <2>2. EsRama(<<>>, nombres)'
      BY DEF EsRama
  <2>3. PICK p \in Entradas \cup {RAIZ} :
          EsArchivo(vieja[a].pos, vieja[a].desc, p, Ultimo(nombres), a, duenio)'
      BY <1>6, <1>9
  <2> QED BY <1>7, <2>1, <2>2, <2>3 DEF Origen
<1> QED BY <1>4, <1>8, <1>9

(* What a creation finds when it writes its descriptor: a free entry, a     *)
(* directory that is there and a name that nothing in it has.               *)
LEMMA AltaLimpia ==
    ASSUME NEW a \in Hilos, NEW duenio, Repartidos(a, duenio), Ordenada(a, duenio),
           EscribirDescriptor(a)
    PROVE  /\ ped[a] \in Pedidos /\ ped[a].op \in Creando
           /\ pos[a] \in Entradas /\ ~Activa(tabla, pos[a])
           /\ Ultimo(ped[a].camino) \in Nombres
           /\ ped[a].op = "mkdir" => duenio[Ultimo(ped[a].camino)] = a
           /\ arr[a] # RAIZ => arr[a] \in Entradas /\ tabla[arr[a]].state = "DIRECTORY"
           /\ Falta(arr[a], Ultimo(ped[a].camino))
<1>1. TypeOK /\ Control(a) /\ PropiasOK(a, duenio) /\ pc[a] = "escribir"
    BY DEF Ordenada, Cumple, Base, EscribirDescriptor
<1>2. /\ Anda(a, ped[a].camino, duenio) /\ ArchivoNoPathValido(a) /\ ped[a].op \in Creando
      /\ ~Activa(tabla, pos[a]) /\ pos[a] \in Entradas /\ ped[a] \in Pedidos
    BY <1>1 DEF PropiasOK, Control
<1>3. PICK nombres \in Seq(Nombres) : nombres = ped[a].camino /\ nombres # <<>>
    BY <1>2, ConstantesTabla
<1>4. /\ arr[a] # RAIZ => arr[a] \in Entradas /\ tabla[arr[a]].state = "DIRECTORY"
      /\ Falta(arr[a], Ultimo(nombres))
    BY <1>1, <1>2, <1>3, NoHallado
<1>5. ped[a].op = "mkdir" => duenio[Ultimo(ped[a].camino)] = a
    BY <1>2 DEF Repartidos
<1> QED BY <1>2, <1>3, <1>4, <1>5, UltimoNombre

(* What a rename finds when it writes: the node as it was read, or that it  *)
(* was deleted meanwhile, a directory to hang it from and a free name.      *)
LEMMA MudanzaLimpia ==
    ASSUME NEW a \in Hilos, NEW duenio, Repartidos(a, duenio), Ordenada(a, duenio),
           Renombrar(a)
    PROVE  /\ ped[a] \in Pedidos /\ ped[a].op = "renombrar"
           /\ Anda(a, ped[a].destino, duenio) /\ Origen(a, duenio) /\ ArchivoNoPathValido(a)
           /\ ~Empieza(ped[a].destino, ped[a].camino)
           /\ vieja[a].pos \in Entradas /\ vieja[a].desc \in Descriptores
           /\ vieja[a].desc.fname = Ultimo(ped[a].camino)
           /\ vieja[a].desc.state \in {"REGULAR", "DIRECTORY"}
           /\ \/ tabla[vieja[a].pos] = vieja[a].desc
              \/ ~Activa(tabla, vieja[a].pos) /\ vieja[a].desc.state = "REGULAR"
           /\ Ultimo(ped[a].destino) \in Nombres
           /\ duenio[Ultimo(ped[a].destino)] = duenio[vieja[a].desc.fname]
           /\ arr[a] # RAIZ => arr[a] \in Entradas /\ tabla[arr[a]].state = "DIRECTORY"
           /\ Falta(arr[a], Ultimo(ped[a].destino))
<1>1. TypeOK /\ Control(a) /\ PropiasOK(a, duenio) /\ pc[a] = "renombrar"
    BY DEF Ordenada, Cumple, Base, Renombrar
<1>2. /\ Anda(a, ped[a].destino, duenio) /\ Origen(a, duenio) /\ ArchivoNoPathValido(a)
      /\ ped[a] \in Pedidos /\ ped[a].op = "renombrar"
    BY <1>1 DEF PropiasOK, Control, PuedeRenombrar
<1>3. PICK nombres \in Seq(Nombres) : nombres = ped[a].destino /\ nombres # <<>>
    BY <1>2, ConstantesTabla
<1>4. /\ arr[a] # RAIZ => arr[a] \in Entradas /\ tabla[arr[a]].state = "DIRECTORY"
      /\ Falta(arr[a], Ultimo(nombres))
    BY <1>1, <1>2, <1>3, NoHallado
<1>5. /\ duenio[Ultimo(ped[a].destino)] = duenio[Ultimo(ped[a].camino)]
      /\ ~Empieza(ped[a].destino, ped[a].camino)
    BY <1>2 DEF Repartidos
<1>6. /\ vieja[a].pos \in Entradas /\ vieja[a].desc.fname = Ultimo(ped[a].camino)
      /\ vieja[a].desc.state \in {"REGULAR", "DIRECTORY"}
      /\ \/ tabla[vieja[a].pos] = vieja[a].desc
         \/ ~Activa(tabla, vieja[a].pos) /\ vieja[a].desc.state = "REGULAR"
    BY <1>1, <1>2, OrigenDice
<1>7. vieja[a].desc \in Descriptores
    BY <1>1 DEF TypeOK
<1> QED BY <1>2, <1>3, <1>4, <1>5, <1>6, <1>7, UltimoNombre

LEMMA AltaEnOrden ==
    ASSUME NEW a \in Hilos, NEW duenio, Repartidos(a, duenio), Ordenada(a, duenio),
           EscribirDescriptor(a) \/ Renombrar(a)
    PROVE  TablaOK(a, duenio)' /\ \A g \in Hilos : Respeta(g, duenio)
<1>0. TypeOK /\ TablaOK(a, duenio)
    BY DEF Ordenada, Cumple, Base
<1>1. CASE EscribirDescriptor(a)
  <2>1. PICK x, d :
          /\ x \in Entradas /\ x = pos[a]
          /\ d = [state |-> TipoDe(ped[a].op), fname |-> Ultimo(ped[a].camino),
                  parent |-> arr[a]]
      BY <1>1, AltaLimpia
  <2>2. tabla' = [tabla EXCEPT ![x] = d]
      BY <1>1, <2>1 DEF EscribirDescriptor
  <2>3. /\ d.state \in {"REGULAR", "DIRECTORY"} /\ d.fname = Ultimo(ped[a].camino)
        /\ d.parent = arr[a] /\ (d.state = "DIRECTORY" => ped[a].op = "mkdir")
      BY <2>1 DEF TipoDe
  <2>4. d \in Descriptores
      BY <1>0, <1>1, <2>1, AltaLimpia DEF Descriptores, TypeOK, TipoDe
  <2>5. /\ d.fname \in Nombres /\ (d.state = "DIRECTORY" => duenio[d.fname] = a)
        /\ d.parent # RAIZ => d.parent \in Entradas /\ tabla[d.parent].state = "DIRECTORY"
        /\ ~Activa(tabla, x)
      BY <1>1, <2>1, <2>3, AltaLimpia
  <2>6. tabla[x].state # "DIRECTORY" /\ d.state # "DELETED"
      BY <2>3, <2>5 DEF Activa
  <2> QED BY <1>0, <2>1, <2>2, <2>4, <2>5, <2>6, AltaEnTabla
<1>2. CASE Renombrar(a)
  <2>1. PICK x, d :
          /\ x \in Entradas /\ x = vieja[a].pos
          /\ d = [vieja[a].desc EXCEPT !.fname = Ultimo(ped[a].destino), !.parent = arr[a]]
      BY <1>2, MudanzaLimpia
  <2>2. tabla' = [tabla EXCEPT ![x] = d]
      BY <1>2, <2>1 DEF Renombrar
  <2>3. PICK w \in Descriptores : w = vieja[a].desc
      BY <1>2, MudanzaLimpia
  <2>4. /\ d \in Descriptores /\ d.state = w.state /\ d.fname = Ultimo(ped[a].destino)
        /\ d.parent = arr[a]
      BY <1>0, <1>2, <2>1, <2>3, MudanzaLimpia DEF Descriptores, TypeOK
  <2>5. /\ d.fname \in Nombres /\ d.state \in {"REGULAR", "DIRECTORY"}
        /\ duenio[d.fname] = duenio[w.fname]
        /\ d.parent # RAIZ => d.parent \in Entradas /\ tabla[d.parent].state = "DIRECTORY"
        /\ tabla[x] = w \/ (~Activa(tabla, x) /\ w.state = "REGULAR")
      BY <1>2, <2>1, <2>3, <2>4, MudanzaLimpia
  <2>6. d.state = "DIRECTORY" => duenio[d.fname] = a
      BY <1>0, <2>1, <2>4, <2>5 DEF TablaOK, Activa
  <2>7. /\ d.state # "DELETED" /\ (tabla[x].state = "DIRECTORY" => d.state = "DIRECTORY")
        /\ Activa(tabla, x) => duenio[d.fname] = duenio[tabla[x].fname]
      BY <2>4, <2>5 DEF Activa
  <2> QED BY <1>0, <2>1, <2>2, <2>4, <2>5, <2>6, <2>7, AltaEnTabla
<1> QED BY <1>1, <1>2

(* Each step of the author keeps the table, its walks and those of the      *)
(* others in order.                                                         *)
LEMMA OrdenPropio ==
    ASSUME NEW a \in Hilos, NEW duenio, Repartidos(a, duenio), Ordenada(a, duenio), Paso(a)
    PROVE  Ordenada(a, duenio)'
<1>0. /\ TypeOK /\ Control(a) /\ Cumple(a) /\ TablaOK(a, duenio) /\ PropiasOK(a, duenio)
      /\ pc[a] \notin {"sinEntrada", "ajena"} /\ Promesa(a)
    BY DEF Ordenada, Cumple, Base
<1>1. Cumple(a)' /\ pc'[a] \notin {"sinEntrada", "ajena"}
    BY <1>0, CumpleSuyo DEF Cumple
(* The others see their variables and their files as they were.             *)
<1>a. ASSUME PropiasOK(a, duenio)', TablaOK(a, duenio)', \A g \in Hilos : Respeta(g, duenio),
             \A g \in Hilos \ {a} : /\ pc'[g] = pc[g] /\ ped'[g] = ped[g] /\ arr'[g] = arr[g]
                                    /\ partes'[g] = partes[g] /\ desc'[g] = desc[g]
      PROVE  Ordenada(a, duenio)'
  <2>1. \A g \in Hilos \ {a} : AjenasOK(g, duenio)'
      BY <1>0, <1>a, AjenaQuieta DEF Ordenada, Cumple
  <2> QED BY <1>1, <1>a, <2>1 DEF Ordenada
<1>b. ASSUME UNCHANGED tabla PROVE TablaOK(a, duenio)' /\ \A g \in Hilos : Respeta(g, duenio)
    BY <1>0, <1>b DEF TablaOK, Respeta, Activa
<1>c. ASSUME Olvidar(a), TablaOK(a, duenio)', \A g \in Hilos \ {a} : Respeta(g, duenio)
      PROVE  Ordenada(a, duenio)'
  <2>1. /\ pc'[a] = "libre" /\ arr'[a] = RAIZ /\ desc'[a] = DescRaiz
        /\ \A g \in Hilos \ {a} : /\ pc'[g] = pc[g] /\ ped'[g] = ped[g] /\ arr'[g] = arr[g]
                                  /\ partes'[g] = partes[g] /\ desc'[g] = desc[g]
      BY <1>0, <1>c DEF Olvidar, TypeOK
  <2>2. PropiasOK(a, duenio)'
      BY <2>1 DEF PropiasOK
  <2>3. \A g \in Hilos \ {a} : AjenasOK(g, duenio)'
      BY <1>0, <1>c, <2>1, AjenaQuieta DEF Ordenada, Cumple
  <2> QED BY <1>1, <1>c, <2>2, <2>3 DEF Ordenada
<1>d. ASSUME Responder(a) PROVE Ordenada(a, duenio)'
    BY <1>b, <1>c, <1>d DEF Responder, compartido
(* A step that changes nothing the walks depend on.                         *)
<1>e. ASSUME UNCHANGED <<tabla, ped, partes, arr, desc, vieja>>, PropiasOK(a, duenio)',
             \A g \in Hilos \ {a} : pc'[g] = pc[g]
      PROVE  Ordenada(a, duenio)'
    BY <1>a, <1>b, <1>e
<1>2. CASE Contar(a)
  <2>1. CASE HayDescriptores /\ pc' = [pc EXCEPT ![a] = "camino"]
             /\ UNCHANGED <<compartido, ped, copia, camino, vieja, pos>>
    <3>1. /\ UNCHANGED <<tabla, ped, partes, arr, desc, vieja>> /\ pc[a] = "contar"
          /\ pc'[a] = "camino" /\ \A g \in Hilos \ {a} : pc'[g] = pc[g]
        BY <1>0, <1>2, <2>1 DEF TypeOK, Contar, compartido, camino
    <3>2. /\ ped[a] \in Pedidos /\ ped[a].hilo = a /\ ped[a].op \in Creando
          /\ arr[a] = RAIZ /\ desc[a] = DescRaiz /\ partes[a] = ped[a].camino
        BY <1>0, <3>1 DEF Control, PropiasOK
    <3>3. Anda(a, ped[a].camino, duenio)
        BY <1>0, <3>2, Rutas, AndaEmpieza
    <3>4. Anda(a, ped[a].camino, duenio)'
        BY <1>0, <3>1, <3>3, Mantiene
    <3>5. PropiasOK(a, duenio)'
        BY <3>1, <3>2, <3>4 DEF PropiasOK, Creando
    <3> QED BY <1>e, <3>1, <3>5
  <2> QED BY <1>2, <1>d, <2>1 DEF Contar
<1>3. CASE LeerParte(a)
  <2>1. /\ UNCHANGED <<tabla, pc, ped, copia, vieja, pos>> /\ pc[a] \in {"camino", "destino"}
        /\ \A g \in Hilos \ {a} : arr'[g] = arr[g] /\ partes'[g] = partes[g] /\ desc'[g] = desc[g]
      BY <1>0, <1>3 DEF LeerParte, compartido, TypeOK
  <2>2. ped[a] \in Pedidos /\ ped[a].hilo = a
      BY <1>0, <2>1 DEF Control, PropiasOK
  <2>3. PICK camA \in Seq(Nombres), desA \in Seq(Nombres) :
            camA = ped[a].camino /\ desA = ped[a].destino
      BY <2>2, Rutas
  <2>4. camA = (ped[a].camino)' /\ desA = (ped[a].destino)'
      BY <2>1, <2>3
  <2>5. CASE pc[a] = "camino"
    <3>1. Anda(a, camA, duenio) /\ (ped[a].op = "eliminar" => CopiaAnterior(a))
        BY <1>0, <2>3, <2>5 DEF PropiasOK
    <3>2. Anda(a, camA, duenio)'
        BY <1>0, <1>3, <3>1, AndaUnaMas
    <3>3. CopiaAnterior(a) => CopiaAnterior(a)'
        BY <2>1 DEF CopiaAnterior, Activa
    <3>4. PropiasOK(a, duenio)'
        BY <2>1, <2>2, <2>4, <2>5, <3>1, <3>2, <3>3 DEF PropiasOK
    <3> QED BY <1>a, <1>b, <2>1, <3>4
  <2>6. CASE pc[a] = "destino"
    <3>1. Anda(a, desA, duenio) /\ (vieja[a].existe => Origen(a, duenio))
        BY <1>0, <2>3, <2>6 DEF PropiasOK
    <3>2. Anda(a, desA, duenio)'
        BY <1>0, <1>3, <3>1, AndaUnaMas
    <3>3. SoloQuita(a, duenio) /\ Len(ped[a].camino) \in Nat
        BY <2>1, <2>2, Rutas DEF SoloQuita
    <3>4. Origen(a, duenio) => Origen(a, duenio)'
        BY <2>1, <3>3, OrigenQuieto
    <3>5. PropiasOK(a, duenio)'
        BY <2>1, <2>2, <2>4, <2>6, <3>1, <3>2, <3>4 DEF PropiasOK
    <3> QED BY <1>a, <1>b, <2>1, <3>5
  <2> QED BY <2>1, <2>5, <2>6
<1>4. CASE DecidirCrear(a)
  <2>1. CASE ArchivoNoPathValido(a) /\ pc' = [pc EXCEPT ![a] = "copiar"]
             /\ UNCHANGED <<compartido, ped, copia, camino, vieja, pos>>
    <3>1. /\ UNCHANGED <<tabla, ped, partes, arr, desc, vieja>> /\ pc[a] = "camino"
          /\ pc'[a] = "copiar" /\ \A g \in Hilos \ {a} : pc'[g] = pc[g]
          /\ ped[a].op \in Creando
        BY <1>0, <1>4, <2>1 DEF TypeOK, DecidirCrear, FinDe, Creando, compartido, camino
    <3>2. Anda(a, ped[a].camino, duenio) /\ ped[a].hilo = a
        BY <1>0, <3>1 DEF PropiasOK
    <3>3. Anda(a, ped[a].camino, duenio)' /\ ArchivoNoPathValido(a)'
        BY <1>0, <2>1, <3>1, <3>2, Mantiene
    <3>4. PropiasOK(a, duenio)'
        BY <3>1, <3>2, <3>3 DEF PropiasOK
    <3> QED BY <1>e, <3>1, <3>4
  <2> QED BY <1>4, <1>d, <2>1 DEF DecidirCrear
<1>5. CASE DecidirEliminar(a)
  <2>1. CASE ArchivoExiste(a) /\ ~TieneHijos(a) /\ pc' = [pc EXCEPT ![a] = "eliminar"]
             /\ UNCHANGED <<compartido, ped, copia, camino, vieja, pos>>
    <3>1. /\ UNCHANGED <<tabla, ped, partes, arr, desc, vieja>> /\ pc[a] = "camino"
          /\ pc'[a] = "eliminar" /\ \A g \in Hilos \ {a} : pc'[g] = pc[g]
          /\ ped[a].op = "eliminar" /\ copia' = copia
        BY <1>0, <1>5, <2>1 DEF TypeOK, DecidirEliminar, FinDe, compartido, camino
    <3>2. Anda(a, ped[a].camino, duenio) /\ ped[a].hilo = a /\ CopiaAnterior(a)
        BY <1>0, <3>1 DEF PropiasOK
    <3>3. /\ Anda(a, ped[a].camino, duenio)' /\ ArchivoExiste(a)' /\ ~TieneHijos(a)'
          /\ CopiaAnterior(a)'
        BY <1>0, <2>1, <3>1, <3>2, Mantiene
    <3>4. PropiasOK(a, duenio)'
        BY <3>1, <3>2, <3>3 DEF PropiasOK
    <3> QED BY <1>e, <3>1, <3>4
  <2> QED BY <1>5, <1>d, <2>1 DEF DecidirEliminar
<1>6. CASE Eliminar(a)
    BY <1>6, <1>c, BajaEnTabla DEF Eliminar
<1>7. CASE PasarAlDestino(a)
  <2>1. /\ UNCHANGED <<tabla, ped>> /\ pc[a] = "camino" /\ pc'[a] = "destino"
        /\ ped[a].op = "renombrar" /\ partes'[a] = ped[a].destino /\ arr'[a] = RAIZ
        /\ desc'[a] = DescRaiz
        /\ \A g \in Hilos \ {a} : /\ pc'[g] = pc[g] /\ arr'[g] = arr[g]
                                  /\ partes'[g] = partes[g] /\ desc'[g] = desc[g]
      BY <1>0, <1>7 DEF PasarAlDestino, FinDe, compartido, TypeOK
  <2>2. ped[a] \in Pedidos /\ ped[a].hilo = a /\ Anda(a, ped[a].camino, duenio)
      BY <1>0, <2>1 DEF Control, PropiasOK
  <2>3. vieja'[a].existe => Origen(a, duenio)'
      BY <1>0, <1>7, <2>2, GuardaOrigen
  <2>4. Anda(a, ped[a].destino, duenio)'
    <3>1. PICK desA \in Seq(Nombres) : desA = ped[a].destino
        BY <2>2, Rutas
    <3>2. <<>> \in Ramas(Len(desA))
      <4>1. <<>> \in [1 .. 0 -> Entradas] /\ 0 \in 0 .. Len(desA)
          OBVIOUS
      <4> QED BY <4>1 DEF Ramas
    <3>3. /\ EsRama(<<>>, desA)' /\ Fin(<<>>)' = RAIZ /\ Quedan(a, Len(<<>>), desA)'
        BY <2>1, <3>1 DEF EsRama, Fin, Quedan
    <3>4. Anda(a, desA, duenio)'
        BY <2>1, <3>2, <3>3 DEF Anda
    <3> QED BY <2>1, <3>1, <3>4
  <2>5. PropiasOK(a, duenio)'
      BY <2>1, <2>2, <2>3, <2>4 DEF PropiasOK
  <2> QED BY <1>a, <1>b, <2>1, <2>5
<1>8. CASE DecidirRenombrar(a)
  <2>1. CASE PuedeRenombrar(a) /\ pc' = [pc EXCEPT ![a] = "renombrar"]
             /\ UNCHANGED <<compartido, ped, copia, camino, vieja, pos>>
    <3>1. /\ UNCHANGED <<tabla, ped, partes, arr, desc, vieja>> /\ pc[a] = "destino"
          /\ pc'[a] = "renombrar" /\ \A g \in Hilos \ {a} : pc'[g] = pc[g]
        BY <1>0, <1>8, <2>1 DEF TypeOK, DecidirRenombrar, FinDe, compartido, camino
    <3>2. /\ Anda(a, ped[a].destino, duenio) /\ ped[a].hilo = a
          /\ vieja[a].existe => Origen(a, duenio)
        BY <1>0, <3>1 DEF PropiasOK
    <3>3. /\ Anda(a, ped[a].destino, duenio)' /\ PuedeRenombrar(a)'
          /\ vieja[a].existe => Origen(a, duenio)'
        BY <1>0, <2>1, <3>1, <3>2, Mantiene
    <3>4. PropiasOK(a, duenio)'
        BY <3>1, <3>2, <3>3 DEF PropiasOK
    <3> QED BY <1>e, <3>1, <3>4
  <2> QED BY <1>8, <1>d, <2>1 DEF DecidirRenombrar
<1>9. CASE Renombrar(a)
    BY <1>9, <1>c, AltaEnOrden DEF Renombrar
(* The search for a free entry: where the walk ended stays.                 *)
<1>f. ASSUME UNCHANGED <<tabla, ped, partes, arr, desc, vieja>>,
             pc[a] \in {"copiar", "reiniciar", "cero", "desde", "buscar", "seguir"},
             pc'[a] \in {"reiniciar", "cero", "desde", "buscar", "seguir", "escribir"},
             pc'[a] # "escribir" => CopiaAnterior(a)',
             pc'[a] = "escribir" => ~Activa(tabla', pos'[a]),
             \A g \in Hilos \ {a} : pc'[g] = pc[g]
      PROVE  Ordenada(a, duenio)'
  <2>1. /\ Anda(a, ped[a].camino, duenio) /\ ped[a].hilo = a
        /\ ArchivoNoPathValido(a) /\ ped[a].op \in Creando
      BY <1>0, <1>f DEF PropiasOK
  <2>2. Anda(a, ped[a].camino, duenio)' /\ ArchivoNoPathValido(a)'
      BY <1>0, <1>f, <2>1, Mantiene
  <2>3. PropiasOK(a, duenio)'
      BY <1>f, <2>1, <2>2 DEF PropiasOK, Activa
  <2> QED BY <1>e, <1>f, <2>3
<1>g. ASSUME UNCHANGED <<tabla, ped, partes, arr, desc, vieja, copia>>,
             pc[a] \in {"reiniciar", "cero", "desde", "buscar", "seguir"}
      PROVE  CopiaAnterior(a) /\ CopiaAnterior(a)'
    BY <1>0, <1>g, Mantiene DEF PropiasOK
<1>10. CASE CopiarTabla(a)
  <2>1. /\ UNCHANGED <<tabla, ped, partes, arr, desc, vieja>> /\ pc[a] = "copiar"
        /\ pc'[a] = "reiniciar" /\ copia'[a] = tabla'
        /\ \A g \in Hilos \ {a} : pc'[g] = pc[g]
      BY <1>0, <1>10 DEF TypeOK, CopiarTabla, compartido, camino
  <2>2. CopiaAnterior(a)'
      BY <2>1 DEF CopiaAnterior, Activa
  <2> QED BY <1>f, <2>1, <2>2
<1>10a. CASE MirarUltima(a)
  <2>1. /\ UNCHANGED <<tabla, ped, partes, arr, desc, vieja, copia>> /\ pc[a] = "reiniciar"
        /\ pc'[a] \in {"cero", "desde"} /\ \A g \in Hilos \ {a} : pc'[g] = pc[g]
      BY <1>0, <1>10a DEF TypeOK, MirarUltima, camino, compartido
  <2> QED BY <1>f, <1>g, <2>1
<1>11. CASE ReiniciarUltima(a)
  <2>1. /\ UNCHANGED <<tabla, ped, partes, arr, desc, vieja, copia>> /\ pc[a] = "cero"
        /\ pc'[a] = "desde" /\ \A g \in Hilos \ {a} : pc'[g] = pc[g]
      BY <1>0, <1>11 DEF TypeOK, ReiniciarUltima, camino
  <2> QED BY <1>f, <1>g, <2>1
<1>12. CASE LeerUltima(a)
  <2>1. /\ UNCHANGED <<tabla, ped, partes, arr, desc, vieja, copia>> /\ pc[a] = "desde"
        /\ pc'[a] = "buscar" /\ \A g \in Hilos \ {a} : pc'[g] = pc[g]
      BY <1>0, <1>12 DEF TypeOK, LeerUltima, camino, compartido
  <2> QED BY <1>f, <1>g, <2>1
<1>13. CASE OtorgarEntrada(a)
  <2>1. /\ UNCHANGED <<tabla, ped, partes, arr, desc, vieja, copia, pos>> /\ pc[a] = "buscar"
        /\ pc'[a] = "escribir" /\ \A g \in Hilos \ {a} : pc'[g] = pc[g]
        /\ pos[a] \in Entradas /\ ~Activa(copia[a], pos[a])
      BY <1>0, <1>13 DEF TypeOK, OtorgarEntrada, camino, Sirve
  <2>2. ~Activa(tabla', pos'[a])
      BY <1>g, <2>1 DEF CopiaAnterior
  <2> QED BY <1>f, <2>1, <2>2
<1>14. CASE PasarEntrada(a)
  <2>1. /\ UNCHANGED <<tabla, ped, partes, arr, desc, vieja, copia>> /\ pc[a] = "buscar"
        /\ pc'[a] = "seguir" /\ \A g \in Hilos \ {a} : pc'[g] = pc[g]
      BY <1>0, <1>1, <1>14 DEF TypeOK, PasarEntrada, camino
  <2> QED BY <1>f, <1>g, <2>1
<1>15. CASE SeguirBuscando(a)
  <2>1. /\ UNCHANGED <<tabla, ped, partes, arr, desc, vieja, copia>> /\ pc[a] = "seguir"
        /\ pc'[a] = "buscar" /\ \A g \in Hilos \ {a} : pc'[g] = pc[g]
      BY <1>0, <1>1, <1>15 DEF TypeOK, SeguirBuscando, camino, compartido
  <2> QED BY <1>f, <1>g, <2>1
<1>16. ~SinEntrada(a) /\ ~OtorgarAjena(a) /\ ~MorirBuscando(a)
    BY <1>0 DEF SinEntrada, OtorgarAjena, MorirBuscando, Promesa
<1>17. CASE EscribirDescriptor(a)
  <2>1. /\ UNCHANGED <<ped, partes, arr, desc>> /\ pc[a] = "escribir" /\ pc'[a] = "devolver"
        /\ \A g \in Hilos \ {a} : pc'[g] = pc[g]
      BY <1>0, <1>17 DEF TypeOK, EscribirDescriptor, camino
  <2>2. PropiasOK(a, duenio)'
      BY <1>0, <2>1 DEF PropiasOK
  <2> QED BY <1>17, <1>a, <2>1, <2>2, AltaEnOrden
<1>18. CASE DevolverEntrada(a)
    BY <1>18, <1>b, <1>c DEF DevolverEntrada
<1> QED
    BY <1>2, <1>3, <1>4, <1>5, <1>6, <1>7, <1>8, <1>9, <1>10, <1>10a, <1>11, <1>12, <1>13,
       <1>14, <1>15, <1>16, <1>17, <1>18 DEF Paso

(* A request arrives: its walk begins at the root.                          *)
LEMMA OrdenRecibir ==
    ASSUME NEW a \in Hilos, NEW duenio, Repartidos(a, duenio), Ordenada(a, duenio),
           NEW h \in Hilos, NEW p \in Pedidos, Recibir(h, p)
    PROVE  Ordenada(a, duenio)'
<1>0. TypeOK /\ Cumple(a) /\ TablaOK(a, duenio) /\ DeUno(a) /\ PropiasOK(a, duenio)
    BY DEF Ordenada, Cumple, Base, Repartidos
<1>1. Cumple(a)'
    BY <1>0, CumpleRecibir
<1>2. /\ UNCHANGED tabla /\ TablaOK(a, duenio)' /\ SoloQuita(a, duenio)
      /\ \A g \in Hilos : Respeta(g, duenio)
    BY <1>0 DEF Recibir, compartido, TablaOK, SoloQuita, Respeta, Activa
<1>3. \A g \in Hilos \ {h} :
        /\ pc'[g] = pc[g] /\ ped'[g] = ped[g] /\ copia'[g] = copia[g]
        /\ partes'[g] = partes[g] /\ arr'[g] = arr[g] /\ desc'[g] = desc[g]
        /\ vieja'[g] = vieja[g] /\ pos'[g] = pos[g]
    BY <1>0 DEF Recibir, TypeOK
<1>4. /\ pc[h] = "libre" /\ p.hilo = h /\ ped'[h] = p /\ partes'[h] = p.camino
      /\ pc'[h] = IF p.op \in Creando THEN "contar" ELSE "camino"
      /\ arr' = arr /\ desc' = desc /\ (p.op = "eliminar" => copia'[h] = tabla)
    BY <1>0 DEF Recibir, TypeOK, Creando
<1>5. \A g \in Hilos \ {a, h} : AjenasOK(g, duenio)'
    BY <1>0, <1>2, <1>3, AjenaQuieta DEF Ordenada, Cumple
<1>6. CASE h # a
  <2>1. PropiasOK(a, duenio)'
      BY <1>2, <1>3, <1>6, PropiasQuietas
  <2>2. p.op = "eliminar"
      BY <1>0, <1>4, <1>6 DEF DeUno
  <2>3. /\ AjenasOK(h, duenio) /\ arr[h] = RAIZ /\ p.camino # <<>>
        /\ pc'[h] = "camino"
      BY <1>4, <1>6, <2>2, ConstantesTabla DEF Ordenada, AjenasOK, Creando
  <2>4. AjenasOK(h, duenio)'
      BY <1>4, <2>3 DEF AjenasOK
  <2> QED BY <1>1, <1>2, <1>5, <2>1, <2>4 DEF Ordenada
<1>7. CASE h = a
  <2>1. arr'[a] = RAIZ /\ desc'[a] = DescRaiz
      BY <1>0, <1>4, <1>7 DEF PropiasOK
  <2>2. PICK camA \in Seq(Nombres) : camA = p.camino
      BY Rutas
  <2>3. Anda(a, camA, duenio)'
    <3>1. <<>> \in Ramas(Len(camA))
      <4>1. <<>> \in [1 .. 0 -> Entradas] /\ 0 \in 0 .. Len(camA)
          OBVIOUS
      <4> QED BY <4>1 DEF Ramas
    <3>2. /\ EsRama(<<>>, camA)' /\ Fin(<<>>)' = RAIZ /\ Quedan(a, Len(<<>>), camA)'
        BY <1>4, <1>7, <2>2 DEF EsRama, Fin, Quedan
    <3> QED BY <2>1, <3>1, <3>2 DEF Anda
  <2>4. p.op = "eliminar" => CopiaAnterior(a)'
      BY <1>2, <1>4, <1>7 DEF CopiaAnterior, Activa
  <2>5. camA = (ped[a].camino)'
      BY <1>4, <1>7, <2>2
  <2>6. PropiasOK(a, duenio)'
      BY <1>4, <1>7, <2>1, <2>2, <2>3, <2>4, <2>5 DEF PropiasOK
  <2> QED BY <1>1, <1>2, <1>5, <1>7, <2>6 DEF Ordenada
<1> QED BY <1>6, <1>7

(* A step that changes nothing.                                             *)
LEMMA OrdenQuieto ==
    ASSUME NEW a \in Hilos, NEW duenio, Ordenada(a, duenio), UNCHANGED vars
    PROVE  Ordenada(a, duenio)'
<1>0. TypeOK /\ Cumple(a) /\ TablaOK(a, duenio)
    BY DEF Ordenada, Cumple, Base
<1>1. UNCHANGED <<tabla, otorgadas, ultima, mutex, vivo, pc, ped, copia, partes, arr, desc,
                  vieja, pos>>
    BY DEF vars
<1>2. Cumple(a)'
    BY <1>0, <1>1 DEF Cumple, SoloBajas, Promesa, HayLibre, Pasada, Activa, Base, TypeOK,
                      Control, EntradaDeUno, Tiene
<1>3. TablaOK(a, duenio)' /\ SoloQuita(a, duenio) /\ \A g \in Hilos : Respeta(g, duenio)
    BY <1>0, <1>1 DEF TablaOK, SoloQuita, Respeta, Activa
<1>4. PropiasOK(a, duenio)'
    BY <1>1, <1>3, PropiasQuietas
<1>5. \A g \in Hilos \ {a} : AjenasOK(g, duenio)'
    BY <1>0, <1>1, <1>3, AjenaQuieta DEF Ordenada, Cumple
<1> QED BY <1>2, <1>3, <1>4, <1>5 DEF Ordenada

LEMMA OrdenSiempre ==
    ASSUME NEW a \in Hilos, NEW duenio, Repartidos(a, duenio)
    PROVE  Spec => []Ordenada(a, duenio)
<1>1. ASSUME Init PROVE Ordenada(a, duenio)
  <2>1. Cumple(a)
      BY <1>1, BaseInicial DEF Init, Cumple, SoloBajas, Promesa
  <2>2. TablaOK(a, duenio)
      BY <1>1 DEF Init, TablaOK, TablaVacia, Vacia, Activa
  <2>3. \A h \in Hilos : pc[h] = "libre" /\ arr[h] = RAIZ /\ desc[h] = DescRaiz
      BY <1>1 DEF Init
  <2>4. PropiasOK(a, duenio) /\ \A h \in Hilos \ {a} : AjenasOK(h, duenio)
      BY <2>3 DEF PropiasOK, AjenasOK
  <2> QED BY <2>1, <2>2, <2>4 DEF Ordenada
<1>2. Ordenada(a, duenio) /\ [Next]_vars => Ordenada(a, duenio)'
  <2> SUFFICES ASSUME Ordenada(a, duenio), [Next]_vars PROVE Ordenada(a, duenio)'
      OBVIOUS
  <2>1. CASE UNCHANGED vars
      BY <2>1, OrdenQuieto
  <2>2. CASE Next
      BY <2>2, OrdenPropio, OrdenAjeno, OrdenRecibir DEF Next
  <2> QED BY <2>1, <2>2
<1> QED BY <1>1, <1>2, PTL DEF Spec

-----------------------------------------------------------------------------
(* The table as the tree that EspacioDeNombres describes.                   *)
Nodo(t, e) == [entrada |-> e, tipo |-> t[e].state, nombre |-> t[e].fname,
               padre |-> t[e].parent]

LEMMA EnArbol ==
    \A n : n \in Arbol <=> \E e \in Entradas : Activa(tabla, e) /\ n = Nodo(tabla, e)
BY DEF Arbol, Nodo

(* Two paths of directories that meet are one and the same up to there.     *)
LEMMA MismaRama ==
    ASSUME NEW n1 \in Nat, NEW n2 \in Nat, NEW c \in Ramas(n1), NEW d \in Ramas(n2),
           NEW nombres, NEW otros, EsRama(c, nombres), EsRama(d, otros), c # <<>>,
           NEW i \in 1 .. Len(d), Fin(c) = d[i]
    PROVE  Len(c) = i /\ \A j \in 1 .. i : nombres[j] = otros[j]
<1>1. PICK m \in Nat : m = Len(c) /\ m # 0
    BY FinDeRama
<1>2. PICK l \in Nat : l = Len(d)
    BY FinDeRama
<1>3. /\ \A j \in 1 .. m : c[j] \in Entradas
      /\ \A j \in 1 .. l : d[j] \in Entradas
      /\ i \in 1 .. l /\ RAIZ \notin Entradas
    BY <1>1, <1>2, FinDeRama, ConstantesTabla
<1>4. /\ \A j \in 1 .. m : /\ tabla[c[j]].fname = nombres[j]
                           /\ tabla[c[j]].parent = IF j = 1 THEN RAIZ ELSE c[j - 1]
      /\ \A j \in 1 .. l : /\ tabla[d[j]].fname = otros[j]
                           /\ tabla[d[j]].parent = IF j = 1 THEN RAIZ ELSE d[j - 1]
    BY <1>1, <1>2 DEF EsRama
<1>5. c[m] = d[i]
    BY <1>1 DEF Fin
<1> DEFINE Difieren == {k \in Nat : k < m /\ k < i /\ c[m - k] # d[i - k]}
<1>6. Difieren = {}
  <2>1. SUFFICES ASSUME Difieren # {} PROVE FALSE
      OBVIOUS
  <2>2. PICK k \in Difieren : \A j \in Difieren : k <= j
      BY <2>1, HayPrimero
  <2>3. k \in Nat /\ k < m /\ k < i /\ c[m - k] # d[i - k]
      BY <2>2
  <2>4. k # 0
      BY <1>1, <1>3, <1>5, <2>3
  <2>5. PICK q \in Nat : k = q + 1
    <3>1. k - 1 \in Nat /\ k = (k - 1) + 1
        BY <2>3, <2>4
    <3> QED BY <3>1
  <2>6. c[m - q] = d[i - q]
    <3>1. q \notin Difieren /\ q < m /\ q < i
        BY <2>2, <2>3, <2>5
    <3> QED BY <3>1
  <2>7. /\ m - q \in 1 .. m /\ i - q \in 1 .. l /\ m - q # 1 /\ i - q # 1
        /\ (m - q) - 1 = m - k /\ (i - q) - 1 = i - k
      BY <1>3, <2>3, <2>5
  <2>8. tabla[c[m - q]].parent = c[m - k] /\ tabla[d[i - q]].parent = d[i - k]
      BY <1>4, <2>7
  <2> QED BY <2>3, <2>6, <2>8
<1>7. \A k \in Nat : k < m /\ k < i => c[m - k] = d[i - k]
    BY <1>6
<1>8. m = i
  <2>1. CASE m < i
    <3>1. /\ m - 1 \in Nat /\ m - 1 < m /\ m - 1 < i /\ m - (m - 1) = 1
          /\ i - (m - 1) \in 2 .. l /\ (i - (m - 1)) - 1 \in 1 .. l
        BY <1>1, <1>3, <2>1
    <3>2. c[1] = d[i - (m - 1)]
        BY <1>7, <3>1
    <3>3. tabla[c[1]].parent = RAIZ
        BY <1>1, <1>4
    <3>4. tabla[d[i - (m - 1)]].parent = d[(i - (m - 1)) - 1]
        BY <1>4, <3>1
    <3> QED BY <1>3, <3>1, <3>2, <3>3, <3>4
  <2>2. CASE i < m
    <3>1. /\ i - 1 \in Nat /\ i - 1 < m /\ i - 1 < i /\ i - (i - 1) = 1
          /\ m - (i - 1) \in 2 .. m /\ (m - (i - 1)) - 1 \in 1 .. m
        BY <1>1, <1>3, <2>2
    <3>2. d[1] = c[m - (i - 1)]
        BY <1>7, <3>1
    <3>3. tabla[d[1]].parent = RAIZ
        BY <1>3, <1>4
    <3>4. tabla[c[m - (i - 1)]].parent = c[(m - (i - 1)) - 1]
        BY <1>4, <3>1
    <3> QED BY <1>3, <3>1, <3>2, <3>3, <3>4
  <2> QED BY <1>1, <1>3, <2>1, <2>2
<1>9. ASSUME NEW j \in 1 .. i PROVE nombres[j] = otros[j]
  <2>1. /\ i - j \in Nat /\ i - j < m /\ i - j < i /\ m - (i - j) = j /\ i - (i - j) = j
        /\ j \in 1 .. m /\ j \in 1 .. l
      BY <1>3, <1>8
  <2>2. c[j] = d[j]
      BY <1>7, <2>1
  <2> QED BY <1>4, <2>1, <2>2
<1> QED BY <1>1, <1>8, <1>9

(* What is renamed does not have, above or at it, the directory it goes to. *)
LEMMA NoCuelga ==
    ASSUME NEW a \in Hilos, NEW duenio, Repartidos(a, duenio), Ordenada(a, duenio),
           Renombrar(a)
    PROVE  ~Espacio!CuelgaDe(arr[a], vieja[a].pos)
<1>0. TypeOK /\ RAIZ \notin Entradas
    BY ConstantesTabla DEF Ordenada, Cumple, Base
<1>1. PICK camA \in Seq(Nombres), desA \in Seq(Nombres) :
        /\ camA = ped[a].camino /\ desA = ped[a].destino
        /\ camA # <<>> /\ desA # <<>> /\ Len(camA) \in Nat \ {0} /\ Len(desA) \in Nat
  <2>1. ped[a] \in Pedidos /\ ped[a].op = "renombrar"
      BY MudanzaLimpia
  <2> QED BY <2>1, Rutas, ConstantesTabla
<1>2. /\ Anda(a, desA, duenio) /\ ArchivoNoPathValido(a) /\ ~Empieza(desA, camA)
      /\ Origen(a, duenio)
    BY <1>1, MudanzaLimpia
<1>3. PICK d \in Ramas(Len(desA)) : EsRama(d, desA) /\ arr[a] = Fin(d)
    BY <1>0, <1>1, <1>2, NoHallado
<1>4. PICK l \in 0 .. Len(desA) : l = Len(d)
    BY <1>1, FinDeRama
<1>5. ASSUME NEW i \in 1 .. l PROVE vieja[a].pos # d[i]
  <2>1. SUFFICES ASSUME vieja[a].pos = d[i] PROVE FALSE
      OBVIOUS
  <2>2. tabla[vieja[a].pos].state = "DIRECTORY"
      BY <1>3, <1>4, <2>1 DEF EsRama
  <2>3. \A p : ~EsArchivo(vieja[a].pos, vieja[a].desc, p, Ultimo(camA), a, duenio)
      BY <2>2 DEF EsArchivo, Activa
  <2>4. PICK c \in Ramas(Len(camA)) :
          EsRama(c, camA) /\ c # <<>> /\ Len(c) = Len(camA) /\ vieja[a].pos = Fin(c)
      BY <1>1, <1>2, <2>3 DEF Origen
  <2>5. i \in 1 .. Len(d) /\ Fin(c) = d[i] /\ Len(camA) \in Nat
      BY <1>1, <1>4, <2>1, <2>4
  <2>6. Len(c) = i /\ \A j \in 1 .. i : camA[j] = desA[j]
      BY <1>1, <1>3, <2>4, <2>5, MismaRama
  <2>7. Empieza(desA, camA)
      BY <1>1, <1>4, <2>4, <2>6 DEF Empieza
  <2> QED BY <1>2, <2>7
<1> DEFINE S == Entradas \ {d[i] : i \in 1 .. l}
<1>6. vieja[a].pos \in S
    BY <1>5, MudanzaLimpia
<1>7. arr[a] \notin S
  <2>1. CASE d = <<>>
      BY <1>0, <1>3, <2>1 DEF Fin
  <2>2. CASE d # <<>>
    <3>1. l \in 1 .. l /\ Fin(d) = d[l]
        BY <1>1, <1>4, <2>2, FinDeRama DEF Fin
    <3> QED BY <1>3, <3>1
  <2> QED BY <2>1, <2>2
<1>8. ASSUME NEW n \in Arbol, n.padre \in S PROVE n.entrada \in S
  <2>1. PICK e \in Entradas : n = Nodo(tabla, e)
      BY <1>8, EnArbol
  <2>2. n.entrada = e /\ n.padre = tabla[e].parent
      BY <2>1 DEF Nodo
  <2>3. ASSUME NEW i \in 1 .. l, e = d[i] PROVE FALSE
    <3>1. tabla[e].parent = IF i = 1 THEN RAIZ ELSE d[i - 1]
        BY <1>3, <1>4, <2>3 DEF EsRama
    <3>2. i # 1 => i - 1 \in 1 .. l
        BY <1>4
    <3> QED BY <1>0, <1>8, <2>2, <3>1, <3>2
  <2> QED BY <2>2, <2>3
<1>9. S \in SUBSET Entradas
    OBVIOUS
<1> QED BY <1>6, <1>7, <1>8, <1>9 DEF Espacio!CuelgaDe

(* One descriptor of the table changes: one node of the tree does.          *)
LEMMA ArbolSinUno ==
    ASSUME NEW x \in Entradas, Activa(tabla, x), ~Activa(tabla', x),
           \A e \in Entradas \ {x} : tabla'[e] = tabla[e]
    PROVE  Arbol' = Arbol \ {Nodo(tabla, x)}
<1>1. \A n : n \in Arbol' <=> \E e \in Entradas : Activa(tabla', e) /\ n = Nodo(tabla', e)
    BY DEF Arbol, Nodo, Activa
<1>2. \A e \in Entradas : Activa(tabla', e) <=> e # x /\ Activa(tabla, e)
    BY DEF Activa
<1>3. \A e \in Entradas \ {x} : Nodo(tabla', e) = Nodo(tabla, e)
    BY DEF Nodo
<1>4. \A e \in Entradas \ {x} : Nodo(tabla, e) # Nodo(tabla, x)
    BY DEF Nodo
<1>5. ASSUME NEW n PROVE n \in Arbol' <=> n \in Arbol /\ n # Nodo(tabla, x)
    BY <1>1, <1>2, <1>3, <1>4, EnArbol
<1> QED BY <1>5

LEMMA ArbolConUno ==
    ASSUME NEW x \in Entradas, Activa(tabla', x),
           \A e \in Entradas \ {x} : tabla'[e] = tabla[e]
    PROVE  /\ Activa(tabla, x) =>
                Arbol' = (Arbol \ {Nodo(tabla, x)}) \cup {Nodo(tabla', x)}
           /\ ~Activa(tabla, x) => Arbol' = Arbol \cup {Nodo(tabla', x)}
<1>1. \A n : n \in Arbol' <=> \E e \in Entradas : Activa(tabla', e) /\ n = Nodo(tabla', e)
    BY DEF Arbol, Nodo, Activa
<1>2. \A e \in Entradas \ {x} : Activa(tabla', e) <=> Activa(tabla, e)
    BY DEF Activa
<1>3. \A e \in Entradas \ {x} : Nodo(tabla', e) = Nodo(tabla, e)
    BY DEF Nodo
<1>4. \A e \in Entradas \ {x} : Nodo(tabla, e) # Nodo(tabla, x)
    BY DEF Nodo
<1>5. \A n : n \in Arbol' <=> n = Nodo(tabla', x) \/ \E e \in Entradas \ {x} :
                                      Activa(tabla, e) /\ n = Nodo(tabla, e)
    BY <1>1, <1>2, <1>3
<1>6. CASE Activa(tabla, x)
  <2>1. ASSUME NEW n
        PROVE  n \in Arbol' <=> (n \in Arbol /\ n # Nodo(tabla, x)) \/ n = Nodo(tabla', x)
      BY <1>4, <1>5, <1>6, EnArbol
  <2> QED BY <1>6, <2>1
<1>7. CASE ~Activa(tabla, x)
  <2>1. ASSUME NEW n PROVE n \in Arbol' <=> n \in Arbol \/ n = Nodo(tabla', x)
      BY <1>5, <1>7, EnArbol
  <2> QED BY <1>7, <2>1
<1> QED BY <1>6, <1>7

(* A walk that ends at a directory where the name is missing ends where the *)
(* tree lets a node hang.                                                   *)
LEMMA HayDonde ==
    ASSUME NEW padre, NEW nombre, Falta(padre, nombre),
           padre # RAIZ => padre \in Entradas /\ tabla[padre].state = "DIRECTORY"
    PROVE  Espacio!EsDirectorio(padre) /\ ~Espacio!Ocupado(padre, nombre)
<1>1. Espacio!EsDirectorio(padre)
  <2>1. ASSUME padre # RAIZ PROVE \E n \in Arbol : n.entrada = padre /\ n.tipo = "DIRECTORY"
    <3>1. Nodo(tabla, padre) \in Arbol
        BY <2>1, EnArbol DEF Activa
    <3>2. Nodo(tabla, padre).entrada = padre /\ Nodo(tabla, padre).tipo = "DIRECTORY"
        BY <2>1 DEF Nodo
    <3> QED BY <3>1, <3>2
  <2> QED BY <2>1 DEF Espacio!EsDirectorio
<1>2. ASSUME NEW n \in Arbol, n.padre = padre, n.nombre = nombre PROVE FALSE
  <2>1. PICK e \in Entradas : Activa(tabla, e) /\ n = Nodo(tabla, e)
      BY <1>2, EnArbol
  <2>2. tabla[e].parent = padre /\ tabla[e].fname = nombre
      BY <1>2, <2>1 DEF Nodo
  <2> QED BY <2>1, <2>2 DEF Falta
<1> QED BY <1>1, <1>2 DEF Espacio!Ocupado

(* Deleting is Borrar.                                                      *)
LEMMA BajaDeNodo ==
    ASSUME NEW a \in Hilos, NEW duenio, Repartidos(a, duenio), Ordenada(a, duenio),
           NEW h \in Hilos, Eliminar(h)
    PROVE  Espacio!Next
<1>0. TypeOK /\ Control(h)
    BY DEF Ordenada, Cumple, Base
<1>1. PICK x \in Entradas : x = arr[h] /\ Activa(tabla, x)
        /\ \A e \in Entradas : Activa(tabla, e) => tabla[e].parent # x
    BY BajaLimpia
<1>2. (\A e \in Entradas \ {x} : tabla'[e] = tabla[e]) /\ ~Activa(tabla', x)
  <2>1. desc[h] \in Descriptores
      BY <1>0 DEF Control, Eliminar, TypeOK
  <2> QED BY <1>0, <1>1, <2>1 DEF Eliminar, Activa, TypeOK, Descriptores
<1>3. Arbol' = Arbol \ {Nodo(tabla, x)}
    BY <1>1, <1>2, ArbolSinUno
<1>4. PICK n \in Arbol : n = Nodo(tabla, x)
    BY <1>1, EnArbol
<1>5. ~Espacio!ConHijos(n.entrada)
  <2>1. n.entrada = x
      BY <1>4 DEF Nodo
  <2>2. ASSUME NEW m \in Arbol PROVE m.padre # x
    <3>1. PICK e \in Entradas : Activa(tabla, e) /\ m = Nodo(tabla, e)
        BY EnArbol
    <3> QED BY <1>1, <3>1 DEF Nodo
  <2> QED BY <2>1, <2>2 DEF Espacio!ConHijos
<1>6. Espacio!Borrar(n)
    BY <1>3, <1>4, <1>5 DEF Espacio!Borrar
<1> QED BY <1>6 DEF Espacio!Next

(* Writing a new descriptor is Crear.                                       *)
LEMMA AltaDeNodo ==
    ASSUME NEW a \in Hilos, NEW duenio, Repartidos(a, duenio), Ordenada(a, duenio),
           EscribirDescriptor(a)
    PROVE  Espacio!Next
<1>0. TypeOK
    BY DEF Ordenada, Cumple, Base
<1>1. PICK x \in Entradas : x = pos[a] /\ ~Activa(tabla, x)
    BY AltaLimpia
<1>2. PICK tipo \in {"REGULAR", "DIRECTORY"}, nombre \in Nombres, padre \in Entradas \cup {RAIZ} :
        tipo = TipoDe(ped[a].op) /\ nombre = Ultimo(ped[a].camino) /\ padre = arr[a]
    BY <1>0, AltaLimpia DEF TipoDe, TypeOK
<1>3. /\ tabla'[x] = [state |-> tipo, fname |-> nombre, parent |-> padre]
      /\ \A e \in Entradas \ {x} : tabla'[e] = tabla[e]
    BY <1>0, <1>1, <1>2 DEF EscribirDescriptor, TypeOK
<1>4. /\ Activa(tabla', x)
      /\ Nodo(tabla', x) = [entrada |-> x, tipo |-> tipo, nombre |-> nombre, padre |-> padre]
    BY <1>3 DEF Activa, Nodo
<1>5. Arbol' = Arbol \cup {[entrada |-> x, tipo |-> tipo, nombre |-> nombre, padre |-> padre]}
    BY <1>1, <1>3, <1>4, ArbolConUno
<1>6. Espacio!EsDirectorio(padre) /\ ~Espacio!Ocupado(padre, nombre)
    BY <1>2, AltaLimpia, HayDonde
<1>7. \A n \in Arbol : n.entrada # x
    BY <1>1, EnArbol DEF Nodo
<1>8. Espacio!Crear(x, tipo, nombre, padre)
    BY <1>5, <1>6, <1>7 DEF Espacio!Crear
<1> QED BY <1>8 DEF Espacio!Next

(* Renaming is Mover, or Crear if the file was deleted meanwhile.           *)
LEMMA MudanzaDeNodo ==
    ASSUME NEW a \in Hilos, NEW duenio, Repartidos(a, duenio), Ordenada(a, duenio),
           Renombrar(a)
    PROVE  Espacio!Next
<1>0. TypeOK
    BY DEF Ordenada, Cumple, Base
<1>1. PICK x \in Entradas, w \in Descriptores : x = vieja[a].pos /\ w = vieja[a].desc
    BY MudanzaLimpia
<1>2. PICK nombre \in Nombres, padre \in Entradas \cup {RAIZ} :
        nombre = Ultimo(ped[a].destino) /\ padre = arr[a]
    BY <1>0, MudanzaLimpia DEF TypeOK
<1>3. /\ w.state \in {"REGULAR", "DIRECTORY"} /\ (Activa(tabla, x) => tabla[x] = w)
    BY <1>1, MudanzaLimpia
<1>4. /\ tabla'[x] = [w EXCEPT !.fname = nombre, !.parent = padre]
      /\ \A e \in Entradas \ {x} : tabla'[e] = tabla[e]
    BY <1>0, <1>1, <1>2 DEF Renombrar, TypeOK
<1>5. /\ Activa(tabla', x)
      /\ Nodo(tabla', x) = [entrada |-> x, tipo |-> w.state, nombre |-> nombre, padre |-> padre]
    BY <1>3, <1>4 DEF Activa, Nodo, Descriptores
<1>6. Espacio!EsDirectorio(padre) /\ ~Espacio!Ocupado(padre, nombre)
    BY <1>2, MudanzaLimpia, HayDonde
<1>7. CASE Activa(tabla, x)
  <2>1. PICK n \in Arbol : n = Nodo(tabla, x)
      BY <1>7, EnArbol
  <2>2. n = [entrada |-> x, tipo |-> w.state, nombre |-> w.fname, padre |-> w.parent]
      BY <1>3, <1>7, <2>1 DEF Nodo
  <2>3. n.entrada = x /\ n.tipo = w.state
      BY <2>2
  <2>4. Arbol' = (Arbol \ {n}) \cup {[entrada |-> n.entrada, tipo |-> n.tipo,
                                     nombre |-> nombre, padre |-> padre]}
      BY <1>4, <1>5, <1>7, <2>1, <2>3, ArbolConUno
  <2>5. ~Espacio!CuelgaDe(padre, n.entrada)
      BY <1>1, <1>2, <2>3, NoCuelga
  <2>6. Espacio!Mover(n, nombre, padre)
      BY <1>6, <2>4, <2>5 DEF Espacio!Mover
  <2> QED BY <2>6 DEF Espacio!Next
<1>8. CASE ~Activa(tabla, x)
  <2>1. Arbol' = Arbol \cup {[entrada |-> x, tipo |-> w.state, nombre |-> nombre,
                              padre |-> padre]}
      BY <1>4, <1>5, <1>8, ArbolConUno
  <2>2. \A n \in Arbol : n.entrada # x
      BY <1>8, EnArbol DEF Nodo
  <2>3. Espacio!Crear(x, w.state, nombre, padre)
      BY <1>6, <2>1, <2>2 DEF Espacio!Crear
  <2> QED BY <1>3, <2>3 DEF Espacio!Next
<1> QED BY <1>7, <1>8

(* Who writes the table.                                                    *)
LEMMA EscribeLaTabla ==
    ASSUME NEW a \in Hilos, NEW duenio, Ordenada(a, duenio), [Next]_vars
    PROVE  UNCHANGED tabla \/ (\E h \in Hilos : Eliminar(h)) \/ EscribirDescriptor(a) \/ Renombrar(a)
<1>1. ASSUME NEW h \in Hilos, Paso(h), ~UNCHANGED tabla
      PROVE  Eliminar(h) \/ (h = a /\ (Renombrar(h) \/ EscribirDescriptor(h)))
  <2>1. Eliminar(h) \/ Renombrar(h) \/ EscribirDescriptor(h)
      BY <1>1 DEF Paso, Contar, LeerParte, DecidirCrear, DecidirEliminar, PasarAlDestino,
                  DecidirRenombrar, CopiarTabla, MirarUltima, ReiniciarUltima, LeerUltima,
                  OtorgarEntrada, OtorgarAjena, MorirBuscando, PasarEntrada, SeguirBuscando,
                  SinEntrada, DevolverEntrada, Responder, compartido
  <2>2. ASSUME h # a PROVE Eliminar(h)
    <3>1. SoloBajas(h)
        BY <2>2 DEF Ordenada, Cumple
    <3> QED BY <2>1, <3>1 DEF SoloBajas, Renombrar, EscribirDescriptor
  <2> QED BY <2>1, <2>2
<1>2. Next => UNCHANGED tabla \/ \E h \in Hilos : Paso(h)
    BY DEF Next, Recibir, compartido
<1> QED BY <1>1, <1>2 DEF vars

LEMMA PasoDeArbol ==
    ASSUME NEW a \in Hilos, NEW duenio, Repartidos(a, duenio), Ordenada(a, duenio), [Next]_vars
    PROVE  [Espacio!Next]_Arbol
<1>1. CASE UNCHANGED tabla
    BY <1>1 DEF Arbol, Activa
<1> QED BY <1>1, EscribeLaTabla, BajaDeNodo, AltaDeNodo, MudanzaDeNodo

(* The file table is a tree: one node created, deleted or moved at a time,  *)
(* under a directory that is there, to a name that is free and never under  *)
(* itself, whatever steps of leerPath, of the searches and of the deletions *)
(* of the other clients come between what a request reads and its write.    *)
THEOREM ArbolDeUnAutor == CadaUnoLoSuyo => (Spec => EsUnArbol)
<1> SUFFICES ASSUME NEW a \in Hilos, NEW duenio \in [Nombres -> Hilos], Repartidos(a, duenio)
             PROVE  Spec => EsUnArbol
    BY DEF CadaUnoLoSuyo
<1>1. ASSUME Init PROVE Espacio!Init
  <2>1. \A e \in Entradas : ~Activa(tabla, e)
      BY <1>1 DEF Init, TablaVacia, Vacia, Activa
  <2>2. \A n : n \notin Arbol
      BY <2>1, EnArbol
  <2> QED BY <2>2 DEF Espacio!Init
<1>2. Ordenada(a, duenio) /\ [Next]_vars => [Espacio!Next]_Arbol
    BY PasoDeArbol
<1>3. Spec => []Ordenada(a, duenio)
    BY OrdenSiempre
<1> QED BY <1>1, <1>2, <1>3, PTL DEF Spec, EsUnArbol, Espacio!Spec

-----------------------------------------------------------------------------
(* A deletion leaves every other node where it was.                         *)
LEMMA RaizBaja ==
    ASSUME NEW x \in Entradas, CuelgaDeLaRaiz, ~Activa(tabla', x),
           \A e \in Entradas \ {x} : tabla'[e] = tabla[e]
    PROVE  CuelgaDeLaRaiz'
<1> SUFFICES ASSUME NEW S \in SUBSET Entradas, S # {}, \A e \in S : Activa(tabla', e)
             PROVE  \E e \in S : tabla'[e].parent \notin S
    BY DEF CuelgaDeLaRaiz, Activa
<1>1. x \notin S /\ \A e \in S : tabla'[e] = tabla[e] /\ Activa(tabla, e)
    BY DEF Activa
<1>2. PICK e \in S : tabla[e].parent \notin S
    BY <1>1 DEF CuelgaDeLaRaiz
<1> QED BY <1>1, <1>2

(* Nothing hangs from a new node yet.                                       *)
LEMMA RaizAlta ==
    ASSUME NEW x \in Entradas, CuelgaDeLaRaiz, ~Activa(tabla, x),
           \A e \in Entradas \ {x} : tabla'[e] = tabla[e],
           \A e \in Entradas : Activa(tabla, e) => tabla[e].parent # x,
           tabla'[x].parent # x
    PROVE  CuelgaDeLaRaiz'
<1> SUFFICES ASSUME NEW S \in SUBSET Entradas, S # {}, \A e \in S : Activa(tabla', e)
             PROVE  \E e \in S : tabla'[e].parent \notin S
    BY DEF CuelgaDeLaRaiz, Activa
<1>1. \A e \in S \ {x} : tabla'[e] = tabla[e] /\ Activa(tabla, e)
    BY DEF Activa
<1>2. CASE S \ {x} = {}
    BY <1>2
<1>3. CASE S \ {x} # {}
  <2>1. PICK e \in S \ {x} : tabla[e].parent \notin S \ {x}
      BY <1>1, <1>3 DEF CuelgaDeLaRaiz
  <2>2. tabla[e].parent # x
      BY <1>1, <2>1
  <2> QED BY <1>1, <2>1, <2>2
<1> QED BY <1>2, <1>3

(* What is moved does not go under itself.                                  *)
LEMMA RaizMudanza ==
    ASSUME NEW x \in Entradas, CuelgaDeLaRaiz, Activa(tabla, x),
           \A e \in Entradas \ {x} : tabla'[e] = tabla[e],
           ~Espacio!CuelgaDe(tabla'[x].parent, x)
    PROVE  CuelgaDeLaRaiz'
<1> SUFFICES ASSUME NEW S \in SUBSET Entradas, S # {}, \A e \in S : Activa(tabla', e),
                    \A e \in S : tabla'[e].parent \in S
             PROVE  FALSE
    BY DEF CuelgaDeLaRaiz, Activa
<1>1. \A e \in S : Activa(tabla, e) /\ (e # x => tabla[e].parent \in S)
    BY DEF Activa
<1>2. PICK T \in SUBSET Entradas :
        /\ x \in T /\ tabla'[x].parent \notin T
        /\ \A n \in Arbol : n.padre \in T => n.entrada \in T
    BY DEF Espacio!CuelgaDe
<1>3. \A e \in Entradas : Activa(tabla, e) /\ tabla[e].parent \in T => e \in T
  <2> SUFFICES ASSUME NEW e \in Entradas, Activa(tabla, e), tabla[e].parent \in T
               PROVE  e \in T
      OBVIOUS
  <2>1. Nodo(tabla, e) \in Arbol
      BY EnArbol
  <2>2. Nodo(tabla, e).padre = tabla[e].parent /\ Nodo(tabla, e).entrada = e
      BY DEF Nodo
  <2> QED BY <1>2, <2>1, <2>2
<1>4. CASE x \notin S
    BY <1>1, <1>4 DEF CuelgaDeLaRaiz
<1>5. CASE x \in S
  <2>1. S \ T # {} /\ S \ T \in SUBSET Entradas
      BY <1>2, <1>5
  <2>2. PICK e \in S \ T : tabla[e].parent \notin S \ T
      BY <1>1, <2>1 DEF CuelgaDeLaRaiz
  <2>3. e # x
      BY <1>2, <2>2
  <2> QED BY <1>1, <1>3, <2>2, <2>3
<1> QED BY <1>4, <1>5

LEMMA PasoDeRaiz ==
    ASSUME NEW a \in Hilos, NEW duenio, Repartidos(a, duenio), Ordenada(a, duenio),
           CuelgaDeLaRaiz, [Next]_vars
    PROVE  CuelgaDeLaRaiz'
<1>0. TypeOK /\ TablaOK(a, duenio) /\ RAIZ \notin Entradas
    BY ConstantesTabla DEF Ordenada, Cumple, Base
<1>1. CASE UNCHANGED tabla
    BY <1>1 DEF CuelgaDeLaRaiz, Activa
<1>2. ASSUME NEW h \in Hilos, Eliminar(h) PROVE CuelgaDeLaRaiz'
  <2>1. PICK x \in Entradas : x = arr[h]
      BY <1>2, BajaLimpia
  <2>2. desc[h] \in Descriptores
      BY <1>2 DEF Ordenada, Cumple, Base, Control, Eliminar, TypeOK
  <2>3. (\A e \in Entradas \ {x} : tabla'[e] = tabla[e]) /\ ~Activa(tabla', x)
      BY <1>0, <1>2, <2>1, <2>2 DEF Eliminar, Activa, TypeOK, Descriptores
  <2> QED BY <2>3, RaizBaja
(* A free entry is the directory of nothing.                                *)
<1>a. ASSUME NEW x \in Entradas, ~Activa(tabla, x)
      PROVE  /\ \A e \in Entradas : Activa(tabla, e) => tabla[e].parent # x
             /\ arr[a] # RAIZ /\ tabla[arr[a]].state = "DIRECTORY" => arr[a] # x
    BY <1>0, <1>a DEF TablaOK, Activa
<1>3. ASSUME EscribirDescriptor(a) PROVE CuelgaDeLaRaiz'
  <2>1. PICK x \in Entradas : x = pos[a] /\ ~Activa(tabla, x)
      BY <1>3, AltaLimpia
  <2>2. (\A e \in Entradas \ {x} : tabla'[e] = tabla[e]) /\ tabla'[x].parent = arr[a]
      BY <1>0, <1>3, <2>1 DEF EscribirDescriptor, TypeOK
  <2>3. arr[a] # x
      BY <1>0, <1>3, <1>a, <2>1, AltaLimpia
  <2> QED BY <1>a, <2>1, <2>2, <2>3, RaizAlta
<1>4. ASSUME Renombrar(a) PROVE CuelgaDeLaRaiz'
  <2>1. PICK x \in Entradas : x = vieja[a].pos
      BY <1>4, MudanzaLimpia
  <2>2. vieja[a].desc \in Descriptores
      BY <1>4, MudanzaLimpia
  <2>3. (\A e \in Entradas \ {x} : tabla'[e] = tabla[e]) /\ tabla'[x].parent = arr[a]
      BY <1>0, <1>4, <2>1, <2>2 DEF Renombrar, TypeOK, Descriptores
  <2>4. CASE Activa(tabla, x)
    <3>1. ~Espacio!CuelgaDe(arr[a], x)
        BY <1>4, <2>1, NoCuelga
    <3> QED BY <2>3, <2>4, <3>1, RaizMudanza
  <2>5. CASE ~Activa(tabla, x)
    <3>1. arr[a] # x
        BY <1>0, <1>4, <1>a, <2>5, MudanzaLimpia
    <3> QED BY <1>a, <2>3, <2>5, <3>1, RaizAlta
  <2> QED BY <2>4, <2>5
<1>5. UNCHANGED tabla \/ (\E h \in Hilos : Eliminar(h)) \/ EscribirDescriptor(a) \/ Renombrar(a)
    BY EscribeLaTabla
<1> QED BY <1>1, <1>2, <1>3, <1>4, <1>5

(* Everything in the table can be reached from the root: no rename leaves a *)
(* directory under itself and no deletion takes one away from what hangs    *)
(* from it.                                                                 *)
THEOREM TodoCuelgaDeLaRaiz == CadaUnoLoSuyo => (Spec => []CuelgaDeLaRaiz)
<1> SUFFICES ASSUME NEW a \in Hilos, NEW duenio \in [Nombres -> Hilos], Repartidos(a, duenio)
             PROVE  Spec => []CuelgaDeLaRaiz
    BY DEF CadaUnoLoSuyo
<1>1. ASSUME Init PROVE CuelgaDeLaRaiz
  <2>1. \A e \in Entradas : ~Activa(tabla, e)
      BY <1>1 DEF Init, TablaVacia, Vacia, Activa
  <2> QED BY <2>1 DEF CuelgaDeLaRaiz
<1>2. Ordenada(a, duenio) /\ CuelgaDeLaRaiz /\ [Next]_vars => CuelgaDeLaRaiz'
    BY PasoDeRaiz
<1>3. Spec => []Ordenada(a, duenio)
    BY OrdenSiempre
<1> QED BY <1>1, <1>2, <1>3, PTL DEF Spec
=============================================================================
