----------------------------- MODULE ChatProofs -----------------------------
(***************************************************************************)
(* The chat screen for every number of polls under way, messages and dates:*)
(* the runnables it leaves posted, the table without gaps and in order,    *)
(* the list it shows, and that it implements module Buzon.                 *)
(***************************************************************************)
EXTENDS ChatActivity, SecuenciasProofs

-----------------------------------------------------------------------------
(* Sequences of ids.                                                       *)
LEMMA SumarTipo ==
    ASSUME NEW l \in Seq(Ids), NEW x \in Ids PROVE Sumar(l, x) \in Seq(Ids)
BY DEF Sumar

LEMMA AddTipo ==
    ASSUME NEW l \in Seq(Ids), NEW x \in Ids
    PROVE  SinProvisoria(l) \in Seq(Ids) /\ add(l, x) \in Seq(Ids)
<1>1. SinProvisoria(l) \in Seq(Ids)
  <2>1. CASE Tiene(l, Vacio)
    <3>1. PICK i \in DOMAIN l : i = CHOOSE j \in DOMAIN l : l[j] = Vacio
      BY <2>1 DEF Tiene
    <3>2. Quitar(l, i) \in Seq(Ids)
      BY DEF Quitar
    <3> QED BY <2>1, <3>1, <3>2 DEF SinProvisoria
  <2> QED BY <2>1 DEF SinProvisoria
<1> QED BY <1>1 DEF add

LEMMA FiltrarTipo ==
    ASSUME NEW q \in Seq(Mensaje), NEW m \in Mensaje, NEW ids
    PROVE  Filtrar(q, m, ids) \in Seq(Mensaje)
BY DEF Filtrar

LEMMA MensajesConId ==
    ASSUME NEW s \in Seq(Mensaje)
    PROVE  \A i \in 1 .. Len(s) : s[i] \in Mensaje /\ s[i].id \in Ids
<1>1. \A m \in Mensaje : m.id \in Ids
  BY DEF Mensaje
<1>2. \A i \in 1 .. Len(s) : s[i] \in Mensaje
  OBVIOUS
<1> QED BY <1>1, <1>2

(* The rounds of DistintosTras. *)
LEMMA DistintosVueltas ==
    ASSUME NEW l \in Seq(Ids), NEW s \in Seq(Mensaje)
    PROVE  \E g \in [0 .. Len(s) -> Seq(Ids)] :
              /\ g[0] = l
              /\ \A i \in 1 .. Len(s) : g[i] = Sumar(g[i - 1], s[i].id)
              /\ g[Len(s)] = DistintosTras(l, s)
<1> DEFINE Ec(g) == g = [i \in 0 .. Len(s) |->
                            IF i = 0 THEN l ELSE Sumar(g[i - 1], s[i].id)]
<1> DEFINE t == CHOOSE f : Ec(f)
<1>1. DistintosTras(l, s) = t[Len(s)]
  BY Zenon DEF DistintosTras
<1>2. PICK n \in Nat : n = Len(s)
  OBVIOUS
<1>3. PICK S : S = Seq(Ids)
  BY Zenon
<1>4. PICK b \in S : b = l
  BY <1>3
<1>5. ASSUME NEW q \in S, NEW i \in 1 .. n PROVE Sumar(q, s[i].id) \in S
  BY <1>2, <1>3, MensajesConId, SumarTipo
<1> DEFINE h == [p \in S \X (1 .. n) |-> Sumar(p[1], s[p[2]].id)]
<1>6. h \in [S \X (1 .. n) -> S] /\ \A q \in S, i \in 1 .. n : h[<<q, i>>] = Sumar(q, s[i].id)
  BY <1>5
<1> HIDE DEF h
<1>7. PICK g \in [0 .. n -> S] : Vueltas(g, n, b, h)
  BY <1>6, HayVueltas, Zenon
<1>8. ASSUME NEW i \in 1 .. n PROVE g[i] = Sumar(g[i - 1], s[i].id)
  <2>1. i - 1 \in 0 .. n
    OBVIOUS
  <2>2. g[i - 1] \in S
    BY <2>1, Zenon
  <2> QED BY <1>6, <1>7, <2>2, Zenon DEF Vueltas
<1>9. Ec(g)
  BY <1>2, <1>4, <1>7, <1>8 DEF Vueltas
<1>10. Ec(t)
  <2> HIDE DEF Ec
  <2> QED BY <1>9, Zenon
<1> HIDE DEF t
<1>11. t = [i \in 0 .. n |-> IF i = 0 THEN b ELSE Sumar(t[i - 1], s[i].id)]
  BY <1>2, <1>4, <1>10, Zenon
<1>12. t[0] = b /\ t = [i \in 0 .. n |-> t[i]]
  BY <1>11
<1>13. ASSUME NEW i \in 1 .. n PROVE t[i] = Sumar(t[i - 1], s[i].id)
  <2>1. i \in 0 .. n /\ i # 0
    OBVIOUS
  <2> QED BY <1>11, <2>1, Zenon
<1>14. t \in [0 .. n -> S]
  <2>1. \A i \in 1 .. n : t[i - 1] \in S => t[i] \in S
    BY <1>5, <1>13, Zenon
  <2>2. t[0] \in S /\ t = [i \in 0 .. n |-> t[i]]
    BY <1>4, <1>12, Zenon
  <2> QED BY <2>1, <2>2, VueltasTipo, Zenon
<1> QED BY <1>1, <1>2, <1>3, <1>4, <1>12, <1>13, <1>14, Zenon

(* The rounds of getSaveMessageList. *)
LEMMA AddVueltas ==
    ASSUME NEW l \in Seq(Ids), NEW s \in Seq(Mensaje)
    PROVE  \E g \in [0 .. Len(s) -> Seq(Ids)] :
              /\ g[0] = l
              /\ \A i \in 1 .. Len(s) : g[i] = add(g[i - 1], s[i].id)
              /\ g[Len(s)] = getSaveMessageList(s, l)
<1> DEFINE Ec(g) == g = [i \in 0 .. Len(s) |->
                            IF i = 0 THEN l ELSE add(g[i - 1], s[i].id)]
<1> DEFINE t == CHOOSE f : Ec(f)
<1>1. getSaveMessageList(s, l) = t[Len(s)]
  BY Zenon DEF getSaveMessageList
<1>2. PICK n \in Nat : n = Len(s)
  OBVIOUS
<1>3. PICK S : S = Seq(Ids)
  BY Zenon
<1>4. PICK b \in S : b = l
  BY <1>3
<1>5. ASSUME NEW q \in S, NEW i \in 1 .. n PROVE add(q, s[i].id) \in S
  BY <1>2, <1>3, MensajesConId, AddTipo, Zenon
<1> DEFINE h == [p \in S \X (1 .. n) |-> add(p[1], s[p[2]].id)]
<1>6. h \in [S \X (1 .. n) -> S] /\ \A q \in S, i \in 1 .. n : h[<<q, i>>] = add(q, s[i].id)
  BY <1>5
<1> HIDE DEF h
<1>7. PICK g \in [0 .. n -> S] : Vueltas(g, n, b, h)
  BY <1>6, HayVueltas, Zenon
<1>8. ASSUME NEW i \in 1 .. n PROVE g[i] = add(g[i - 1], s[i].id)
  <2>1. i - 1 \in 0 .. n
    OBVIOUS
  <2>2. g[i - 1] \in S
    BY <2>1, Zenon
  <2> QED BY <1>6, <1>7, <2>2, Zenon DEF Vueltas
<1>9. Ec(g)
  BY <1>2, <1>4, <1>7, <1>8 DEF Vueltas
<1>10. Ec(t)
  <2> HIDE DEF Ec
  <2> QED BY <1>9, Zenon
<1> HIDE DEF t
<1>11. t = [i \in 0 .. n |-> IF i = 0 THEN b ELSE add(t[i - 1], s[i].id)]
  BY <1>2, <1>4, <1>10, Zenon
<1>12. t[0] = b /\ t = [i \in 0 .. n |-> t[i]]
  BY <1>11
<1>13. ASSUME NEW i \in 1 .. n PROVE t[i] = add(t[i - 1], s[i].id)
  <2>1. i \in 0 .. n /\ i # 0
    OBVIOUS
  <2> QED BY <1>11, <2>1, Zenon
<1>14. t \in [0 .. n -> S]
  <2>1. \A i \in 1 .. n : t[i - 1] \in S => t[i] \in S
    BY <1>5, <1>13, Zenon
  <2>2. t[0] \in S /\ t = [i \in 0 .. n |-> t[i]]
    BY <1>4, <1>12, Zenon
  <2> QED BY <2>1, <2>2, VueltasTipo, Zenon
<1> QED BY <1>1, <1>2, <1>3, <1>4, <1>12, <1>13, <1>14, Zenon

(* The rounds of SinIds. *)
LEMMA FiltroVueltas ==
    ASSUME NEW ids, NEW s \in Seq(Mensaje)
    PROVE  \E g \in [0 .. Len(s) -> Seq(Mensaje)] :
              /\ g[0] = <<>>
              /\ \A i \in 1 .. Len(s) : g[i] = Filtrar(g[i - 1], s[i], ids)
              /\ g[Len(s)] = SinIds(s, ids)
<1> DEFINE Ec(g) == g = [i \in 0 .. Len(s) |->
                            IF i = 0 THEN <<>> ELSE Filtrar(g[i - 1], s[i], ids)]
<1> DEFINE t == CHOOSE f : Ec(f)
<1>1. SinIds(s, ids) = t[Len(s)]
  BY Zenon DEF SinIds
<1>2. PICK n \in Nat : n = Len(s)
  OBVIOUS
<1>3. PICK S : S = Seq(Mensaje)
  BY Zenon
<1>4. PICK b \in S : b = <<>>
  BY <1>3, EmptySeq, Zenon
<1>5. ASSUME NEW q \in S, NEW i \in 1 .. n PROVE Filtrar(q, s[i], ids) \in S
  BY <1>2, <1>3, MensajesConId, FiltrarTipo
<1> DEFINE h == [p \in S \X (1 .. n) |-> Filtrar(p[1], s[p[2]], ids)]
<1>6. h \in [S \X (1 .. n) -> S] /\ \A q \in S, i \in 1 .. n : h[<<q, i>>] = Filtrar(q, s[i], ids)
  BY <1>5
<1> HIDE DEF h
<1>7. PICK g \in [0 .. n -> S] : Vueltas(g, n, b, h)
  BY <1>6, HayVueltas, Zenon
<1>8. ASSUME NEW i \in 1 .. n PROVE g[i] = Filtrar(g[i - 1], s[i], ids)
  <2>1. i - 1 \in 0 .. n
    OBVIOUS
  <2>2. g[i - 1] \in S
    BY <2>1, Zenon
  <2> QED BY <1>6, <1>7, <2>2, Zenon DEF Vueltas
<1>9. Ec(g)
  BY <1>2, <1>4, <1>7, <1>8 DEF Vueltas
<1>10. Ec(t)
  <2> HIDE DEF Ec
  <2> QED BY <1>9, Zenon
<1> HIDE DEF t
<1>11. t = [i \in 0 .. n |-> IF i = 0 THEN b ELSE Filtrar(t[i - 1], s[i], ids)]
  BY <1>2, <1>4, <1>10, Zenon
<1>12. t[0] = b /\ t = [i \in 0 .. n |-> t[i]]
  BY <1>11
<1>13. ASSUME NEW i \in 1 .. n PROVE t[i] = Filtrar(t[i - 1], s[i], ids)
  <2>1. i \in 0 .. n /\ i # 0
    OBVIOUS
  <2> QED BY <1>11, <2>1, Zenon
<1>14. t \in [0 .. n -> S]
  <2>1. \A i \in 1 .. n : t[i - 1] \in S => t[i] \in S
    BY <1>5, <1>13, Zenon
  <2>2. t[0] \in S /\ t = [i \in 0 .. n |-> t[i]]
    BY <1>4, <1>12, Zenon
  <2> QED BY <2>1, <2>2, VueltasTipo, Zenon
<1> QED BY <1>1, <1>2, <1>3, <1>4, <1>12, <1>13, <1>14, Zenon

LEMMA HastaElUltimo ==
    ASSUME NEW n \in Nat
    PROVE  \A i \in 1 .. (n + 1) : i \in 1 .. n \/ i = n + 1
OBVIOUS

LEMMA MenorQue == \A a, b, c \in Nat : a <= b /\ b < c => a < c
OBVIOUS

LEMMA MensajesAppend ==
    ASSUME NEW s \in Seq(Mensaje), NEW m \in Mensaje
    PROVE  /\ Append(s, m) \in Seq(Mensaje)
           /\ Len(Append(s, m)) = Len(s) + 1
           /\ \A i \in 1 .. Len(s) : Append(s, m)[i] = s[i]
           /\ Append(s, m)[Len(s) + 1] = m
           /\ Len(s) \in Nat
<1>1. PICK S : S = Mensaje
  BY Zenon
<1>2. s \in Seq(S) /\ m \in S
  BY <1>1, Zenon
<1>3. /\ Append(s, m) \in Seq(S)
      /\ Len(Append(s, m)) = Len(s) + 1
      /\ \A i \in 1 .. Len(s) : Append(s, m)[i] = s[i]
      /\ Append(s, m)[Len(s) + 1] = m
  BY <1>2, AppendProperties
<1>4. Len(s) \in Nat
  BY <1>2, LenProperties
<1> QED BY <1>1, <1>3, <1>4, Zenon

LEMMA AppendPuntos ==
    ASSUME NEW s \in Seq(Mensaje), NEW m \in Mensaje
    PROVE  \E u \in Seq(Mensaje), n \in Nat :
              /\ u = Append(s, m) /\ n = Len(s) /\ Len(u) = n + 1 /\ u[n + 1] = m
              /\ \A i \in 1 .. n : u[i] = s[i]
BY MensajesAppend, ZenonT(30)

-----------------------------------------------------------------------------
(* The equations of the three loops.                                       *)
LEMMA DistintosUnico ==
    ASSUME NEW l \in Seq(Ids), NEW s \in Seq(Mensaje), NEW f, f[0] = l,
           \A i \in 1 .. Len(s) : f[i] = Sumar(f[i - 1], s[i].id)
    PROVE  f[Len(s)] = DistintosTras(l, s)
<1>1. PICK g \in [0 .. Len(s) -> Seq(Ids)] :
          /\ g[0] = l
          /\ \A i \in 1 .. Len(s) : g[i] = Sumar(g[i - 1], s[i].id)
          /\ g[Len(s)] = DistintosTras(l, s)
  BY DistintosVueltas, Zenon
<1>2. PICK n \in Nat : n = Len(s)
  OBVIOUS
<1> DEFINE P == {i \in 0 .. n : f[i] = g[i]}
<1>3. 0 \in P
  BY <1>1
<1>4. ASSUME NEW i \in 1 .. n, i - 1 \in P PROVE i \in P
  <2>1. f[i - 1] = g[i - 1] /\ i \in 1 .. Len(s) /\ i \in 0 .. n
    BY <1>2, <1>4
  <2>2. f[i] = g[i]
    BY <1>1, <2>1, Zenon
  <2> QED BY <2>1, <2>2
<1>5. \A i \in 0 .. n : i \in P
  <2> HIDE DEF P
  <2> QED BY <1>3, <1>4, Induccion, Zenon
<1> QED BY <1>1, <1>2, <1>5

LEMMA DistintosEc ==
    ASSUME NEW l \in Seq(Ids)
    PROVE  /\ DistintosTras(l, <<>>) = l
           /\ \A s \in Seq(Mensaje), m \in Mensaje :
                 DistintosTras(l, Append(s, m)) = Sumar(DistintosTras(l, s), m.id)
<1>1. DistintosTras(l, <<>>) = l
  <2>1. PICK s \in Seq(Mensaje) : s = <<>> /\ Len(s) = 0
    BY EmptySeq, Zenon
  <2>2. PICK g \in [0 .. Len(s) -> Seq(Ids)] : g[0] = l /\ g[Len(s)] = DistintosTras(l, s)
    BY DistintosVueltas, Zenon
  <2> QED BY <2>1, <2>2, Zenon
<1>2. ASSUME NEW s \in Seq(Mensaje), NEW m \in Mensaje
      PROVE  DistintosTras(l, Append(s, m)) = Sumar(DistintosTras(l, s), m.id)
  <2>1. PICK u \in Seq(Mensaje), n \in Nat :
            /\ u = Append(s, m) /\ n = Len(s) /\ Len(u) = n + 1 /\ u[n + 1] = m
            /\ \A i \in 1 .. n : u[i] = s[i]
    BY AppendPuntos, Zenon
  <2>2. PICK g \in [0 .. Len(u) -> Seq(Ids)] :
            /\ g[0] = l
            /\ \A i \in 1 .. Len(u) : g[i] = Sumar(g[i - 1], u[i].id)
            /\ g[Len(u)] = DistintosTras(l, u)
    BY DistintosVueltas, Zenon
  <2>3. (\A i \in 1 .. n : i \in 1 .. (n + 1)) /\ n + 1 \in 1 .. (n + 1) /\ (n + 1) - 1 = n
    OBVIOUS
  <2>4. \A i \in 1 .. Len(s) : g[i] = Sumar(g[i - 1], s[i].id)
    BY <2>1, <2>2, <2>3, Zenon
  <2>5. g[n] = DistintosTras(l, s)
    BY <2>1, <2>2, <2>4, DistintosUnico, Zenon
  <2> QED BY <2>1, <2>2, <2>3, <2>5, ZenonT(30)
<1> QED BY <1>1, <1>2, Zenon

LEMMA DistintosTipo ==
    ASSUME NEW l \in Seq(Ids), NEW s \in Seq(Mensaje)
    PROVE  DistintosTras(l, s) \in Seq(Ids)
<1>1. PICK g \in [0 .. Len(s) -> Seq(Ids)] : g[Len(s)] = DistintosTras(l, s)
  BY DistintosVueltas, Zenon
<1>2. Len(s) \in 0 .. Len(s)
  OBVIOUS
<1> QED BY <1>1, <1>2, Zenon

LEMMA AddUnico ==
    ASSUME NEW l \in Seq(Ids), NEW s \in Seq(Mensaje), NEW f, f[0] = l,
           \A i \in 1 .. Len(s) : f[i] = add(f[i - 1], s[i].id)
    PROVE  f[Len(s)] = getSaveMessageList(s, l)
<1>1. PICK g \in [0 .. Len(s) -> Seq(Ids)] :
          /\ g[0] = l
          /\ \A i \in 1 .. Len(s) : g[i] = add(g[i - 1], s[i].id)
          /\ g[Len(s)] = getSaveMessageList(s, l)
  BY AddVueltas, Zenon
<1>2. PICK n \in Nat : n = Len(s)
  OBVIOUS
<1> DEFINE P == {i \in 0 .. n : f[i] = g[i]}
<1>3. 0 \in P
  BY <1>1
<1>4. ASSUME NEW i \in 1 .. n, i - 1 \in P PROVE i \in P
  <2>1. f[i - 1] = g[i - 1] /\ i \in 1 .. Len(s) /\ i \in 0 .. n
    BY <1>2, <1>4
  <2>2. f[i] = g[i]
    BY <1>1, <2>1, Zenon
  <2> QED BY <2>1, <2>2
<1>5. \A i \in 0 .. n : i \in P
  <2> HIDE DEF P
  <2> QED BY <1>3, <1>4, Induccion, Zenon
<1> QED BY <1>1, <1>2, <1>5

LEMMA AddEc ==
    ASSUME NEW l \in Seq(Ids)
    PROVE  /\ getSaveMessageList(<<>>, l) = l
           /\ \A s \in Seq(Mensaje), m \in Mensaje :
                 getSaveMessageList(Append(s, m), l) = add(getSaveMessageList(s, l), m.id)
<1>1. getSaveMessageList(<<>>, l) = l
  <2>1. PICK s \in Seq(Mensaje) : s = <<>> /\ Len(s) = 0
    BY EmptySeq, Zenon
  <2>2. PICK g \in [0 .. Len(s) -> Seq(Ids)] : g[0] = l /\ g[Len(s)] = getSaveMessageList(s, l)
    BY AddVueltas, Zenon
  <2> QED BY <2>1, <2>2, Zenon
<1>2. ASSUME NEW s \in Seq(Mensaje), NEW m \in Mensaje
      PROVE  getSaveMessageList(Append(s, m), l) = add(getSaveMessageList(s, l), m.id)
  <2>1. PICK u \in Seq(Mensaje), n \in Nat :
            /\ u = Append(s, m) /\ n = Len(s) /\ Len(u) = n + 1 /\ u[n + 1] = m
            /\ \A i \in 1 .. n : u[i] = s[i]
    BY AppendPuntos, Zenon
  <2>2. PICK g \in [0 .. Len(u) -> Seq(Ids)] :
            /\ g[0] = l
            /\ \A i \in 1 .. Len(u) : g[i] = add(g[i - 1], u[i].id)
            /\ g[Len(u)] = getSaveMessageList(u, l)
    BY AddVueltas, Zenon
  <2>3. (\A i \in 1 .. n : i \in 1 .. (n + 1)) /\ n + 1 \in 1 .. (n + 1) /\ (n + 1) - 1 = n
    OBVIOUS
  <2>4. \A i \in 1 .. Len(s) : g[i] = add(g[i - 1], s[i].id)
    BY <2>1, <2>2, <2>3, Zenon
  <2>5. g[n] = getSaveMessageList(s, l)
    BY <2>1, <2>2, <2>4, AddUnico, ZenonT(30)
  <2> QED BY <2>1, <2>2, <2>3, <2>5, ZenonT(30)
<1> QED BY <1>1, <1>2, Zenon

LEMMA GuardarTipo ==
    ASSUME NEW l \in Seq(Ids), NEW s \in Seq(Mensaje)
    PROVE  getSaveMessageList(s, l) \in Seq(Ids)
<1>1. PICK g \in [0 .. Len(s) -> Seq(Ids)] : g[Len(s)] = getSaveMessageList(s, l)
  BY AddVueltas, Zenon
<1>2. Len(s) \in 0 .. Len(s)
  OBVIOUS
<1> QED BY <1>1, <1>2, Zenon

LEMMA FiltroUnico ==
    ASSUME NEW ids, NEW s \in Seq(Mensaje), NEW f, f[0] = <<>>,
           \A i \in 1 .. Len(s) : f[i] = Filtrar(f[i - 1], s[i], ids)
    PROVE  f[Len(s)] = SinIds(s, ids)
<1>1. PICK g \in [0 .. Len(s) -> Seq(Mensaje)] :
          /\ g[0] = <<>>
          /\ \A i \in 1 .. Len(s) : g[i] = Filtrar(g[i - 1], s[i], ids)
          /\ g[Len(s)] = SinIds(s, ids)
  BY FiltroVueltas, Zenon
<1>2. PICK n \in Nat : n = Len(s)
  OBVIOUS
<1> DEFINE P == {i \in 0 .. n : f[i] = g[i]}
<1>3. 0 \in P
  BY <1>1
<1>4. ASSUME NEW i \in 1 .. n, i - 1 \in P PROVE i \in P
  <2>1. f[i - 1] = g[i - 1] /\ i \in 1 .. Len(s) /\ i \in 0 .. n
    BY <1>2, <1>4
  <2>2. f[i] = g[i]
    BY <1>1, <2>1, Zenon
  <2> QED BY <2>1, <2>2
<1>5. \A i \in 0 .. n : i \in P
  <2> HIDE DEF P
  <2> QED BY <1>3, <1>4, Induccion, Zenon
<1> QED BY <1>1, <1>2, <1>5

LEMMA FiltroEc ==
    ASSUME NEW ids
    PROVE  /\ SinIds(<<>>, ids) = <<>>
           /\ \A s \in Seq(Mensaje), m \in Mensaje :
                 SinIds(Append(s, m), ids) = Filtrar(SinIds(s, ids), m, ids)
<1>1. SinIds(<<>>, ids) = <<>>
  <2>1. PICK s \in Seq(Mensaje) : s = <<>> /\ Len(s) = 0
    BY EmptySeq, Zenon
  <2>2. PICK g \in [0 .. Len(s) -> Seq(Mensaje)] : g[0] = <<>> /\ g[Len(s)] = SinIds(s, ids)
    BY FiltroVueltas, Zenon
  <2> QED BY <2>1, <2>2, Zenon
<1>2. ASSUME NEW s \in Seq(Mensaje), NEW m \in Mensaje
      PROVE  SinIds(Append(s, m), ids) = Filtrar(SinIds(s, ids), m, ids)
  <2>1. PICK u \in Seq(Mensaje), n \in Nat :
            /\ u = Append(s, m) /\ n = Len(s) /\ Len(u) = n + 1 /\ u[n + 1] = m
            /\ \A i \in 1 .. n : u[i] = s[i]
    BY AppendPuntos, Zenon
  <2>2. PICK g \in [0 .. Len(u) -> Seq(Mensaje)] :
            /\ g[0] = <<>>
            /\ \A i \in 1 .. Len(u) : g[i] = Filtrar(g[i - 1], u[i], ids)
            /\ g[Len(u)] = SinIds(u, ids)
    BY FiltroVueltas, Zenon
  <2>3. (\A i \in 1 .. n : i \in 1 .. (n + 1)) /\ n + 1 \in 1 .. (n + 1) /\ (n + 1) - 1 = n
    OBVIOUS
  <2>4. \A i \in 1 .. Len(s) : g[i] = Filtrar(g[i - 1], s[i], ids)
    BY <2>1, <2>2, <2>3, Zenon
  <2>5. g[n] = SinIds(s, ids)
    BY <2>1, <2>2, <2>4, FiltroUnico, Zenon
  <2> QED BY <2>1, <2>2, <2>3, <2>5, ZenonT(30)
<1> QED BY <1>1, <1>2, Zenon

LEMMA FiltroTipo ==
    ASSUME NEW ids, NEW s \in Seq(Mensaje)
    PROVE  SinIds(s, ids) \in Seq(Mensaje)
<1>1. PICK g \in [0 .. Len(s) -> Seq(Mensaje)] : g[Len(s)] = SinIds(s, ids)
  BY FiltroVueltas, Zenon
<1>2. Len(s) \in 0 .. Len(s)
  OBVIOUS
<1> QED BY <1>1, <1>2, Zenon

-----------------------------------------------------------------------------
(* What DistintosTras returns.                                             *)
LEMMA ConcatMensajes ==
    ASSUME NEW s \in Seq(Mensaje), NEW t \in Seq(Mensaje), NEW m \in Mensaje
    PROVE  /\ s \o t \in Seq(Mensaje)
           /\ s \o <<>> = s
           /\ s \o Append(t, m) = Append(s \o t, m)
<1>1. PICK S : S = Mensaje
  BY Zenon
<1>2. s \in Seq(S) /\ m \in S /\ t \in Seq(S)
  BY <1>1, Zenon
<1>3. s \o t \in Seq(S) /\ <<m>> \in Seq(S)
  <2>1. <<m>> \in Seq(S)
    BY <1>2
  <2>2. s \o t \in Seq(S)
    BY <1>2, ConcatProperties
  <2> QED BY <2>1, <2>2
<1>4. s \o (t \o <<m>>) = (s \o t) \o <<m>>
  BY <1>2, <1>3, ConcatAssociative
<1> QED BY <1>1, <1>2, <1>3, <1>4, AppendIsConcat, ConcatEmptySeq, Zenon

LEMMA DistintosConcat ==
    ASSUME NEW l \in Seq(Ids), NEW s \in Seq(Mensaje), NEW t \in Seq(Mensaje)
    PROVE  DistintosTras(l, s \o t) = DistintosTras(DistintosTras(l, s), t)
<1>1. PICK d \in Seq(Ids) : d = DistintosTras(l, s)
  BY DistintosTipo, Zenon
<1> DEFINE P == {u \in Seq(Mensaje) : DistintosTras(l, s \o u) = DistintosTras(d, u)}
<1>2. <<>> \in P
  <2>1. <<>> \in Seq(Mensaje)
    BY EmptySeq, Zenon
  <2>3. s \o <<>> = s
    BY ConcatEmptySeq, Zenon
  <2> QED BY <1>1, <2>1, <2>3, DistintosEc, Zenon
<1>3. ASSUME NEW u \in Seq(Mensaje), NEW m \in Mensaje, u \in P PROVE Append(u, m) \in P
  <2>1. Append(u, m) \in Seq(Mensaje) /\ s \o u \in Seq(Mensaje)
    BY MensajesAppend, ConcatMensajes, Zenon
  <2>0. PICK v \in Seq(Mensaje) : v = s \o u
    BY <2>1, Zenon
  <2>4. s \o Append(u, m) = Append(v, m)
    BY <2>0, ConcatMensajes
  <2>5. DistintosTras(l, Append(v, m)) = Sumar(DistintosTras(l, v), m.id)
    BY DistintosEc, Zenon
  <2>2. DistintosTras(l, s \o Append(u, m)) = Sumar(DistintosTras(l, s \o u), m.id)
    BY <2>0, <2>4, <2>5
  <2>3. DistintosTras(d, Append(u, m)) = Sumar(DistintosTras(d, u), m.id)
    BY DistintosEc, Zenon
  <2> QED BY <1>3, <2>1, <2>2, <2>3, Zenon
<1> HIDE DEF P
<1>4. t \in P
  BY <1>2, <1>3, InduccionSeq, Zenon
<1> QED BY <1>1, <1>4, Zenon DEF P

(* Appending to a list of ids.                                             *)
LEMMA IdsAppend ==
    ASSUME NEW l \in Seq(Ids), NEW y \in Ids
    PROVE  /\ Append(l, y) \in Seq(Ids)
           /\ Len(Append(l, y)) = Len(l) + 1
           /\ \A i \in 1 .. Len(l) : Append(l, y)[i] = l[i]
           /\ Append(l, y)[Len(l) + 1] = y
           /\ DOMAIN Append(l, y) = 1 .. (Len(l) + 1)
           /\ DOMAIN l = 1 .. Len(l)
           /\ Len(l) \in Nat
<1>1. PICK S : S = Ids
  BY Zenon
<1>2. l \in Seq(S) /\ y \in S
  BY <1>1, Zenon
<1>3. /\ Append(l, y) \in Seq(S)
      /\ Len(Append(l, y)) = Len(l) + 1
      /\ \A i \in 1 .. Len(l) : Append(l, y)[i] = l[i]
      /\ Append(l, y)[Len(l) + 1] = y
  BY <1>2, AppendProperties
<1>4. Len(l) \in Nat /\ DOMAIN l = 1 .. Len(l) /\ DOMAIN Append(l, y) = 1 .. (Len(l) + 1)
  BY <1>2, <1>3, LenProperties
<1> QED BY <1>1, <1>3, <1>4, Zenon

LEMMA TieneAppend ==
    ASSUME NEW l \in Seq(Ids), NEW y \in Ids
    PROVE  \A x : Tiene(Append(l, y), x) <=> Tiene(l, x) \/ x = y
<1>1. PICK a \in Seq(Ids), n \in Nat :
          /\ a = Append(l, y) /\ n = Len(l) /\ DOMAIN a = 1 .. (n + 1) /\ DOMAIN l = 1 .. n
          /\ a[n + 1] = y /\ \A i \in 1 .. n : a[i] = l[i]
  <2>1. PICK n \in Nat : n = Len(l)
    BY IdsAppend
  <2>2. PICK a \in Seq(Ids) : a = Append(l, y)
    BY IdsAppend, Zenon
  <2>3. DOMAIN a = 1 .. (n + 1) /\ DOMAIN l = 1 .. n
    BY <2>1, <2>2, IdsAppend, Zenon
  <2>4. a[n + 1] = y /\ \A i \in 1 .. n : a[i] = l[i]
    BY <2>1, <2>2, IdsAppend, Zenon
  <2> QED BY <2>1, <2>2, <2>3, <2>4, Zenon
<1>2. \A i \in 1 .. (n + 1) : i \in 1 .. n \/ i = n + 1
  OBVIOUS
<1>3. n + 1 \in 1 .. (n + 1) /\ \A i \in 1 .. n : i \in 1 .. (n + 1)
  OBVIOUS
<1>4. ASSUME NEW x PROVE Tiene(a, x) <=> Tiene(l, x) \/ x = y
  BY <1>1, <1>2, <1>3, Zenon DEF Tiene
<1> QED BY <1>1, <1>4, Zenon

LEMMA TieneSumar ==
    ASSUME NEW l \in Seq(Ids), NEW y \in Ids
    PROVE  \A x : Tiene(Sumar(l, y), x) <=> Tiene(l, x) \/ x = y
BY TieneAppend, Zenon DEF Sumar

LEMMA IdsDeAppend ==
    ASSUME NEW s \in Seq(Mensaje), NEW m \in Mensaje
    PROVE  IdsDe(Append(s, m)) = IdsDe(s) \cup {m.id}
<1>1. PICK a \in Seq(Mensaje), n \in Nat :
          /\ a = Append(s, m) /\ n = Len(s) /\ Len(a) = n + 1 /\ a[n + 1] = m
          /\ \A i \in 1 .. n : a[i] = s[i]
  BY AppendPuntos, Zenon
<1>2. DOMAIN a = 1 .. (n + 1) /\ DOMAIN s = 1 .. n
  BY <1>1
<1>3. \A i \in 1 .. (n + 1) : i \in 1 .. n \/ i = n + 1
  OBVIOUS
<1>4. n + 1 \in 1 .. (n + 1) /\ \A i \in 1 .. n : i \in 1 .. (n + 1)
  OBVIOUS
<1>5. \A x : x \in IdsDe(a) <=> x \in IdsDe(s) \/ x = m.id
  BY <1>1, <1>2, <1>3, <1>4, Zenon DEF IdsDe
<1> QED BY <1>1, <1>5, Zenon

LEMMA IdsDeVacia == IdsDe(<<>>) = {}
BY DEF IdsDe

(* DistintosTras has the ids of both.                                      *)
LEMMA DistintosRango ==
    ASSUME NEW l \in Seq(Ids), NEW s \in Seq(Mensaje)
    PROVE  \A x : Tiene(DistintosTras(l, s), x) <=> Tiene(l, x) \/ x \in IdsDe(s)
<1> DEFINE P == {u \in Seq(Mensaje) :
                   \A x : Tiene(DistintosTras(l, u), x) <=> Tiene(l, x) \/ x \in IdsDe(u)}
<1>1. <<>> \in P
  <2>1. <<>> \in Seq(Mensaje)
    BY EmptySeq, Zenon
  <2> QED BY <2>1, IdsDeVacia, DistintosEc, Zenon
<1>2. ASSUME NEW u \in Seq(Mensaje), NEW m \in Mensaje, u \in P PROVE Append(u, m) \in P
  <2>1. Append(u, m) \in Seq(Mensaje)
    BY MensajesAppend, Zenon
  <2>2. PICK d \in Seq(Ids), y \in Ids : d = DistintosTras(l, u) /\ y = m.id
    <3>1. m.id \in Ids
      BY DEF Mensaje
    <3> QED BY <3>1, DistintosTipo, Zenon
  <2>3. DistintosTras(l, Append(u, m)) = Sumar(d, y)
    BY <2>2, DistintosEc, Zenon
  <2>4. ASSUME NEW x
        PROVE  Tiene(Sumar(d, y), x) <=> Tiene(l, x) \/ x \in IdsDe(Append(u, m))
    <3>1. Tiene(d, x) <=> Tiene(l, x) \/ x \in IdsDe(u)
      BY <1>2, <2>2, Zenon
    <3>2. x \in IdsDe(Append(u, m)) <=> x \in IdsDe(u) \/ x = y
      BY <2>2, IdsDeAppend, Zenon
    <3> QED BY <3>1, <3>2, TieneSumar, Zenon
  <2> QED BY <2>1, <2>3, <2>4, Zenon
<1> HIDE DEF P
<1>3. s \in P
  BY <1>1, <1>2, InduccionSeq, Zenon
<1> QED BY <1>3, Zenon DEF P

(* Nothing is added if every id is there.                                  *)
LEMMA DistintosSabidos ==
    ASSUME NEW l \in Seq(Ids), NEW s \in Seq(Mensaje), \A x \in IdsDe(s) : Tiene(l, x)
    PROVE  DistintosTras(l, s) = l
<1> DEFINE P == {u \in Seq(Mensaje) :
                   (\A x \in IdsDe(u) : Tiene(l, x)) => DistintosTras(l, u) = l}
<1>1. <<>> \in P
  <2>1. <<>> \in Seq(Mensaje)
    BY EmptySeq, Zenon
  <2> QED BY <2>1, DistintosEc, Zenon
<1>2. ASSUME NEW u \in Seq(Mensaje), NEW m \in Mensaje, u \in P PROVE Append(u, m) \in P
  <2>1. Append(u, m) \in Seq(Mensaje)
    BY MensajesAppend, Zenon
  <2>2. SUFFICES ASSUME \A x \in IdsDe(Append(u, m)) : Tiene(l, x)
                 PROVE  DistintosTras(l, Append(u, m)) = l
    BY <2>1, Zenon
  <2>3. Tiene(l, m.id) /\ \A x \in IdsDe(u) : Tiene(l, x)
    BY <2>2, IdsDeAppend, Zenon
  <2>4. DistintosTras(l, u) = l
    BY <1>2, <2>3, Zenon
  <2> QED BY <2>3, <2>4, DistintosEc, ZenonT(30) DEF Sumar
<1> HIDE DEF P
<1>3. s \in P
  BY <1>1, <1>2, InduccionSeq, Zenon
<1> QED BY <1>3, Zenon DEF P

(* Leaving out messages whose ids are there changes nothing.               *)
LEMMA DistintosFiltro ==
    ASSUME NEW l \in Seq(Ids), NEW ids, \A x \in ids : Tiene(l, x), NEW s \in Seq(Mensaje)
    PROVE  DistintosTras(l, SinIds(s, ids)) = DistintosTras(l, s)
<1> DEFINE P == {u \in Seq(Mensaje) : DistintosTras(l, SinIds(u, ids)) = DistintosTras(l, u)}
<1>1. <<>> \in P
  <2>1. <<>> \in Seq(Mensaje)
    BY EmptySeq, Zenon
  <2> QED BY <2>1, FiltroEc, Zenon
<1>2. ASSUME NEW u \in Seq(Mensaje), NEW m \in Mensaje, u \in P PROVE Append(u, m) \in P
  <2>1. Append(u, m) \in Seq(Mensaje)
    BY MensajesAppend, Zenon
  <2>2. PICK f \in Seq(Mensaje) : f = SinIds(u, ids) /\ SinIds(Append(u, m), ids) = Filtrar(f, m, ids)
    BY FiltroTipo, FiltroEc, Zenon
  <2>3. DistintosTras(l, Append(u, m)) = Sumar(DistintosTras(l, u), m.id)
    BY DistintosEc, Zenon
  <2>4. CASE m.id \in ids
    <3>1. Tiene(DistintosTras(l, u), m.id)
      BY <2>4, DistintosRango, Zenon
    <3> QED BY <1>2, <2>1, <2>2, <2>3, <2>4, <3>1, Zenon DEF Filtrar, Sumar
  <2>5. CASE m.id \notin ids
    <3>1. DistintosTras(l, Append(f, m)) = Sumar(DistintosTras(l, f), m.id)
      BY DistintosEc, Zenon
    <3> QED BY <1>2, <2>1, <2>2, <2>3, <2>5, <3>1, Zenon DEF Filtrar
  <2> QED BY <2>4, <2>5, Zenon
<1> HIDE DEF P
<1>3. s \in P
  BY <1>1, <1>2, InduccionSeq, Zenon
<1> QED BY <1>3, Zenon DEF P

LEMMA PrefijoTiene ==
    ASSUME NEW S, NEW l \in Seq(S), NEW d \in Seq(S), EsPrefijo(l, d), NEW x, Tiene(l, x)
    PROVE  Tiene(d, x)
<1>1. Len(l) <= Len(d) /\ \A i \in 1 .. Len(l) : l[i] = d[i]
  BY PrefijoPuntos
<1>2. /\ DOMAIN l = 1 .. Len(l) /\ DOMAIN d = 1 .. Len(d)
      /\ Len(l) \in Nat /\ Len(d) \in Nat
  BY LenProperties
<1>3. PICK i \in 1 .. Len(l) : l[i] = x
  BY <1>2 DEF Tiene
<1> QED BY <1>1, <1>2, <1>3 DEF Tiene

LEMMA PrefijoAppend ==
    ASSUME NEW l \in Seq(Ids), NEW d \in Seq(Ids), NEW y \in Ids
    PROVE  /\ EsPrefijo(d, Append(d, y))
           /\ EsPrefijo(l, Append(d, y)) => EsPrefijo(l, d) \/ l = Append(d, y)
<1>1. PICK S : S = Ids
  BY Zenon
<1>2. l \in Seq(S) /\ d \in Seq(S)
  BY <1>1, Zenon
<1>3. PICK n \in Nat : n = Len(d)
  BY <1>2
<1>4. PICK a \in Seq(S) : a = Append(d, y)
  BY <1>1, IdsAppend, Zenon
<1>5. Len(a) = n + 1 /\ \A i \in 1 .. n : a[i] = d[i]
  BY <1>3, <1>4, IdsAppend, Zenon
<1>6. EsPrefijo(d, a)
  BY <1>2, <1>3, <1>5, PrefijoPuntos
<1>7. ASSUME EsPrefijo(l, a), ~EsPrefijo(l, d) PROVE l = a
  <2>1. Len(l) <= n + 1 /\ (\A i \in 1 .. Len(l) : l[i] = a[i]) /\ Len(l) \in Nat
    BY <1>2, <1>5, <1>7, PrefijoPuntos
  <2>2. ~(Len(l) <= n)
    <3>1. SUFFICES ASSUME Len(l) <= n PROVE FALSE
      OBVIOUS
    <3>2. \A i \in 1 .. Len(l) : l[i] = d[i]
      BY <1>5, <2>1, <3>1
    <3> QED BY <1>2, <1>3, <1>7, <3>1, <3>2, PrefijoPuntos
  <2>3. Len(l) = Len(a)
    BY <1>5, <2>1, <2>2
  <2> QED BY <1>2, <2>1, <2>3, SeqEqual
<1> QED BY <1>4, <1>6, <1>7, Zenon

LEMMA PrefijoSumar ==
    ASSUME NEW d \in Seq(Ids), NEW y \in Ids PROVE EsPrefijo(d, Sumar(d, y))
BY PrefijoAppend, PrefijoReflexivo, Zenon DEF Sumar

LEMMA DistintosPrefijo ==
    ASSUME NEW l \in Seq(Ids), NEW s \in Seq(Mensaje)
    PROVE  EsPrefijo(l, DistintosTras(l, s))
<1> DEFINE P == {u \in Seq(Mensaje) : EsPrefijo(l, DistintosTras(l, u))}
<1>1. <<>> \in P
  <2>1. <<>> \in Seq(Mensaje)
    BY EmptySeq, Zenon
  <2> QED BY <2>1, DistintosEc, PrefijoReflexivo, Zenon
<1>2. ASSUME NEW u \in Seq(Mensaje), NEW m \in Mensaje, u \in P PROVE Append(u, m) \in P
  <2>1. Append(u, m) \in Seq(Mensaje)
    BY MensajesAppend, Zenon
  <2>2. PICK d \in Seq(Ids), y \in Ids : d = DistintosTras(l, u) /\ y = m.id
    <3>1. m.id \in Ids
      BY DEF Mensaje
    <3> QED BY <3>1, DistintosTipo, Zenon
  <2>3. EsPrefijo(l, d) /\ EsPrefijo(d, Sumar(d, y)) /\ Sumar(d, y) \in Seq(Ids)
    BY <1>2, <2>2, PrefijoSumar, SumarTipo, Zenon
  <2>4. EsPrefijo(l, Sumar(d, y))
    BY <2>3, PrefijoTransitivo
  <2> QED BY <2>1, <2>2, <2>4, DistintosEc, Zenon
<1> HIDE DEF P
<1>3. s \in P
  BY <1>1, <1>2, InduccionSeq, Zenon
<1> QED BY <1>3, Zenon DEF P

(* From any prefix of the distinct ids of a sequence, the sequence gives   *)
(* them all: what a list that lags behind the table gets from it.          *)
LEMMA DistintosCompleta ==
    ASSUME NEW l \in Seq(Ids), NEW s \in Seq(Mensaje), EsPrefijo(l, Distintos(s))
    PROVE  DistintosTras(l, s) = Distintos(s)
<1>0. PICK e \in Seq(Ids) : e = <<>>
  BY EmptySeq, Zenon
<1> DEFINE D(u) == DistintosTras(e, u)
<1> DEFINE P == {u \in Seq(Mensaje) : /\ EsPrefijo(l, D(u)) => DistintosTras(l, u) = D(u)
                                      /\ EsPrefijo(D(u), l) => DistintosTras(l, u) = l}
<1>1. <<>> \in P
  <2>1. <<>> \in Seq(Mensaje)
    BY EmptySeq, Zenon
  <2>2. D(<<>>) = e /\ DistintosTras(l, <<>>) = l
    BY DistintosEc, Zenon
  <2>3. EsPrefijo(l, e) => l = e
    <3>1. SUFFICES ASSUME EsPrefijo(l, e) PROVE l = e
      OBVIOUS
    <3>2. Len(l) <= 0 /\ Len(l) \in Nat
      BY <1>0, <3>1 DEF EsPrefijo
    <3> QED BY <1>0, <3>2, EmptySeq
  <2> QED BY <2>1, <2>2, <2>3, Zenon
<1>2. ASSUME NEW u \in Seq(Mensaje), NEW m \in Mensaje, u \in P PROVE Append(u, m) \in P
  <2>1. Append(u, m) \in Seq(Mensaje)
    BY MensajesAppend, Zenon
  <2>2. PICK d \in Seq(Ids), y \in Ids : d = D(u) /\ y = m.id
    <3>1. m.id \in Ids
      BY DEF Mensaje
    <3> QED BY <3>1, DistintosTipo, Zenon
  <2>3. D(Append(u, m)) = Sumar(d, y) /\ DistintosTras(l, Append(u, m)) = Sumar(DistintosTras(l, u), y)
    BY <2>2, DistintosEc, Zenon
  <2>4. /\ EsPrefijo(l, d) => DistintosTras(l, u) = d
        /\ EsPrefijo(d, l) => DistintosTras(l, u) = l
    BY <1>2, <2>2, Zenon
  <2> HIDE DEF D
  <2>5. PICK a \in Seq(Ids) : a = Sumar(d, y) /\ Tiene(a, y) /\ EsPrefijo(d, a)
    BY SumarTipo, TieneSumar, PrefijoSumar, Zenon
  <2>6. ASSUME EsPrefijo(l, a) PROVE Sumar(DistintosTras(l, u), y) = a
    <3>1. EsPrefijo(l, d) \/ l = a
      BY <2>5, <2>6, PrefijoAppend, Zenon DEF Sumar
    <3>2. CASE EsPrefijo(l, d)
      BY <2>4, <2>5, <3>2, Zenon
    <3>3. CASE l = a
      BY <2>4, <2>5, <3>3, Zenon DEF Sumar
    <3> QED BY <3>1, <3>2, <3>3, Zenon
  <2>7. ASSUME EsPrefijo(a, l) PROVE Sumar(DistintosTras(l, u), y) = l
    <3>1. EsPrefijo(d, l) /\ Tiene(l, y)
      BY <2>5, <2>7, PrefijoTransitivo, PrefijoTiene
    <3> QED BY <2>4, <3>1, Zenon DEF Sumar
  <2> QED BY <2>1, <2>3, <2>5, <2>6, <2>7, Zenon
<1> HIDE DEF P
<1>3. s \in P
  BY <1>1, <1>2, InduccionSeq, Zenon
<1> QED BY <1>0, <1>3, Zenon DEF P, Distintos

-----------------------------------------------------------------------------
(* What SinIds keeps: the messages without those ids, in order.            *)
LEMMA FiltroConcat ==
    ASSUME NEW ids, NEW s \in Seq(Mensaje), NEW t \in Seq(Mensaje)
    PROVE  SinIds(s \o t, ids) = SinIds(s, ids) \o SinIds(t, ids)
<1>1. PICK d \in Seq(Mensaje) : d = SinIds(s, ids)
  BY FiltroTipo, Zenon
<1> DEFINE P == {u \in Seq(Mensaje) : SinIds(s \o u, ids) = d \o SinIds(u, ids)}
<1>2. <<>> \in P
  <2>1. <<>> \in Seq(Mensaje)
    BY EmptySeq, Zenon
  <2>2. s \o <<>> = s /\ d \o <<>> = d
    BY ConcatEmptySeq, Zenon
  <2> QED BY <1>1, <2>1, <2>2, FiltroEc, Zenon
<1>3. ASSUME NEW u \in Seq(Mensaje), NEW m \in Mensaje, u \in P PROVE Append(u, m) \in P
  <2>1. Append(u, m) \in Seq(Mensaje) /\ s \o u \in Seq(Mensaje)
    BY MensajesAppend, ConcatMensajes, Zenon
  <2>2. PICK v \in Seq(Mensaje), f \in Seq(Mensaje) : v = s \o u /\ f = SinIds(u, ids)
    BY <2>1, FiltroTipo, Zenon
  <2>3. s \o Append(u, m) = Append(v, m) /\ d \o Append(f, m) = Append(d \o f, m)
    <3>1. s \o Append(u, m) = Append(s \o u, m)
      BY ConcatMensajes
    <3>2. d \o Append(f, m) = Append(d \o f, m)
      BY ConcatMensajes
    <3> QED BY <2>2, <3>1, <3>2
  <2>4. SinIds(Append(v, m), ids) = Filtrar(SinIds(v, ids), m, ids)
    BY FiltroEc, Zenon
  <2>5. SinIds(Append(u, m), ids) = Filtrar(f, m, ids)
    BY <2>2, FiltroEc, Zenon
  <2>6. SinIds(v, ids) = d \o f
    BY <1>3, <2>2, Zenon
  <2>7. SinIds(s \o Append(u, m), ids) = d \o SinIds(Append(u, m), ids)
    BY <2>3, <2>4, <2>5, <2>6, Zenon DEF Filtrar
  <2> QED BY <2>1, <2>7, Zenon
<1> HIDE DEF P
<1>4. t \in P
  BY <1>2, <1>3, InduccionSeq, Zenon
<1> QED BY <1>1, <1>4, Zenon DEF P

Creciente(s) == \A i, j \in 1 .. Len(s) : i < j => s[i].n < s[j].n

LEMMA FiltroMiembros ==
    ASSUME NEW ids, NEW s \in Seq(Mensaje)
    PROVE  /\ \A a \in 1 .. Len(SinIds(s, ids)) :
                 /\ SinIds(s, ids)[a].id \notin ids
                 /\ \E b \in 1 .. Len(s) : SinIds(s, ids)[a] = s[b]
           /\ Creciente(s) => Creciente(SinIds(s, ids))
<1> DEFINE De(f, u) == \A a \in 1 .. Len(f) : /\ f[a].id \notin ids
                                              /\ \E b \in 1 .. Len(u) : f[a] = u[b]
<1> DEFINE P == {u \in Seq(Mensaje) : /\ De(SinIds(u, ids), u)
                                      /\ Creciente(u) => Creciente(SinIds(u, ids))}
<1> HIDE DEF De
<1>1. <<>> \in P
  <2>1. PICK e \in Seq(Mensaje) : e = <<>> /\ Len(e) = 0
    BY EmptySeq, Zenon
  <2>2. De(e, e) /\ Creciente(e)
    BY <2>1 DEF Creciente, De
  <2> QED BY <2>1, <2>2, FiltroEc, Zenon
<1>2. ASSUME NEW u \in Seq(Mensaje), NEW m \in Mensaje, u \in P PROVE Append(u, m) \in P
  <2>1. PICK v \in Seq(Mensaje), n \in Nat :
            /\ v = Append(u, m) /\ n = Len(u) /\ Len(v) = n + 1 /\ v[n + 1] = m
            /\ \A i \in 1 .. n : v[i] = u[i]
    BY AppendPuntos, Zenon
  <2>2. PICK f \in Seq(Mensaje) : f = SinIds(u, ids) /\ SinIds(v, ids) = Filtrar(f, m, ids)
    BY <2>1, FiltroTipo, FiltroEc, Zenon
  <2>3. De(f, u) /\ (Creciente(u) => Creciente(f))
    BY <1>2, <2>2, Zenon
  <2>4. Creciente(v) => Creciente(u)
    BY <2>1 DEF Creciente
  <2>5. De(f, v)
    <3>1. Len(u) = n /\ \A i \in 1 .. n : i \in 1 .. (n + 1)
      BY <2>1
    <3>2. ASSUME NEW a \in 1 .. Len(f)
          PROVE  f[a].id \notin ids /\ \E b \in 1 .. Len(v) : f[a] = v[b]
      <4>1. PICK b \in 1 .. Len(u) : f[a] = u[b]
        BY <2>3, Zenon DEF De
      <4>2. b \in 1 .. Len(v) /\ v[b] = u[b]
        BY <2>1, <3>1, <4>1, Zenon
      <4> QED BY <2>3, <4>1, <4>2, Zenon DEF De
    <3> QED BY <3>2, Zenon DEF De
  <2>8. SUFFICES De(SinIds(v, ids), v) /\ (Creciente(v) => Creciente(SinIds(v, ids)))
    BY <2>1, Zenon
  <2> HIDE DEF P
  <2>6. CASE m.id \in ids
    <3>1. SinIds(v, ids) = f
      BY <2>2, <2>6, Zenon DEF Filtrar
    <3> QED BY <2>3, <2>4, <2>5, <3>1, Zenon
  <2>7. CASE m.id \notin ids
    <3>1. PICK g \in Seq(Mensaje), k \in Nat :
              /\ g = Append(f, m) /\ k = Len(f) /\ Len(g) = k + 1 /\ g[k + 1] = m
              /\ \A i \in 1 .. k : g[i] = f[i]
      BY AppendPuntos, Zenon
    <3>2. De(g, v)
      <4>1. SUFFICES ASSUME NEW a \in 1 .. Len(g)
                     PROVE  g[a].id \notin ids /\ \E b \in 1 .. Len(v) : g[a] = v[b]
        BY Zenon DEF De
      <4>2. CASE a \in 1 .. k
        BY <2>5, <3>1, <4>2, Zenon DEF De
      <4>3. CASE a = k + 1
        <5>1. n + 1 \in 1 .. Len(v)
          BY <2>1
        <5>2. g[a] = m /\ v[n + 1] = m
          BY <2>1, <3>1, <4>3, Zenon
        <5> QED BY <2>7, <5>1, <5>2, Zenon
      <4> QED BY <3>1, <4>2, <4>3, HastaElUltimo, Zenon
    <3>3. ASSUME Creciente(v) PROVE Creciente(g)
      <4>1. SUFFICES ASSUME NEW i \in 1 .. Len(g), NEW j \in 1 .. Len(g), i < j
                     PROVE  g[i].n < g[j].n
        BY Zenon DEF Creciente
      <4>2. i \in 1 .. k
        BY <3>1, <4>1
      <4>3. CASE j \in 1 .. k
        <5>1. Creciente(f)
          BY <2>3, <2>4, <3>3
        <5> QED BY <3>1, <4>1, <4>2, <4>3, <5>1 DEF Creciente
      <4>4. CASE j = k + 1
        <5>1. PICK b \in 1 .. n : g[i] = u[b]
          BY <2>1, <2>3, <3>1, <4>2 DEF De
        <5>2. g[i] = v[b] /\ g[j] = v[n + 1] /\ b \in 1 .. Len(v) /\ n + 1 \in 1 .. Len(v) /\ b < n + 1
          BY <2>1, <3>1, <4>4, <5>1
        <5>3. v[b].n < v[n + 1].n
          BY <3>3, <5>2 DEF Creciente
        <5> QED BY <5>2, <5>3
      <4> QED BY <3>1, <4>3, <4>4
    <3>4. SinIds(v, ids) = g
      BY <2>2, <2>7, <3>1, Zenon DEF Filtrar
    <3> QED BY <3>2, <3>3, <3>4, Zenon
  <2> QED BY <2>6, <2>7, Zenon
<1> HIDE DEF P
<1>3. s \in P
  BY <1>1, <1>2, InduccionSeq, Zenon
<1> QED BY <1>3, Zenon DEF P, De

-----------------------------------------------------------------------------
(* The list of the adapter.                                                *)
LEMMA SubSeqPuntos ==
    ASSUME NEW S, NEW l \in Seq(S), NEW a \in Nat, a # 0, NEW b \in Nat,
           b <= Len(l), a <= b + 1
    PROVE  /\ SubSeq(l, a, b) \in Seq(S)
           /\ Len(SubSeq(l, a, b)) = b - a + 1
           /\ \A j \in 1 .. (b - a + 1) : SubSeq(l, a, b)[j] = l[j + a - 1]
<1>1. \A j \in a .. b : l[j] \in S
  BY LenProperties
<1>2. PICK t : t = SubSeq(l, a, b)
  BY Zenon
<1>3. /\ t \in Seq(S)
      /\ Len(t) = IF a <= b THEN b - a + 1 ELSE 0
      /\ \A j \in 1 .. b - a + 1 : t[j] = l[a + j - 1]
  BY <1>1, <1>2, SubSeqProperties
<1>4. Len(t) = b - a + 1 /\ \A j \in 1 .. (b - a + 1) : a + j - 1 = j + a - 1
  BY <1>3
<1> QED BY <1>2, <1>3, <1>4

LEMMA QuitarPuntos ==
    ASSUME NEW S, NEW l \in Seq(S), NEW i \in 1 .. Len(l)
    PROVE  /\ Quitar(l, i) \in Seq(S)
           /\ Len(Quitar(l, i)) = Len(l) - 1
           /\ \A j \in 1 .. (Len(l) - 1) :
                 Quitar(l, i)[j] = IF j < i THEN l[j] ELSE l[j + 1]
<1>1. PICK n \in Nat : n = Len(l) /\ i \in 1 .. n
  BY LenProperties
<1>2. \A j \in 1 .. n : l[j] \in S
  BY <1>1
<1>3. PICK a \in Seq(S) : /\ a = SubSeq(l, 1, i - 1) /\ Len(a) = i - 1
                          /\ \A j \in 1 .. (i - 1) : a[j] = l[j]
  <2>1. PICK x \in Nat, y \in Nat : x = 1 /\ x # 0 /\ y = i - 1 /\ y <= Len(l) /\ x <= y + 1
    BY <1>1
  <2>2. PICK t \in Seq(S) : /\ t = SubSeq(l, x, y) /\ Len(t) = y - x + 1
                            /\ \A j \in 1 .. (y - x + 1) : t[j] = l[j + x - 1]
    <3>1. /\ SubSeq(l, x, y) \in Seq(S) /\ Len(SubSeq(l, x, y)) = y - x + 1
          /\ \A j \in 1 .. (y - x + 1) : SubSeq(l, x, y)[j] = l[j + x - 1]
      BY <2>1, SubSeqPuntos
    <3> QED BY <3>1, Zenon
  <2>4. t = SubSeq(l, 1, i - 1)
    BY <2>1, <2>2, Zenon
  <2>3. Len(t) = i - 1 /\ \A j \in 1 .. (i - 1) : t[j] = l[j]
    BY <1>1, <2>1, <2>2
  <2> QED BY <2>3, <2>4, Zenon
<1>4. PICK b \in Seq(S) : /\ b = SubSeq(l, i + 1, n) /\ Len(b) = n - i
                          /\ \A j \in 1 .. (n - i) : b[j] = l[j + i]
  <2>1. PICK x \in Nat : x = i + 1 /\ x # 0 /\ n <= Len(l) /\ x <= n + 1
    BY <1>1
  <2>2. PICK t \in Seq(S) : /\ t = SubSeq(l, x, n) /\ Len(t) = n - x + 1
                            /\ \A j \in 1 .. (n - x + 1) : t[j] = l[j + x - 1]
    <3>1. /\ SubSeq(l, x, n) \in Seq(S) /\ Len(SubSeq(l, x, n)) = n - x + 1
          /\ \A j \in 1 .. (n - x + 1) : SubSeq(l, x, n)[j] = l[j + x - 1]
      BY <2>1, SubSeqPuntos
    <3> QED BY <3>1, Zenon
  <2>3. Len(t) = n - i /\ \A j \in 1 .. (n - i) : t[j] = l[j + i]
    <3>1. n - x + 1 = n - i /\ \A j \in 1 .. (n - i) : j + x - 1 = j + i
      BY <1>1, <2>1
    <3> QED BY <2>2, <3>1, Zenon
  <2> QED BY <2>1, <2>2, <2>3, Zenon
<1>5. /\ a \o b \in Seq(S)
      /\ Len(a \o b) = Len(a) + Len(b)
      /\ \A j \in 1 .. Len(a) + Len(b) :
            (a \o b)[j] = IF j <= Len(a) THEN a[j] ELSE b[j - Len(a)]
  BY ConcatProperties
<1>6. PICK q \in Seq(S) : q = a \o b /\ q = Quitar(l, i) /\ Len(q) = n - 1
  <2>1. Quitar(l, i) = a \o b
    <3>1. SubSeq(l, 1, i - 1) = a /\ SubSeq(l, i + 1, Len(l)) = b
      BY <1>1, <1>3, <1>4, Zenon
    <3> QED BY <3>1, Zenon DEF Quitar
  <2>2. PICK q : q = a \o b
    BY Zenon
  <2>4. Len(a) = i - 1 /\ Len(b) = n - i
    BY <1>3, <1>4, Zenon
  <2>3. Len(a) + Len(b) = n - 1
    BY <1>1, <2>4
  <2> QED BY <1>5, <2>1, <2>2, <2>3, Zenon
<1>7. ASSUME NEW j \in 1 .. (n - 1) PROVE q[j] = IF j < i THEN l[j] ELSE l[j + 1]
  <2>1. q[j] = IF j <= i - 1 THEN a[j] ELSE b[j - (i - 1)]
    BY <1>1, <1>3, <1>4, <1>5, <1>6, ZenonT(30)
  <2>2. CASE j < i
    BY <1>1, <1>3, <2>1, <2>2
  <2>3. CASE ~(j < i)
    <3>1. j - (i - 1) \in 1 .. (n - i) /\ ~(j <= i - 1) /\ (j - (i - 1)) + i = j + 1
      BY <1>1, <2>3
    <3> QED BY <1>4, <2>1, <2>3, <3>1, Zenon
  <2> QED BY <2>2, <2>3
<1> QED BY <1>1, <1>6, <1>7

(* SinProvisoria takes away one empty id, if there is one.                 *)
LEMMA ProvisoriaTiene ==
    ASSUME NEW l \in Seq(Ids), NEW x, x # Vacio
    PROVE  Tiene(SinProvisoria(l), x) <=> Tiene(l, x)
<1>1. CASE ~Tiene(l, Vacio)
  BY <1>1, Zenon DEF SinProvisoria
<1>2. CASE Tiene(l, Vacio)
  <2>1. PICK i \in DOMAIN l : i = (CHOOSE j \in DOMAIN l : l[j] = Vacio) /\ l[i] = Vacio
    BY <1>2, Zenon DEF Tiene
  <2>2. PICK n \in Nat, q \in Seq(Ids) :
            /\ n = Len(l) /\ q = Quitar(l, i) /\ i \in 1 .. n /\ Len(q) = n - 1
            /\ \A j \in 1 .. (n - 1) : q[j] = IF j < i THEN l[j] ELSE l[j + 1]
    <3>1. PICK n \in Nat : n = Len(l) /\ i \in 1 .. n
      BY <2>1, LenProperties, Zenon
    <3>2. /\ Quitar(l, i) \in Seq(Ids) /\ Len(Quitar(l, i)) = n - 1
          /\ \A j \in 1 .. (n - 1) : Quitar(l, i)[j] = IF j < i THEN l[j] ELSE l[j + 1]
      BY <3>1, QuitarPuntos
    <3> QED BY <3>1, <3>2, Zenon
  <2>3. DOMAIN l = 1 .. n /\ DOMAIN q = 1 .. (n - 1)
    BY <2>2
  <2>4. ASSUME NEW j \in 1 .. (n - 1) PROVE \E k \in 1 .. n : q[j] = l[k]
    BY <2>2
  <2>5. ASSUME NEW k \in 1 .. n, k # i PROVE \E j \in 1 .. (n - 1) : q[j] = l[k]
    <3>1. CASE k < i
      BY <2>2, <3>1
    <3>2. CASE k > i
      <4>1. k - 1 \in 1 .. (n - 1) /\ ~(k - 1 < i) /\ (k - 1) + 1 = k
        BY <2>2, <3>2
      <4> QED BY <2>2, <4>1
    <3> QED BY <2>2, <2>5, <3>1, <3>2
  <2>6. SinProvisoria(l) = q
    BY <1>2, <2>1, <2>2, Zenon DEF SinProvisoria
  <2>7. ASSUME Tiene(q, x) PROVE Tiene(l, x)
    BY <2>3, <2>4, <2>7, Zenon DEF Tiene
  <2>8. ASSUME Tiene(l, x) PROVE Tiene(q, x)
    <3>1. PICK k \in 1 .. n : l[k] = x
      BY <2>3, <2>8, Zenon DEF Tiene
    <3>2. k # i
      BY <2>1, <3>1, Zenon
    <3> QED BY <2>3, <2>5, <3>1, <3>2, Zenon DEF Tiene
  <2> QED BY <2>6, <2>7, <2>8, Zenon
<1> QED BY <1>1, <1>2, Zenon

LEMMA ProvisoriaTipo == ASSUME NEW l \in Seq(Ids) PROVE SinProvisoria(l) \in Seq(Ids)
<1>1. Vacio \in Ids
  BY Zenon DEF Ids
<1> QED BY <1>1, AddTipo, Zenon

(* add keeps at most one empty id, and adds the others once.               *)
LEMMA AddVista ==
    ASSUME NEW l \in Seq(Ids), ~Tiene(SinProvisoria(l), Vacio), NEW x \in Ids
    PROVE  SinProvisoria(add(l, x)) = IF x = Vacio THEN SinProvisoria(l)
                                      ELSE Sumar(SinProvisoria(l), x)
<1>1. PICK v \in Seq(Ids) : v = SinProvisoria(l) /\ ~Tiene(v, Vacio)
  BY AddTipo, Zenon
<1>2. CASE x # Vacio
  <2>1. Tiene(v, x) <=> Tiene(l, x)
    BY <1>1, <1>2, ProvisoriaTiene, Zenon
  <2>2. CASE Tiene(l, x)
    BY <1>1, <1>2, <2>1, <2>2, Zenon DEF add, Sumar
  <2>3. CASE ~Tiene(l, x)
    <3>1. add(l, x) = Append(v, x) /\ Sumar(v, x) = Append(v, x)
      BY <1>1, <2>1, <2>3, Zenon DEF add, Sumar
    <3>2. ~Tiene(Append(v, x), Vacio)
      BY <1>1, <1>2, TieneAppend, Zenon
    <3> QED BY <1>1, <1>2, <3>1, <3>2, Zenon DEF SinProvisoria
  <2> QED BY <2>2, <2>3, Zenon
<1>3. CASE x = Vacio /\ Tiene(l, Vacio)
  BY <1>3, Zenon DEF add
<1>4. CASE x = Vacio /\ ~Tiene(l, Vacio)
  <2>1. v = l
    BY <1>1, <1>4, Zenon DEF SinProvisoria
  <2>2. PICK a \in Seq(Ids), n \in Nat :
            /\ a = Append(l, x) /\ n = Len(l) /\ Len(a) = n + 1 /\ a[n + 1] = Vacio
            /\ \A i \in 1 .. n : a[i] = l[i] /\ l[i] # Vacio
    <3>1. PICK n \in Nat : n = Len(l) /\ DOMAIN l = 1 .. n
      BY IdsAppend
    <3>2. PICK a \in Seq(Ids) : a = Append(l, x)
      BY IdsAppend, Zenon
    <3>3. Len(a) = n + 1 /\ a[n + 1] = x /\ \A i \in 1 .. n : a[i] = l[i]
      BY <3>1, <3>2, IdsAppend, Zenon
    <3> QED BY <1>4, <3>1, <3>2, <3>3, ZenonT(30) DEF Tiene
  <2>3. DOMAIN a = 1 .. (n + 1)
    BY <2>2
  <2>4. \A i \in DOMAIN a : a[i] = Vacio => i = n + 1
    BY <2>2, <2>3
  <2>5. n + 1 \in DOMAIN a
    BY <2>3
  <2>6. (CHOOSE i \in DOMAIN a : a[i] = Vacio) = n + 1 /\ Tiene(a, Vacio)
    BY <2>2, <2>4, <2>5, Zenon DEF Tiene
  <2>7. SinProvisoria(a) = Quitar(a, n + 1)
    BY <2>6, Zenon DEF SinProvisoria
  <2>8. Quitar(a, n + 1) = l
    <3>1. PICK q \in Seq(Ids) :
              /\ q = Quitar(a, n + 1) /\ Len(q) = n
              /\ \A j \in 1 .. n : q[j] = IF j < n + 1 THEN a[j] ELSE a[j + 1]
      <4>1. n + 1 \in 1 .. Len(a) /\ Len(a) - 1 = n
        BY <2>2
      <4> QED BY <4>1, QuitarPuntos, ZenonT(30)
    <3>2. \A j \in 1 .. n : q[j] = l[j]
      BY <2>2, <3>1
    <3> QED BY <2>2, <3>1, <3>2, SeqEqual
  <2>9. add(l, x) = a
    BY <1>1, <1>4, <2>1, <2>2, Zenon DEF add
  <2> QED BY <1>1, <1>4, <2>1, <2>7, <2>8, <2>9, Zenon
<1> QED BY <1>2, <1>3, <1>4, Zenon

(* The readable ids of the rows are added to the list, each once.          *)
LEMMA GuardarVista ==
    ASSUME NEW l \in Seq(Ids), ~Tiene(SinProvisoria(l), Vacio), NEW s \in Seq(Mensaje)
    PROVE  /\ SinProvisoria(getSaveMessageList(s, l)) =
                 DistintosTras(SinProvisoria(l), SinIds(s, {Vacio}))
           /\ ~Tiene(SinProvisoria(getSaveMessageList(s, l)), Vacio)
<1>1. PICK v \in Seq(Ids) : v = SinProvisoria(l) /\ ~Tiene(v, Vacio)
  BY ProvisoriaTipo, Zenon
<1> DEFINE V(u) == SinProvisoria(getSaveMessageList(u, l))
<1> DEFINE P == {u \in Seq(Mensaje) : /\ V(u) = DistintosTras(v, SinIds(u, {Vacio}))
                                      /\ ~Tiene(V(u), Vacio)}
<1>2. <<>> \in P
  <2>1. <<>> \in Seq(Mensaje)
    BY EmptySeq, Zenon
  <2>2. getSaveMessageList(<<>>, l) = l
    BY AddEc, Zenon
  <2> QED BY <1>1, <2>1, <2>2, FiltroEc, DistintosEc, Zenon
<1>3. ASSUME NEW u \in Seq(Mensaje), NEW m \in Mensaje, u \in P PROVE Append(u, m) \in P
  <2>1. Append(u, m) \in Seq(Mensaje)
    BY MensajesAppend, Zenon
  <2>2. PICK g \in Seq(Ids) : g = getSaveMessageList(u, l)
    BY GuardarTipo, Zenon
  <2>3. PICK f \in Seq(Mensaje) : f = SinIds(u, {Vacio})
    BY FiltroTipo, Zenon
  <2>4. PICK y \in Ids : y = m.id
    BY DEF Mensaje
  <2>5. /\ SinProvisoria(g) = DistintosTras(v, f)
        /\ ~Tiene(SinProvisoria(g), Vacio)
    BY <1>3, <2>2, <2>3, Zenon
  <2>6. V(Append(u, m)) = SinProvisoria(add(g, y))
    BY <2>2, <2>4, AddEc, Zenon
  <2>7. SinIds(Append(u, m), {Vacio}) = Filtrar(f, m, {Vacio})
    BY <2>3, FiltroEc, Zenon
  <2> SUFFICES /\ V(Append(u, m)) = DistintosTras(v, SinIds(Append(u, m), {Vacio}))
               /\ ~Tiene(V(Append(u, m)), Vacio)
    BY <2>1, Zenon
  <2> HIDE DEF V, P
  <2>8. PICK w \in Seq(Ids) : w = SinProvisoria(g)
    BY AddTipo, Zenon
  <2>9. V(Append(u, m)) = IF y = Vacio THEN w ELSE Sumar(w, y)
    BY <2>5, <2>6, <2>8, AddVista, Zenon
  <2>10. CASE y = Vacio
    BY <2>4, <2>5, <2>7, <2>8, <2>9, <2>10, Zenon DEF Filtrar
  <2>11. CASE y # Vacio
    <3>1. V(Append(u, m)) = Sumar(w, y) /\ SinIds(Append(u, m), {Vacio}) = Append(f, m)
      BY <2>4, <2>7, <2>9, <2>11, Zenon DEF Filtrar
    <3>2. DistintosTras(v, Append(f, m)) = Sumar(w, y)
      <4>1. DistintosTras(v, Append(f, m)) = Sumar(DistintosTras(v, f), m.id)
        BY DistintosEc, Zenon
      <4> QED BY <2>4, <2>5, <2>8, <4>1, Zenon
    <3>3. ~Tiene(Sumar(w, y), Vacio)
      BY <2>5, <2>8, <2>11, TieneSumar, Zenon
    <3> QED BY <3>1, <3>2, <3>3, Zenon
  <2> QED BY <2>10, <2>11, Zenon
<1> HIDE DEF P
<1>4. s \in P
  BY <1>2, <1>3, InduccionSeq, Zenon
<1> QED BY <1>1, <1>4, Zenon DEF P

-----------------------------------------------------------------------------
(* Types.                                                                  *)
Sondeo == [estado : {"ninguno", "pedido", "servido"}, conv : {Vacio, Real, Invalida},
           ultimo : Ids, lista : Seq(Mensaje)]

LEMMA VacioEsId == Vacio \in Ids
BY Zenon DEF Ids

LEMMA NingunoTipo == Ninguno \in Sondeo
<1>1. <<>> \in Seq(Mensaje)
  BY EmptySeq, Zenon
<1> QED BY <1>1, VacioEsId DEF Ninguno, Sondeo

LEMMA FilasTipo ==
    ASSUME NEW t \in Seq(Mensaje), NEW c PROVE FilasDe(c, t) \in Seq(Mensaje)
<1>1. <<>> \in Seq(Mensaje)
  BY EmptySeq, Zenon
<1> QED BY <1>1, Zenon DEF FilasDe

LEMMA UltimosTipo ==
    ASSUME mensajes \in Seq(Mensaje), NEW c, NEW u \in UltimosIds(c)
    PROVE  u \in Ids /\ (c = Real => u \in IdsDe(mensajes) \cup {Vacio})
<1>1. PICK f \in Seq(Mensaje) : f = FilasDe(c, mensajes)
  BY FilasTipo, Zenon
<1>2. u = Vacio \/ \E j \in DOMAIN f : u = f[j].id
  BY <1>1, Zenon DEF UltimosIds
<1>3. CASE u = Vacio
  BY <1>3, VacioEsId
<1>4. CASE \E j \in DOMAIN f : u = f[j].id
  <2>1. PICK j \in DOMAIN f : u = f[j].id
    BY <1>4
  <2>2. j \in 1 .. Len(f)
    BY <2>1
  <2>3. u \in Ids
    BY <2>1, <2>2, MensajesConId, Zenon
  <2>4. c = Real => u \in IdsDe(mensajes)
    BY <1>1, <2>1, Zenon DEF FilasDe, IdsDe
  <2> QED BY <2>3, <2>4
<1> QED BY <1>2, <1>3, <1>4

(* The least element of a set of positions.                                *)
LEMMA Minimo ==
    ASSUME NEW E \in SUBSET Nat, E # {}
    PROVE  \E p \in E : p = (CHOOSE i \in E : \A j \in E : i <= j) /\ \A j \in E : p <= j
<1>1. \E m \in E : \A y \in E : ~(<<y, m>> \in OpToRel(<, Nat))
  BY NatLessThanWellFounded, WFMin, Zenon
<1>2. PICK m \in E : \A y \in E : ~(y < m)
  BY <1>1, Zenon DEF OpToRel
<1>3. \A y \in E : m <= y
  BY <1>2
<1> QED BY <1>3, Zenon

LEMMA ObtenerTipo ==
    ASSUME historial \in Seq(Mensaje), NEW c, NEW u
    PROVE  /\ obtenerConversacion(c, u) \in Seq(Mensaje)
           /\ c # Real => obtenerConversacion(c, u) = <<>>
           /\ \/ obtenerConversacion(c, u) = <<>>
              \/ u = Vacio /\ obtenerConversacion(c, u) = historial
              \/ \E p \in DOMAIN historial :
                    /\ historial[p].id = u
                    /\ \A j \in 1 .. (p - 1) : historial[j].id # u
                    /\ obtenerConversacion(c, u) = SubSeq(historial, p + 1, Len(historial))
<1> DEFINE E == {i \in DOMAIN historial : historial[i].id = u}
<1>1. c # Real => obtenerConversacion(c, u) = <<>>
  BY Zenon DEF obtenerConversacion
<1>2. <<>> \in Seq(Mensaje)
  BY EmptySeq, Zenon
<1>3. CASE c # Real \/ (u # Vacio /\ E = {})
  <2>1. obtenerConversacion(c, u) = <<>>
    BY <1>3, Zenon DEF obtenerConversacion
  <2> QED BY <1>2, <2>1, Zenon
<1>4. CASE c = Real /\ u = Vacio
  BY <1>4, Zenon DEF obtenerConversacion
<1>5. CASE c = Real /\ u # Vacio /\ E # {}
  <2>1. PICK n \in Nat : n = Len(historial) /\ DOMAIN historial = 1 .. n
    BY LenProperties
  <2>2. E \in SUBSET Nat
    BY <2>1
  <2>3. PICK p \in E : p = (CHOOSE i \in E : \A j \in E : i <= j) /\ \A j \in E : p <= j
    <3> HIDE DEF E
    <3> QED BY <1>5, <2>2, Minimo
  <2>4. obtenerConversacion(c, u) = SubSeq(historial, p + 1, Len(historial))
    BY <1>5, <2>3, Zenon DEF obtenerConversacion
  <2>5. p \in 1 .. n /\ historial[p].id = u
    BY <2>1, <2>3
  <2>6. \A j \in 1 .. (p - 1) : historial[j].id # u
    <3>1. SUFFICES ASSUME NEW j \in 1 .. (p - 1), historial[j].id = u PROVE FALSE
      BY Zenon
    <3>2. j \in 1 .. n
      BY <2>5
    <3>3. j \in E
      BY <2>1, <3>1, <3>2, Zenon
    <3>4. p <= j
      BY <2>3, <3>3, Zenon
    <3> QED BY <2>5, <3>4
  <2>7. SubSeq(historial, p + 1, Len(historial)) \in Seq(Mensaje)
    <3>1. PICK x \in Nat : x = p + 1 /\ x # 0 /\ x <= n + 1
      BY <2>5
    <3>2. SubSeq(historial, x, n) \in Seq(Mensaje)
      BY <2>1, <3>1, SubSeqPuntos
    <3> QED BY <2>1, <3>1, <3>2, Zenon
  <2> QED BY <1>5, <2>1, <2>4, <2>5, <2>6, <2>7, Zenon
<1> QED BY <1>1, <1>3, <1>4, <1>5, Zenon

LEMMA AlmacenarTipo ==
    ASSUME historial \in Seq(Mensaje), NEW e \in {Yo, Otro}, NEW f \in Fechas,
           NEW c \in BOOLEAN, Almacenar(e, f, c)
    PROVE  \E t \in Seq(Mensaje) : /\ historial' = historial \o t
                                   /\ \A i \in 1 .. Len(t) : t[i].n = Len(historial) + i
<1>1. PICK n \in Nat : n = Len(historial)
  BY LenProperties
<1>2. MaxFecha \in Nat /\ f \in 1 .. MaxFecha
  BY CotasChat DEF Fechas
<1>3. <<e, f>> \in Ids
  BY DEF Ids
<1>4. CASE c
  <2>1. PICK a \in Mensaje, b \in Mensaje :
            /\ a = [n |-> n + 1, id |-> Vacio, fecha |-> 0]
            /\ b = [n |-> n + 2, id |-> Vacio, fecha |-> 0]
    <3>1. n + 1 \in Nat /\ n + 2 \in Nat /\ 0 \in 0 .. MaxFecha
      BY <1>2
    <3>2. /\ [n |-> n + 1, id |-> Vacio, fecha |-> 0] \in Mensaje
          /\ [n |-> n + 2, id |-> Vacio, fecha |-> 0] \in Mensaje
      BY <3>1, VacioEsId DEF Mensaje
    <3> QED BY <3>2, Zenon
  <2>2. historial' = historial \o <<a, b>>
    BY <1>1, <1>4, <2>1, Zenon DEF Almacenar
  <2>3. <<a, b>> \in Seq(Mensaje) /\ Len(<<a, b>>) = 2 /\ <<a, b>>[1] = a /\ <<a, b>>[2] = b
    <3>1. PICK S : S = Mensaje
      BY Zenon
    <3>2. a \in S /\ b \in S
      BY <3>1
    <3>3. <<a, b>> \in Seq(S)
      BY <3>2
    <3> QED BY <3>1, <3>3
  <2>4. a.n = n + 1 /\ b.n = n + 2
    BY <2>1
  <2>5. \A i \in 1 .. 2 : <<a, b>>[i].n = n + i
    <3>1. \A i \in 1 .. 2 : i = 1 \/ i = 2
      OBVIOUS
    <3> QED BY <2>3, <2>4, <3>1, Zenon
  <2> QED BY <1>1, <2>2, <2>3, <2>5, Zenon
<1>5. CASE ~c
  <2>1. PICK a \in Mensaje : a = [n |-> n + 1, id |-> <<e, f>>, fecha |-> f]
    <3>1. n + 1 \in Nat /\ f \in 0 .. MaxFecha
      BY <1>2
    <3>2. [n |-> n + 1, id |-> <<e, f>>, fecha |-> f] \in Mensaje
      BY <1>3, <3>1, Zenon DEF Mensaje
    <3> QED BY <3>2, Zenon
  <2>2. historial' = historial \o <<a>>
    BY <1>1, <1>5, <2>1, Zenon DEF Almacenar
  <2>3. <<a>> \in Seq(Mensaje) /\ Len(<<a>>) = 1 /\ <<a>>[1] = a
    <3>1. PICK S : S = Mensaje
      BY Zenon
    <3>2. a \in S
      BY <3>1
    <3>3. <<a>> \in Seq(S)
      BY <3>2
    <3> QED BY <3>1, <3>3
  <2>4. a.n = n + 1
    BY <2>1
  <2>5. \A i \in 1 .. 1 : <<a>>[i].n = n + i
    <3>1. \A i \in 1 .. 1 : i = 1
      OBVIOUS
    <3> QED BY <2>3, <2>4, <3>1, Zenon
  <2> QED BY <1>1, <2>2, <2>3, <2>5, Zenon
<1> QED BY <1>4, <1>5, Zenon

LEMMA ConcatTipo ==
    ASSUME NEW s \in Seq(Mensaje), NEW t \in Seq(Mensaje) PROVE s \o t \in Seq(Mensaje)
BY ConcatProperties

(* The step of an action leaves every type.                                *)
LEMMA PasoTipos == TypeOKChat /\ [NextChat]_varsChat => TypeOKChat'
<1> SUFFICES ASSUME TypeOKChat, [NextChat]_varsChat PROVE TypeOKChat'
  OBVIOUS
<1> DEFINE Envio == [fecha : Fechas, sep : BOOLEAN]
<1>1. PICK SM : SM = Seq(Mensaje)
  BY Zenon
<1>2. PICK SI : SI = Seq(Ids)
  BY Zenon
<1>3. PICK SE : SE = Seq(Envio)
  BY Zenon
<1>4. PICK SO : SO = Sondeo
  BY Zenon
<1>5. /\ historial \in SM /\ mensajes \in SM /\ chatList \in SI
      /\ pantalla \in {"cerrada", "resumida", "pausada"}
      /\ conversationId \in {Vacio, Real, Invalida}
      /\ pedidoId \in {Vacio, Real, Invalida, "pedido"}
      /\ vuelo \in [Sondeos -> SO]
      /\ enviando \in SE
      /\ actual \in Nat /\ viejos \in Nat
  BY <1>1, <1>2, <1>3, <1>4, Zenon DEF TypeOKChat, Sondeo
<1>6. SUFFICES
      /\ historial' \in SM /\ mensajes' \in SM /\ chatList' \in SI
      /\ pantalla' \in {"cerrada", "resumida", "pausada"}
      /\ conversationId' \in {Vacio, Real, Invalida}
      /\ pedidoId' \in {Vacio, Real, Invalida, "pedido"}
      /\ vuelo' \in [Sondeos -> SO]
      /\ enviando' \in SE
      /\ actual' \in Nat /\ viejos' \in Nat
  BY <1>1, <1>2, <1>3, <1>4, Zenon DEF TypeOKChat, Sondeo
<1>7. <<>> \in SI /\ [s \in Sondeos |-> Ninguno] \in [Sondeos -> SO]
  <2>1. Ninguno \in SO
    BY <1>4, NingunoTipo, Zenon
  <2>2. <<>> \in SI
    BY <1>2, EmptySeq, Zenon
  <2> QED BY <2>1, <2>2
<1>8. ASSUME NEW c, NEW l \in SI, lookForNewMessage(c, l)
      PROVE  chatList' \in SI /\ actual' \in Nat /\ viejos' \in Nat
  <2>1. PICK f \in Seq(Mensaje) : f = FilasDe(c, mensajes)
    BY <1>1, <1>5, FilasTipo, Zenon
  <2>2. chatList' \in SI
    BY <1>2, <1>8, <2>1, GuardarTipo, Zenon DEF lookForNewMessage
  <2> QED BY <1>5, <1>8, <2>2 DEF lookForNewMessage
<1>9. ASSUME NEW s \in Sondeos, NEW r \in SO PROVE [vuelo EXCEPT ![s] = r] \in [Sondeos -> SO]
  BY <1>5
<1>10. ASSUME NEW s \in Sondeos, NEW q \in SM, Recibir(s, q)
       PROVE  mensajes' \in SM /\ chatList' \in SI /\ vuelo' \in [Sondeos -> SO]
  <2>1. mensajes' \in SM
    BY <1>1, <1>5, <1>10, ConcatTipo, Zenon DEF Recibir
  <2>2. PICK f \in Seq(Mensaje) : f = FilasDe(conversationId, mensajes')
    BY <1>1, <2>1, FilasTipo, Zenon
  <2>3. chatList' \in SI
    BY <1>2, <1>5, <1>10, <2>2, GuardarTipo, Zenon DEF Recibir
  <2>4. Ninguno \in SO
    BY <1>4, NingunoTipo, Zenon
  <2> QED BY <1>9, <1>10, <2>1, <2>3, <2>4, Zenon DEF Recibir
<1>11. ASSUME NEW e \in {Yo, Otro}, NEW f \in Fechas, NEW c \in BOOLEAN, Almacenar(e, f, c)
       PROVE  historial' \in SM
  BY <1>1, <1>5, <1>11, AlmacenarTipo, ConcatTipo, Zenon
<1>12. ASSUME Muere
       PROVE  /\ UNCHANGED <<historial, mensajes, enviando>>
              /\ chatList' \in SI /\ pantalla' = "cerrada"
              /\ conversationId' = Vacio /\ pedidoId' = Vacio
              /\ vuelo' \in [Sondeos -> SO] /\ actual' \in Nat /\ viejos' \in Nat
  BY <1>7, <1>12 DEF Muere
<1>13. ASSUME NEW i \in DOMAIN enviando
       PROVE  /\ Quitar(enviando, i) \in SE
              /\ enviando[i].fecha \in Fechas /\ enviando[i].sep \in BOOLEAN
  <2>1. PICK T : T = Envio
    BY Zenon
  <2>2. enviando \in Seq(T) /\ i \in 1 .. Len(enviando)
    BY <1>3, <1>5, <1>13, <2>1
  <2>3. Quitar(enviando, i) \in SE
    BY <1>3, <2>1, <2>2, QuitarPuntos, Zenon
  <2>4. enviando[i] \in T
    BY <2>2, ElementOfSeq
  <2>5. enviando[i] \in Envio
    BY <2>1, <2>4, Zenon
  <2> QED BY <2>3, <2>5
<1> HIDE DEF Envio
<1>14. CASE Abrir
  BY <1>5, <1>7, <1>8, <1>14, Zenon DEF Abrir
<1>15. CASE ServirId
  BY <1>5, <1>15 DEF ServirId, manejadores
<1>16. CASE RecibirId
  <2>1. conversationId' \in {Vacio, Real, Invalida}
    BY <1>16 DEF RecibirId
  <2> QED BY <1>5, <1>8, <1>16, <2>1, Zenon DEF RecibirId
<1>17. CASE PerderId \/ MatarProceso
  BY <1>5, <1>12, <1>17, Zenon DEF PerderId, MatarProceso
<1>18. ASSUME NEW s \in Sondeos, Sondear(s)
       PROVE  vuelo' \in [Sondeos -> SO] /\ actual' \in Nat /\ viejos' \in Nat
  <2>1. PICK u \in UltimosIds(conversationId) :
            vuelo' = [vuelo EXCEPT ![s] = [estado |-> "pedido", conv |-> conversationId,
                                           ultimo |-> u, lista |-> <<>>]]
    BY <1>18, Zenon DEF Sondear
  <2>2. u \in Ids
    BY <1>1, <1>5, <2>1, UltimosTipo, Zenon
  <2>3. <<>> \in Seq(Mensaje)
    BY EmptySeq, Zenon
  <2>4. [estado |-> "pedido", conv |-> conversationId, ultimo |-> u, lista |-> <<>>] \in SO
    BY <1>4, <1>5, <2>2, <2>3 DEF Sondeo
  <2>5. vuelo' \in [Sondeos -> SO]
    BY <1>9, <2>1, <2>4, Zenon
  <2> QED BY <1>5, <1>18, <2>5 DEF Sondear, manejadores
<1>19. ASSUME NEW s \in Sondeos, Servir(s) PROVE vuelo' \in [Sondeos -> SO]
  <2>1. PICK r \in Seq(Mensaje) : r = obtenerConversacion(vuelo[s].conv, vuelo[s].ultimo)
    BY <1>1, <1>5, ObtenerTipo, Zenon
  <2>2. vuelo[s] \in Sondeo
    BY <1>4, <1>5
  <2>3. vuelo' = [vuelo EXCEPT ![s] = [vuelo[s] EXCEPT !.estado = "servido", !.lista = r]]
    BY <1>5, <1>19, <2>1, Zenon DEF Servir
  <2>4. [vuelo[s] EXCEPT !.estado = "servido", !.lista = r] \in SO
    BY <1>4, <2>1, <2>2, Zenon DEF Sondeo
  <2> QED BY <1>9, <2>3, <2>4, Zenon
<1>20. CASE \E s \in Sondeos : Sondear(s)
  <2>1. PICK s \in Sondeos : Sondear(s)
    BY <1>20
  <2>2. UNCHANGED <<historial, mensajes, chatList, pantalla, conversationId, pedidoId, enviando>>
    BY <2>1 DEF Sondear
  <2> QED BY <1>5, <1>18, <2>1, <2>2, Zenon
<1>21. CASE \E s \in Sondeos : Servir(s)
  <2>1. PICK s \in Sondeos : Servir(s)
    BY <1>21
  <2>2. UNCHANGED <<historial, mensajes, chatList, pantalla, conversationId, pedidoId, enviando,
                    actual, viejos>>
    BY <2>1 DEF Servir, manejadores
  <2> QED BY <1>5, <1>19, <2>1, <2>2, Zenon
<1>22. CASE \E s \in Sondeos : Entregar(s) \/ Perder(s)
  <2>1. PICK s \in Sondeos, q \in SM : Recibir(s, q)
    <3>1. PICK s \in Sondeos : Entregar(s) \/ Perder(s)
      BY <1>22
    <3>2. <<>> \in SM
      BY <1>1, EmptySeq, Zenon
    <3>3. vuelo[s].lista \in Seq(Mensaje)
      <4>1. vuelo[s] \in Sondeo
        BY <1>4, <1>5
      <4> QED BY <4>1 DEF Sondeo
    <3>4. Nuevos(vuelo[s].lista) \in SM
      BY <1>1, <3>3, FiltroTipo, Zenon DEF Nuevos
    <3> QED BY <3>1, <3>2, <3>4, Zenon DEF Entregar, Perder
  <2>2. UNCHANGED <<historial, pantalla, conversationId, pedidoId, enviando, actual, viejos>>
    BY <2>1 DEF Recibir, manejadores
  <2> QED BY <1>5, <1>10, <2>1, <2>2, Zenon
<1>23. CASE \E f \in Fechas, c \in BOOLEAN : Enviar(f, c)
  <2>1. PICK f \in Fechas, c \in BOOLEAN : Enviar(f, c)
    BY <1>23
  <2>2. chatList' \in SI
    BY <1>2, <1>5, <2>1, VacioEsId, AddTipo, Zenon DEF Enviar
  <2>3. enviando' \in SE
    <3>1. PICK T : T = Envio
      BY Zenon
    <3>2. PICK e \in T : e = [fecha |-> f, sep |-> c]
      BY <3>1, Zenon DEF Envio
    <3>3. Append(enviando, e) \in Seq(T)
      BY <1>3, <1>5, <3>1, AppendProperties, Zenon
    <3> QED BY <1>3, <2>1, <3>1, <3>2, <3>3, Zenon DEF Enviar
  <2>4. UNCHANGED <<historial, mensajes, pantalla, conversationId, vuelo, pedidoId, actual, viejos>>
    BY <2>1 DEF Enviar, red, manejadores
  <2> QED BY <1>5, <2>2, <2>3, <2>4, Zenon
<1>24. CASE \E f \in Fechas, c \in BOOLEAN : OtroEnvia(f, c)
  <2>1. PICK f \in Fechas, c \in BOOLEAN : OtroEnvia(f, c)
    BY <1>24
  <2>2. historial' \in SM
    BY <1>11, <2>1, Zenon DEF OtroEnvia
  <2>3. UNCHANGED <<mensajes, chatList, pantalla, conversationId, vuelo, pedidoId, enviando,
                    actual, viejos>>
    BY <2>1 DEF OtroEnvia, red, manejadores
  <2> QED BY <1>5, <2>2, <2>3, Zenon
<1>25. CASE \E i \in DOMAIN enviando : LlegaEnvio(i) \/ PierdeEnvio(i)
  <2>1. PICK i \in DOMAIN enviando : LlegaEnvio(i) \/ PierdeEnvio(i)
    BY <1>25
  <2>2. enviando' \in SE
    BY <1>13, <2>1, Zenon DEF LlegaEnvio, PierdeEnvio
  <2>3. historial' \in SM
    BY <1>5, <1>11, <1>13, <2>1, Zenon DEF LlegaEnvio, PierdeEnvio
  <2>4. UNCHANGED <<mensajes, chatList, pantalla, conversationId, vuelo, pedidoId, actual, viejos>>
    BY <2>1 DEF LlegaEnvio, PierdeEnvio, red, manejadores
  <2> QED BY <1>5, <2>2, <2>3, <2>4, Zenon
<1>26. CASE onPause
  <2>1. actual' \in Nat
    BY <1>26 DEF onPause
  <2> QED BY <1>5, <1>7, <1>26, <2>1, Zenon DEF onPause
<1>27. CASE onResume
  BY <1>5, <1>8, <1>27, Zenon DEF onResume, red
<1>28. CASE UNCHANGED varsChat
  BY <1>5, <1>28, Zenon DEF varsChat, red, manejadores
<1> QED BY <1>14, <1>15, <1>16, <1>17, <1>20, <1>21, <1>22, <1>23, <1>24, <1>25, <1>26, <1>27, <1>28
        DEF NextChat

(* Every class keeps its shape, for any number of polls, messages and      *)
(* dates: TypeOKChat holds in every state of ChatActivity.                 *)
THEOREM TiposDelChat == SpecChat => []TypeOKChat
<1>1. InitChat => TypeOKChat
  <2> SUFFICES ASSUME InitChat PROVE TypeOKChat
    OBVIOUS
  <2>1. /\ historial \in Seq(Mensaje) /\ mensajes \in Seq(Mensaje) /\ chatList \in Seq(Ids)
        /\ enviando \in Seq([fecha : Fechas, sep : BOOLEAN])
    BY EmptySeq, Zenon DEF InitChat
  <2>2. vuelo \in [Sondeos -> Sondeo]
    BY NingunoTipo DEF InitChat
  <2>3. /\ pantalla \in {"cerrada", "resumida", "pausada"}
        /\ conversationId \in {Vacio, Real, Invalida}
        /\ pedidoId \in {Vacio, Real, Invalida, "pedido"}
        /\ actual \in Nat /\ viejos \in Nat
    BY DEF InitChat
  <2> QED BY <2>1, <2>2, <2>3, Zenon DEF TypeOKChat, Sondeo
<1> QED BY <1>1, PasoTipos, PTL DEF SpecChat

-----------------------------------------------------------------------------
(* The runnables.                                                          *)

(* A paused screen has at most one runnable and a resumed one has a        *)
(* runnable of the current Handler; a second one comes from the answer to  *)
(* the request for the id, which is only made once.                        *)
Cadenas ==
    /\ actual + viejos <= 2
    /\ pantalla = "pausada" => actual + viejos <= 1
    /\ pantalla = "resumida" => actual >= 1
    /\ pantalla = "cerrada" => actual + viejos = 0
    /\ pedidoId # Vacio => pantalla = "resumida" /\ actual + viejos <= 1

LEMMA PasoCadenas == TypeOKChat /\ Cadenas /\ [NextChat]_varsChat => Cadenas'
<1> SUFFICES ASSUME TypeOKChat, Cadenas, [NextChat]_varsChat PROVE Cadenas'
  OBVIOUS
<1>1. actual \in Nat /\ viejos \in Nat /\ pantalla \in {"cerrada", "resumida", "pausada"}
  BY DEF TypeOKChat
<1>2. CASE Abrir
  BY <1>1, <1>2 DEF Cadenas, Abrir, lookForNewMessage
<1>3. CASE ServirId
  <2>1. pedidoId # Vacio
    BY <1>3, IdsDistintos DEF ServirId
  <2> QED BY <1>1, <1>3, <2>1 DEF Cadenas, ServirId, manejadores
<1>4. CASE RecibirId
  <2>1. pedidoId # Vacio
    BY <1>4, IdsDistintos DEF RecibirId
  <2> QED BY <1>1, <1>4, <2>1 DEF Cadenas, RecibirId, lookForNewMessage
<1>5. CASE PerderId \/ MatarProceso
  BY <1>5 DEF Cadenas, PerderId, MatarProceso, Muere
<1>6. ASSUME NEW s \in Sondeos, Sondear(s) PROVE Cadenas'
  BY <1>1, <1>6 DEF Cadenas, Sondear, manejadores
<1>7. ASSUME UNCHANGED <<pantalla, pedidoId, manejadores>> PROVE Cadenas'
  BY <1>7 DEF Cadenas, manejadores
<1>8. ASSUME NEW s \in Sondeos, Servir(s) \/ Entregar(s) \/ Perder(s) PROVE Cadenas'
  BY <1>7, <1>8 DEF Servir, Entregar, Perder, Recibir
<1>9. ASSUME NEW f \in Fechas, NEW c \in BOOLEAN, Enviar(f, c) \/ OtroEnvia(f, c) PROVE Cadenas'
  BY <1>7, <1>9 DEF Enviar, OtroEnvia, red
<1>10. ASSUME NEW i \in DOMAIN enviando, LlegaEnvio(i) \/ PierdeEnvio(i) PROVE Cadenas'
  BY <1>7, <1>10 DEF LlegaEnvio, PierdeEnvio, red
<1>11. CASE onPause
  BY <1>1, <1>11 DEF Cadenas, onPause
<1>12. CASE onResume
  BY <1>1, <1>12 DEF Cadenas, onResume, lookForNewMessage, red
<1>13. CASE UNCHANGED varsChat
  BY <1>7, <1>13 DEF varsChat, red
<1> QED BY <1>2, <1>3, <1>4, <1>5, <1>6, <1>8, <1>9, <1>10, <1>11, <1>12, <1>13 DEF NextChat

(* At most two runnables poll at a time and a resumed screen always has    *)
(* one, however often it is paused and resumed and for any number of polls *)
(* under way.                                                              *)
THEOREM CadenasSiempreAcotadas == SpecChat => []CadenasAcotadas
<1>1. InitChat => Cadenas
  BY DEF InitChat, Cadenas
<1>2. TypeOKChat /\ Cadenas => CadenasAcotadas
  BY DEF TypeOKChat, Cadenas, CadenasAcotadas
<1> QED BY <1>1, <1>2, PasoCadenas, TiposDelChat, PTL DEF SpecChat

-----------------------------------------------------------------------------
(* The list of the screen, against a table t.                              *)
Vista(l, t) ==
    /\ ~Tiene(SinProvisoria(l), Vacio)
    /\ EsPrefijo(SinProvisoria(l), Distintos(SinIds(t, {Vacio})))

LEMMA VaciaTipo == <<>> \in Seq(Ids) /\ <<>> \in Seq(Mensaje)
BY EmptySeq, Zenon

LEMMA LegiblesTipo ==
    ASSUME NEW t \in Seq(Mensaje) PROVE Distintos(SinIds(t, {Vacio})) \in Seq(Ids)
BY VaciaTipo, FiltroTipo, DistintosTipo, Zenon DEF Distintos

LEMMA VistaVacia ==
    ASSUME NEW t \in Seq(Mensaje) PROVE Vista(<<>>, t)
<1>1. \A x : ~Tiene(<<>>, x)
  BY DEF Tiene
<1>2. SinProvisoria(<<>>) = <<>>
  BY <1>1, Zenon DEF SinProvisoria
<1>3. PICK d \in Seq(Ids) : d = Distintos(SinIds(t, {Vacio}))
  BY LegiblesTipo, Zenon
<1>4. EsPrefijo(<<>>, d)
  <2>1. PICK e \in Seq(Ids) : e = <<>> /\ Len(e) = 0
    BY EmptySeq, Zenon
  <2>2. Len(e) <= Len(d) /\ \A i \in 1 .. Len(e) : e[i] = d[i]
    BY <2>1, LenProperties
  <2> QED BY <2>1, <2>2, PrefijoPuntos, Zenon
<1> QED BY <1>1, <1>2, <1>3, <1>4, Zenon DEF Vista

(* A longer table. *)
LEMMA VistaCrece ==
    ASSUME NEW l \in Seq(Ids), NEW t \in Seq(Mensaje), NEW q \in Seq(Mensaje), Vista(l, t)
    PROVE  Vista(l, t \o q)
<1>1. PICK v \in Seq(Ids) : v = SinProvisoria(l)
  BY ProvisoriaTipo, Zenon
<1>2. PICK d \in Seq(Ids) : d = Distintos(SinIds(t, {Vacio}))
  BY LegiblesTipo, Zenon
<1>3. PICK a \in Seq(Mensaje), b \in Seq(Mensaje) :
          a = SinIds(t, {Vacio}) /\ b = SinIds(q, {Vacio})
  BY FiltroTipo, Zenon
<1>4. SinIds(t \o q, {Vacio}) = a \o b
  BY <1>3, FiltroConcat, Zenon
<1>5. Distintos(a \o b) = DistintosTras(d, b)
  BY <1>2, <1>3, VaciaTipo, DistintosConcat, ZenonT(30) DEF Distintos
<1>6. PICK e \in Seq(Ids) : e = DistintosTras(d, b) /\ EsPrefijo(d, e)
  BY DistintosTipo, DistintosPrefijo, Zenon
<1>7. EsPrefijo(v, d)
  BY <1>1, <1>2, Zenon DEF Vista
<1>8. EsPrefijo(v, e)
  BY <1>6, <1>7, PrefijoTransitivo
<1> QED BY <1>1, <1>4, <1>5, <1>6, <1>8, Zenon DEF Vista

(* Reading the table, with whatever id.                                    *)
LEMMA VistaTras ==
    ASSUME NEW l \in Seq(Ids), NEW t \in Seq(Mensaje), Vista(l, t), NEW c
    PROVE  Vista(getSaveMessageList(FilasDe(c, t), l), t)
<1>1. PICK v \in Seq(Ids) : v = SinProvisoria(l) /\ ~Tiene(v, Vacio)
  BY ProvisoriaTipo, Zenon DEF Vista
<1>2. PICK a \in Seq(Mensaje) : a = SinIds(t, {Vacio})
  BY FiltroTipo, Zenon
<1>3. EsPrefijo(v, Distintos(a)) /\ Distintos(a) \in Seq(Ids)
  BY <1>1, <1>2, LegiblesTipo, Zenon DEF Vista
<1>4. CASE c = Real
  <2>1. FilasDe(c, t) = t
    BY <1>4, Zenon DEF FilasDe
  <2>2. PICK w : w = SinProvisoria(getSaveMessageList(t, l)) /\ w = DistintosTras(v, a) /\ ~Tiene(w, Vacio)
    BY <1>1, <1>2, GuardarVista, Zenon
  <2>3. w = Distintos(a)
    BY <1>3, <2>2, DistintosCompleta, Zenon
  <2>4. EsPrefijo(w, Distintos(a))
    BY <1>3, <2>3, PrefijoReflexivo, Zenon
  <2> QED BY <1>2, <2>1, <2>2, <2>4, Zenon DEF Vista
<1>5. CASE c # Real
  <2>1. FilasDe(c, t) = <<>>
    BY <1>5, Zenon DEF FilasDe
  <2>2. getSaveMessageList(<<>>, l) = l
    BY AddEc, Zenon
  <2> QED BY <2>1, <2>2, Zenon
<1> QED BY <1>4, <1>5, Zenon

LEMMA PasoVista == TypeOKChat /\ TypeOKChat' /\ Vista(chatList, mensajes) /\ [NextChat]_varsChat
                    => Vista(chatList, mensajes)'
<1> SUFFICES ASSUME TypeOKChat, TypeOKChat', Vista(chatList, mensajes), [NextChat]_varsChat
             PROVE  Vista(chatList', mensajes')
  BY Zenon DEF Vista
<1>1. /\ mensajes \in Seq(Mensaje) /\ chatList \in Seq(Ids)
      /\ vuelo \in [Sondeos -> Sondeo]
  BY Zenon DEF TypeOKChat, Sondeo
<1>2. ASSUME NEW c, lookForNewMessage(c, chatList), UNCHANGED mensajes
      PROVE  Vista(chatList', mensajes')
  BY <1>1, <1>2, VistaTras, Zenon DEF lookForNewMessage
<1>3. ASSUME NEW s \in Sondeos, NEW q \in Seq(Mensaje), Recibir(s, q)
      PROVE  Vista(chatList', mensajes')
  <2>1. PICK t \in Seq(Mensaje) : t = mensajes \o q
    BY <1>1, ConcatTipo, Zenon
  <2>2. Vista(chatList, t)
    BY <1>1, <2>1, VistaCrece, Zenon
  <2>3. mensajes' = t
    BY <1>3, <2>1, Zenon DEF Recibir
  <2>4. chatList' = getSaveMessageList(FilasDe(conversationId, t), chatList)
    BY <1>3, <2>3, Zenon DEF Recibir
  <2> QED BY <1>1, <2>2, <2>3, <2>4, VistaTras, Zenon
<1>4. ASSUME UNCHANGED <<mensajes, chatList>> PROVE Vista(chatList', mensajes')
  BY <1>4, Zenon
<1>5. CASE Abrir
  <2>1. Vista(<<>>, mensajes)
    BY <1>1, VistaVacia, Zenon
  <2>2. chatList' = getSaveMessageList(FilasDe(Vacio, mensajes), <<>>) /\ mensajes' = mensajes
    BY <1>5, Zenon DEF Abrir, lookForNewMessage
  <2> QED BY <1>1, <2>1, <2>2, VaciaTipo, VistaTras, Zenon
<1>6. CASE PerderId \/ MatarProceso
  <2>1. chatList' = <<>> /\ mensajes' = mensajes
    BY <1>6 DEF PerderId, MatarProceso, Muere
  <2> QED BY <1>1, <2>1, VistaVacia, Zenon
<1>7. CASE ServirId
  BY <1>4, <1>7, Zenon DEF ServirId
<1>8. CASE RecibirId
  BY <1>2, <1>8, Zenon DEF RecibirId
<1>9. ASSUME NEW s \in Sondeos, Sondear(s) \/ Servir(s) PROVE Vista(chatList', mensajes')
  BY <1>4, <1>9, Zenon DEF Sondear, Servir
<1>10. ASSUME NEW s \in Sondeos, Entregar(s) \/ Perder(s) PROVE Vista(chatList', mensajes')
  <2>1. vuelo[s].lista \in Seq(Mensaje)
    <3>1. vuelo[s] \in Sondeo
      BY <1>1
    <3> QED BY <3>1 DEF Sondeo
  <2>2. Nuevos(vuelo[s].lista) \in Seq(Mensaje)
    BY <2>1, FiltroTipo, Zenon DEF Nuevos
  <2> QED BY <1>3, <1>10, <2>2, VaciaTipo, Zenon DEF Entregar, Perder
<1>11. ASSUME NEW f \in Fechas, NEW c \in BOOLEAN, Enviar(f, c) PROVE Vista(chatList', mensajes')
  <2>1. chatList' = add(chatList, Vacio) /\ mensajes' = mensajes
    BY <1>11, Zenon DEF Enviar
  <2>2. SinProvisoria(add(chatList, Vacio)) = SinProvisoria(chatList)
    BY <1>1, VacioEsId, AddVista, Zenon DEF Vista
  <2> QED BY <2>1, <2>2, Zenon DEF Vista
<1>12. ASSUME NEW f \in Fechas, NEW c \in BOOLEAN, OtroEnvia(f, c) PROVE Vista(chatList', mensajes')
  BY <1>4, <1>12, Zenon DEF OtroEnvia
<1>13. ASSUME NEW i \in DOMAIN enviando, LlegaEnvio(i) \/ PierdeEnvio(i)
       PROVE  Vista(chatList', mensajes')
  BY <1>4, <1>13, Zenon DEF LlegaEnvio, PierdeEnvio
<1>14. CASE onPause
  BY <1>4, <1>14, Zenon DEF onPause
<1>15. CASE onResume
  BY <1>2, <1>15, Zenon DEF onResume
<1>16. CASE UNCHANGED varsChat
  BY <1>4, <1>16, Zenon DEF varsChat
<1> QED BY <1>5, <1>6, <1>7, <1>8, <1>9, <1>10, <1>11, <1>12, <1>13, <1>14, <1>15, <1>16
        DEF NextChat

(* The screen shows the readable rows of the table, in its order and none  *)
(* twice, with at most one provisional entry, for any number of polls,     *)
(* messages and dates.                                                     *)
THEOREM PantallaSiempreFiel == SpecChat => []PantallaFiel
<1>1. InitChat => Vista(chatList, mensajes)
  <2> SUFFICES ASSUME InitChat PROVE Vista(chatList, mensajes)
    OBVIOUS
  <2>1. chatList = <<>> /\ mensajes \in Seq(Mensaje)
    BY VaciaTipo, Zenon DEF InitChat
  <2> QED BY <2>1, VistaVacia, Zenon
<1>2. Vista(chatList, mensajes) => PantallaFiel
  BY Zenon DEF Vista, PantallaFiel
<1> QED BY <1>1, <1>2, PasoVista, TiposDelChat, PTL DEF SpecChat

-----------------------------------------------------------------------------
(* The table, against the conversation of the server.                      *)
LEMMA TramoPuntos ==
    ASSUME NEW h \in Seq(Mensaje), NEW b \in 0 .. Len(h), NEW a \in 0 .. b
    PROVE  \E r \in Seq(Mensaje) : /\ r = SubSeq(h, a + 1, b)
                                   /\ Len(r) = b - a
                                   /\ \A j \in 1 .. (b - a) : r[j] = h[j + a]
<1>1. PICK S : S = Mensaje
  BY Zenon
<1>2. h \in Seq(S)
  BY <1>1, Zenon
<1>3. PICK x \in Nat : x = a + 1 /\ x # 0 /\ x <= b + 1
  OBVIOUS
<1>4. /\ SubSeq(h, x, b) \in Seq(S) /\ Len(SubSeq(h, x, b)) = b - x + 1
      /\ \A j \in 1 .. (b - x + 1) : SubSeq(h, x, b)[j] = h[j + x - 1]
  BY <1>2, <1>3, SubSeqPuntos
<1>5. PICK r \in Seq(S) : r = SubSeq(h, x, b) /\ Len(r) = b - x + 1
                          /\ \A j \in 1 .. (b - x + 1) : r[j] = h[j + x - 1]
  BY <1>4, Zenon
<1>6. b - x + 1 = b - a /\ \A j \in 1 .. (b - a) : j + x - 1 = j + a
  BY <1>3
<1>7. Len(r) = b - a /\ \A j \in 1 .. (b - a) : r[j] = h[j + a]
  BY <1>5, <1>6, Zenon
<1> QED BY <1>1, <1>3, <1>5, <1>7, Zenon

LEMMA TramoTipo ==
    ASSUME NEW h \in Seq(Mensaje), NEW b \in 0 .. Len(h), NEW a \in 0 .. b
    PROVE  SubSeq(h, a + 1, b) \in Seq(Mensaje)
<1>1. PICK r \in Seq(Mensaje) : r = SubSeq(h, a + 1, b)
  BY TramoPuntos
<1> QED BY <1>1, Zenon

LEMMA TramoIds ==
    ASSUME NEW h \in Seq(Mensaje), NEW b \in 0 .. Len(h), NEW a \in 0 .. b
    PROVE  \A x : x \in IdsDe(SubSeq(h, a + 1, b)) <=> \E j \in (a + 1) .. b : h[j].id = x
<1>0. SUFFICES ASSUME NEW x
               PROVE x \in IdsDe(SubSeq(h, a + 1, b)) <=> \E j \in (a + 1) .. b : h[j].id = x
  BY Zenon
<1>1. PICK r \in Seq(Mensaje) : r = SubSeq(h, a + 1, b) /\ Len(r) = b - a
                                /\ \A j \in 1 .. (b - a) : r[j] = h[j + a]
  BY TramoPuntos, Zenon
<1>2. DOMAIN r = 1 .. (b - a)
  BY <1>1, LenProperties
<1>3. x \in IdsDe(r) <=> \E j \in 1 .. (b - a) : h[j + a].id = x
  BY <1>1, <1>2, Zenon DEF IdsDe
<1>4. ASSUME NEW j \in 1 .. (b - a) PROVE j + a \in (a + 1) .. b
  OBVIOUS
<1>5. ASSUME NEW j \in (a + 1) .. b PROVE j - a \in 1 .. (b - a) /\ (j - a) + a = j
  OBVIOUS
<1>6. (\E j \in 1 .. (b - a) : h[j + a].id = x) <=> \E j \in (a + 1) .. b : h[j].id = x
  BY <1>4, <1>5, Zenon
<1> QED BY <1>1, <1>3, <1>6, Zenon

LEMMA DistintosIds ==
    ASSUME NEW t \in Seq(Mensaje)
    PROVE  Distintos(t) \in Seq(Ids) /\ \A x : Tiene(Distintos(t), x) <=> x \in IdsDe(t)
<1>1. \A x : ~Tiene(<<>>, x)
  BY DEF Tiene
<1> QED BY <1>1, VaciaTipo, DistintosTipo, DistintosRango, Zenon DEF Distintos

(* The table t follows the conversation h up to k.                         *)
Sigue(t, h, k) ==
    /\ Distintos(t) = Distintos(SubSeq(h, 1, k))
    /\ \A i \in 1 .. Len(t) : t[i].n <= k
    /\ Creciente(t)

(* r answers a request whose position is in the table, or none.            *)
Responde(r, h, t) ==
    \E p \in 0 .. Len(h), q \in 0 .. Len(h) :
        /\ p <= q /\ r = SubSeq(h, p + 1, q)
        /\ p # 0 => /\ h[p].id \in IdsDe(t)
                    /\ \A j \in 1 .. (p - 1) : h[j].id # h[p].id

LEMMA TramoIdsInicial ==
    ASSUME NEW h \in Seq(Mensaje), NEW k \in 0 .. Len(h), NEW x
    PROVE  x \in IdsDe(SubSeq(h, 1, k)) <=> \E j \in 1 .. k : h[j].id = x
<1>1. PICK z \in 0 .. k : z = 0 /\ z + 1 = 1
  BY LenProperties
<1>2. x \in IdsDe(SubSeq(h, z + 1, k)) <=> \E j \in (z + 1) .. k : h[j].id = x
  BY <1>1, TramoIds, ZenonT(30)
<1> QED BY <1>1, <1>2, Zenon

LEMMA SigueIds ==
    ASSUME NEW h \in Seq(Mensaje), NEW t \in Seq(Mensaje), NEW k \in 0 .. Len(h), Sigue(t, h, k)
    PROVE  \A x : x \in IdsDe(t) <=> \E j \in 1 .. k : h[j].id = x
<1>1. PICK c \in Seq(Mensaje) : c = SubSeq(h, 1, k)
  <2>1. PICK z \in 0 .. k : z = 0 /\ z + 1 = 1
    BY LenProperties
  <2>2. \E r \in Seq(Mensaje) : r = SubSeq(h, z + 1, k)
    BY <2>1, TramoPuntos, Zenon
  <2> QED BY <2>1, <2>2, Zenon
<1>2. ASSUME NEW x PROVE x \in IdsDe(t) <=> x \in IdsDe(c)
  BY <1>1, DistintosIds, Zenon DEF Sigue
<1> QED BY <1>1, <1>2, TramoIdsInicial, Zenon

LEMMA TramoSabido ==
    ASSUME NEW h \in Seq(Mensaje), NEW t \in Seq(Mensaje), NEW k \in 0 .. Len(h), Sigue(t, h, k),
           NEW b \in 0 .. k, NEW z \in 1 .. (b + 1)
    PROVE  DistintosTras(Distintos(t), SubSeq(h, z, b)) = Distintos(t)
<1>1. b \in 0 .. Len(h)
  BY LenProperties
<1>7. PICK a \in 0 .. b : a + 1 = z
  <2>1. z - 1 \in 0 .. b /\ (z - 1) + 1 = z
    OBVIOUS
  <2> QED BY <2>1, Zenon
<1>8. PICK u \in Seq(Mensaje) : u = SubSeq(h, a + 1, b)
  BY <1>1, TramoPuntos, Zenon
<1>2. \A x : x \in IdsDe(u) <=> \E j \in (a + 1) .. b : h[j].id = x
  <2>1. \A x : x \in IdsDe(SubSeq(h, a + 1, b)) <=> \E j \in (a + 1) .. b : h[j].id = x
    BY <1>1, TramoIds, Zenon
  <2> QED BY <1>8, <2>1, Zenon
<1>3. \A j \in (a + 1) .. b : j \in 1 .. k
  OBVIOUS
<1>4. \A x : x \in IdsDe(t) <=> \E j \in 1 .. k : h[j].id = x
  BY SigueIds, Zenon
<1>5. PICK d \in Seq(Ids) : d = Distintos(t) /\ \A x : Tiene(d, x) <=> x \in IdsDe(t)
  BY DistintosIds, Zenon
<1>6. \A x \in IdsDe(u) : Tiene(d, x)
  BY <1>2, <1>3, <1>4, <1>5, Zenon
<1> QED BY <1>5, <1>6, <1>7, <1>8, DistintosSabidos, Zenon

LEMMA ConcatPuntos ==
    ASSUME NEW s \in Seq(Mensaje), NEW t \in Seq(Mensaje)
    PROVE  /\ s \o t \in Seq(Mensaje)
           /\ Len(s \o t) = Len(s) + Len(t)
           /\ \A i \in 1 .. Len(s) : (s \o t)[i] = s[i]
           /\ \A i \in 1 .. Len(t) : (s \o t)[i + Len(s)] = t[i]
           /\ \A i \in 1 .. (Len(s) + Len(t)) :
                 i \in 1 .. Len(s) \/ \E j \in 1 .. Len(t) : i = j + Len(s)
<1>1. PICK S : S = Mensaje
  BY Zenon
<1>2. s \in Seq(S) /\ t \in Seq(S)
  BY <1>1, Zenon
<1>3. PICK n \in Nat, m \in Nat : n = Len(s) /\ m = Len(t)
  BY <1>2, LenProperties
<1>4. PICK u : u = s \o t
  BY Zenon
<1>5. /\ u \in Seq(S) /\ Len(u) = n + m
      /\ \A i \in 1 .. n + m : u[i] = IF i <= n THEN s[i] ELSE t[i - n]
  BY <1>2, <1>3, <1>4, ConcatProperties
<1>6. \A i \in 1 .. n : u[i] = s[i]
  BY <1>5
<1>7. ASSUME NEW i \in 1 .. m PROVE u[i + n] = t[i]
  <2>1. i + n \in 1 .. n + m /\ ~(i + n <= n) /\ (i + n) - n = i
    OBVIOUS
  <2> QED BY <1>5, <2>1, Zenon
<1>8. ASSUME NEW i \in 1 .. (n + m) PROVE i \in 1 .. n \/ \E j \in 1 .. m : i = j + n
  <2>1. CASE i <= n
    BY <2>1
  <2>2. CASE i > n
    <3>1. i - n \in 1 .. m /\ i = (i - n) + n
      BY <2>2
    <3> QED BY <3>1
  <2> QED BY <2>1, <2>2
<1> QED BY <1>1, <1>3, <1>4, <1>5, <1>6, <1>7, <1>8, Zenon

(* The new messages of an answer keep the table in step with the           *)
(* conversation: those it has before k are known, so what it adds starts   *)
(* after k.                                                                *)
LEMMA EntregaTabla ==
    ASSUME NEW h \in Seq(Mensaje), NEW t \in Seq(Mensaje), NEW k \in 0 .. Len(h),
           NEW r \in Seq(Mensaje), \A i \in 1 .. Len(h) : h[i].n = i,
           Sigue(t, h, k), Responde(r, h, t)
    PROVE  \E m \in 0 .. Len(h) : Sigue(t \o SinIds(r, IdsDe(t)), h, m)
<1>1. PICK p \in 0 .. Len(h), q \in 0 .. Len(h) :
          /\ p <= q /\ r = SubSeq(h, p + 1, q)
          /\ p # 0 => /\ h[p].id \in IdsDe(t)
                      /\ \A j \in 1 .. (p - 1) : h[j].id # h[p].id
  BY Zenon DEF Responde
<1>2. PICK n \in Nat : n = Len(h) /\ k \in 0 .. n /\ p \in 0 .. n /\ q \in 0 .. n
  BY LenProperties
<1>3. /\ Len(r) = q - p
      /\ \A j \in 1 .. (q - p) : r[j] = h[j + p]
  <2>1. p \in Nat /\ q \in Nat /\ q <= Len(h)
    BY <1>2
  <2> QED BY <1>1, <2>1, TramoPuntos
<1>4. \A x : x \in IdsDe(t) <=> \E j \in 1 .. k : h[j].id = x
  BY SigueIds
<1>5. p <= k
  <2>1. SUFFICES ASSUME p # 0 PROVE p <= k
    BY <1>2
  <2>2. PICK j \in 1 .. k : h[j].id = h[p].id
    BY <1>1, <1>4, <2>1, Zenon
  <2>3. j \notin 1 .. (p - 1)
    BY <1>1, <2>1, <2>2, Zenon
  <2> QED BY <1>2, <2>3
<1>6. PICK s \in Seq(Mensaje) : s = SinIds(r, IdsDe(t))
  BY FiltroTipo, Zenon
<1>7. Creciente(r)
  <2>1. SUFFICES ASSUME NEW i \in 1 .. Len(r), NEW j \in 1 .. Len(r), i < j
                 PROVE  r[i].n < r[j].n
    BY Zenon DEF Creciente
  <2>2. i \in 1 .. (q - p) /\ j \in 1 .. (q - p) /\ i + p \in 1 .. n /\ j + p \in 1 .. n
    BY <1>2, <1>3, <2>1
  <2>3. r[i].n = i + p /\ r[j].n = j + p
    BY <1>2, <1>3, <2>2, Zenon
  <2> QED BY <1>2, <2>1, <2>2, <2>3
<1>8. /\ Creciente(s)
      /\ \A a \in 1 .. Len(s) : s[a].id \notin IdsDe(t) /\ \E b \in 1 .. Len(r) : s[a] = r[b]
  BY <1>6, <1>7, FiltroMiembros
<1>9. ASSUME NEW a \in 1 .. Len(s) PROVE s[a].n \in Nat /\ k < s[a].n /\ s[a].n <= q
  <2>1. PICK b \in 1 .. Len(r) : s[a] = r[b]
    BY <1>8, Zenon
  <2>2. b \in 1 .. (q - p) /\ b + p \in 1 .. n /\ b + p <= q
    BY <1>2, <1>3, <2>1
  <2>3. s[a] = h[b + p] /\ h[b + p].n = b + p
    BY <1>2, <1>3, <2>1, <2>2, Zenon
  <2>4. b + p \notin 1 .. k
    BY <1>4, <1>8, <2>3, Zenon
  <2>5. s[a].n = b + p
    BY <2>3, Zenon
  <2> QED BY <1>2, <2>2, <2>4, <2>5
<1>10. PICK d \in Seq(Ids) : d = Distintos(t) /\ \A x : Tiene(d, x) <=> x \in IdsDe(t)
  BY DistintosIds, Zenon
<1>11. Distintos(t \o s) = DistintosTras(d, r)
  <2>1. Distintos(t \o s) = DistintosTras(d, s)
    BY <1>10, VaciaTipo, DistintosConcat, Zenon DEF Distintos
  <2>2. DistintosTras(d, s) = DistintosTras(d, r)
    BY <1>6, <1>10, DistintosFiltro, Zenon
  <2> QED BY <2>1, <2>2, Zenon
<1>12. PICK c \in Seq(Mensaje) : c = SubSeq(h, 1, k) /\ d = Distintos(c)
  <2>1. PICK z \in 0 .. k : z = 0 /\ z + 1 = 1
    BY LenProperties
  <2>2. \E u \in Seq(Mensaje) : u = SubSeq(h, z + 1, k)
    BY <2>1, TramoTipo, Zenon
  <2> QED BY <1>10, <2>1, <2>2, Zenon DEF Sigue
<1>13. ASSUME NEW b \in 0 .. n, p <= b, b <= k
       PROVE  \E u \in Seq(Mensaje) : u = SubSeq(h, p + 1, b) /\ DistintosTras(d, u) = d
  <2>1. b \in 0 .. Len(h) /\ p \in 0 .. b /\ b \in 0 .. k
    BY <1>2, <1>13
  <2>2. PICK u \in Seq(Mensaje) : u = SubSeq(h, p + 1, b)
    BY <2>1, TramoPuntos, Zenon
  <2>3. DistintosTras(Distintos(t), u) = Distintos(t)
    <3>1. PICK z \in 1 .. (b + 1) : z = p + 1
      BY <2>1
    <3>2. DistintosTras(Distintos(t), SubSeq(h, z, b)) = Distintos(t)
      BY <2>1, TramoSabido
    <3> QED BY <2>2, <3>1, <3>2, Zenon
  <2> QED BY <1>10, <2>2, <2>3, Zenon
<1>14. PICK T : T = t \o s
  BY Zenon
<1>15. ASSUME NEW m \in 0 .. n, k <= m, q <= m, Distintos(T) = Distintos(SubSeq(h, 1, m))
       PROVE  Sigue(T, h, m)
  <2>1. PICK x \in Nat, y \in Nat : x = Len(t) /\ y = Len(s)
    BY LenProperties
  <2>2. /\ T \in Seq(Mensaje) /\ Len(T) = x + y
        /\ \A i \in 1 .. x : T[i] = t[i]
        /\ \A i \in 1 .. y : T[i + x] = s[i]
        /\ \A i \in 1 .. (x + y) : i \in 1 .. x \/ \E j \in 1 .. y : i = j + x
    BY <1>14, <2>1, ConcatPuntos
  <2>3. ASSUME NEW i \in 1 .. x PROVE T[i].n \in Nat /\ T[i].n <= k
    <3>1. t[i] \in Mensaje /\ t[i].n <= k
      BY <2>1, MensajesConId, Zenon DEF Sigue
    <3>2. t[i].n \in Nat
      BY <3>1, Zenon DEF Mensaje
    <3> QED BY <2>2, <3>1, <3>2, Zenon
  <2>4. ASSUME NEW j \in 1 .. y
        PROVE  T[j + x].n \in Nat /\ k < T[j + x].n /\ T[j + x].n <= q
    BY <1>9, <2>1, <2>2, Zenon
  <2>5. ASSUME NEW i \in 1 .. Len(T) PROVE T[i].n <= m
    <3>1. CASE i \in 1 .. x
      BY <1>2, <1>15, <2>3, <3>1
    <3>2. ASSUME NEW j \in 1 .. y, i = j + x PROVE T[i].n <= m
      BY <1>2, <1>15, <2>4, <3>2
    <3> QED BY <2>2, <3>1, <3>2, Zenon
  <2>6. ASSUME NEW i \in 1 .. Len(T), NEW j \in 1 .. Len(T), i < j PROVE T[i].n < T[j].n
    <3>1. CASE i \in 1 .. x /\ j \in 1 .. x
      <4>1. t[i].n < t[j].n
        BY <2>1, <2>6, <3>1, Zenon DEF Sigue, Creciente
      <4> QED BY <2>2, <3>1, <4>1, Zenon
    <3>2. ASSUME i \in 1 .. x, NEW b \in 1 .. y, j = b + x PROVE T[i].n < T[j].n
      <4>1. k \in Nat
        BY <1>2
      <4>2. T[i].n \in Nat /\ T[i].n <= k /\ T[j].n \in Nat /\ k < T[j].n
        BY <2>3, <2>4, <3>2, Zenon
      <4> QED BY <4>1, <4>2, MenorQue, Zenon
    <3>3. ASSUME NEW a \in 1 .. y, NEW b \in 1 .. y, i = a + x, j = b + x PROVE T[i].n < T[j].n
      <4>1. a < b
        BY <2>6, <3>3
      <4>2. s[a].n < s[b].n
        BY <1>8, <2>1, <4>1, Zenon DEF Creciente
      <4> QED BY <2>2, <3>3, <4>2, Zenon
    <3>4. ASSUME j \in 1 .. x, NEW a \in 1 .. y, i = a + x PROVE FALSE
      BY <2>6, <3>4
    <3> QED BY <2>2, <3>1, <3>2, <3>3, <3>4, ZenonT(30)
  <2> QED BY <1>15, <2>5, <2>6, Zenon DEF Sigue, Creciente
<1>16. CASE q <= k
  <2>1. Distintos(T) = d
    BY <1>1, <1>2, <1>11, <1>13, <1>14, <1>16, Zenon
  <2>2. k <= k
    BY <1>2
  <2>3. Sigue(T, h, k)
    BY <1>2, <1>10, <1>12, <1>15, <1>16, <2>1, <2>2, Zenon
  <2> QED BY <1>2, <1>6, <1>14, <2>3, Zenon
<1>17. CASE k < q
  <2>1. k <= q /\ q <= q /\ k <= k
    BY <1>2, <1>17
  <2>2. PICK u \in Seq(Mensaje) : u = SubSeq(h, p + 1, k) /\ DistintosTras(d, u) = d
    BY <1>2, <1>5, <1>13, <2>1, Zenon
  <2>3. PICK v \in Seq(Mensaje) : v = SubSeq(h, k + 1, q)
    <3>1. q \in 0 .. Len(h) /\ k \in 0 .. q
      BY <1>2, <2>1
    <3> QED BY <3>1, TramoPuntos, ZenonT(30)
  <2>4. r = u \o v
    <3>1. p + 1 \in 1 .. Len(h) + 1 /\ k \in (p + 1) - 1 .. Len(h) /\ q \in k .. Len(h)
      BY <1>2, <1>5, <2>1
    <3> QED BY <1>1, <2>2, <2>3, <3>1, ConcatAdjacentSubSeq, Zenon
  <2>5. SubSeq(h, 1, q) = c \o v
    <3>1. 1 \in 1 .. Len(h) + 1 /\ k \in 1 - 1 .. Len(h) /\ q \in k .. Len(h)
      BY <1>2, <2>1
    <3> QED BY <1>12, <2>3, <3>1, ConcatAdjacentSubSeq, Zenon
  <2>6. DistintosTras(d, r) = DistintosTras(d, v)
    <3>1. DistintosTras(d, u \o v) = DistintosTras(DistintosTras(d, u), v)
      BY DistintosConcat, Zenon
    <3> QED BY <2>2, <2>4, <3>1, Zenon
  <2>7. Distintos(c \o v) = DistintosTras(d, v)
    BY <1>12, VaciaTipo, DistintosConcat, ZenonT(30) DEF Distintos
  <2>8. Sigue(T, h, q)
    BY <1>2, <1>11, <1>14, <1>15, <2>1, <2>5, <2>6, <2>7, Zenon
  <2> QED BY <1>2, <1>6, <1>14, <2>8, Zenon
<1> QED BY <1>2, <1>16, <1>17

-----------------------------------------------------------------------------
(* What only grows.                                                        *)
LEMMA IdsDeConcat ==
    ASSUME NEW t \in Seq(Mensaje), NEW x \in Seq(Mensaje)
    PROVE  \A y \in IdsDe(t) : y \in IdsDe(t \o x)
<1>1. PICK u \in Seq(Mensaje) : u = t \o x
  BY ConcatPuntos, Zenon
<1>2. PICK n \in Nat, m \in Nat : n = Len(t) /\ m = Len(x)
  BY LenProperties
<1>3. Len(u) = n + m /\ \A i \in 1 .. n : u[i] = t[i]
  BY <1>1, <1>2, ConcatPuntos, ZenonT(30)
<1>4. DOMAIN t = 1 .. n /\ DOMAIN u = 1 .. (n + m)
  BY <1>2, <1>3, LenProperties
<1>5. \A i \in 1 .. n : i \in 1 .. (n + m)
  OBVIOUS
<1>6. \A y \in IdsDe(t) : y \in IdsDe(u)
  BY <1>3, <1>4, <1>5, Zenon DEF IdsDe
<1> QED BY <1>1, <1>6, Zenon

LEMMA TramoConcat ==
    ASSUME NEW h \in Seq(Mensaje), NEW x \in Seq(Mensaje), NEW b \in 0 .. Len(h), NEW a \in 0 .. b
    PROVE  SubSeq(h \o x, a + 1, b) = SubSeq(h, a + 1, b)
<1>1. PICK u \in Seq(Mensaje), n \in Nat :
          /\ u = h \o x /\ n = Len(h) /\ n <= Len(u) /\ Len(u) \in Nat
          /\ \A i \in 1 .. n : u[i] = h[i]
  <2>1. PICK n \in Nat, m \in Nat : n = Len(h) /\ m = Len(x)
    BY LenProperties
  <2>2. PICK u \in Seq(Mensaje) : u = h \o x
    BY ConcatPuntos, Zenon
  <2>3. Len(u) = n + m /\ \A i \in 1 .. n : u[i] = h[i]
    BY <2>1, <2>2, ConcatPuntos, ZenonT(30)
  <2>4. n <= Len(u) /\ Len(u) \in Nat
    BY <2>3
  <2> QED BY <2>1, <2>2, <2>3, <2>4, Zenon
<1>2. b \in 0 .. Len(u) /\ b \in 0 .. n
  BY <1>1
<1>3. PICK r \in Seq(Mensaje) : r = SubSeq(h, a + 1, b) /\ Len(r) = b - a
                                /\ \A j \in 1 .. (b - a) : r[j] = h[j + a]
  BY TramoPuntos, Zenon
<1>4. PICK v \in Seq(Mensaje) : v = SubSeq(u, a + 1, b) /\ Len(v) = b - a
                                /\ \A j \in 1 .. (b - a) : v[j] = u[j + a]
  BY <1>2, TramoPuntos, Zenon
<1>5. \A j \in 1 .. (b - a) : j + a \in 1 .. n
  BY <1>1, <1>2
<1>6. Len(r) = Len(v) /\ \A j \in 1 .. Len(r) : r[j] = v[j]
  BY <1>1, <1>3, <1>4, <1>5, ZenonT(30)
<1>7. r = v
  BY <1>6, SeqEqual, Zenon
<1> QED BY <1>1, <1>3, <1>4, <1>7, Zenon

LEMMA SigueHistorial ==
    ASSUME NEW h \in Seq(Mensaje), NEW x \in Seq(Mensaje), NEW t \in Seq(Mensaje),
           NEW k \in 0 .. Len(h), Sigue(t, h, k)
    PROVE  k \in 0 .. Len(h \o x) /\ Sigue(t, h \o x, k)
<1>1. k \in 0 .. Len(h \o x)
  <2>1. Len(h \o x) = Len(h) + Len(x) /\ Len(h) \in Nat /\ Len(x) \in Nat
    BY ConcatPuntos, LenProperties
  <2> QED BY <2>1
<1>2. SubSeq(h \o x, 1, k) = SubSeq(h, 1, k)
  <2>1. PICK z \in 0 .. k : z + 1 = 1
    BY LenProperties
  <2>2. SubSeq(h \o x, z + 1, k) = SubSeq(h, z + 1, k)
    BY TramoConcat, Zenon
  <2> QED BY <2>1, <2>2, Zenon
<1> QED BY <1>1, <1>2, Zenon DEF Sigue

LEMMA RespondeHistorial ==
    ASSUME NEW h \in Seq(Mensaje), NEW x \in Seq(Mensaje), NEW t, NEW r, Responde(r, h, t)
    PROVE  Responde(r, h \o x, t)
<1>1. PICK p \in 0 .. Len(h), q \in 0 .. Len(h) :
          /\ p <= q /\ r = SubSeq(h, p + 1, q)
          /\ p # 0 => /\ h[p].id \in IdsDe(t)
                      /\ \A j \in 1 .. (p - 1) : h[j].id # h[p].id
  BY Zenon DEF Responde
<1>2. PICK u \in Seq(Mensaje), n \in Nat, m \in Nat : u = h \o x /\ n = Len(h) /\ Len(u) = n + m
                          /\ \A i \in 1 .. n : u[i] = h[i]
  <2>1. PICK n \in Nat, m \in Nat : n = Len(h) /\ m = Len(x)
    BY LenProperties
  <2>2. h \o x \in Seq(Mensaje) /\ Len(h \o x) = n + m /\ \A i \in 1 .. n : (h \o x)[i] = h[i]
    BY <2>1, ConcatPuntos, Zenon
  <2> QED BY <2>1, <2>2, Zenon
<1>3. p \in 0 .. Len(u) /\ q \in 0 .. Len(u) /\ p \in 0 .. q
  BY <1>1, <1>2
<1>4. SubSeq(u, p + 1, q) = SubSeq(h, p + 1, q)
  BY <1>2, <1>3, TramoConcat
<1>5. ASSUME p # 0
      PROVE  u[p].id \in IdsDe(t) /\ \A j \in 1 .. (p - 1) : u[j].id # u[p].id
  <2>1. p \in 1 .. n /\ \A j \in 1 .. (p - 1) : j \in 1 .. n
    BY <1>2, <1>5
  <2> QED BY <1>1, <1>2, <1>5, <2>1, Zenon
<1> QED BY <1>1, <1>2, <1>3, <1>4, <1>5, Zenon DEF Responde

LEMMA RespondeTabla ==
    ASSUME NEW t \in Seq(Mensaje), NEW x \in Seq(Mensaje), NEW h, NEW r, Responde(r, h, t)
    PROVE  Responde(r, h, t \o x)
BY IdsDeConcat, Zenon DEF Responde

(* A poll under way: it is for the conversation of the screen c, and its   *)
(* position, or the one its answer starts at, is of the table t.           *)
SondeoOK(v, c, h, t) ==
    /\ v.conv = Real => c = Real
    /\ v.conv # Real => v.lista = <<>>
    /\ v.estado = "pedido" /\ v.conv = Real => v.ultimo \in IdsDe(t) \cup {Vacio}
    /\ v.estado = "servido" => Responde(v.lista, h, t)

(* The inductive invariant of the table: the conversation is numbered, the *)
(* table follows it, and so do the polls under way.                        *)
TablaInv ==
    /\ \A i \in 1 .. Len(historial) : historial[i].n = i
    /\ \E k \in 0 .. Len(historial) : Sigue(mensajes, historial, k)
    /\ pantalla = "cerrada" => pedidoId = Vacio /\ \A s \in Sondeos : vuelo[s] = Ninguno
    /\ pedidoId # Vacio => conversationId = Vacio
    /\ \A s \in Sondeos : SondeoOK(vuelo[s], conversationId, historial, mensajes)

LEMMA NingunoOK ==
    ASSUME NEW c, NEW h, NEW t PROVE SondeoOK(Ninguno, c, h, t)
<1>1. /\ Ninguno.conv = Vacio /\ Ninguno.lista = <<>> /\ Ninguno.estado # "servido"
  BY DEF Ninguno
<1> QED BY <1>1, IdsDistintos, Zenon DEF SondeoOK

(* The answer to a poll starts at the position it asked for.               *)
LEMMA ServirResponde ==
    ASSUME historial \in Seq(Mensaje), NEW c, NEW u, NEW t \in Seq(Mensaje),
           c = Real => u \in IdsDe(t) \cup {Vacio}
    PROVE  Responde(obtenerConversacion(c, u), historial, t)
<1>1. PICK r : r = obtenerConversacion(c, u)
  BY Zenon
<1>2. PICK n \in Nat : n = Len(historial) /\ DOMAIN historial = 1 .. n
  BY LenProperties
<1>3. PICK z \in 0 .. n : z = 0
  BY <1>2
<1>4. CASE r = <<>>
  <2>1. SubSeq(historial, z + 1, z) = <<>>
    BY <1>3, SubSeqEmpty
  <2>2. z <= z
    BY <1>3
  <2> QED BY <1>1, <1>2, <1>3, <1>4, <2>1, <2>2, Zenon DEF Responde
<1>5. CASE u = Vacio /\ r = historial
  <2>1. SubSeq(historial, z + 1, n) = historial
    <3>1. SubSeq(historial, 1, Len(historial)) = historial
      BY SubSeqFull
    <3>2. z + 1 = 1
      BY <1>3
    <3> QED BY <1>2, <3>1, <3>2, Zenon
  <2>2. z <= n /\ n \in 0 .. n
    BY <1>2, <1>3
  <2> QED BY <1>1, <1>2, <1>3, <1>5, <2>1, <2>2, Zenon DEF Responde
<1>6. ASSUME NEW p \in DOMAIN historial, c = Real, u # Vacio, historial[p].id = u,
             \A j \in 1 .. (p - 1) : historial[j].id # u, r = SubSeq(historial, p + 1, Len(historial))
      PROVE  Responde(r, historial, t)
  <2>1. p \in 0 .. n /\ n \in 0 .. n /\ p <= n
    BY <1>2, <1>6
  <2>2. historial[p].id \in IdsDe(t) /\ \A j \in 1 .. (p - 1) : historial[j].id # historial[p].id
    BY <1>6, Zenon
  <2>3. r = SubSeq(historial, p + 1, n)
    BY <1>2, <1>6, Zenon
  <2> QED BY <1>2, <2>1, <2>2, <2>3, Zenon DEF Responde
<1>7. CASE c # Real
  BY <1>1, <1>4, <1>7, ObtenerTipo, Zenon
<1>8. CASE c = Real /\ u = Vacio
  <2>1. r = historial
    BY <1>1, <1>8, Zenon DEF obtenerConversacion
  <2> QED BY <1>1, <1>5, <1>8, <2>1, Zenon
<1>9. CASE c = Real /\ u # Vacio
  <2>1. \/ r = <<>>
        \/ \E p \in DOMAIN historial :
              /\ historial[p].id = u
              /\ \A j \in 1 .. (p - 1) : historial[j].id # u
              /\ r = SubSeq(historial, p + 1, Len(historial))
    BY <1>1, <1>9, ObtenerTipo, Zenon
  <2>2. Responde(r, historial, t)
    BY <1>1, <1>4, <1>6, <1>9, <2>1, Zenon
  <2> QED BY <1>1, <2>2, Zenon
<1> QED BY <1>7, <1>8, <1>9, Zenon

(* The conversation grows, and nothing else changes for the table.         *)
LEMMA CreceHistorial ==
    ASSUME historial \in Seq(Mensaje), mensajes \in Seq(Mensaje), TablaInv, NEW x \in Seq(Mensaje),
           historial' = historial \o x, \A i \in 1 .. Len(x) : x[i].n = Len(historial) + i,
           UNCHANGED <<mensajes, pantalla, conversationId, pedidoId, vuelo>>
    PROVE  TablaInv'
<1>1. PICK n \in Nat, m \in Nat : n = Len(historial) /\ m = Len(x)
  BY LenProperties
<1>2. PICK h : h = historial' /\ h = historial \o x
  BY Zenon
<1>3. /\ Len(h) = n + m
      /\ \A i \in 1 .. n : h[i] = historial[i]
      /\ \A i \in 1 .. m : h[i + n] = x[i]
      /\ \A i \in 1 .. (n + m) : i \in 1 .. n \/ \E j \in 1 .. m : i = j + n
  <2>1. /\ Len(historial \o x) = Len(historial) + Len(x)
        /\ \A i \in 1 .. Len(historial) : (historial \o x)[i] = historial[i]
        /\ \A i \in 1 .. Len(x) : (historial \o x)[i + Len(historial)] = x[i]
        /\ \A i \in 1 .. (Len(historial) + Len(x)) :
              i \in 1 .. Len(historial) \/ \E j \in 1 .. Len(x) : i = j + Len(historial)
    BY ConcatPuntos, Zenon
  <2> QED BY <1>1, <1>2, <2>1, Zenon
<1>4. ASSUME NEW i \in 1 .. Len(h) PROVE h[i].n = i
  <2>1. CASE i \in 1 .. n
    BY <1>1, <1>3, <2>1, Zenon DEF TablaInv
  <2>2. ASSUME NEW j \in 1 .. m, i = j + n PROVE h[i].n = i
    <3>1. h[i].n = n + j
      BY <1>1, <1>3, <2>2, Zenon
    <3> QED BY <2>2, <3>1
  <2> QED BY <1>3, <2>1, <2>2, Zenon
<1>5. \E k \in 0 .. Len(h) : Sigue(mensajes, h, k)
  <2>1. PICK k \in 0 .. Len(historial) : Sigue(mensajes, historial, k)
    BY Zenon DEF TablaInv
  <2>2. k \in 0 .. Len(historial \o x) /\ Sigue(mensajes, historial \o x, k)
    BY <2>1, SigueHistorial, Zenon
  <2> QED BY <1>2, <2>2, Zenon
<1>6. ASSUME NEW s \in Sondeos PROVE SondeoOK(vuelo[s], conversationId, h, mensajes)
  <2>1. SondeoOK(vuelo[s], conversationId, historial, mensajes)
    BY Zenon DEF TablaInv
  <2>2. vuelo[s].estado = "servido" => Responde(vuelo[s].lista, h, mensajes)
    BY <1>2, <2>1, RespondeHistorial, Zenon DEF SondeoOK
  <2> QED BY <2>1, <2>2, Zenon DEF SondeoOK
<1>7. /\ pantalla' = "cerrada" => pedidoId' = Vacio /\ \A s \in Sondeos : vuelo'[s] = Ninguno
      /\ pedidoId' # Vacio => conversationId' = Vacio
  BY Zenon DEF TablaInv
<1>8. /\ \E k \in 0 .. Len(historial') : Sigue(mensajes', historial', k)
      /\ \A s \in Sondeos : SondeoOK(vuelo'[s], conversationId', historial', mensajes')
      /\ \A i \in 1 .. Len(historial') : historial'[i].n = i
  BY <1>2, <1>4, <1>5, <1>6, Zenon
<1> QED BY <1>7, <1>8, Zenon DEF TablaInv, Sigue, SondeoOK, Responde, IdsDe, Creciente

(* The callback of a poll, with the new messages q of its answer.          *)
LEMMA RecibeTabla ==
    ASSUME TypeOKChat, TablaInv, NEW s \in Sondeos, ~Libre(s), NEW q \in Seq(Mensaje),
           Recibir(s, q), \E m \in 0 .. Len(historial) : Sigue(mensajes \o q, historial, m)
    PROVE  TablaInv'
<1>1. /\ historial \in Seq(Mensaje) /\ mensajes \in Seq(Mensaje)
      /\ vuelo \in [Sondeos -> Sondeo]
  BY Zenon DEF TypeOKChat, Sondeo
<1>2. PICK t : t = mensajes' /\ t = mensajes \o q
  BY Zenon DEF Recibir
<1>3. /\ UNCHANGED <<historial, pantalla, conversationId, pedidoId>>
      /\ vuelo' = [vuelo EXCEPT ![s] = Ninguno]
  BY Zenon DEF Recibir
<1>4. pantalla # "cerrada"
  <2>1. Ninguno.estado = "ninguno"
    BY DEF Ninguno
  <2> QED BY <2>1, Zenon DEF TablaInv, Libre
<1>5. ASSUME NEW a \in Sondeos PROVE SondeoOK(vuelo'[a], conversationId, historial, t)
  <2>1. CASE a = s
    <3>1. vuelo'[a] = Ninguno
      BY <1>1, <1>3, <2>1
    <3> QED BY <3>1, NingunoOK, Zenon
  <2>2. CASE a # s
    <3>1. vuelo'[a] = vuelo[a]
      BY <1>1, <1>3, <2>2
    <3>2. SondeoOK(vuelo[a], conversationId, historial, mensajes)
      BY Zenon DEF TablaInv
    <3>3. \A y \in IdsDe(mensajes) : y \in IdsDe(t)
      BY <1>1, <1>2, IdsDeConcat, Zenon
    <3>4. Responde(vuelo[a].lista, historial, mensajes) => Responde(vuelo[a].lista, historial, t)
      BY <1>1, <1>2, RespondeTabla, Zenon
    <3>5. SondeoOK(vuelo[a], conversationId, historial, t)
      BY <3>2, <3>3, <3>4, Zenon DEF SondeoOK
    <3> QED BY <3>1, <3>5, Zenon
  <2> QED BY <2>1, <2>2, Zenon
<1>6. /\ \E k \in 0 .. Len(historial') : Sigue(mensajes', historial', k)
      /\ \A a \in Sondeos : SondeoOK(vuelo'[a], conversationId', historial', mensajes')
      /\ \A i \in 1 .. Len(historial') : historial'[i].n = i
  BY <1>2, <1>3, <1>5, Zenon DEF TablaInv
<1>7. /\ pantalla' # "cerrada"
      /\ pedidoId' # Vacio => conversationId' = Vacio
  BY <1>3, <1>4, Zenon DEF TablaInv
<1> QED BY <1>6, <1>7, Zenon DEF TablaInv, Sigue, SondeoOK, Responde, IdsDe, Creciente

(* Only the polls change.                                                  *)
LEMMA CambiaSondeos ==
    ASSUME TablaInv, UNCHANGED <<historial, mensajes>>,
           pantalla' = "cerrada" => pedidoId' = Vacio /\ \A s \in Sondeos : vuelo'[s] = Ninguno,
           pedidoId' # Vacio => conversationId' = Vacio,
           \A s \in Sondeos : SondeoOK(vuelo'[s], conversationId', historial, mensajes)
    PROVE  TablaInv'
<1>1. /\ \E k \in 0 .. Len(historial') : Sigue(mensajes', historial', k)
      /\ \A a \in Sondeos : SondeoOK(vuelo'[a], conversationId', historial', mensajes')
      /\ \A i \in 1 .. Len(historial') : historial'[i].n = i
  BY Zenon DEF TablaInv
<1> QED BY <1>1, Zenon DEF TablaInv, Sigue, SondeoOK, Responde, IdsDe, Creciente

LEMMA PasoTabla == TypeOKChat /\ Cadenas /\ TablaInv /\ [NextChat]_varsChat => TablaInv'
<1> SUFFICES ASSUME TypeOKChat, Cadenas, TablaInv, [NextChat]_varsChat PROVE TablaInv'
  OBVIOUS
<1>1. /\ historial \in Seq(Mensaje) /\ mensajes \in Seq(Mensaje)
      /\ vuelo \in [Sondeos -> Sondeo]
      /\ actual \in Nat /\ viejos \in Nat
  BY Zenon DEF TypeOKChat, Sondeo
<1>2. \A s \in Sondeos : SondeoOK(vuelo[s], conversationId, historial, mensajes)
  BY Zenon DEF TablaInv
<1>3. /\ pantalla = "cerrada" => pedidoId = Vacio /\ \A s \in Sondeos : vuelo[s] = Ninguno
      /\ pedidoId # Vacio => conversationId = Vacio
  BY Zenon DEF TablaInv
<1>4. ASSUME UNCHANGED <<historial, mensajes, pantalla, conversationId, pedidoId, vuelo>>
      PROVE  TablaInv'
  BY <1>2, <1>3, <1>4, CambiaSondeos, Zenon
<1>5. ASSUME UNCHANGED <<historial, mensajes>>, vuelo' = [s \in Sondeos |-> Ninguno],
             pedidoId' = Vacio
      PROVE  TablaInv'
  <2>1. \A s \in Sondeos : vuelo'[s] = Ninguno
    BY <1>5
  <2>2. \A s \in Sondeos : SondeoOK(vuelo'[s], conversationId', historial, mensajes)
    BY <2>1, NingunoOK, Zenon
  <2> QED BY <1>5, <2>1, <2>2, CambiaSondeos, Zenon
<1>6. CASE Abrir
  <2>1. /\ UNCHANGED <<historial, mensajes, vuelo>> /\ conversationId' = Vacio
        /\ pantalla' # "cerrada" /\ \A s \in Sondeos : vuelo[s] = Ninguno
    BY <1>3, <1>6 DEF Abrir
  <2>2. \A s \in Sondeos : SondeoOK(vuelo'[s], conversationId', historial, mensajes)
    BY <2>1, NingunoOK, Zenon
  <2> QED BY <2>1, <2>2, CambiaSondeos, Zenon
<1>7. CASE ServirId
  <2>1. /\ UNCHANGED <<historial, mensajes, vuelo, conversationId, pantalla>>
        /\ pedidoId # Vacio
    BY <1>7, IdsDistintos DEF ServirId
  <2> QED BY <1>2, <1>3, <2>1, CambiaSondeos, Zenon
<1>8. CASE RecibirId
  <2>1. /\ UNCHANGED <<historial, mensajes, vuelo, pantalla>>
        /\ pedidoId # Vacio /\ pedidoId' = Vacio
    BY <1>8, IdsDistintos DEF RecibirId
  <2>2. conversationId # Real /\ pantalla # "cerrada"
    BY <1>3, <2>1, IdsDistintos, Zenon
  <2>3. \A s \in Sondeos : SondeoOK(vuelo'[s], conversationId', historial, mensajes)
    BY <1>2, <2>1, <2>2, Zenon DEF SondeoOK
  <2> QED BY <2>1, <2>2, <2>3, CambiaSondeos, Zenon
<1>9. CASE PerderId \/ MatarProceso
  BY <1>5, <1>9, Zenon DEF PerderId, MatarProceso, Muere
<1>10. ASSUME NEW s \in Sondeos, Sondear(s) PROVE TablaInv'
  <2>1. PICK u \in UltimosIds(conversationId) :
            vuelo' = [vuelo EXCEPT ![s] = [estado |-> "pedido", conv |-> conversationId,
                                           ultimo |-> u, lista |-> <<>>]]
    BY <1>10, Zenon DEF Sondear
  <2>2. UNCHANGED <<historial, mensajes, pantalla, conversationId, pedidoId>>
    BY <1>10, Zenon DEF Sondear
  <2>3. pantalla # "cerrada"
    <3>1. actual > 0 \/ viejos > 0
      BY <1>10, Zenon DEF Sondear
    <3> QED BY <1>1, <3>1 DEF Cadenas
  <2>4. ASSUME NEW a \in Sondeos PROVE SondeoOK(vuelo'[a], conversationId, historial, mensajes)
    <3>1. CASE a # s
      <4>1. vuelo'[a] = vuelo[a]
        BY <1>1, <2>1, <3>1
      <4> QED BY <1>2, <4>1, Zenon
    <3>2. CASE a = s
      <4>1. PICK v : v = vuelo'[a]
        BY Zenon
      <4>2. v.conv = conversationId /\ v.estado = "pedido" /\ v.ultimo = u /\ v.lista = <<>>
        BY <1>1, <2>1, <3>2, <4>1
      <4>3. conversationId = Real => u \in IdsDe(mensajes) \cup {Vacio}
        BY <1>1, UltimosTipo, Zenon
      <4>4. v.estado # "servido"
        BY <4>2
      <4>5. SondeoOK(v, conversationId, historial, mensajes)
        BY <4>2, <4>3, <4>4, Zenon DEF SondeoOK
      <4> QED BY <4>1, <4>5, Zenon
    <3> QED BY <3>1, <3>2, Zenon
  <2> QED BY <1>3, <2>2, <2>3, <2>4, CambiaSondeos, Zenon
<1>11. ASSUME NEW s \in Sondeos, Servir(s) PROVE TablaInv'
  <2>1. PICK r : r = obtenerConversacion(vuelo[s].conv, vuelo[s].ultimo)
    BY Zenon
  <2>2. /\ UNCHANGED <<historial, mensajes, pantalla, conversationId, pedidoId>>
        /\ vuelo[s].estado = "pedido"
        /\ vuelo' = [vuelo EXCEPT ![s].estado = "servido", ![s].lista = r]
    BY <1>11, <2>1, Zenon DEF Servir
  <2>3. pantalla # "cerrada"
    <3>1. Ninguno.estado = "ninguno"
      BY DEF Ninguno
    <3>2. vuelo[s] # Ninguno
      BY <2>2, <3>1
    <3> QED BY <1>3, <3>2, Zenon
  <2>4. ASSUME NEW a \in Sondeos PROVE SondeoOK(vuelo'[a], conversationId, historial, mensajes)
    <3>1. CASE a # s
      <4>1. vuelo'[a] = vuelo[a]
        BY <1>1, <2>2, <3>1
      <4> QED BY <1>2, <4>1, Zenon
    <3>2. CASE a = s
      <4>1. PICK v : v = vuelo'[a]
        BY Zenon
      <4>2. v.conv = vuelo[s].conv /\ v.estado = "servido" /\ v.lista = r
        <5>1. vuelo[s] \in Sondeo
          BY <1>1
        <5> QED BY <1>1, <2>2, <3>2, <4>1, <5>1 DEF Sondeo
      <4>3. SondeoOK(vuelo[s], conversationId, historial, mensajes)
        BY <1>2, Zenon
      <4>4. Responde(r, historial, mensajes)
        BY <1>1, <2>1, <2>2, <4>3, ServirResponde, Zenon DEF SondeoOK
      <4>5. vuelo[s].conv # Real => r = <<>>
        BY <1>1, <2>1, ObtenerTipo, Zenon
      <4>6. v.estado # "pedido"
        BY <4>2
      <4>7. SondeoOK(v, conversationId, historial, mensajes)
        BY <4>2, <4>3, <4>4, <4>5, <4>6, Zenon DEF SondeoOK
      <4> QED BY <4>1, <4>7, Zenon
    <3> QED BY <3>1, <3>2, Zenon
  <2> QED BY <1>3, <2>2, <2>3, <2>4, CambiaSondeos, Zenon
<1>12. ASSUME NEW s \in Sondeos, Entregar(s) PROVE TablaInv'
  <2>1. PICK r \in Seq(Mensaje) : r = vuelo[s].lista
    <3>1. vuelo[s] \in Sondeo
      BY <1>1
    <3> QED BY <3>1 DEF Sondeo
  <2>2. PICK q \in Seq(Mensaje) : q = Nuevos(r)
    BY FiltroTipo, Zenon DEF Nuevos
  <2>3. Recibir(s, q) /\ vuelo[s].estado = "servido"
    BY <1>12, <2>1, <2>2, Zenon DEF Entregar
  <2>4. ~Libre(s)
    BY <2>3 DEF Libre
  <2>5. SondeoOK(vuelo[s], conversationId, historial, mensajes)
    BY <1>2, Zenon
  <2>6. PICK k \in 0 .. Len(historial) : Sigue(mensajes, historial, k)
    BY Zenon DEF TablaInv
  <2>7. \E m \in 0 .. Len(historial) : Sigue(mensajes \o q, historial, m)
    <3>1. CASE vuelo[s].conv = Real
      <4>1. q = SinIds(r, IdsDe(mensajes))
        BY <2>2, <2>5, <3>1, Zenon DEF Nuevos, FilasDe, SondeoOK
      <4>2. Responde(r, historial, mensajes)
        BY <2>1, <2>3, <2>5, Zenon DEF SondeoOK
      <4>3. \A i \in 1 .. Len(historial) : historial[i].n = i
        BY Zenon DEF TablaInv
      <4>4. \E m \in 0 .. Len(historial) : Sigue(mensajes \o SinIds(r, IdsDe(mensajes)), historial, m)
        BY <1>1, <2>6, <4>2, <4>3, EntregaTabla
      <4> QED BY <4>1, <4>4, Zenon
    <3>2. CASE vuelo[s].conv # Real
      <4>1. q = <<>>
        BY <2>1, <2>2, <2>5, <3>2, FiltroEc, Zenon DEF Nuevos, SondeoOK
      <4>2. mensajes \o q = mensajes
        BY <1>1, <4>1, ConcatEmptySeq, Zenon
      <4> QED BY <2>6, <4>2, Zenon
    <3> QED BY <3>1, <3>2, Zenon
  <2> QED BY <2>3, <2>4, <2>7, RecibeTabla, Zenon
<1>13. ASSUME NEW s \in Sondeos, Perder(s) PROVE TablaInv'
  <2>1. PICK q \in Seq(Mensaje) : q = <<>>
    BY VaciaTipo, Zenon
  <2>2. Recibir(s, q) /\ ~Libre(s)
    BY <1>13, <2>1, Zenon DEF Perder
  <2>3. mensajes \o q = mensajes
    BY <1>1, <2>1, ConcatEmptySeq, Zenon
  <2>4. \E m \in 0 .. Len(historial) : Sigue(mensajes \o q, historial, m)
    BY <2>3, Zenon DEF TablaInv
  <2> QED BY <2>2, <2>4, RecibeTabla, Zenon
<1>14. ASSUME NEW e \in {Yo, Otro}, NEW f \in Fechas, NEW c \in BOOLEAN, Almacenar(e, f, c),
              UNCHANGED <<mensajes, pantalla, conversationId, pedidoId, vuelo>>
       PROVE  TablaInv'
  <2>1. PICK x \in Seq(Mensaje) : /\ historial' = historial \o x
                                  /\ \A i \in 1 .. Len(x) : x[i].n = Len(historial) + i
    BY <1>1, <1>14, AlmacenarTipo, Zenon
  <2> QED BY <1>1, <1>14, <2>1, CreceHistorial, Zenon
<1>15. ASSUME NEW f \in Fechas, NEW c \in BOOLEAN, Enviar(f, c) PROVE TablaInv'
  BY <1>4, <1>15, Zenon DEF Enviar, red
<1>16. ASSUME NEW f \in Fechas, NEW c \in BOOLEAN, OtroEnvia(f, c) PROVE TablaInv'
  BY <1>14, <1>16, Zenon DEF OtroEnvia, red
<1>17. ASSUME NEW i \in DOMAIN enviando, LlegaEnvio(i) PROVE TablaInv'
  <2>1. PICK T : T = [fecha : Fechas, sep : BOOLEAN]
    BY Zenon
  <2>2. enviando \in Seq(T)
    BY <2>1, Zenon DEF TypeOKChat
  <2>3. i \in 1 .. Len(enviando)
    BY <2>2
  <2>4. enviando[i] \in T
    BY <2>2, <2>3, ElementOfSeq
  <2>5. enviando[i].fecha \in Fechas /\ enviando[i].sep \in BOOLEAN
    BY <2>1, <2>4
  <2> QED BY <1>14, <1>17, <2>5, Zenon DEF LlegaEnvio, red
<1>18. ASSUME NEW i \in DOMAIN enviando, PierdeEnvio(i) PROVE TablaInv'
  BY <1>4, <1>18, Zenon DEF PierdeEnvio, red
<1>19. CASE onPause
  BY <1>5, <1>19, Zenon DEF onPause
<1>20. CASE onResume
  <2>1. /\ UNCHANGED <<historial, mensajes, conversationId, vuelo, pedidoId>>
        /\ pantalla' # "cerrada"
    BY <1>20 DEF onResume, red
  <2> QED BY <1>2, <1>3, <2>1, CambiaSondeos, Zenon
<1>21. CASE UNCHANGED varsChat
  BY <1>4, <1>21, Zenon DEF varsChat, red
<1> QED BY <1>6, <1>7, <1>8, <1>9, <1>10, <1>11, <1>12, <1>13, <1>15, <1>16, <1>17, <1>18, <1>19,
           <1>20, <1>21 DEF NextChat

LEMMA InicioTabla == InitChat => TablaInv
<1> SUFFICES ASSUME InitChat PROVE TablaInv
  OBVIOUS
<1>1. historial = <<>> /\ mensajes = <<>> /\ pedidoId = Vacio /\ Len(<<>>) = 0
  BY DEF InitChat
<1>2. \A s \in Sondeos : vuelo[s] = Ninguno
  BY DEF InitChat
<1>3. \A s \in Sondeos : SondeoOK(vuelo[s], conversationId, historial, mensajes)
  BY <1>2, NingunoOK, Zenon
<1>4. SubSeq(historial, 1, 0) = mensajes
  BY <1>1
<1>5. 0 \in 0 .. Len(historial) /\ Sigue(mensajes, historial, 0)
  <2>1. 0 \in 0 .. Len(historial) /\ 1 .. Len(mensajes) = {}
    BY <1>1
  <2> QED BY <1>4, <2>1, Zenon DEF Sigue, Creciente
<1>6. \A i \in 1 .. Len(historial) : historial[i].n = i
  BY <1>1
<1> QED BY <1>1, <1>2, <1>3, <1>5, <1>6, Zenon DEF TablaInv

(* The inductive invariant holds of every reachable state.                 *)
LEMMA TablaSiempre == SpecChat => []TablaInv
<1>1. InitChat => Cadenas
  BY DEF InitChat, Cadenas
<1> QED BY <1>1, PasoCadenas, InicioTabla, PasoTabla, TiposDelChat, PTL DEF SpecChat

(* The table never has a gap, for any number of polls under way, any       *)
(* clocks and any number of messages: what getLastMessageId asks for, the  *)
(* latest date, is always a position from which the answer continues.      *)
THEOREM SiempreSinHuecos == SpecChat => []SinHuecos
<1>1. TypeOKChat /\ TablaInv => SinHuecos
  <2> SUFFICES ASSUME TypeOKChat, TablaInv PROVE SinHuecos
    OBVIOUS
  <2>1. historial \in Seq(Mensaje) /\ mensajes \in Seq(Mensaje)
    BY Zenon DEF TypeOKChat
  <2>2. PICK k \in 0 .. Len(historial) : Sigue(mensajes, historial, k)
    BY Zenon DEF TablaInv
  <2>3. \A x : x \in IdsDe(mensajes) <=> \E j \in 1 .. k : historial[j].id = x
    BY <2>1, <2>2, SigueIds, Zenon
  <2>4. \A x : x \in IdsDe(SubSeq(historial, 1, k)) <=> \E j \in 1 .. k : historial[j].id = x
    BY <2>1, TramoIdsInicial, Zenon
  <2>5. IdsDe(mensajes) = IdsDe(SubSeq(historial, 1, k))
    BY <2>3, <2>4, Zenon
  <2> QED BY <2>5, Zenon DEF SinHuecos
<1> QED BY <1>1, TablaSiempre, TiposDelChat, PTL

(* The rows of the table are always in the order of the server and none    *)
(* comes twice, although answers overlap and are applied in any order.     *)
THEOREM SiempreOrdenDelServidor == SpecChat => []OrdenDelServidor
<1>1. TypeOKChat /\ TablaInv => OrdenDelServidor
  <2> SUFFICES ASSUME TypeOKChat, TablaInv PROVE OrdenDelServidor
    OBVIOUS
  <2>1. DOMAIN mensajes = 1 .. Len(mensajes)
    <3>1. PICK S : mensajes \in Seq(S)
      BY Zenon DEF TypeOKChat
    <3> QED BY <3>1
  <2>2. Creciente(mensajes)
    BY Zenon DEF TablaInv, Sigue
  <2> QED BY <2>1, <2>2, Zenon DEF Creciente, OrdenDelServidor
<1> QED BY <1>1, TablaSiempre, TiposDelChat, PTL

-----------------------------------------------------------------------------
(* The chat implements Buzon.                                              *)

(* A step adds to the conversation or to the table, or to neither.         *)
LEMMA PasoCrece ==
    ASSUME TypeOKChat, TypeOKChat', [NextChat]_varsChat
    PROVE  \/ mensajes' = mensajes /\ \E x \in Seq(Mensaje) : historial' = historial \o x
           \/ historial' = historial /\ \E q \in Seq(Mensaje) : mensajes' = mensajes \o q
<1>1. /\ historial \in Seq(Mensaje) /\ mensajes \in Seq(Mensaje) /\ <<>> \in Seq(Mensaje)
      /\ vuelo \in [Sondeos -> Sondeo]
  BY VaciaTipo, Zenon DEF TypeOKChat, Sondeo
<1> DEFINE Meta ==
      \/ mensajes' = mensajes /\ \E x \in Seq(Mensaje) : historial' = historial \o x
      \/ historial' = historial /\ \E q \in Seq(Mensaje) : mensajes' = mensajes \o q
<1>2. ASSUME UNCHANGED <<historial, mensajes>> PROVE Meta
  <2>1. historial \o <<>> = historial
    BY <1>1, ConcatEmptySeq, Zenon
  <2> QED BY <1>1, <1>2, <2>1, Zenon
<1>3. ASSUME NEW s \in Sondeos, Entregar(s) \/ Perder(s) PROVE Meta
  <2>1. CASE Entregar(s)
    <3>1. PICK r \in Seq(Mensaje) : r = vuelo[s].lista
      <4>1. vuelo[s] \in Sondeo
        BY <1>1
      <4> QED BY <4>1 DEF Sondeo
    <3>2. PICK q \in Seq(Mensaje) : q = Nuevos(r)
      BY FiltroTipo, Zenon DEF Nuevos
    <3> QED BY <2>1, <3>1, <3>2, Zenon DEF Entregar, Recibir
  <2>2. CASE Perder(s)
    BY <1>1, <2>2, Zenon DEF Perder, Recibir
  <2> QED BY <1>3, <2>1, <2>2, Zenon
<1>4. ASSUME NEW e \in {Yo, Otro}, NEW f \in Fechas, NEW c \in BOOLEAN, Almacenar(e, f, c),
             UNCHANGED mensajes
      PROVE  Meta
  BY <1>1, <1>4, AlmacenarTipo, Zenon
<1>5. ASSUME NEW f \in Fechas, NEW c \in BOOLEAN, OtroEnvia(f, c) PROVE Meta
  BY <1>4, <1>5, Zenon DEF OtroEnvia
<1>6. ASSUME NEW i \in DOMAIN enviando, LlegaEnvio(i) PROVE Meta
  <2>1. PICK T : T = [fecha : Fechas, sep : BOOLEAN]
    BY Zenon
  <2>2. enviando \in Seq(T)
    BY <2>1, Zenon DEF TypeOKChat
  <2>3. i \in 1 .. Len(enviando)
    BY <2>2
  <2>4. enviando[i] \in T
    BY <2>2, <2>3, ElementOfSeq
  <2>5. enviando[i].fecha \in Fechas /\ enviando[i].sep \in BOOLEAN
    BY <2>1, <2>4
  <2> QED BY <1>4, <1>6, <2>5, Zenon DEF LlegaEnvio
<1>7. ASSUME Abrir \/ ServirId \/ RecibirId \/ PerderId \/ onPause \/ onResume \/ MatarProceso
      PROVE  Meta
  BY <1>2, <1>7, Zenon DEF Abrir, ServirId, RecibirId, PerderId, onPause, onResume, MatarProceso,
                           Muere
<1>8. ASSUME NEW s \in Sondeos, Sondear(s) \/ Servir(s) PROVE Meta
  BY <1>2, <1>8, Zenon DEF Sondear, Servir
<1>9. ASSUME NEW f \in Fechas, NEW c \in BOOLEAN, Enviar(f, c) PROVE Meta
  BY <1>2, <1>9, Zenon DEF Enviar
<1>10. ASSUME NEW i \in DOMAIN enviando, PierdeEnvio(i) PROVE Meta
  BY <1>2, <1>10, Zenon DEF PierdeEnvio
<1>11. ASSUME UNCHANGED varsChat PROVE Meta
  BY <1>2, <1>11, Zenon DEF varsChat
<1> HIDE DEF Meta
<1>12. Meta
  <2>1. CASE \E s \in Sondeos : Sondear(s) \/ Servir(s) \/ Entregar(s) \/ Perder(s)
    BY <1>3, <1>8, <2>1, Zenon
  <2>2. CASE \E f \in Fechas, c \in BOOLEAN : Enviar(f, c) \/ OtroEnvia(f, c)
    BY <1>5, <1>9, <2>2, Zenon
  <2>3. CASE \E i \in DOMAIN enviando : LlegaEnvio(i) \/ PierdeEnvio(i)
    BY <1>6, <1>10, <2>3, Zenon
  <2>4. NextChat \/ UNCHANGED varsChat
    OBVIOUS
  <2>5. CASE NextChat
    BY <1>7, <2>1, <2>2, <2>3, <2>5, Zenon DEF NextChat
  <2> QED BY <1>11, <2>4, <2>5, Zenon
<1> QED BY <1>12, Zenon DEF Meta

(* What follows a sequence only adds ids to the distinct ones.             *)
LEMMA DistintosCrece ==
    ASSUME NEW s \in Seq(Mensaje), NEW x \in Seq(Mensaje)
    PROVE  EsPrefijo(Distintos(s), Distintos(s \o x))
<1>1. Distintos(s) \in Seq(Ids)
  BY DistintosIds, Zenon
<1>2. Distintos(s \o x) = DistintosTras(Distintos(s), x)
  BY VaciaTipo, DistintosConcat, Zenon DEF Distintos
<1> QED BY <1>1, <1>2, DistintosPrefijo, Zenon

LEMMA PartirTramo ==
    ASSUME NEW h \in Seq(Mensaje), NEW k \in 0 .. Len(h)
    PROVE  \E a \in Seq(Mensaje), x \in Seq(Mensaje) : a = SubSeq(h, 1, k) /\ h = a \o x
<1>1. PICK n \in Nat : n = Len(h) /\ k \in 0 .. n /\ n \in 0 .. n
  BY LenProperties
<1>2. PICK z \in 0 .. k : z = 0 /\ z + 1 = 1 /\ k - z = k
  OBVIOUS
<1>3. PICK a \in Seq(Mensaje) : a = SubSeq(h, z + 1, k) /\ Len(a) = k - z
                                /\ \A j \in 1 .. (k - z) : a[j] = h[j + z]
  BY TramoPuntos, Zenon
<1>4. PICK x \in Seq(Mensaje) : x = SubSeq(h, k + 1, n) /\ Len(x) = n - k
                                /\ \A j \in 1 .. (n - k) : x[j] = h[j + k]
  BY <1>1, TramoPuntos, Zenon
<1>5. PICK c \in Seq(Mensaje) : c = a \o x
  BY ConcatTipo, Zenon
<1>6. Len(a) = k /\ n - k \in Nat /\ k + (n - k) = n
  BY <1>1, <1>2, <1>3
<1>7. /\ Len(c) = n
      /\ \A i \in 1 .. k : c[i] = a[i]
      /\ \A i \in 1 .. (n - k) : c[i + k] = x[i]
      /\ \A i \in 1 .. n : i \in 1 .. k \/ \E j \in 1 .. (n - k) : i = j + k
  <2>1. Len(a) = k /\ Len(x) = n - k /\ Len(a) + Len(x) = n
    BY <1>4, <1>6, Zenon
  <2>2. /\ Len(a \o x) = Len(a) + Len(x)
        /\ \A i \in 1 .. Len(a) : (a \o x)[i] = a[i]
        /\ \A i \in 1 .. Len(x) : (a \o x)[i + Len(a)] = x[i]
        /\ \A i \in 1 .. (Len(a) + Len(x)) :
              i \in 1 .. Len(a) \/ \E j \in 1 .. Len(x) : i = j + Len(a)
    BY ConcatPuntos, Zenon
  <2> QED BY <1>5, <2>1, <2>2, Zenon
<1>8. ASSUME NEW i \in 1 .. n PROVE c[i] = h[i]
  <2>1. CASE i \in 1 .. k
    <3>1. i + z = i
      BY <1>2
    <3> QED BY <1>2, <1>3, <1>7, <2>1, <3>1, ZenonT(30)
  <2>2. CASE \E j \in 1 .. (n - k) : i = j + k
    BY <1>4, <1>7, <2>2, ZenonT(30)
  <2> QED BY <1>7, <2>1, <2>2, Zenon
<1>9. c = h
  BY <1>1, <1>7, <1>8, SeqEqual, Zenon
<1> QED BY <1>2, <1>3, <1>5, <1>9, Zenon

(* What the table has is a prefix of what the server has.                  *)
LEMMA TablaPrefijo ==
    ASSUME NEW h \in Seq(Mensaje), NEW t \in Seq(Mensaje), NEW k \in 0 .. Len(h), Sigue(t, h, k)
    PROVE  EsPrefijo(Distintos(t), Distintos(h))
<1>1. PICK a \in Seq(Mensaje), x \in Seq(Mensaje) : a = SubSeq(h, 1, k) /\ h = a \o x
  BY PartirTramo, Zenon
<1> QED BY <1>1, DistintosCrece, Zenon DEF Sigue

(* The chat implements the mailbox it promises, for every interleaving of  *)
(* polls, losses, pauses and ends of the process: the ids that the phone   *)
(* has are always a prefix of those the server accepted, and only grow.    *)
THEOREM ChatImplementaBuzon == SpecChat => ImplementaBuzon
<1>1. InitChat => BuzonDelChat!Init
  <2> SUFFICES ASSUME InitChat PROVE BuzonDelChat!Init
    OBVIOUS
  <2>1. Distintos(<<>>) = <<>>
    BY VaciaTipo, DistintosEc, Zenon DEF Distintos
  <2>2. historial = <<>> /\ mensajes = <<>>
    BY Zenon DEF InitChat
  <2> QED BY <2>1, <2>2, Zenon DEF BuzonDelChat!Init
<1>2. TypeOKChat /\ TypeOKChat' /\ TablaInv' /\ [NextChat]_varsChat
          => [BuzonDelChat!Next]_(BuzonDelChat!varsBuzon)
  <2> SUFFICES ASSUME TypeOKChat, TypeOKChat', TablaInv', [NextChat]_varsChat
               PROVE  [BuzonDelChat!Next]_(BuzonDelChat!varsBuzon)
    OBVIOUS
  <2>1. PICK h \in Seq(Mensaje), t \in Seq(Mensaje) : h = historial' /\ t = mensajes'
    BY Zenon DEF TypeOKChat
  <2>2. historial \in Seq(Mensaje) /\ mensajes \in Seq(Mensaje)
    BY Zenon DEF TypeOKChat
  <2>3. EsPrefijo(Distintos(t), Distintos(h))
    <3>1. PICK k \in 0 .. Len(h) : Sigue(t, h, k)
      <4>1. \E k \in 0 .. Len(historial') : Sigue(mensajes', historial', k)
        BY Zenon DEF TablaInv, Sigue, Creciente
      <4> QED BY <2>1, <4>1, Zenon
    <3> QED BY <3>1, TablaPrefijo, Zenon
  <2>4. CASE t = mensajes /\ \E x \in Seq(Mensaje) : h = historial \o x
    <3>1. EsPrefijo(Distintos(historial), Distintos(h))
      BY <2>2, <2>4, DistintosCrece, Zenon
    <3> QED BY <2>1, <2>4, <3>1, Zenon
            DEF BuzonDelChat!Next, BuzonDelChat!Aceptar, BuzonDelChat!varsBuzon,
                BuzonDelChat!EsPrefijo, EsPrefijo
  <2>5. CASE h = historial /\ \E q \in Seq(Mensaje) : t = mensajes \o q
    <3>1. EsPrefijo(Distintos(mensajes), Distintos(t))
      BY <2>2, <2>5, DistintosCrece, Zenon
    <3> QED BY <2>1, <2>3, <2>5, <3>1, Zenon
            DEF BuzonDelChat!Next, BuzonDelChat!Recibir, BuzonDelChat!varsBuzon,
                BuzonDelChat!EsPrefijo, EsPrefijo
  <2> QED BY <2>1, <2>4, <2>5, PasoCrece, Zenon
<1> QED BY <1>1, <1>2, TiposDelChat, TablaSiempre, PTL DEF SpecChat, ImplementaBuzon, BuzonDelChat!Spec
=============================================================================
