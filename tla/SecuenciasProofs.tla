-------------------------- MODULE SecuenciasProofs --------------------------
(***************************************************************************)
(* Induction on numbers and on sequences, stated with a set in the place   *)
(* of a predicate, and what the operators of module Secuencias compute.    *)
(***************************************************************************)
EXTENDS Secuencias, SequenceTheorems, WellFoundedInduction, TLAPS

(* Induction up to a bound, on a set of numbers: its least missing one     *)
(* would have no predecessor.                                              *)
LEMMA Induccion ==
    ASSUME NEW n \in Nat, NEW P, 0 \in P, \A i \in 1 .. n : i - 1 \in P => i \in P
    PROVE  \A i \in 0 .. n : i \in P
<1> DEFINE T == {i \in Nat : i <= n /\ i \notin P}
<1>1. SUFFICES ASSUME T # {} PROVE FALSE
  OBVIOUS
<1>2. \E m \in T : \A y \in T : ~(<<y, m>> \in OpToRel(<, Nat))
  BY <1>1, NatLessThanWellFounded, WFMin
<1>3. PICK m \in T : \A y \in T : ~(y < m)
  BY <1>2, Zenon DEF OpToRel
<1>4. m # 0 /\ m \in 1 .. n /\ m - 1 \in Nat
  BY <1>3
<1>5. m - 1 \in P
  BY <1>3, <1>4
<1> QED BY <1>3, <1>4, <1>5

(* Induction on sequences, on a set of them.                               *)
LEMMA InduccionSeq ==
    ASSUME NEW S, NEW P, <<>> \in P,
           \A s \in Seq(S), e \in S : s \in P => Append(s, e) \in P
    PROVE  \A s \in Seq(S) : s \in P
<1>1. SUFFICES ASSUME NEW n \in Nat
               PROVE  \A s \in Seq(S) : Len(s) = n => s \in P
  OBVIOUS
<1> DEFINE Q == {k \in 0 .. n : \A s \in Seq(S) : Len(s) = k => s \in P}
<1>2. 0 \in Q
  <2>1. \A s \in Seq(S) : Len(s) = 0 => s = <<>>
    BY EmptySeq
  <2> QED BY <2>1
<1>3. ASSUME NEW k \in 1 .. n, k - 1 \in Q PROVE k \in Q
  <2>1. SUFFICES ASSUME NEW s \in Seq(S), Len(s) = k PROVE s \in P
    OBVIOUS
  <2>2. s # <<>>
    BY <2>1
  <2>3. PICK r \in Seq(S), e \in S : s = Append(r, e)
    BY <2>2, SequenceEmptyOrAppend
  <2>4. Len(r) = k - 1
    BY <2>1, <2>3
  <2> QED BY <1>3, <2>3, <2>4
<1> HIDE DEF Q
<1>4. n \in Q
  BY <1>2, <1>3, Induccion
<1> QED BY <1>4 DEF Q

(* The values of a loop of n rounds that starts at b: the ones a recursive *)
(* function on 0 .. n takes, which therefore exists.                       *)
Vueltas(g, n, b, h) == g[0] = b /\ \A i \in 1 .. n : g[i] = h[<<g[i - 1], i>>]

LEMMA HayVueltas ==
    ASSUME NEW n \in Nat, NEW S, NEW b \in S, NEW h \in [S \X (1 .. n) -> S]
    PROVE  \E g \in [0 .. n -> S] : Vueltas(g, n, b, h)
<1> DEFINE P == {m \in 0 .. n : \E g \in [0 .. m -> S] : Vueltas(g, m, b, h)}
<1>1. 0 \in P
  <2> DEFINE k == [i \in 0 .. 0 |-> b]
  <2>1. k \in [0 .. 0 -> S] /\ k[0] = b /\ \A i \in 1 .. 0 : FALSE
    OBVIOUS
  <2> HIDE DEF k
  <2> QED BY <2>1 DEF Vueltas
<1>2. ASSUME NEW m \in 1 .. n, m - 1 \in P PROVE m \in P
  <2>1. PICK g \in [0 .. (m - 1) -> S] : Vueltas(g, m - 1, b, h)
    BY <1>2
  <2> DEFINE k == [i \in 0 .. m |-> IF i = m THEN h[<<g[m - 1], m>>] ELSE g[i]]
  <2>2. g[m - 1] \in S /\ h[<<g[m - 1], m>>] \in S
    BY <2>1
  <2>3. k \in [0 .. m -> S] /\ k[0] = b
    BY <2>1, <2>2 DEF Vueltas
  <2>4. ASSUME NEW i \in 1 .. m PROVE k[i] = h[<<k[i - 1], i>>]
    <3>1. CASE i = m
      <4>1. k[i - 1] = g[m - 1] /\ k[i] = h[<<g[m - 1], m>>]
        BY <3>1
      <4> QED BY <3>1, <4>1
    <3>2. CASE i # m
      <4>1. i \in 1 .. (m - 1) /\ k[i - 1] = g[i - 1] /\ k[i] = g[i]
        BY <3>2
      <4> QED BY <2>1, <4>1 DEF Vueltas
    <3> QED BY <3>1, <3>2
  <2> HIDE DEF k
  <2> QED BY <2>3, <2>4 DEF Vueltas
<1> HIDE DEF P
<1>3. n \in P
  BY <1>1, <1>2, Induccion
<1> QED BY <1>3 DEF P

LEMMA VueltasTipo ==
    ASSUME NEW n \in Nat, NEW S, NEW t, t = [i \in 0 .. n |-> t[i]], t[0] \in S,
           \A i \in 1 .. n : t[i - 1] \in S => t[i] \in S
    PROVE  t \in [0 .. n -> S]
<1> DEFINE P == {i \in 0 .. n : t[i] \in S}
<1>1. 0 \in P
  OBVIOUS
<1>2. \A i \in 1 .. n : i - 1 \in P => i \in P
  OBVIOUS
<1>3. \A i \in 0 .. n : i \in P
  <2> HIDE DEF P
  <2> QED BY <1>1, <1>2, Induccion
<1> QED BY <1>3

-----------------------------------------------------------------------------
(* Prefixes.                                                               *)
LEMMA PrefijoPuntos ==
    ASSUME NEW S, NEW l \in Seq(S), NEW d \in Seq(S)
    PROVE  EsPrefijo(l, d) <=> /\ Len(l) <= Len(d)
                               /\ \A i \in 1 .. Len(l) : l[i] = d[i]
<1>1. SUFFICES ASSUME Len(l) <= Len(d)
               PROVE  l = SubSeq(d, 1, Len(l)) <=> \A i \in 1 .. Len(l) : l[i] = d[i]
  BY Zenon DEF EsPrefijo
<1>2. PICK n \in Nat, m \in Nat : n = Len(l) /\ m = Len(d) /\ n <= m
  BY <1>1
<1>3. \A i \in 1 .. n : d[i] \in S
  BY <1>2
<1>4. PICK t \in Seq(S) : t = SubSeq(d, 1, n) /\ Len(t) = n /\ \A i \in 1 .. n : t[i] = d[i]
  <2>1. /\ SubSeq(d, 1, n) \in Seq(S)
        /\ Len(SubSeq(d, 1, n)) = IF 1 <= n THEN n - 1 + 1 ELSE 0
        /\ \A i \in 1 .. n - 1 + 1 : SubSeq(d, 1, n)[i] = d[1 + i - 1]
    BY <1>3, SubSeqProperties
  <2>2. n - 1 + 1 = n /\ (\A i \in 1 .. n : 1 + i - 1 = i) /\ (~(1 <= n) => n = 0)
    OBVIOUS
  <2> QED BY <2>1, <2>2
<1> QED BY <1>2, <1>4, SeqEqual

LEMMA PrefijoReflexivo ==
    ASSUME NEW S, NEW l \in Seq(S) PROVE EsPrefijo(l, l)
BY PrefijoPuntos

LEMMA PrefijoTransitivo ==
    ASSUME NEW S, NEW l \in Seq(S), NEW d \in Seq(S), NEW e \in Seq(S),
           EsPrefijo(l, d), EsPrefijo(d, e)
    PROVE  EsPrefijo(l, e)
<1>1. Len(l) \in Nat /\ Len(d) \in Nat /\ Len(e) \in Nat
  BY LenProperties
<1>2. Len(l) <= Len(d) /\ \A i \in 1 .. Len(l) : l[i] = d[i]
  BY PrefijoPuntos
<1>3. Len(d) <= Len(e) /\ \A i \in 1 .. Len(d) : d[i] = e[i]
  BY PrefijoPuntos
<1>4. Len(l) <= Len(e) /\ \A i \in 1 .. Len(l) : l[i] = e[i]
  BY <1>1, <1>2, <1>3
<1> QED BY <1>4, PrefijoPuntos

-----------------------------------------------------------------------------
(* Concatenations.                                                         *)
LEMMA ConcatLugares ==
    ASSUME NEW S, NEW s \in Seq(S), NEW t \in Seq(S)
    PROVE  /\ s \o t \in Seq(S)
           /\ Len(s \o t) = Len(s) + Len(t)
           /\ \A i \in 1 .. Len(s) : (s \o t)[i] = s[i]
           /\ \A i \in 1 .. Len(t) : (s \o t)[i + Len(s)] = t[i]
           /\ \A i \in 1 .. (Len(s) + Len(t)) :
                 i \in 1 .. Len(s) \/ \E j \in 1 .. Len(t) : i = j + Len(s)
<1>1. PICK n \in Nat, m \in Nat : n = Len(s) /\ m = Len(t)
  BY LenProperties
<1>2. PICK u : u = s \o t
  BY Zenon
<1>3. /\ u \in Seq(S) /\ Len(u) = n + m
      /\ \A i \in 1 .. n + m : u[i] = IF i <= n THEN s[i] ELSE t[i - n]
  BY <1>1, <1>2, ConcatProperties
<1>4. \A i \in 1 .. n : u[i] = s[i]
  BY <1>3
<1>5. ASSUME NEW i \in 1 .. m PROVE u[i + n] = t[i]
  <2>1. i + n \in 1 .. n + m /\ ~(i + n <= n) /\ (i + n) - n = i
    OBVIOUS
  <2> QED BY <1>3, <2>1, Zenon
<1>6. ASSUME NEW i \in 1 .. (n + m) PROVE i \in 1 .. n \/ \E j \in 1 .. m : i = j + n
  <2>1. CASE i <= n
    BY <2>1
  <2>2. CASE i > n
    <3>1. i - n \in 1 .. m /\ i = (i - n) + n
      BY <2>2
    <3> QED BY <3>1
  <2> QED BY <2>1, <2>2
<1> QED BY <1>1, <1>2, <1>3, <1>4, <1>5, <1>6, Zenon

LEMMA ConcatAppend ==
    ASSUME NEW S, NEW s \in Seq(S), NEW t \in Seq(S), NEW e \in S
    PROVE  s \o Append(t, e) = Append(s \o t, e)
<1>1. <<e>> \in Seq(S)
  OBVIOUS
<1>2. s \o (t \o <<e>>) = (s \o t) \o <<e>>
  BY <1>1, ConcatAssociative
<1>3. s \o t \in Seq(S)
  BY ConcatProperties
<1> QED BY <1>2, <1>3, AppendIsConcat, Zenon

LEMMA PartirSeq ==
    ASSUME NEW S, NEW h \in Seq(S), NEW k \in 0 .. Len(h)
    PROVE  \E a \in Seq(S), x \in Seq(S) :
              /\ h = a \o x /\ Len(a) = k
              /\ \A i \in 1 .. k : a[i] = h[i]
<1>1. PICK n \in Nat : n = Len(h) /\ k \in 0 .. n
  BY LenProperties
<1>2. \A i \in 1 .. n : h[i] \in S
  BY <1>1
<1>3. PICK a \in Seq(S) : a = SubSeq(h, 1, k) /\ Len(a) = k /\ \A i \in 1 .. k : a[i] = h[i]
  <2>1. \A i \in 1 .. k : h[i] \in S
    BY <1>1, <1>2
  <2>2. /\ SubSeq(h, 1, k) \in Seq(S)
        /\ Len(SubSeq(h, 1, k)) = IF 1 <= k THEN k - 1 + 1 ELSE 0
        /\ \A i \in 1 .. k - 1 + 1 : SubSeq(h, 1, k)[i] = h[1 + i - 1]
    BY <2>1, SubSeqProperties
  <2>3. k - 1 + 1 = k /\ (\A i \in 1 .. k : 1 + i - 1 = i) /\ (~(1 <= k) => k = 0)
    OBVIOUS
  <2> QED BY <2>2, <2>3
<1>4. PICK x \in Seq(S) : Len(x) = n - k /\ \A i \in 1 .. (n - k) : x[i] = h[i + k]
  <2>1. \A i \in (k + 1) .. n : h[i] \in S
    BY <1>1, <1>2
  <2>2. /\ SubSeq(h, k + 1, n) \in Seq(S)
        /\ Len(SubSeq(h, k + 1, n)) = IF k + 1 <= n THEN n - (k + 1) + 1 ELSE 0
        /\ \A i \in 1 .. n - (k + 1) + 1 : SubSeq(h, k + 1, n)[i] = h[k + 1 + i - 1]
    BY <1>1, <2>1, SubSeqProperties
  <2>3. /\ n - (k + 1) + 1 = n - k /\ (\A i \in 1 .. (n - k) : k + 1 + i - 1 = i + k)
        /\ ~(k + 1 <= n) => n - k = 0
    BY <1>1
  <2> QED BY <2>2, <2>3
<1>5. PICK c \in Seq(S) : c = a \o x
  BY ConcatLugares, Zenon
<1>6. Len(a) = k /\ Len(x) = n - k /\ Len(a) + Len(x) = n
  BY <1>1, <1>3, <1>4
<1>7. /\ Len(c) = n
      /\ \A i \in 1 .. k : c[i] = a[i]
      /\ \A i \in 1 .. (n - k) : c[i + k] = x[i]
      /\ \A i \in 1 .. n : i \in 1 .. k \/ \E j \in 1 .. (n - k) : i = j + k
  <2>1. /\ Len(a \o x) = Len(a) + Len(x)
        /\ \A i \in 1 .. Len(a) : (a \o x)[i] = a[i]
        /\ \A i \in 1 .. Len(x) : (a \o x)[i + Len(a)] = x[i]
        /\ \A i \in 1 .. (Len(a) + Len(x)) :
              i \in 1 .. Len(a) \/ \E j \in 1 .. Len(x) : i = j + Len(a)
    BY ConcatLugares
  <2> QED BY <1>5, <1>6, <2>1, Zenon
<1>8. ASSUME NEW i \in 1 .. n PROVE c[i] = h[i]
  <2>1. CASE i \in 1 .. k
    BY <1>3, <1>7, <2>1, Zenon
  <2>2. ASSUME NEW j \in 1 .. (n - k), i = j + k PROVE c[i] = h[i]
    BY <1>4, <1>7, <2>2, Zenon
  <2> QED BY <1>7, <2>1, <2>2, Zenon
<1>9. c = h
  BY <1>1, <1>7, <1>8, SeqEqual, Zenon
<1> QED BY <1>3, <1>5, <1>9, Zenon

(* Concatenation, under a name that the provers do not look into.          *)
Junta(s, t) == s \o t

LEMMA JuntaTipo ==
    ASSUME NEW S, NEW s \in Seq(S), NEW t \in Seq(S) PROVE Junta(s, t) \in Seq(S)
BY ConcatLugares, Zenon DEF Junta

LEMMA JuntaVacia ==
    ASSUME NEW S, NEW s \in Seq(S) PROVE Junta(s, <<>>) = s /\ Junta(<<>>, s) = s
BY ConcatEmptySeq, Zenon DEF Junta

LEMMA JuntaAppend ==
    ASSUME NEW S, NEW s \in Seq(S), NEW t \in Seq(S), NEW e \in S
    PROVE  Junta(s, Append(t, e)) = Append(Junta(s, t), e)
BY ConcatAppend DEF Junta

LEMMA JuntaAsocia ==
    ASSUME NEW S, NEW s \in Seq(S), NEW t \in Seq(S), NEW u \in Seq(S)
    PROVE  Junta(Junta(s, t), u) = Junta(s, Junta(t, u))
BY ConcatAssociative DEF Junta

LEMMA JuntaCancela ==
    ASSUME NEW S, NEW s \in Seq(S), NEW t \in Seq(S), NEW v \in Seq(S), Junta(s, t) = Junta(s, v)
    PROVE  t = v
BY ConcatSimplifications DEF Junta

(* The elements of a concatenation.                                        *)
LEMMA JuntaContiene ==
    ASSUME NEW S, NEW s \in Seq(S), NEW t \in Seq(S), NEW x
    PROVE  Contiene(Junta(s, t), x) <=> Contiene(s, x) \/ Contiene(t, x)
<1>1. PICK c \in Seq(S), n \in Nat, m \in Nat : c = s \o t /\ n = Len(s) /\ m = Len(t)
  BY ConcatLugares, LenProperties
<1>2. /\ Len(c) = n + m
      /\ \A i \in 1 .. n : c[i] = s[i]
      /\ \A i \in 1 .. m : c[i + n] = t[i]
      /\ \A i \in 1 .. (n + m) : i \in 1 .. n \/ \E j \in 1 .. m : i = j + n
  <2>1. /\ Len(s \o t) = Len(s) + Len(t)
        /\ \A i \in 1 .. Len(s) : (s \o t)[i] = s[i]
        /\ \A i \in 1 .. Len(t) : (s \o t)[i + Len(s)] = t[i]
        /\ \A i \in 1 .. (Len(s) + Len(t)) :
              i \in 1 .. Len(s) \/ \E j \in 1 .. Len(t) : i = j + Len(s)
    BY ConcatLugares
  <2> QED BY <1>1, <2>1, Zenon
<1>3. DOMAIN c = 1 .. (n + m) /\ DOMAIN s = 1 .. n /\ DOMAIN t = 1 .. m
  BY <1>1, <1>2, LenProperties, Zenon
<1>4. /\ \A i \in 1 .. n : i \in 1 .. (n + m)
      /\ \A i \in 1 .. m : i + n \in 1 .. (n + m)
  OBVIOUS
<1>5. Contiene(c, x) <=> Contiene(s, x) \/ Contiene(t, x)
  <2>1. ASSUME NEW i \in 1 .. (n + m), c[i] = x PROVE Contiene(s, x) \/ Contiene(t, x)
    BY <1>2, <1>3, <2>1, Zenon DEF Contiene
  <2>2. ASSUME NEW i \in 1 .. n, s[i] = x PROVE Contiene(c, x)
    BY <1>2, <1>3, <1>4, <2>2, Zenon DEF Contiene
  <2>3. ASSUME NEW i \in 1 .. m, t[i] = x PROVE Contiene(c, x)
    BY <1>2, <1>3, <1>4, <2>3, Zenon DEF Contiene
  <2> QED BY <1>3, <2>1, <2>2, <2>3, Zenon DEF Contiene
<1> QED BY <1>1, <1>5, Zenon DEF Junta

LEMMA PartirJunta ==
    ASSUME NEW S, NEW h \in Seq(S), NEW k \in 0 .. Len(h)
    PROVE  \E a \in Seq(S), x \in Seq(S) :
              h = Junta(a, x) /\ Len(a) = k /\ \A i \in 1 .. k : a[i] = h[i]
BY PartirSeq, Zenon DEF Junta

LEMMA JuntaLugares ==
    ASSUME NEW S, NEW s \in Seq(S), NEW t \in Seq(S)
    PROVE  /\ Len(Junta(s, t)) = Len(s) + Len(t)
           /\ \A i \in 1 .. Len(s) : Junta(s, t)[i] = s[i]
           /\ \A i \in 1 .. Len(t) : Junta(s, t)[i + Len(s)] = t[i]
BY ConcatLugares DEF Junta

(* A sequence cut at two places: the shorter first part begins the other.  *)
LEMMA UnCorte ==
    ASSUME NEW S, NEW x \in Seq(S), NEW y \in Seq(S), NEW z \in Seq(S), NEW w \in Seq(S),
           Junta(x, y) = Junta(z, w), Len(x) \in 0 .. Len(z)
    PROVE  \E c \in Seq(S) : z = Junta(x, c) /\ y = Junta(c, w)
<1>1. PICK a \in Seq(S), c \in Seq(S) : /\ z = Junta(a, c) /\ Len(a) = Len(x)
                                        /\ \A i \in 1 .. Len(x) : a[i] = z[i]
  BY PartirJunta, Zenon
<1>2. \A i \in 1 .. Len(x) : i \in 1 .. Len(z)
  OBVIOUS
<1>3. \A i \in 1 .. Len(x) : x[i] = Junta(x, y)[i]
  BY JuntaLugares
<1>4. \A i \in 1 .. Len(z) : z[i] = Junta(z, w)[i]
  BY JuntaLugares
<1>5. \A i \in 1 .. Len(x) : a[i] = x[i]
  BY <1>1, <1>2, <1>3, <1>4, Zenon
<1>6. a = x
  BY <1>1, <1>5, SeqEqual
<1>7. Junta(x, y) = Junta(x, Junta(c, w)) /\ Junta(c, w) \in Seq(S)
  BY <1>1, <1>6, JuntaAsocia, JuntaTipo
<1>8. y = Junta(c, w)
  BY <1>7, JuntaCancela
<1> QED BY <1>1, <1>6, <1>8, Zenon

(* Of two first parts b and n, before r and q, one begins the other.       *)
Solapan(S, b, r, n, q) ==
    \/ \E c \in Seq(S) : n = Junta(b, c) /\ r = Junta(c, q)
    \/ \E c \in Seq(S) : b = Junta(n, c)

LEMMA DosCortes ==
    ASSUME NEW S, NEW b \in Seq(S), NEW r \in Seq(S), NEW n \in Seq(S), NEW q \in Seq(S),
           Junta(b, r) = Junta(n, q)
    PROVE  Solapan(S, b, r, n, q)
<1>1. Len(b) \in 0 .. Len(n) \/ Len(n) \in 0 .. Len(b)
  BY LenProperties
<1>2. CASE Len(b) \in 0 .. Len(n)
  <2>1. \E c \in Seq(S) : n = Junta(b, c) /\ r = Junta(c, q)
    BY <1>2, UnCorte
  <2> QED BY <2>1, Zenon DEF Solapan
<1>3. CASE Len(n) \in 0 .. Len(b)
  <2>1. Junta(n, q) = Junta(b, r)
    BY Zenon
  <2>2. \E c \in Seq(S) : b = Junta(n, c) /\ q = Junta(c, r)
    BY <1>3, <2>1, UnCorte
  <2> QED BY <2>2, Zenon DEF Solapan
<1> QED BY <1>1, <1>2, <1>3, Zenon

-----------------------------------------------------------------------------
(* Elegir.                                                                 *)
LEMMA AppendLugares ==
    ASSUME NEW S, NEW s \in Seq(S), NEW m \in S
    PROVE  /\ Append(s, m) \in Seq(S)
           /\ Len(Append(s, m)) = Len(s) + 1
           /\ \A i \in 1 .. Len(s) : Append(s, m)[i] = s[i]
           /\ Append(s, m)[Len(s) + 1] = m
           /\ Len(s) \in Nat
BY AppendProperties, LenProperties

LEMMA SiTipo ==
    ASSUME NEW S, NEW q \in Seq(S), NEW x \in S, NEW T
    PROVE  AgregarSi(q, x, T) \in Seq(S)
BY DEF AgregarSi

LEMMA ElegirVueltas ==
    ASSUME NEW C, NEW T, NEW s \in Seq(C)
    PROVE  \E g \in [0 .. Len(s) -> Seq(C)] :
              /\ g[0] = <<>>
              /\ \A i \in 1 .. Len(s) : g[i] = AgregarSi(g[i - 1], s[i], T)
              /\ g[Len(s)] = Elegir(s, T)
<1> DEFINE Ec(g) == g = [i \in 0 .. Len(s) |->
                            IF i = 0 THEN <<>> ELSE AgregarSi(g[i - 1], s[i], T)]
<1> DEFINE t == CHOOSE f : Ec(f)
<1>1. Elegir(s, T) = t[Len(s)]
  BY Zenon DEF Elegir
<1>2. PICK n \in Nat : n = Len(s)
  OBVIOUS
<1>3. PICK S : S = Seq(C)
  BY Zenon
<1>4. PICK b \in S : b = <<>>
  BY <1>3, EmptySeq, Zenon
<1>5. ASSUME NEW q \in S, NEW i \in 1 .. n PROVE AgregarSi(q, s[i], T) \in S
  BY <1>2, <1>3, ElementOfSeq, SiTipo
<1> DEFINE h == [p \in S \X (1 .. n) |-> AgregarSi(p[1], s[p[2]], T)]
<1>6. h \in [S \X (1 .. n) -> S] /\ \A q \in S, i \in 1 .. n : h[<<q, i>>] = AgregarSi(q, s[i], T)
  BY <1>5
<1> HIDE DEF h
<1>7. PICK g \in [0 .. n -> S] : Vueltas(g, n, b, h)
  BY <1>6, HayVueltas, Zenon
<1>8. ASSUME NEW i \in 1 .. n PROVE g[i] = AgregarSi(g[i - 1], s[i], T)
  <2>1. i - 1 \in 0 .. n
    OBVIOUS
  <2>2. g[i - 1] \in S
    BY <2>1, Zenon
  <2> QED BY <1>6, <1>7, <2>2, Zenon DEF Vueltas
<1>9. Ec(g)
  BY <1>2, <1>4, <1>7, <1>8 DEF Vueltas
<1>10. Ec(t)
  <2> HIDE DEF Ec
  <2> QED BY <1>9, Zenon
<1> HIDE DEF t
<1>11. t = [i \in 0 .. n |-> IF i = 0 THEN b ELSE AgregarSi(t[i - 1], s[i], T)]
  BY <1>2, <1>4, <1>10, Zenon
<1>12. t[0] = b /\ t = [i \in 0 .. n |-> t[i]]
  BY <1>11
<1>13. ASSUME NEW i \in 1 .. n PROVE t[i] = AgregarSi(t[i - 1], s[i], T)
  <2>1. i \in 0 .. n /\ i # 0
    OBVIOUS
  <2> QED BY <1>11, <2>1, Zenon
<1>14. t \in [0 .. n -> S]
  <2>1. \A i \in 1 .. n : t[i - 1] \in S => t[i] \in S
    BY <1>5, <1>13, Zenon
  <2>2. t[0] \in S /\ t = [i \in 0 .. n |-> t[i]]
    BY <1>4, <1>12, Zenon
  <2> QED BY <2>1, <2>2, VueltasTipo, Zenon
<1> QED BY <1>1, <1>2, <1>3, <1>4, <1>12, <1>13, <1>14, Zenon

LEMMA ElegirUnico ==
    ASSUME NEW C, NEW T, NEW s \in Seq(C), NEW f, f[0] = <<>>,
           \A i \in 1 .. Len(s) : f[i] = AgregarSi(f[i - 1], s[i], T)
    PROVE  f[Len(s)] = Elegir(s, T)
<1>1. PICK g \in [0 .. Len(s) -> Seq(C)] :
          /\ g[0] = <<>>
          /\ \A i \in 1 .. Len(s) : g[i] = AgregarSi(g[i - 1], s[i], T)
          /\ g[Len(s)] = Elegir(s, T)
  BY ElegirVueltas, Zenon
<1>2. PICK n \in Nat : n = Len(s)
  OBVIOUS
<1> DEFINE P == {i \in 0 .. n : f[i] = g[i]}
<1>3. 0 \in P
  BY <1>1
<1>4. ASSUME NEW i \in 1 .. n, i - 1 \in P PROVE i \in P
  <2>1. f[i - 1] = g[i - 1] /\ i \in 1 .. Len(s) /\ i \in 0 .. n
    BY <1>2, <1>4
  <2>2. f[i] = g[i]
    BY <1>1, <2>1, Zenon
  <2> QED BY <2>1, <2>2
<1>5. \A i \in 0 .. n : i \in P
  <2> HIDE DEF P
  <2> QED BY <1>3, <1>4, Induccion
<1> QED BY <1>1, <1>2, <1>5

(* Elegir takes the elements one by one.                                   *)
LEMMA ElegirEc ==
    ASSUME NEW C, NEW T
    PROVE  /\ Elegir(<<>>, T) = <<>>
           /\ \A s \in Seq(C), m \in C : Elegir(Append(s, m), T) = AgregarSi(Elegir(s, T), m, T)
<1>1. Elegir(<<>>, T) = <<>>
  <2>1. PICK s \in Seq(C) : s = <<>> /\ Len(s) = 0
    BY EmptySeq, Zenon
  <2>2. PICK g \in [0 .. Len(s) -> Seq(C)] : g[0] = <<>> /\ g[Len(s)] = Elegir(s, T)
    BY ElegirVueltas, Zenon
  <2> QED BY <2>1, <2>2, Zenon
<1>2. ASSUME NEW s \in Seq(C), NEW m \in C
      PROVE  Elegir(Append(s, m), T) = AgregarSi(Elegir(s, T), m, T)
  <2>1. PICK u \in Seq(C), n \in Nat :
            /\ u = Append(s, m) /\ n = Len(s) /\ Len(u) = n + 1 /\ u[n + 1] = m
            /\ \A i \in 1 .. n : u[i] = s[i]
    <3>1. /\ Append(s, m) \in Seq(C) /\ Len(s) \in Nat
          /\ Len(Append(s, m)) = Len(s) + 1 /\ Append(s, m)[Len(s) + 1] = m
          /\ \A i \in 1 .. Len(s) : Append(s, m)[i] = s[i]
      BY AppendLugares
    <3> QED BY <3>1, Zenon
  <2>2. PICK g \in [0 .. Len(u) -> Seq(C)] :
            /\ g[0] = <<>>
            /\ \A i \in 1 .. Len(u) : g[i] = AgregarSi(g[i - 1], u[i], T)
            /\ g[Len(u)] = Elegir(u, T)
    BY ElegirVueltas, Zenon
  <2>3. (\A i \in 1 .. n : i \in 1 .. (n + 1)) /\ n + 1 \in 1 .. (n + 1) /\ (n + 1) - 1 = n
    OBVIOUS
  <2>4. \A i \in 1 .. Len(s) : g[i] = AgregarSi(g[i - 1], s[i], T)
    BY <2>1, <2>2, <2>3, Zenon
  <2>5. g[n] = Elegir(s, T)
    BY <2>1, <2>2, <2>4, ElegirUnico, Zenon
  <2> QED BY <2>1, <2>2, <2>3, <2>5, Zenon
<1> QED BY <1>1, <1>2, Zenon

LEMMA ElegirTipo ==
    ASSUME NEW C, NEW T, NEW s \in Seq(C)
    PROVE  Elegir(s, T) \in Seq(C)
<1>1. PICK g \in [0 .. Len(s) -> Seq(C)] : g[Len(s)] = Elegir(s, T)
  BY ElegirVueltas, Zenon
<1>2. Len(s) \in 0 .. Len(s)
  OBVIOUS
<1> QED BY <1>1, <1>2, Zenon

LEMMA ContieneAppend ==
    ASSUME NEW C, NEW s \in Seq(C), NEW m \in C, NEW x
    PROVE  Contiene(Append(s, m), x) <=> Contiene(s, x) \/ x = m
<1>1. PICK u \in Seq(C), n \in Nat :
          /\ u = Append(s, m) /\ n = Len(s) /\ Len(u) = n + 1 /\ u[n + 1] = m
          /\ \A i \in 1 .. n : u[i] = s[i]
  <2>1. /\ Append(s, m) \in Seq(C) /\ Len(s) \in Nat
        /\ Len(Append(s, m)) = Len(s) + 1 /\ Append(s, m)[Len(s) + 1] = m
        /\ \A i \in 1 .. Len(s) : Append(s, m)[i] = s[i]
    BY AppendLugares
  <2> QED BY <2>1, Zenon
<1>2. DOMAIN u = 1 .. (n + 1) /\ DOMAIN s = 1 .. n
  BY <1>1, LenProperties
<1>3. \A i : i \in 1 .. (n + 1) <=> i \in 1 .. n \/ i = n + 1
  OBVIOUS
<1> QED BY <1>1, <1>2, <1>3, Zenon DEF Contiene

(* What Elegir returns has the elements that are in the set.               *)
LEMMA ElegirContiene ==
    ASSUME NEW C, NEW T, NEW s \in Seq(C), NEW x
    PROVE  Contiene(Elegir(s, T), x) <=> Contiene(s, x) /\ x \in T
<1> DEFINE P == {u \in Seq(C) : Contiene(Elegir(u, T), x) <=> Contiene(u, x) /\ x \in T}
<1>1. <<>> \in P
  <2>1. <<>> \in Seq(C) /\ ~Contiene(<<>>, x)
    BY DEF Contiene
  <2>2. Elegir(<<>>, T) = <<>>
    BY ElegirEc, Zenon
  <2> QED BY <2>1, <2>2, Zenon
<1>2. ASSUME NEW u \in Seq(C), NEW m \in C, u \in P PROVE Append(u, m) \in P
  <2>1. PICK v \in Seq(C), e \in Seq(C) : v = Append(u, m) /\ e = Elegir(u, T)
    BY AppendProperties, ElegirTipo, Zenon
  <2>2. Elegir(v, T) = AgregarSi(e, m, T)
    BY <2>1, ElegirEc, Zenon
  <2>3. Contiene(v, x) <=> Contiene(u, x) \/ x = m
    BY <2>1, ContieneAppend, Zenon
  <2>4. Contiene(Append(e, m), x) <=> Contiene(e, x) \/ x = m
    BY ContieneAppend, Zenon
  <2>5. Contiene(e, x) <=> Contiene(u, x) /\ x \in T
    BY <1>2, <2>1, Zenon
  <2>6. Contiene(Elegir(v, T), x) <=> Contiene(v, x) /\ x \in T
    <3>1. CASE m \in T
      BY <2>2, <2>3, <2>4, <2>5, <3>1, Zenon DEF AgregarSi
    <3>2. CASE m \notin T
      BY <2>2, <2>3, <2>5, <3>2, Zenon DEF AgregarSi
    <3> QED BY <3>1, <3>2, Zenon
  <2> QED BY <2>1, <2>6, Zenon
<1>3. \A u \in Seq(C) : u \in P
  <2> HIDE DEF P
  <2> QED BY <1>1, <1>2, InduccionSeq, Zenon
<1> QED BY <1>3, Zenon

LEMMA ElegirJunta ==
    ASSUME NEW C, NEW T, NEW s \in Seq(C), NEW t \in Seq(C)
    PROVE  Elegir(Junta(s, t), T) = Junta(Elegir(s, T), Elegir(t, T))
<1>1. PICK e \in Seq(C) : e = Elegir(s, T)
  BY ElegirTipo, Zenon
<1> DEFINE P == {u \in Seq(C) : Elegir(Junta(s, u), T) = Junta(e, Elegir(u, T))}
<1>2. <<>> \in P
  <2>1. <<>> \in Seq(C) /\ Junta(s, <<>>) = s /\ Junta(e, <<>>) = e
    BY EmptySeq, JuntaVacia, Zenon
  <2>2. Elegir(<<>>, T) = <<>>
    BY ElegirEc, Zenon
  <2> QED BY <1>1, <2>1, <2>2, Zenon
<1>3. ASSUME NEW u \in Seq(C), NEW m \in C, u \in P PROVE Append(u, m) \in P
  <2>1. Append(u, m) \in Seq(C)
    BY AppendProperties, Zenon
  <2>2. PICK f \in Seq(C), j \in Seq(C) : f = Elegir(u, T) /\ j = Junta(s, u)
    BY ElegirTipo, JuntaTipo
  <2>3. Junta(s, Append(u, m)) = Append(j, m)
    <3>1. Junta(s, Append(u, m)) = Append(Junta(s, u), m)
      BY JuntaAppend, SMT
    <3> QED BY <2>2, <3>1, Zenon
  <2>4. Elegir(Append(j, m), T) = AgregarSi(Elegir(j, T), m, T)
    BY ElegirEc, Zenon
  <2>5. Elegir(Append(u, m), T) = AgregarSi(f, m, T)
    BY <2>2, ElegirEc, Zenon
  <2>6. Elegir(j, T) = Junta(e, f)
    BY <1>3, <2>2, Zenon
  <2>7. Junta(e, Append(f, m)) = Append(Junta(e, f), m)
    BY JuntaAppend
  <2>8. Elegir(Junta(s, Append(u, m)), T) = Junta(e, Elegir(Append(u, m), T))
    BY <2>3, <2>4, <2>5, <2>6, <2>7, Zenon DEF AgregarSi
  <2> QED BY <2>1, <2>8, Zenon
<1>4. \A u \in Seq(C) : u \in P
  <2> HIDE DEF P
  <2> QED BY <1>2, <1>3, InduccionSeq, Zenon
<1> QED BY <1>1, <1>4, Zenon

(* Elegir with all, or none, of the elements in the set.                   *)
LEMMA ElegirTodo ==
    ASSUME NEW C, NEW T, NEW s \in Seq(C)
    PROVE  /\ (\A x : Contiene(s, x) => x \in T) => Elegir(s, T) = s
           /\ (\A x : Contiene(s, x) => x \notin T) => Elegir(s, T) = <<>>
<1> DEFINE P == {u \in Seq(C) : /\ (\A x : Contiene(u, x) => x \in T) => Elegir(u, T) = u
                                /\ (\A x : Contiene(u, x) => x \notin T) => Elegir(u, T) = <<>>}
<1>1. <<>> \in P
  BY EmptySeq, ElegirEc, Zenon
<1>2. ASSUME NEW u \in Seq(C), NEW m \in C, u \in P PROVE Append(u, m) \in P
  <2>1. Append(u, m) \in Seq(C)
    BY AppendProperties, Zenon
  <2>2. Elegir(Append(u, m), T) = AgregarSi(Elegir(u, T), m, T)
    BY ElegirEc, Zenon
  <2>3. \A x : Contiene(Append(u, m), x) <=> Contiene(u, x) \/ x = m
    BY ContieneAppend, Zenon
  <2> QED BY <1>2, <2>1, <2>2, <2>3, Zenon DEF AgregarSi
<1>3. \A u \in Seq(C) : u \in P
  <2> HIDE DEF P
  <2> QED BY <1>1, <1>2, InduccionSeq, Zenon
<1> QED BY <1>3, Zenon
=============================================================================
