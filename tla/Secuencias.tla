----------------------------- MODULE Secuencias -----------------------------
(* Operators on sequences that several modules use.                        *)
EXTENDS Naturals, Sequences

EsPrefijo(s, t) == Len(s) <= Len(t) /\ s = SubSeq(t, 1, Len(s))

Contiene(s, x) == \E i \in DOMAIN s : s[i] = x

AgregarSi(s, x, T) == IF x \in T THEN Append(s, x) ELSE s

(* The elements of a sequence that are in a set, in their order: a loop    *)
(* that copies them one by one.                                            *)
Elegir(s, T) ==
    LET hasta[i \in 0 .. Len(s)] ==
            IF i = 0 THEN <<>> ELSE AgregarSi(hasta[i - 1], s[i], T)
    IN  hasta[Len(s)]
=============================================================================
