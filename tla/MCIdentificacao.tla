-------------------------- MODULE MCIdentificacao --------------------------
(* Small values for Identificacao: every unfiltered list of up to two       *)
(* candidates, every body of up to three with distinct ids, and bodies that *)
(* are empty, repeat an id or miss one.                                     *)
EXTENDS Identificacao, SequencesExt

CONSTANTS i1, i2, i3, invalido

MCListas == BoundedSeq(Classes, 2)
MCId == {i1, i2, i3, invalido}

Ordem == <<i1, i2, i3>>
Corpo(l) == [k \in DOMAIN l |-> [id |-> Ordem[k], classe |-> l[k]]]
Repete(x, y) == <<[id |-> x, classe |-> "difere"], [id |-> y, classe |-> "confere"]>>
MCCorpos == {Corpo(l) : l \in BoundedSeq(Classes, 3)} \cup {Repete(i1, i1), Repete(i1, invalido)}
=============================================================================
