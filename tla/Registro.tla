------------------------------ MODULE Registro ------------------------------
(***************************************************************************)
(* What gravaArquivoAtomico (storage.go) promises to whoever calls it: a    *)
(* file with one whole content.  A write takes effect at one point or not   *)
(* at all; who is told "ok" had its content in the file, who is told "erro" *)
(* changed nothing, and who dies in the middle did one or the other.        *)
(***************************************************************************)
CONSTANTS Escritor, Conteudo, Inicial

VARIABLES
  valor,   \* the content of the file
  fase,    \* "fora" or "gravando", for each writer
  dado,    \* what each writer writes, Inicial when it does not
  res      \* what each writer was told: "nada", "ok", "erro"

vars == <<valor, fase, dado, res>>

Init ==
  /\ valor = Inicial
  /\ fase = [w \in Escritor |-> "fora"]
  /\ dado = [w \in Escritor |-> Inicial]
  /\ res = [w \in Escritor |-> "nada"]

Comeca(w, c) ==
  /\ fase[w] = "fora"
  /\ fase' = [fase EXCEPT ![w] = "gravando"]
  /\ dado' = [dado EXCEPT ![w] = c]
  /\ res' = [res EXCEPT ![w] = "nada"]
  /\ UNCHANGED valor

Responde(w, r) ==
  /\ fase[w] = "gravando"
  /\ fase' = [fase EXCEPT ![w] = "fora"]
  /\ dado' = [dado EXCEPT ![w] = Inicial]
  /\ res' = [res EXCEPT ![w] = r]

Grava(w) == Responde(w, "ok") /\ valor' = dado[w]

Falha(w) == Responde(w, "erro") /\ UNCHANGED valor

\* The writers of ws let go of their writes: they died before them, or have used the answer.
Larga(ws) ==
  /\ fase' = [w \in Escritor |-> IF w \in ws THEN "fora" ELSE fase[w]]
  /\ dado' = [w \in Escritor |-> IF w \in ws THEN Inicial ELSE dado[w]]
  /\ res' = [w \in Escritor |-> IF w \in ws THEN "nada" ELSE res[w]]
  /\ UNCHANGED valor

Next ==
  \/ \E w \in Escritor :
       Grava(w) \/ Falha(w) \/ Larga({w}) \/ \E c \in Conteudo : Comeca(w, c)
  \/ Larga(Escritor)

Spec == Init /\ [][Next]_vars
=============================================================================
