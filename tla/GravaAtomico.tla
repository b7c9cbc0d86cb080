---------------------------- MODULE GravaAtomico ----------------------------
(***************************************************************************)
(* gravaArquivoAtomico (storage.go), step by step, by processes that write  *)
(* the same file at the same time: a temporary file is created, written,    *)
(* synchronised and closed, and then takes the place of the target.  Any    *)
(* step may fail, a process may be killed between two of them, and the      *)
(* machine may lose power.                                                  *)
(*                                                                          *)
(* External: NTFS.  A file that was not synchronised is garbage after a     *)
(* power loss; MoveFileEx with MOVEFILE_REPLACE_EXISTING is one step, and   *)
(* fails when somebody has the target open, for the Go runtime opens files  *)
(* without FILE_SHARE_DELETE.                                               *)
(***************************************************************************)
CONSTANTS Escritor, Conteudo, Inicial, Rasgado

ASSUME ConteudoAssumption == Inicial \in Conteudo /\ Rasgado \notin Conteudo

VARIABLES
  alvo,      \* the content of the target
  alvoFirme, \* "sim" when it would survive a power loss
  passo,     \* the next step of each writer, "fora" when it is not writing
  dado,      \* what it writes, Inicial when it does not
  tmpFirme,  \* "sim" when its temporary file would survive a power loss
  lendo,     \* the processes that have the target open
  res        \* what gravaArquivoAtomico returned

arquivo == <<alvo, alvoFirme>>
vars == <<arquivo, passo, dado, tmpFirme, lendo, res>>

Init ==
  /\ alvo = Inicial /\ alvoFirme = "sim"
  /\ passo = [w \in Escritor |-> "fora"]
  /\ dado = [w \in Escritor |-> Inicial]
  /\ tmpFirme = [w \in Escritor |-> "nao"]
  /\ lendo = {}
  /\ res = [w \in Escritor |-> "nada"]

\* The call.
Comeca(w, c) ==
  /\ passo[w] = "fora" /\ w \notin lendo
  /\ passo' = [passo EXCEPT ![w] = "cria"]
  /\ dado' = [dado EXCEPT ![w] = c]
  /\ res' = [res EXCEPT ![w] = "nada"]
  /\ UNCHANGED <<arquivo, tmpFirme, lendo>>

Volta(w, r) ==
  /\ passo' = [passo EXCEPT ![w] = "fora"]
  /\ dado' = [dado EXCEPT ![w] = Inicial]
  /\ tmpFirme' = [tmpFirme EXCEPT ![w] = "nao"]
  /\ res' = [res EXCEPT ![w] = r]

Segue(w, de, para) ==
  /\ passo[w] = de
  /\ passo' = [passo EXCEPT ![w] = para]
  /\ UNCHANGED <<arquivo, dado, lendo, res>>

\* MkdirAll and CreateTemp: with no file yet, a failure returns.
Cria(w) ==
  \/ Segue(w, "cria", "chmod") /\ UNCHANGED tmpFirme
  \/ passo[w] = "cria" /\ Volta(w, "erro") /\ UNCHANGED <<arquivo, lendo>>

\* A step on the temporary file; when it fails the file is closed and removed.
Tenta(w, de, para) ==
  \/ Segue(w, de, para) /\ UNCHANGED tmpFirme
  \/ Segue(w, de, "remove") /\ UNCHANGED tmpFirme

Escreve(w) == Tenta(w, "chmod", "escreve") \/ Tenta(w, "escreve", "sincroniza")

\* The file goes to its place without having been synchronised.
Sincroniza_defeito(w) == Tenta(w, "sincroniza", "fecha")

Sincroniza(w) ==
  \/ /\ Segue(w, "sincroniza", "fecha")
     /\ tmpFirme' = [tmpFirme EXCEPT ![w] = "sim"]
  \/ Segue(w, "sincroniza", "remove") /\ UNCHANGED tmpFirme

Fecha(w) == Tenta(w, "fecha", "move")

\* MoveFileEx.
Move(w) ==
  \/ /\ passo[w] = "move" /\ lendo = {}
     /\ alvo' = dado[w] /\ alvoFirme' = tmpFirme[w]
     /\ Volta(w, "ok")
     /\ UNCHANGED lendo
  \/ Segue(w, "move", "remove") /\ UNCHANGED tmpFirme

\* The deferred Remove, whose own failure nobody hears of.
Remove(w) == passo[w] = "remove" /\ Volta(w, "erro") /\ UNCHANGED <<arquivo, lendo>>

\* The caller has used the answer.
Esquece(w) ==
  /\ passo[w] = "fora"
  /\ res' = [res EXCEPT ![w] = "nada"]
  /\ UNCHANGED <<arquivo, passo, dado, tmpFirme, lendo>>

\* A process that opens the target, and closes it when it has read it.
AbreParaLer(w) ==
  /\ passo[w] = "fora" /\ w \notin lendo
  /\ lendo' = lendo \cup {w}
  /\ UNCHANGED <<arquivo, passo, dado, tmpFirme, res>>

FechaLido(w) ==
  /\ w \in lendo
  /\ lendo' = lendo \ {w}
  /\ UNCHANGED <<arquivo, passo, dado, tmpFirme, res>>

\* The processes of ws end where they are; a temporary file they had stays behind, and nothing
\* ever looks at it again.
Morrem(ws) ==
  /\ passo' = [w \in Escritor |-> IF w \in ws THEN "fora" ELSE passo[w]]
  /\ res' = [w \in Escritor |-> IF w \in ws THEN "nada" ELSE res[w]]
  /\ dado' = [w \in Escritor |-> IF w \in ws THEN Inicial ELSE dado[w]]
  /\ tmpFirme' = [w \in Escritor |-> IF w \in ws THEN "nao" ELSE tmpFirme[w]]
  /\ lendo' = lendo \ ws

Cai(w) == Morrem({w}) /\ UNCHANGED arquivo

FaltaLuz ==
  /\ Morrem(Escritor)
  /\ alvo' = IF alvoFirme = "sim" THEN alvo ELSE Rasgado
  /\ alvoFirme' = "sim"

Passo(w) == Cria(w) \/ Escreve(w) \/ Sincroniza(w) \/ Fecha(w) \/ Move(w) \/ Remove(w)

Next ==
  \/ \E w \in Escritor :
       \/ \E c \in Conteudo : Comeca(w, c)
       \/ Passo(w) \/ Esquece(w) \/ AbreParaLer(w) \/ FechaLido(w) \/ Cai(w)
  \/ FaltaLuz

Spec == Init /\ [][Next]_vars

----------------------------------------------------------------------------
TypeOK ==
  /\ alvo \in Conteudo \cup {Rasgado} /\ alvoFirme \in {"sim", "nao"}
  /\ passo \in [Escritor -> {"fora", "cria", "chmod", "escreve", "sincroniza", "fecha", "move",
                             "remove"}]
  /\ dado \in [Escritor -> Conteudo]
  /\ tmpFirme \in [Escritor -> {"sim", "nao"}]
  /\ lendo \subseteq Escritor
  /\ res \in [Escritor -> {"nada", "ok", "erro"}]

Fase == [w \in Escritor |-> IF passo[w] = "fora" THEN "fora" ELSE "gravando"]

R == INSTANCE Registro WITH valor <- alvo, fase <- Fase

\* Whatever fails, dies or loses power and in whatever order the writers take their steps, the
\* file is a register of whole contents: a write happens at one point, is told as it happened,
\* or does not happen (storage.go:29-73).
ImplementaRegistro == R!Spec
=============================================================================
