-------------------------- MODULE ArquivoRotativo --------------------------
(***************************************************************************)
(* The log file (log.go) of processes that share a data directory: two      *)
(* sessions of one user, or a worker started while the one killed before it *)
(* is still ending.  Sizes are counted in lines.                            *)
(*                                                                          *)
(* External: the Go runtime opens files without FILE_SHARE_DELETE, so a     *)
(* file some process of the agent has open cannot be renamed; a rename may  *)
(* also fail for reasons of its own (a viewer, an antivirus, an ACL).       *)
(***************************************************************************)
EXTENDS Naturals, FiniteSets

CONSTANTS
  Processo,
  Limite,  \* limiteLog
  MaxTam   \* bound: lines in the file

ASSUME LimiteAssumption == Limite \in Nat \ {0} /\ MaxTam \in Nat

VARIABLES
  arq,    \* the *os.File of each process: "nao" (the logger discards), "aberto",
          \* "fechado" (rotating), "nulo" (a rotation could not open it again)
  etapa,  \* what the process is doing about it: "livre", "move", "abre"
  n,      \* arquivoRotativo.n
  tam,    \* lines in the file
  estorvo \* history: since the file was last moved away, a rename of it failed, its size could
          \* not be read, or a process opened it while another was using it

log == <<arq, etapa, n, tam, estorvo>>

InitLog ==
  /\ arq = [p \in Processo |-> "nao"] /\ etapa = [p \in Processo |-> "livre"]
  /\ n = [p \in Processo |-> 0] /\ tam = 0 /\ estorvo = "nao"

Vai(p, e) == etapa' = [etapa EXCEPT ![p] = e]

\* iniciaLogEm until it opens the file, which stays where it is when Stat fails.
IniciaLog(p) ==
  /\ arq[p] = "nao" /\ etapa[p] = "livre"
  /\ Vai(p, "abre") \/ (tam > Limite /\ Vai(p, "move"))
  /\ UNCHANGED <<arq, n, tam, estorvo>>

\* os.Remove of the .1 and os.Rename.  Their errors are ignored, and what could not be moved
\* keeps growing.
Renomeia(p) ==
  /\ etapa[p] = "move" /\ Vai(p, "abre")
  /\ \/ (\A q \in Processo : arq[q] # "aberto") /\ tam' = 0 /\ estorvo' = "nao"
     \/ estorvo' = "sim" /\ UNCHANGED tam
  /\ UNCHANGED <<arq, n>>

EmUso(p) == \E q \in Processo \ {p} : arq[q] \in {"aberto", "fechado"}

\* A log reopened near the limit is taken for an empty one.
AbreLog_defeito(p) ==
  /\ etapa[p] = "abre" /\ Vai(p, "livre")
  /\ \/ /\ arq' = [arq EXCEPT ![p] = "aberto"]
        /\ estorvo' = IF EmUso(p) THEN "sim" ELSE estorvo
        /\ IF arq[p] = "nao" THEN n' = [n EXCEPT ![p] = 0] /\ UNCHANGED tam
           ELSE \E k \in {0, 1} : n' = [n EXCEPT ![p] = k] /\ tam' = tam + k
     \/ /\ arq' = [arq EXCEPT ![p] = IF arq[p] = "nao" THEN "nao" ELSE "nulo"]
        /\ n' = [n EXCEPT ![p] = 0]
        /\ UNCHANGED <<tam, estorvo>>

\* os.OpenFile.  At the start n is the size found, or zero when Stat fails; after a rotation the
\* line that called for it follows, unless its write fails.  A failure to open leaves the logger
\* discarding.
AbreLog(p) ==
  /\ etapa[p] = "abre" /\ Vai(p, "livre")
  /\ \/ /\ arq' = [arq EXCEPT ![p] = "aberto"]
        /\ estorvo' = IF EmUso(p) THEN "sim" ELSE estorvo
        /\ IF arq[p] = "nao" THEN n' = [n EXCEPT ![p] = tam] /\ UNCHANGED tam
           ELSE \E k \in {0, 1} : n' = [n EXCEPT ![p] = k] /\ tam' = tam + k
     \/ /\ arq[p] = "nao" /\ arq' = [arq EXCEPT ![p] = "aberto"]
        /\ n' = [n EXCEPT ![p] = 0] /\ estorvo' = "sim" /\ UNCHANGED tam
     \/ /\ arq' = [arq EXCEPT ![p] = IF arq[p] = "nao" THEN "nao" ELSE "nulo"]
        /\ n' = [n EXCEPT ![p] = 0]
        /\ UNCHANGED <<tam, estorvo>>

\* Write, of one line: over the limit, rotaciona closes the file first.  There may be no file,
\* or the write may fail.
Loga(p) ==
  /\ etapa[p] = "livre"
  /\ \/ /\ arq[p] = "aberto" /\ n[p] + 1 > Limite
        /\ arq' = [arq EXCEPT ![p] = "fechado"] /\ Vai(p, "move")
        /\ UNCHANGED <<n, tam, estorvo>>
     \/ /\ arq[p] = "aberto" /\ n[p] + 1 <= Limite
        /\ n' = [n EXCEPT ![p] = @ + 1] /\ tam' = tam + 1
        /\ UNCHANGED <<arq, etapa, estorvo>>
     \/ (arq[p] = "aberto" => n[p] + 1 <= Limite) /\ UNCHANGED log

\* The end of the processes of ps, which closes their files.
MorreLog(ps) ==
  /\ arq' = [p \in Processo |-> IF p \in ps THEN "nao" ELSE arq[p]]
  /\ etapa' = [p \in Processo |-> IF p \in ps THEN "livre" ELSE etapa[p]]
  /\ n' = [p \in Processo |-> IF p \in ps THEN 0 ELSE n[p]]
  /\ UNCHANGED <<tam, estorvo>>

PassoLog(p) == Renomeia(p) \/ AbreLog(p)

\* Bound.
Cabe == tam' <= MaxTam

----------------------------------------------------------------------------
TypeOKLog ==
  /\ arq \in [Processo -> {"nao", "aberto", "fechado", "nulo"}]
  /\ etapa \in [Processo -> {"livre", "move", "abre"}]
  /\ n \in [Processo -> Nat] /\ tam \in Nat
  /\ estorvo \in {"sim", "nao"}

\* The file passes its limit only where, since it was last moved away, a rename of it failed, its
\* size could not be read or a process opened it while another was using it (log.go:15-45,
\* 84-104): one that starts, writes, rotates, fails to open it, dies and starts again by itself
\* never gets there, and a rename that works brings the file back within it, whatever went
\* wrong before.
TetoSemEstorvo == tam > Limite => estorvo = "sim"
=============================================================================
