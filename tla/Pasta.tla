-------------------------------- MODULE Pasta --------------------------------
(***************************************************************************)
(* The data directory of a user with a session on the console and another   *)
(* over RDP: two agents, since the mutex of instanciaUnica is of a session  *)
(* and the directory of a user, that keep the same authorised origins and   *)
(* write the same log.  Each reads the file of origins when it starts,      *)
(* saves its whole memory at every click, and logs what came of it.         *)
(***************************************************************************)
EXTENDS GravaAtomico, ArquivoRotativo

CONSTANT Origem

\* The file of origins, written whole.
ASSUME PastaAssumption == Escritor = Processo /\ Conteudo = SUBSET Origem /\ Inicial = {}

VARIABLES
  fazendo, \* each agent: "morto", "inicia", "livre", "salva", "conta"
  mem,     \* aprovadas
  pedido,  \* the click being saved: an origin approved, "revoga", or "nenhum"
  sabe     \* history: the memory is what the file would be if every save had worked ("sim")

agente == <<fazendo, mem, pedido, sabe>>

InitPasta ==
  /\ Init /\ InitLog
  /\ fazendo = [p \in Processo |-> "morto"]
  /\ mem = [p \in Processo |-> {}]
  /\ pedido = [p \in Processo |-> "nenhum"]
  /\ sabe = [p \in Processo |-> "nao"]

Passa(p, f) == fazendo' = [fazendo EXCEPT ![p] = f]

\* executa: the log, then the origins.
Inicia(p) ==
  /\ fazendo[p] = "morto" /\ Passa(p, "inicia")
  /\ IniciaLog(p)
  /\ UNCHANGED <<vars, mem, pedido, sabe>>

\* A step of iniciaLogEm or of a rotation; the first line follows the start.
Gira(p) ==
  /\ fazendo[p] \in {"inicia", "conta"} /\ PassoLog(p) /\ Cabe
  /\ fazendo' = [fazendo EXCEPT ![p] = IF @ = "conta" /\ etapa'[p] = "livre" THEN "livre" ELSE @]
  /\ UNCHANGED <<vars, mem, pedido, sabe>>

AbreOrigens(p) ==
  /\ fazendo[p] = "inicia" /\ etapa[p] = "livre" /\ AbreParaLer(p)
  /\ UNCHANGED <<log, agente>>

\* The memory starts empty whatever the file has.
Carrega_defeito(p) ==
  /\ fazendo[p] = "inicia" /\ Passa(p, "conta")
  /\ FechaLido(p)
  /\ mem' = [mem EXCEPT ![p] = {}] /\ sabe' = [sabe EXCEPT ![p] = "sim"]
  /\ UNCHANGED <<pedido, log>>

\* carrega: a file that cannot be read is taken for an empty one.
Carrega(p) ==
  /\ fazendo[p] = "inicia" /\ Passa(p, "conta")
  /\ \/ /\ FechaLido(p) /\ alvo # Rasgado
        /\ mem' = [mem EXCEPT ![p] = alvo] /\ sabe' = [sabe EXCEPT ![p] = "sim"]
     \/ /\ IF p \in lendo THEN FechaLido(p) ELSE etapa[p] = "livre" /\ UNCHANGED vars
        /\ mem' = [mem EXCEPT ![p] = {}] /\ sabe' = [sabe EXCEPT ![p] = "nao"]
  /\ UNCHANGED <<pedido, log>>

Aplica(x, s) == IF x = "revoga" THEN {} ELSE s \cup {x}

\* aprova and revogaTodas, under the mutex until the file is written.
Clica(p, x) ==
  /\ fazendo[p] = "livre" /\ Passa(p, "salva")
  /\ mem' = [mem EXCEPT ![p] = Aplica(x, @)]
  /\ pedido' = [pedido EXCEPT ![p] = x]
  /\ Comeca(p, Aplica(x, mem[p]))
  /\ UNCHANGED <<sabe, log>>

\* A step of gravaArquivoAtomico.  A save that worked leaves the other memory behind; one that
\* failed leaves this one ahead of the file.
Salva(p) ==
  /\ fazendo[p] = "salva" /\ Passo(p)
  /\ Passa(p, IF passo'[p] = "fora" THEN "conta" ELSE "salva")
  /\ sabe' = [q \in Processo |->
                IF (q # p /\ res'[p] = "ok") \/ (q = p /\ res'[p] = "erro") THEN "nao" ELSE sabe[q]]
  /\ pedido' = [pedido EXCEPT ![p] = IF passo'[p] = "fora" THEN "nenhum" ELSE @]
  /\ UNCHANGED <<mem, log>>

\* The line about the start, or about how the save ended.
Conta(p) ==
  /\ fazendo[p] = "conta" /\ Loga(p) /\ Cabe
  /\ Passa(p, IF etapa'[p] = "livre" THEN "livre" ELSE "conta")
  /\ Esquece(p)
  /\ UNCHANGED <<mem, pedido, sabe>>

Acaba(ps) ==
  /\ MorreLog(ps)
  /\ fazendo' = [p \in Processo |-> IF p \in ps THEN "morto" ELSE fazendo[p]]
  /\ mem' = [p \in Processo |-> IF p \in ps THEN {} ELSE mem[p]]
  /\ sabe' = [p \in Processo |-> IF p \in ps THEN "nao" ELSE sabe[p]]
  /\ pedido' = [p \in Processo |-> IF p \in ps THEN "nenhum" ELSE pedido[p]]

Mata(p) == fazendo[p] # "morto" /\ Cai(p) /\ Acaba({p})

Apaga == FaltaLuz /\ Acaba(Processo)

NextPasta ==
  \/ \E p \in Processo :
       \/ Inicia(p) \/ Gira(p) \/ AbreOrigens(p) \/ Carrega(p)
       \/ \E x \in Origem \cup {"revoga"} : Clica(p, x)
       \/ Salva(p) \/ Conta(p) \/ Mata(p)
  \/ Apaga

SpecPasta == InitPasta /\ [][NextPasta]_<<vars, log, agente>>

----------------------------------------------------------------------------
TypeOKPasta ==
  /\ TypeOK /\ TypeOKLog
  /\ fazendo \in [Processo -> {"morto", "inicia", "livre", "salva", "conta"}]
  /\ mem \in [Processo -> SUBSET Origem]
  /\ pedido \in [Processo -> Origem \cup {"revoga", "nenhum"}]
  /\ sabe \in [Processo -> {"sim", "nao"}]

\* A save by an agent that started from a file it could read, that no other session saved since
\* and whose own saves worked, changes in the file what its click decided and nothing else
\* (origins.go:131-161): no approval is lost and no revocation undone by it.
SalvaSoOPedido ==
  [][\A p \in Processo :
       res[p] # "ok" /\ res'[p] = "ok" /\ sabe[p] = "sim" => alvo' = Aplica(pedido[p], alvo)]_<<vars, log, agente>>
=============================================================================
