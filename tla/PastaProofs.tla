----------------------------- MODULE PastaProofs -----------------------------
(* Theorems about GravaAtomico, ArquivoRotativo and Pasta, for every set of *)
(* processes, contents, origins and every limit.                            *)
EXTENDS Pasta, TLAPS

----------------------------------------------------------------------------
(* GravaAtomico implements Registro.                                        *)

\* What takes the place of the target was synchronised, and a writer that is not writing holds
\* nothing.
Firme ==
  /\ alvoFirme = "sim" /\ alvo \in Conteudo
  /\ \A w \in Escritor :
       /\ passo[w] = "move" => tmpFirme[w] = "sim"
       /\ passo[w] = "fecha" => tmpFirme[w] = "sim"
       /\ passo[w] = "fora" => dado[w] = Inicial

\* The file starts whole and nobody writes it.
LEMMA FirmeNoInicio == Init => TypeOK /\ Firme
  BY ConteudoAssumption DEF Init, TypeOK, Firme

\* Every step keeps the types.
LEMMA TipoGrava == TypeOK /\ [Next]_vars => TypeOK'
<1> SUFFICES ASSUME TypeOK, [Next]_vars PROVE TypeOK'
  OBVIOUS
<1> USE ConteudoAssumption DEF TypeOK, arquivo
<1>1. ASSUME NEW w \in Escritor, NEW c \in Conteudo, Comeca(w, c) PROVE TypeOK'
  BY <1>1 DEF Comeca
<1>2. ASSUME NEW w \in Escritor, Cria(w) \/ Escreve(w) PROVE TypeOK'
  BY <1>2 DEF Cria, Escreve, Tenta, Segue, Volta
<1>3. ASSUME NEW w \in Escritor, Sincroniza(w) \/ Fecha(w) PROVE TypeOK'
  BY <1>3 DEF Sincroniza, Fecha, Tenta, Segue
<1>4. ASSUME NEW w \in Escritor, Move(w) \/ Remove(w) PROVE TypeOK'
  BY <1>4 DEF Move, Remove, Segue, Volta
<1>5. ASSUME NEW w \in Escritor, Esquece(w) \/ AbreParaLer(w) \/ FechaLido(w) PROVE TypeOK'
  BY <1>5 DEF Esquece, AbreParaLer, FechaLido
<1>6. ASSUME NEW ws \in SUBSET Escritor, Morrem(ws),
             alvo' \in Conteudo \cup {Rasgado}, alvoFirme' \in {"sim", "nao"} PROVE TypeOK'
  BY <1>6 DEF Morrem
<1>7. ASSUME NEW w \in Escritor, Cai(w) PROVE TypeOK'
  BY <1>6, <1>7 DEF Cai
<1>8. CASE FaltaLuz
  BY <1>6, <1>8 DEF FaltaLuz
<1>9. CASE UNCHANGED vars
  BY <1>9 DEF vars
<1>10. QED
  BY <1>1, <1>2, <1>3, <1>4, <1>5, <1>7, <1>8, <1>9 DEF Next, Passo

\* Every step keeps the target whole.
LEMMA FirmeSempre == TypeOK /\ Firme /\ [Next]_vars => Firme'
<1> SUFFICES ASSUME TypeOK, Firme, [Next]_vars PROVE Firme'
  OBVIOUS
<1> USE ConteudoAssumption DEF TypeOK, Firme, arquivo
<1>1. ASSUME NEW w \in Escritor, NEW c \in Conteudo, Comeca(w, c) PROVE Firme'
  BY <1>1 DEF Comeca
<1>2. ASSUME NEW w \in Escritor, Cria(w) \/ Escreve(w) PROVE Firme'
  BY <1>2 DEF Cria, Escreve, Tenta, Segue, Volta
<1>3. ASSUME NEW w \in Escritor, Sincroniza(w) \/ Fecha(w) PROVE Firme'
  BY <1>3 DEF Sincroniza, Fecha, Tenta, Segue
<1>4. ASSUME NEW w \in Escritor, Move(w) \/ Remove(w) PROVE Firme'
  BY <1>4 DEF Move, Remove, Segue, Volta
<1>5. ASSUME NEW w \in Escritor, Esquece(w) \/ AbreParaLer(w) \/ FechaLido(w) PROVE Firme'
  BY <1>5 DEF Esquece, AbreParaLer, FechaLido
<1>6. ASSUME NEW ws \in SUBSET Escritor, Morrem(ws), alvo' = alvo, alvoFirme' = "sim"
      PROVE  Firme'
  BY <1>6 DEF Morrem
<1>7. ASSUME NEW w \in Escritor, Cai(w) PROVE Firme'
  BY <1>6, <1>7 DEF Cai
<1>8. CASE FaltaLuz
  BY <1>6, <1>8 DEF FaltaLuz
<1>9. CASE UNCHANGED vars
  BY <1>9 DEF vars
<1>10. QED
  BY <1>1, <1>2, <1>3, <1>4, <1>5, <1>7, <1>8, <1>9 DEF Next, Passo

\* A step of gravaArquivoAtomico is a step of Registro or none.
LEMMA PassoDoRegistro == TypeOK /\ Firme /\ [Next]_vars => [R!Next]_R!vars
<1> SUFFICES ASSUME TypeOK, Firme, [Next]_vars PROVE [R!Next]_R!vars
  OBVIOUS
<1> USE DEF TypeOK, arquivo, Fase
<1>1. ASSUME NEW w \in Escritor, NEW c \in Conteudo, Comeca(w, c) PROVE R!Comeca(w, c)
  BY <1>1 DEF Comeca, R!Comeca
<1>2. ASSUME NEW w \in Escritor, NEW para, para # "fora", passo[w] # "fora",
             passo' = [passo EXCEPT ![w] = para], UNCHANGED <<alvo, dado, res>>
      PROVE  UNCHANGED R!vars
  <2>1. Fase' = Fase
    BY <1>2
  <2>2. QED
    BY <1>2, <2>1 DEF R!vars
<1>3. ASSUME NEW w \in Escritor, Volta(w, "erro"), passo[w] # "fora", UNCHANGED alvo
      PROVE  R!Falha(w)
  BY <1>3 DEF Volta, R!Falha, R!Responde
<1>4. ASSUME NEW w \in Escritor, Volta(w, "ok"), passo[w] # "fora", alvo' = dado[w]
      PROVE  R!Grava(w)
  BY <1>4 DEF Volta, R!Grava, R!Responde
<1>5. ASSUME NEW ws \in SUBSET Escritor, Morrem(ws), UNCHANGED alvo PROVE R!Larga(ws)
  BY <1>5 DEF Morrem, R!Larga
<1>6. ASSUME NEW w \in Escritor, Passo(w) PROVE R!Falha(w) \/ R!Grava(w) \/ UNCHANGED R!vars
  BY <1>2, <1>3, <1>4, <1>6
  DEF Passo, Cria, Escreve, Sincroniza, Fecha, Move, Remove, Tenta, Segue
<1>7. ASSUME NEW w \in Escritor, Esquece(w) PROVE R!Larga({w})
  BY <1>7 DEF Esquece, R!Larga, Firme
<1>8. ASSUME NEW w \in Escritor, AbreParaLer(w) \/ FechaLido(w) PROVE UNCHANGED R!vars
  BY <1>8 DEF AbreParaLer, FechaLido, R!vars
<1>9. ASSUME NEW w \in Escritor, Cai(w) PROVE R!Larga({w})
  BY <1>5, <1>9 DEF Cai
<1>10. CASE FaltaLuz
  BY <1>5, <1>10 DEF FaltaLuz, Firme, R!Next
<1>11. CASE UNCHANGED vars
  BY <1>11 DEF vars, R!vars
<1>12. QED
  BY <1>1, <1>6, <1>7, <1>8, <1>9, <1>10, <1>11 DEF Next, R!Next

\* The file is always whole, whatever dies or loses power.
THEOREM ArquivoInteiro == Spec => [](TypeOK /\ Firme)
  BY FirmeNoInicio, TipoGrava, FirmeSempre, PTL DEF Spec

\* gravaArquivoAtomico implements a register of whole contents.
THEOREM Implementa == Spec => ImplementaRegistro
<1>1. Init => R!Init
  BY DEF Init, R!Init, Fase
<1>2. QED
  BY <1>1, ArquivoInteiro, PassoDoRegistro, PTL DEF Spec, ImplementaRegistro, R!Spec
----------------------------------------------------------------------------
(* The data directory is a use of GravaAtomico.                             *)

\* What the agents keep in memory.
TipoAgente ==
  /\ fazendo \in [Processo -> {"morto", "inicia", "livre", "salva", "conta"}]
  /\ mem \in [Processo -> SUBSET Origem]
  /\ pedido \in [Processo -> Origem \cup {"revoga", "nenhum"}]
  /\ sabe \in [Processo -> {"sim", "nao"}]

varsPasta == <<vars, log, agente>>

\* A step of the agents is a step of gravaArquivoAtomico, or leaves its file alone.
LEMMA PassoNoArquivo == TipoAgente /\ [NextPasta]_varsPasta => [Next]_vars
<1> SUFFICES ASSUME TipoAgente, [NextPasta]_varsPasta PROVE [Next]_vars
  OBVIOUS
<1> USE PastaAssumption
<1>1. ASSUME NEW p \in Processo, Inicia(p) \/ Gira(p) PROVE UNCHANGED vars
  BY <1>1 DEF Inicia, Gira
<1>2. ASSUME NEW p \in Processo, AbreOrigens(p) PROVE Next
  BY <1>2 DEF AbreOrigens, Next
<1>3. ASSUME NEW p \in Processo, Carrega(p) PROVE Next \/ UNCHANGED vars
  BY <1>3 DEF Carrega, Next
<1>4. ASSUME NEW p \in Processo, NEW x \in Origem \cup {"revoga"}, Clica(p, x) PROVE Next
  <2>1. Aplica(x, mem[p]) \in Conteudo
    BY DEF Aplica, TipoAgente
  <2>2. QED
    BY <1>4, <2>1 DEF Clica, Next
<1>5. ASSUME NEW p \in Processo, Salva(p) PROVE Next
  BY <1>5 DEF Salva, Next
<1>6. ASSUME NEW p \in Processo, Conta(p) PROVE Next
  BY <1>6 DEF Conta, Next
<1>7. ASSUME NEW p \in Processo, Mata(p) PROVE Next
  BY <1>7 DEF Mata, Next
<1>8. ASSUME Apaga PROVE Next
  BY <1>8 DEF Apaga, Next
<1>9. CASE UNCHANGED varsPasta
  BY <1>9 DEF varsPasta
<1>10. QED
  BY <1>1, <1>2, <1>3, <1>4, <1>5, <1>6, <1>7, <1>8, <1>9 DEF NextPasta

\* Every step keeps the types of the log.
LEMMA TipoLog == TypeOKLog /\ [NextPasta]_varsPasta => TypeOKLog'
<1> SUFFICES ASSUME TypeOKLog, [NextPasta]_varsPasta PROVE TypeOKLog'
  OBVIOUS
<1> USE LimiteAssumption DEF TypeOKLog, Vai
<1>1. ASSUME NEW p \in Processo, IniciaLog(p) \/ Renomeia(p) PROVE TypeOKLog'
  BY <1>1 DEF IniciaLog, Renomeia
<1>2. ASSUME NEW p \in Processo, AbreLog(p) PROVE TypeOKLog'
  BY <1>2 DEF AbreLog
<1>3. ASSUME NEW p \in Processo, Loga(p) PROVE TypeOKLog'
  BY <1>3 DEF Loga, log
<1>4. ASSUME NEW ps \in SUBSET Processo, MorreLog(ps) PROVE TypeOKLog'
  BY <1>4 DEF MorreLog
<1>5. CASE UNCHANGED log
  BY <1>5 DEF log
<1>6. ASSUME NEW p \in Processo, Inicia(p) \/ Gira(p) \/ Conta(p) PROVE TypeOKLog'
  BY <1>1, <1>2, <1>3, <1>6 DEF Inicia, Gira, Conta, PassoLog
<1>7. ASSUME NEW p \in Processo,
             AbreOrigens(p) \/ Carrega(p) \/ Salva(p) \/ \E x \in Origem \cup {"revoga"} : Clica(p, x)
      PROVE  UNCHANGED log
  BY <1>7 DEF AbreOrigens, Carrega, Salva, Clica
<1>8. ASSUME NEW p \in Processo, Mata(p) PROVE TypeOKLog'
  BY <1>4, <1>8 DEF Mata, Acaba
<1>9. CASE Apaga
  BY <1>4, <1>9 DEF Apaga, Acaba
<1>10. QED
  BY <1>5, <1>6, <1>7, <1>8, <1>9 DEF NextPasta, varsPasta

\* Every step keeps the types of the agents' memory.
LEMMA TipoDosAgentes == TypeOK /\ TipoAgente /\ [NextPasta]_varsPasta => TipoAgente'
<1> SUFFICES ASSUME TypeOK, TipoAgente, [NextPasta]_varsPasta PROVE TipoAgente'
  OBVIOUS
<1> USE PastaAssumption DEF TipoAgente, Passa, agente
<1>1. ASSUME NEW p \in Processo, Inicia(p) \/ Gira(p) \/ AbreOrigens(p) PROVE TipoAgente'
  BY <1>1 DEF Inicia, Gira, AbreOrigens
<1>2. ASSUME NEW p \in Processo, Carrega(p) PROVE TipoAgente'
  BY <1>2 DEF Carrega, TypeOK
<1>3. ASSUME NEW p \in Processo, NEW x \in Origem \cup {"revoga"}, Clica(p, x) PROVE TipoAgente'
  BY <1>3 DEF Clica, Aplica
<1>4. ASSUME NEW p \in Processo, Salva(p) PROVE TipoAgente'
  BY <1>4 DEF Salva
<1>5. ASSUME NEW p \in Processo, Conta(p) PROVE TipoAgente'
  BY <1>5 DEF Conta
<1>6. ASSUME NEW ps \in SUBSET Processo, Acaba(ps) PROVE TipoAgente'
  BY <1>6 DEF Acaba
<1>7. CASE UNCHANGED varsPasta
  BY <1>7 DEF varsPasta
<1>8. QED
  BY <1>1, <1>2, <1>3, <1>4, <1>5, <1>6, <1>7 DEF NextPasta, Mata, Apaga

\* Type correctness of the data directory.
THEOREM TipoCorretoPasta == SpecPasta => []TypeOKPasta
<1>1. InitPasta => TypeOK /\ TypeOKLog /\ TipoAgente
  BY FirmeNoInicio, LimiteAssumption DEF InitPasta, InitLog, TypeOKLog, TipoAgente
<1>2. TypeOK /\ TypeOKLog /\ TipoAgente /\ [NextPasta]_varsPasta
        => (TypeOK /\ TypeOKLog /\ TipoAgente)'
  BY PassoNoArquivo, TipoGrava, TipoLog, TipoDosAgentes
<1>3. TypeOK /\ TypeOKLog /\ TipoAgente => TypeOKPasta
  BY DEF TypeOKPasta, TipoAgente
<1>4. QED
  BY <1>1, <1>2, <1>3, PTL DEF SpecPasta, varsPasta

\* In the data directory shared by two agents the file of origins is still a register of whole
\* contents (storage.go:29-73, origins.go:143-161).
THEOREM ImplementaNaPasta == SpecPasta => ImplementaRegistro
<1>1. InitPasta => Init
  BY DEF InitPasta
<1>2. TypeOKPasta => TipoAgente
  BY DEF TypeOKPasta, TipoAgente
<1>3. SpecPasta => Spec
  BY <1>1, <1>2, TipoCorretoPasta, PassoNoArquivo, PTL DEF SpecPasta, Spec, varsPasta
<1>4. QED
  BY <1>3, Implementa
----------------------------------------------------------------------------
(* The limit of the log.                                                    *)

\* While nothing was in the way: the file is within its limit, the process that has it open is
\* the only one and knows its size, and one that closed it to rotate it finds it empty.
Teto ==
  /\ \A p \in Processo : arq[p] \in {"aberto", "nulo"} => etapa[p] = "livre"
  /\ estorvo = "nao" =>
       /\ tam <= Limite
       /\ \A p \in Processo :
            /\ arq[p] = "aberto" => n[p] = tam /\ ~EmUso(p)
            /\ arq[p] = "fechado" /\ etapa[p] = "abre" => tam = 0

\* The log that no process has open yet.
LEMMA TetoNoInicio == InitLog => Teto
  BY LimiteAssumption DEF InitLog, Teto

\* Every step keeps the limit.
LEMMA TetoSempre == TypeOKLog /\ Teto /\ [NextPasta]_varsPasta => Teto'
<1> SUFFICES ASSUME TypeOKLog, Teto, [NextPasta]_varsPasta PROVE Teto'
  OBVIOUS
<1> USE LimiteAssumption DEF TypeOKLog, Teto, Vai, EmUso
<1>1. ASSUME NEW p \in Processo, IniciaLog(p) PROVE Teto'
  BY <1>1 DEF IniciaLog
<1>2. ASSUME NEW p \in Processo, Renomeia(p) PROVE Teto'
  BY <1>2 DEF Renomeia
<1>3. ASSUME NEW p \in Processo, AbreLog(p) PROVE Teto'
  BY <1>3 DEF AbreLog
<1>4. ASSUME NEW p \in Processo, Loga(p) PROVE Teto'
  BY <1>4 DEF Loga, log
<1>5. ASSUME NEW ps \in SUBSET Processo, MorreLog(ps) PROVE Teto'
  BY <1>5 DEF MorreLog
<1>6. CASE UNCHANGED log
  BY <1>6 DEF log
<1>7. ASSUME NEW p \in Processo, Inicia(p) \/ Gira(p) \/ Conta(p) PROVE Teto'
  BY <1>1, <1>2, <1>3, <1>4, <1>7 DEF Inicia, Gira, Conta, PassoLog
<1>8. ASSUME NEW p \in Processo,
             AbreOrigens(p) \/ Carrega(p) \/ Salva(p) \/ \E x \in Origem \cup {"revoga"} : Clica(p, x)
      PROVE  UNCHANGED log
  BY <1>8 DEF AbreOrigens, Carrega, Salva, Clica
<1>9. ASSUME NEW p \in Processo, Mata(p) PROVE Teto'
  BY <1>5, <1>9 DEF Mata, Acaba
<1>10. CASE Apaga
  BY <1>5, <1>10 DEF Apaga, Acaba
<1>11. QED
  BY <1>6, <1>7, <1>8, <1>9, <1>10 DEF NextPasta, varsPasta

\* The log passes its limit only where, since it was last moved away, a rename failed or a
\* process opened it while another was using it (log.go:15-45, 84-104).
THEOREM LogNoLimite == SpecPasta => []TetoSemEstorvo
<1>1. InitPasta => TypeOKLog /\ Teto
  BY TetoNoInicio, LimiteAssumption DEF InitPasta, InitLog, TypeOKLog
<1>2. TypeOKLog /\ Teto => TetoSemEstorvo
  BY LimiteAssumption DEF TypeOKLog, Teto, TetoSemEstorvo
<1>3. QED
  BY <1>1, <1>2, TipoLog, TetoSempre, PTL DEF SpecPasta, varsPasta

----------------------------------------------------------------------------
(* What a save changes.                                                     *)

\* An agent that knows the file has in memory what the file is, or what its click makes of it;
\* an agent saves one thing at a time, and that is its memory.
Sabido ==
  \A p \in Processo :
    /\ fazendo[p] = "salva" <=> passo[p] # "fora"
    /\ fazendo[p] = "salva" => dado[p] = mem[p]
    /\ sabe[p] = "sim" =>
         mem[p] = IF fazendo[p] = "salva" THEN Aplica(pedido[p], alvo) ELSE alvo

\* The agents that were not started.
LEMMA SabidoNoInicio == InitPasta => Sabido
  BY PastaAssumption DEF InitPasta, Init, Sabido

\* Every step keeps it.
LEMMA SabidoSempre ==
  TypeOKPasta /\ Firme /\ Sabido /\ [NextPasta]_varsPasta => Sabido'
<1> SUFFICES ASSUME TypeOKPasta, Firme, Sabido, [NextPasta]_varsPasta PROVE Sabido'
  OBVIOUS
<1> USE PastaAssumption DEF TypeOKPasta, TypeOK, Sabido, Passa, agente, vars, arquivo
<1>1. ASSUME NEW p \in Processo, Inicia(p) PROVE Sabido'
  BY <1>1 DEF Inicia
<1>2. ASSUME NEW p \in Processo, Gira(p) PROVE Sabido'
  BY <1>2 DEF Gira
<1>3. ASSUME NEW p \in Processo, AbreOrigens(p) PROVE Sabido'
  BY <1>3 DEF AbreOrigens, AbreParaLer
<1>4. ASSUME NEW p \in Processo, Carrega(p) PROVE Sabido'
  BY <1>4 DEF Carrega, FechaLido
<1>5. ASSUME NEW p \in Processo, NEW x \in Origem \cup {"revoga"}, Clica(p, x) PROVE Sabido'
  BY <1>5 DEF Clica, Comeca, Aplica
<1>6. ASSUME NEW p \in Processo, Salva(p) PROVE Sabido'
  <2>1. ASSUME passo'[p] # "fora" PROVE Sabido'
    BY <1>6, <2>1 DEF Salva, Passo, Cria, Escreve, Sincroniza, Fecha, Move, Remove, Tenta, Segue, Volta
  <2>2. ASSUME Volta(p, "erro"), UNCHANGED arquivo, passo'[p] = "fora" PROVE Sabido'
    BY <1>6, <2>2 DEF Salva, Volta
  <2>3. ASSUME Volta(p, "ok"), alvo' = dado[p], passo'[p] = "fora" PROVE Sabido'
    BY <1>6, <2>3 DEF Salva, Volta
  <2>4. QED
    BY <1>6, <2>1, <2>2, <2>3
    DEF Salva, Passo, Cria, Escreve, Sincroniza, Fecha, Move, Remove, Tenta, Segue, Volta
<1>7. ASSUME NEW p \in Processo, Conta(p) PROVE Sabido'
  BY <1>7 DEF Conta, Esquece
<1>8. ASSUME NEW p \in Processo, Mata(p) PROVE Sabido'
  BY <1>8 DEF Mata, Cai, Morrem, Acaba
<1>9. CASE Apaga
  BY <1>9 DEF Apaga, FaltaLuz, Morrem, Acaba, Firme
<1>10. CASE UNCHANGED varsPasta
  BY <1>10 DEF varsPasta
<1>11. QED
  BY <1>1, <1>2, <1>3, <1>4, <1>5, <1>6, <1>7, <1>8, <1>9, <1>10 DEF NextPasta
\* A save by an agent that knows the file changes what its click decided and nothing else
\* (origins.go:131-161).
THEOREM SalvaCerto == SpecPasta => SalvaSoOPedido
<1>1. ASSUME TypeOKPasta, Sabido, [NextPasta]_varsPasta
      PROVE  [\A p \in Processo :
                res[p] # "ok" /\ res'[p] = "ok" /\ sabe[p] = "sim" => alvo' = Aplica(pedido[p], alvo)]_varsPasta
  <2> SUFFICES ASSUME NEW p \in Processo, res[p] # "ok", res'[p] = "ok", sabe[p] = "sim"
               PROVE  alvo' = Aplica(pedido[p], alvo)
    OBVIOUS
  <2> USE PastaAssumption DEF TypeOKPasta, TypeOK
  <2>1. ASSUME NEW q \in Processo, Salva(q) PROVE p = q /\ alvo' = dado[p]
    <3>1. ASSUME Volta(q, "erro") PROVE FALSE
      BY <3>1 DEF Volta
    <3>2. ASSUME UNCHANGED res PROVE FALSE
      BY <3>2
    <3>3. ASSUME Volta(q, "ok") PROVE p = q
      BY <3>3 DEF Volta
    <3>4. QED
      BY <2>1, <3>1, <3>2, <3>3
      DEF Salva, Passo, Cria, Escreve, Sincroniza, Fecha, Move, Remove, Tenta, Segue
  <2>2. ASSUME NEW q \in Processo, Salva(q) PROVE alvo' = Aplica(pedido[p], alvo)
    BY <1>1, <2>1, <2>2 DEF Salva, Sabido
  <2>3. ASSUME UNCHANGED res PROVE FALSE
    BY <2>3
  <2>4. ASSUME NEW ws \in SUBSET Escritor, Morrem(ws) PROVE FALSE
    BY <2>4 DEF Morrem
  <2>5. ASSUME NEW q \in Processo, res' = [res EXCEPT ![q] = "nada"] PROVE FALSE
    BY <2>5
  <2>6. ASSUME NEW q \in Processo, Inicia(q) \/ Gira(q) \/ AbreOrigens(q) \/ Carrega(q) PROVE FALSE
    BY <2>3, <2>6 DEF Inicia, Gira, AbreOrigens, AbreParaLer, Carrega, FechaLido, vars
  <2>7. ASSUME NEW q \in Processo, Conta(q) \/ \E x \in Origem \cup {"revoga"} : Clica(q, x)
        PROVE  FALSE
    BY <2>5, <2>7 DEF Conta, Esquece, Clica, Comeca
  <2>8. ASSUME NEW q \in Processo, Mata(q) PROVE FALSE
    BY <2>4, <2>8 DEF Mata, Cai
  <2>9. ASSUME Apaga PROVE FALSE
    BY <2>4, <2>9 DEF Apaga, FaltaLuz
  <2>10. ASSUME UNCHANGED varsPasta PROVE FALSE
    BY <2>3, <2>10 DEF varsPasta, vars
  <2>11. QED
    BY <1>1, <2>2, <2>6, <2>7, <2>8, <2>9, <2>10 DEF NextPasta
<1>2. TypeOKPasta => TipoAgente /\ TypeOK
  BY DEF TypeOKPasta, TipoAgente
<1>3. InitPasta => Init
  BY DEF InitPasta
<1>4. SpecPasta => [](TypeOKPasta /\ Firme)
  BY <1>2, <1>3, TipoCorretoPasta, FirmeNoInicio, FirmeSempre, PassoNoArquivo, PTL
  DEF SpecPasta, varsPasta
<1>5. SpecPasta => [](TypeOKPasta /\ Sabido)
  BY <1>4, SabidoNoInicio, SabidoSempre, PTL DEF SpecPasta, varsPasta
<1>6. QED
  BY <1>1, <1>5, PTL DEF SpecPasta, SalvaSoOPedido, varsPasta
=============================================================================
