------------------------ MODULE ClienteWorkerProofs ------------------------
(* Theorems about ClienteWorker, for every choice of its constants.        *)
EXTENDS ClienteWorker, TLAPS

IInv == TypeOK /\ Protocolo /\ Relogio /\ RecuoCoerente /\ RespostaDoProprioPedido

\* The constants the bounds are built from are natural numbers.
LEMMA Constantes ==
  /\ EsperaMaxima \in Nat /\ TetoFalhas \in Nat /\ DuracaoMaxima \in Nat
  /\ PrazoOciosidade \in Nat /\ PrazoEncerrar \in Nat /\ PrazoDespedida \in Nat
  /\ MaxOrfaos \in Nat /\ Limites \subseteq Nat
<1>1. EsperaMaxima \in Nat
  BY EsperasAssumption DEF EsperaMaxima
<1>2. TetoFalhas \in Nat
  BY EsperasAssumption DEF TetoFalhas
<1>3. DuracaoMaxima \in Nat
  BY PrazosAssumption, LimitesAssumption DEF DuracaoMaxima, EsperaDaTrava
<1>4. QED
  BY <1>1, <1>2, <1>3, PrazosAssumption, LimitesAssumption, OrfaosAssumption

\* The initial state satisfies the invariant.
LEMMA Inicio == Init => IInv
<1> SUFFICES ASSUME Init PROVE IInv
  OBVIOUS
<1>1. TypeOK
  <2>1. TipoPedido /\ TipoTrava
    BY Constantes DEF Init, TipoPedido, TipoTrava
  <2>2. TipoWorker
    BY Constantes DEF Init, TipoWorker
  <2>3. TipoRecuo
    BY Constantes DEF Init, TipoRecuo
  <2>4. TipoTimer
    BY Constantes DEF Init, TipoTimer
  <2>5. TipoHist
    BY Constantes DEF Init, TipoHist, SemResposta
  <2>6. QED
    BY <2>1, <2>2, <2>3, <2>4, <2>5 DEF TypeOK
<1>2. Protocolo
  BY DEF Init, Protocolo, CanalVazio
<1>3. RespostaDoProprioPedido
  BY DEF Init, RespostaDoProprioPedido
<1>4. Relogio
  BY DEF Init, Relogio
<1>5. RecuoCoerente
  BY DEF Init, RecuoCoerente
<1>6. QED
  BY <1>1, <1>2, <1>3, <1>4, <1>5 DEF IInv

\* A call that returns leaves its own variables, the lock, the timer and the history
\* well typed.
LEMMA TiposDevolve ==
  ASSUME TypeOK, NEW r \in [de : Mensagens \cup {Nenhum}, para : Pedidos \cup {Nenhum}],
         Devolve(r)
  PROVE  TipoPedido' /\ TipoTrava' /\ TipoTimer' /\ TipoHist'
<1>1. TipoPedido' /\ TipoTrava'
  BY Constantes DEF Devolve, ForaDaChamada, Destrava, TipoPedido, TipoTrava
<1>2. TipoTimer'
  BY Constantes DEF Devolve, ArmaOciosidade, TypeOK, TipoTimer
<1>3. TipoHist'
  BY Constantes DEF Devolve, TypeOK, TipoHist
<1>4. QED
  BY <1>1, <1>2, <1>3

\* The empty answer is one a call may return.
LEMMA TipoSemResposta ==
  SemResposta \in [de : Mensagens \cup {Nenhum}, para : Pedidos \cup {Nenhum}]
BY DEF SemResposta

\* Recording a failure keeps the breaker's counter below its ceiling.
LEMMA TiposRegistraFalha ==
  ASSUME TypeOK, RegistraFalha
  PROVE  TipoRecuo'
BY Constantes DEF RegistraFalha, TypeOK, TipoRecuo, Min2

\* Killing the process keeps the lock and the worker well typed.
LEMMA TiposMata ==
  ASSUME TypeOK, Mata, UNCHANGED <<dono, canal, orfaos>>
  PROVE  TipoTrava' /\ TipoWorker'
BY Constantes DEF Mata, canal, TypeOK, TipoTrava, TipoWorker

\* Types of the groups of variables a step leaves alone.
LEMMA TiposIguais ==
  ASSUME TypeOK
  PROVE  /\ UNCHANGED pedido => TipoPedido'
         /\ UNCHANGED trava  => TipoTrava'
         /\ UNCHANGED worker => TipoWorker'
         /\ UNCHANGED recuo  => TipoRecuo'
         /\ UNCHANGED timer  => TipoTimer'
         /\ UNCHANGED hist   => TipoHist'
<1> USE DEF TypeOK
<1>1. UNCHANGED pedido => TipoPedido'
  BY DEF pedido, TipoPedido
<1>2. UNCHANGED trava => TipoTrava'
  BY DEF trava, TipoTrava
<1>3. UNCHANGED worker => TipoWorker'
  BY DEF worker, canal, TipoWorker
<1>4. UNCHANGED recuo => TipoRecuo'
  BY DEF recuo, TipoRecuo
<1>5. UNCHANGED timer => TipoTimer'
  BY DEF timer, TipoTimer
<1>6. UNCHANGED hist => TipoHist'
  BY DEF hist, TipoHist
<1>7. QED
  BY <1>1, <1>2, <1>3, <1>4, <1>5, <1>6

\* Starting the goodbye: a message is sent, or the process was already dead.
LEMMA TiposDespede ==
  ASSUME TypeOK, Despede, dono' \in {"sdk", "ocioso"}, UNCHANGED <<trabalho, saida, sujo, orfaos>>
  PROVE  TipoTrava' /\ TipoWorker'
<1>1. CASE proc = "morto"
  BY <1>1, Constantes DEF Despede, Mata, TypeOK, TipoTrava, TipoWorker
<1>2. CASE proc # "morto"
  BY <1>2, Constantes DEF Despede, TypeOK, TipoTrava, TipoWorker, Mensagens
<1>3. QED
  BY <1>1, <1>2

\* Every action keeps the types.
LEMMA PassoTipo == TypeOK /\ Protocolo /\ [Next]_vars => TypeOK'
<1> SUFFICES ASSUME TypeOK, Protocolo, [Next]_vars
             PROVE  TypeOK'
  OBVIOUS
<1>1. ASSUME NEW p \in Pedidos, NEW l \in Limites, NEW t \in {"cabe", "excede"},
                Envia(p, l, t)
         PROVE  TypeOK'
  BY <1>1, TiposIguais, Constantes
     DEF Envia, TypeOK, TipoPedido, TipoHist
<1>2. CASE Encerra
  BY <1>2, TiposIguais, Constantes
     DEF Encerra, TypeOK, TipoPedido
<1>3. CASE TravaEnvia
  BY <1>3, TiposIguais, Constantes
     DEF TravaEnvia, Trava, TypeOK, TipoTrava, TipoTimer
<1>4. CASE Recusa
  BY <1>4, TiposIguais, Constantes, TiposDevolve, TipoSemResposta
     DEF Recusa, TypeOK
<1>5. CASE FalhaAoPreparar
  BY <1>5, TiposIguais, Constantes, TiposDevolve, TipoSemResposta
     DEF FalhaAoPreparar, TypeOK
<1>6. CASE FalhaAoSubir
  BY <1>6, TiposIguais, Constantes, TiposDevolve, TipoSemResposta, TiposRegistraFalha
     DEF FalhaAoSubir, TypeOK
<1>7. CASE Sobe
  BY <1>7, TiposIguais, Constantes
     DEF Sobe, TypeOK, TipoWorker, TipoHist, canal
<1>8. CASE Escreve
  BY <1>8, TiposIguais, Constantes, LimitesAssumption
     DEF Escreve, Protocolo, TypeOK, TipoPedido, TipoTrava, TipoWorker, Mensagens
<1>9. CASE ComecaAEscrever
  BY <1>9, TiposIguais, Constantes
     DEF ComecaAEscrever, TypeOK, TipoTrava
<1>10. CASE TerminaDeEscrever
  BY <1>10, TiposIguais, Constantes, LimitesAssumption
     DEF TerminaDeEscrever, Protocolo, TypeOK, TipoPedido, TipoTrava, TipoWorker, Mensagens
<1>11. CASE EscritaFalha
  BY <1>11, TiposIguais, Constantes, TiposMata
     DEF EscritaFalha, TypeOK
<1>12. CASE Recebe
  <2>1. [de |-> Head(saida), para |-> atual] \in [de : Mensagens \cup {Nenhum}, para : Pedidos \cup {Nenhum}]
    BY <1>12 DEF Recebe, TypeOK, TipoWorker, TipoPedido
  <2>2. TipoPedido' /\ TipoTrava' /\ TipoTimer' /\ TipoHist'
    BY <1>12, <2>1, TiposDevolve DEF Recebe
  <2>3. TipoWorker'
    BY <1>12 DEF Recebe, TypeOK, TipoWorker
  <2>4. TipoRecuo'
    BY <1>12, Constantes DEF Recebe, TypeOK, TipoRecuo
  <2>5. QED
    BY <2>2, <2>3, <2>4 DEF TypeOK
<1>13. CASE LeituraFalha
  BY <1>13, TiposIguais, Constantes, TiposMata
     DEF LeituraFalha, TypeOK
<1>14. CASE Estoura
  BY <1>14, TiposIguais, Constantes, TiposMata
     DEF Estoura, TypeOK
<1>15. CASE TravaEncerra
  <2>1. TipoTimer' /\ TipoRecuo' /\ TipoHist'
    BY <1>15, TiposIguais DEF TravaEncerra, Trava, TypeOK, TipoTimer
  <2>2. CASE proc = "nenhum"
    BY <1>15, <2>1, <2>2, TiposIguais, Constantes DEF TravaEncerra, ForaDaChamada, TypeOK, TipoPedido
  <2>3. CASE proc # "nenhum"
    BY <1>15, <2>1, <2>3, TiposIguais, TiposDespede DEF TravaEncerra, TypeOK
  <2>4. QED
    BY <2>2, <2>3
<1>16. CASE FimDaDespedida
  BY <1>16, TiposIguais, Constantes, TiposMata
     DEF FimDaDespedida, TypeOK
<1>17. CASE FimDaDerrubada
  <2>1. TipoWorker'
    BY <1>17, Constantes DEF FimDaDerrubada, TypeOK, TipoWorker
  <2>2. CASE RegistraFalha /\ Devolve(SemResposta)
    BY <2>1, <2>2, TiposDevolve, TipoSemResposta, TiposRegistraFalha DEF TypeOK
  <2>3. CASE ForaDaChamada /\ Destrava /\ UNCHANGED <<recuo, timer, hist>>
    BY <2>1, <2>3, TiposIguais, Constantes DEF ForaDaChamada, Destrava, TypeOK, TipoPedido, TipoTrava
  <2>4. CASE Destrava /\ UNCHANGED <<pedido, recuo, timer, hist>>
    BY <2>1, <2>4, TiposIguais DEF Destrava, TypeOK, TipoTrava
  <2>5. QED
    BY <1>17, <2>2, <2>3, <2>4 DEF FimDaDerrubada
<1>18. CASE Dispara
  BY <1>18, TiposIguais, Constantes
     DEF Dispara, TypeOK, TipoTimer
<1>19. CASE SoltaPorOciosidade
  <2>1. TipoTimer' /\ TipoPedido' /\ TipoRecuo' /\ TipoHist'
    BY <1>19, TiposIguais DEF SoltaPorOciosidade, TypeOK, TipoTimer
  <2>2. CASE proc = "nenhum"
    BY <1>19, <2>1, <2>2, TiposIguais DEF SoltaPorOciosidade, TypeOK
  <2>3. CASE proc # "nenhum"
    BY <1>19, <2>1, <2>3, TiposDespede DEF SoltaPorOciosidade, TypeOK
  <2>4. QED
    BY <2>2, <2>3
<1>20. CASE Le
  BY <1>20, TiposIguais, Constantes
     DEF Le, TypeOK, TipoWorker
<1>21. CASE Responde
  <2>1. trabalho \in Mensagens
    BY <1>21 DEF Responde, Protocolo, UmaMensagem, TypeOK, TipoTrava, Mensagens
  <2>2. TipoWorker'
    BY <1>21, <2>1 DEF Responde, TypeOK, TipoWorker
  <2>3. QED
    BY <1>21, <2>2, TiposIguais DEF Responde, TypeOK
<1>22. CASE Cai \/ Imprime
  <2>1. CASE Cai
    BY <2>1, TiposIguais, Constantes DEF Cai, TypeOK, TipoWorker
  <2>2. CASE Imprime
    BY <2>2, TiposIguais, Constantes DEF Imprime, TypeOK, TipoWorker
  <2>3. QED
    BY <1>22, <2>1, <2>2
<1>23. CASE Morre
  BY <1>23, TiposIguais, Constantes
     DEF Morre, canal, TypeOK, TipoWorker
<1>24. CASE MorreOrfao
  BY <1>24, TiposIguais, Constantes
     DEF MorreOrfao, canal, TypeOK, TipoWorker
<1>25. CASE Tempo
  <2>1. TipoPedido' /\ TipoWorker'
    BY <1>25, TiposIguais, Constantes DEF Tempo, Min2, TypeOK, TipoPedido
  <2>2. TipoTrava'
    BY <1>25 DEF Tempo, Urgente, EmEspera, TypeOK, TipoTrava
  <2>3. TipoRecuo'
    BY <1>25, Constantes DEF Tempo, Min2, TypeOK, TipoRecuo
  <2>4. TipoTimer'
    BY <1>25, Constantes DEF Tempo, Urgente, TypeOK, TipoTimer
  <2>5. TipoHist'
    BY <1>25, Constantes DEF Tempo, Min2, TypeOK, TipoHist
  <2>6. QED
    BY <2>1, <2>2, <2>3, <2>4, <2>5 DEF TypeOK
<1>26. CASE UNCHANGED vars
  BY <1>26, TiposIguais DEF vars, TypeOK
<1>27. QED
  BY <1>1, <1>2, <1>3, <1>4, <1>5, <1>6, <1>7, <1>8, <1>9, <1>10, <1>11, <1>12,
     <1>13, <1>14, <1>15, <1>16, <1>17, <1>18, <1>19, <1>20, <1>21, <1>22,
     <1>23, <1>24, <1>25, <1>26 DEF Next

\* Every action keeps the protocol of the lock and the pipes.
LEMMA PassoProtocolo == TypeOK /\ Protocolo /\ [Next]_vars => Protocolo'
<1> SUFFICES ASSUME TypeOK, Protocolo, [Next]_vars
             PROVE  Protocolo'
  OBVIOUS
<1> USE PedidosAssumption DEF Protocolo, CanalVazio, UmaMensagem, TypeOK, TipoPedido, TipoTrava, TipoWorker
<1>1. ASSUME NEW p \in Pedidos, NEW l \in Limites, NEW t \in {"cabe", "excede"},
             Envia(p, l, t)
      PROVE  Protocolo'
  BY <1>1 DEF Envia, timer, trava, worker, canal
<1>2. CASE Encerra
  BY <1>2 DEF Encerra, timer, trava, worker, canal
<1>3. CASE TravaEnvia
  BY <1>3 DEF TravaEnvia, timer, Trava, worker, canal, pedido
<1>4. CASE Recusa
  BY <1>4 DEF Recusa, Devolve, ForaDaChamada, Destrava, worker, canal
<1>5. CASE FalhaAoPreparar
  BY <1>5 DEF FalhaAoPreparar, Devolve, ForaDaChamada, Destrava, worker, canal
<1>6. CASE FalhaAoSubir
  BY <1>6 DEF FalhaAoSubir, Devolve, ForaDaChamada, Destrava, worker, canal
<1>7. CASE Sobe
  BY <1>7 DEF Sobe, timer, pedido, trava, canal
<1>8. CASE Escreve
  BY <1>8 DEF Escreve, timer, pedido, Vivo
<1>9. CASE ComecaAEscrever
  BY <1>9 DEF ComecaAEscrever, timer, pedido, worker, canal, Vivo
<1>10. CASE TerminaDeEscrever
  BY <1>10 DEF TerminaDeEscrever, timer, pedido
<1>11. CASE EscritaFalha
  BY <1>11 DEF EscritaFalha, timer, Mata, pedido, canal
<1>12. CASE Recebe
  BY <1>12 DEF Recebe, Devolve, ForaDaChamada, Destrava
<1>13. CASE LeituraFalha
  BY <1>13 DEF LeituraFalha, timer, Mata, pedido, canal
<1>14. CASE Estoura
  BY <1>14 DEF Estoura, timer, Mata, pedido, canal
<1>15. CASE TravaEncerra
  BY <1>15 DEF TravaEncerra, Trava, ForaDaChamada, Despede, Mata, trava, worker, canal, pedido
<1>16. CASE FimDaDespedida
  BY <1>16 DEF FimDaDespedida, timer, Mata, pedido, canal
<1>17. CASE FimDaDerrubada
  BY <1>17 DEF FimDaDerrubada, timer, Devolve, ForaDaChamada, Destrava, pedido
<1>18. CASE Dispara
  BY <1>18 DEF Dispara, pedido, trava, worker, canal
<1>19. CASE SoltaPorOciosidade
  BY <1>19 DEF SoltaPorOciosidade, Despede, Mata, trava, worker, canal, pedido
<1>20. CASE Le
  BY <1>20 DEF Le, timer, pedido, trava
<1>21. CASE Responde
  <2>1. fase \in {"esperando", "despedindo"} /\ proc = "atendendo"
    BY <1>21 DEF Responde
  <2>2. saida = <<>>
    BY <2>1
  <2>3. entrada' = <<>> /\ saida' = <<trabalho>> /\ trabalho' = Nenhum
    BY <1>21, <2>1, <2>2 DEF Responde
  <2>4. /\ fase = "esperando"  => trabalho = atual /\ atual \in Pedidos
        /\ fase = "despedindo" => trabalho = Encerrar
    BY <2>1
  <2>5. QED
    BY <1>21, <2>1, <2>3, <2>4 DEF Responde, timer, pedido, trava
<1>22. CASE Cai \/ Imprime
  BY <1>22 DEF Cai, Imprime, timer, Vivo, pedido, trava
<1>23. CASE Morre
  BY <1>23 DEF Morre, timer, pedido, trava, canal
<1>24. CASE MorreOrfao
  BY <1>24 DEF MorreOrfao, timer, pedido, trava, canal
<1>25. CASE Tempo
  BY <1>25 DEF Tempo, pedido, worker, canal, Urgente, EmEspera
<1>26. CASE UNCHANGED vars
  BY <1>26 DEF vars, timer, pedido, trava, worker, canal
<1>27. QED
  BY <1>1, <1>2, <1>3, <1>4, <1>5, <1>6, <1>7, <1>8, <1>9, <1>10, <1>11, <1>12,
     <1>13, <1>14, <1>15, <1>16, <1>17, <1>18, <1>19, <1>20, <1>21, <1>22,
     <1>23, <1>24, <1>25, <1>26 DEF Next

\* Every action keeps the account of how long the call has lasted.
LEMMA PassoRelogio == TypeOK /\ Protocolo /\ Relogio /\ [Next]_vars => Relogio'
<1> SUFFICES ASSUME TypeOK, Protocolo, Relogio, [Next]_vars
             PROVE  Relogio'
  OBVIOUS
<1> USE Constantes, PrazosAssumption, LimitesAssumption
    DEF Relogio, Protocolo, UmaMensagem, EsperaDaTrava, DuracaoMaxima, TypeOK, TipoPedido, TipoTrava
<1>1. ASSUME NEW p \in Pedidos, NEW l \in Limites, NEW t \in {"cabe", "excede"},
             Envia(p, l, t)
      PROVE  Relogio'
  BY <1>1 DEF Envia, trava, worker
<1>2. CASE Encerra
  BY <1>2 DEF Encerra, trava
<1>3. CASE TravaEnvia
  BY <1>3 DEF TravaEnvia, Trava, pedido, worker
<1>4. CASE Recusa
  BY <1>4 DEF Recusa, Devolve, ForaDaChamada, Destrava
<1>5. CASE FalhaAoPreparar
  BY <1>5 DEF FalhaAoPreparar, Devolve, ForaDaChamada, Destrava
<1>6. CASE FalhaAoSubir
  BY <1>6 DEF FalhaAoSubir, Devolve, ForaDaChamada, Destrava
<1>7. CASE Sobe
  BY <1>7 DEF Sobe, pedido, trava
<1>8. CASE Escreve
  BY <1>8 DEF Escreve, pedido, Vivo
<1>9. CASE ComecaAEscrever
  BY <1>9 DEF ComecaAEscrever, pedido, Vivo
<1>10. CASE TerminaDeEscrever
  BY <1>10 DEF TerminaDeEscrever, pedido
<1>11. CASE EscritaFalha
  BY <1>11 DEF EscritaFalha, Mata, pedido
<1>12. CASE Recebe
  BY <1>12 DEF Recebe, Devolve, ForaDaChamada, Destrava
<1>13. CASE LeituraFalha
  BY <1>13 DEF LeituraFalha, Mata, pedido
<1>14. CASE Estoura
  BY <1>14 DEF Estoura, Mata, pedido
<1>15. CASE TravaEncerra
  BY <1>15 DEF TravaEncerra, Trava, ForaDaChamada, Despede, Mata, trava, pedido
<1>16. CASE FimDaDespedida
  BY <1>16 DEF FimDaDespedida, Mata, pedido
<1>17. CASE FimDaDerrubada
  BY <1>17 DEF FimDaDerrubada, Devolve, ForaDaChamada, Destrava, pedido
<1>18. CASE Dispara
  BY <1>18 DEF Dispara, pedido, trava, worker
<1>19. CASE SoltaPorOciosidade
  BY <1>19 DEF SoltaPorOciosidade, Despede, Mata, trava, worker, pedido
<1>20. CASE Le
  BY <1>20 DEF Le, pedido, trava
<1>21. CASE Responde
  BY <1>21 DEF Responde, pedido, trava
<1>22. CASE Cai \/ Imprime
  BY <1>22 DEF Cai, Imprime, Vivo, pedido, trava
<1>23. CASE Morre
  BY <1>23 DEF Morre, pedido, trava
<1>24. CASE MorreOrfao
  BY <1>24 DEF MorreOrfao, pedido, trava
<1>25. CASE Tempo
  BY <1>25 DEF Tempo, worker, Urgente, EmEspera, Min2
<1>26. CASE UNCHANGED vars
  BY <1>26 DEF vars, pedido, trava, worker
<1>27. QED
  BY <1>1, <1>2, <1>3, <1>4, <1>5, <1>6, <1>7, <1>8, <1>9, <1>10, <1>11, <1>12,
     <1>13, <1>14, <1>15, <1>16, <1>17, <1>18, <1>19, <1>20, <1>21, <1>22,
     <1>23, <1>24, <1>25, <1>26 DEF Next

\* Every action keeps the account of the failures.
LEMMA PassoRecuo == TypeOK /\ Protocolo /\ RecuoCoerente /\ [Next]_vars => RecuoCoerente'
<1> SUFFICES ASSUME TypeOK, Protocolo, RecuoCoerente, [Next]_vars
             PROVE  RecuoCoerente'
  OBVIOUS
<1> USE Constantes DEF RecuoCoerente, Protocolo, UmaMensagem, TypeOK, TipoPedido, TipoTrava,
                       TipoRecuo, TipoHist
<1>1. ASSUME NEW p \in Pedidos, NEW l \in Limites, NEW t \in {"cabe", "excede"},
             Envia(p, l, t)
      PROVE  RecuoCoerente'
  BY <1>1 DEF Envia, trava, worker, recuo, hist
<1>2. CASE Encerra
  BY <1>2 DEF Encerra, trava, worker, recuo, hist
<1>3. CASE TravaEnvia
  BY <1>3 DEF TravaEnvia, Trava, pedido, trava, worker, recuo, hist
<1>4. CASE Recusa
  BY <1>4 DEF Recusa, Devolve, ForaDaChamada, Destrava, worker, recuo, RegistraFalha, Min2
<1>5. CASE FalhaAoPreparar
  BY <1>5 DEF FalhaAoPreparar, Devolve, ForaDaChamada, Destrava, worker, recuo, RegistraFalha, Min2
<1>6. CASE FalhaAoSubir
  BY <1>6 DEF FalhaAoSubir, Devolve, ForaDaChamada, Destrava, worker, recuo, RegistraFalha, Min2
<1>7. CASE Sobe
  BY <1>7 DEF Sobe, pedido, trava, worker, recuo, hist
<1>8. CASE Escreve
  BY <1>8 DEF Escreve, pedido, trava, worker, recuo, hist, Vivo
<1>9. CASE ComecaAEscrever
  BY <1>9 DEF ComecaAEscrever, pedido, trava, worker, recuo, hist
<1>10. CASE TerminaDeEscrever
  BY <1>10 DEF TerminaDeEscrever, pedido, trava, worker, recuo, hist
<1>11. CASE EscritaFalha
  BY <1>11 DEF EscritaFalha, Mata, pedido, trava, worker, recuo, hist
<1>12. CASE Recebe
  BY <1>12 DEF Recebe, Devolve, ForaDaChamada, Destrava, worker, recuo, RegistraFalha, Min2
<1>13. CASE LeituraFalha
  BY <1>13 DEF LeituraFalha, Mata, pedido, trava, worker, recuo, hist
<1>14. CASE Estoura
  BY <1>14 DEF Estoura, Mata, pedido, trava, worker, recuo, hist
<1>15. CASE TravaEncerra
  BY <1>15 DEF TravaEncerra, Trava, ForaDaChamada, Despede, Mata, pedido, trava, worker, recuo, hist
<1>16. CASE FimDaDespedida
  BY <1>16 DEF FimDaDespedida, Mata, pedido, trava, worker, recuo, hist
<1>17. CASE FimDaDerrubada
  BY <1>17 DEF FimDaDerrubada, Devolve, ForaDaChamada, Destrava, worker, recuo,
                RegistraFalha, Min2, pedido, hist
<1>18. CASE Dispara
  BY <1>18 DEF Dispara, pedido, trava, worker, recuo, hist
<1>19. CASE SoltaPorOciosidade
  BY <1>19 DEF SoltaPorOciosidade, Despede, Mata, pedido, trava, worker, recuo, hist
<1>20. CASE Le
  BY <1>20 DEF Le, pedido, trava, worker, recuo, hist
<1>21. CASE Responde
  BY <1>21 DEF Responde, pedido, trava, worker, recuo, hist
<1>22. CASE Cai \/ Imprime
  BY <1>22 DEF Cai, Imprime, Vivo, pedido, trava, worker, recuo, hist
<1>23. CASE Morre
  BY <1>23 DEF Morre, pedido, trava, worker, recuo, hist
<1>24. CASE MorreOrfao
  BY <1>24 DEF MorreOrfao, pedido, trava, worker, recuo, hist
<1>25. CASE Tempo
  BY <1>25 DEF Tempo, pedido, trava, worker, recuo, hist, Min2
<1>26. CASE UNCHANGED vars
  BY <1>26 DEF vars, pedido, trava, worker, recuo, hist
<1>27. QED
  BY <1>1, <1>2, <1>3, <1>4, <1>5, <1>6, <1>7, <1>8, <1>9, <1>10, <1>11, <1>12,
     <1>13, <1>14, <1>15, <1>16, <1>17, <1>18, <1>19, <1>20, <1>21, <1>22,
     <1>23, <1>24, <1>25, <1>26 DEF Next

\* Only Recebe hands over an answer, and the message it takes is the caller's.
LEMMA PassoResposta ==
  TypeOK /\ Protocolo /\ RespostaDoProprioPedido /\ [Next]_vars => RespostaDoProprioPedido'
<1> SUFFICES ASSUME TypeOK, Protocolo, RespostaDoProprioPedido, [Next]_vars
             PROVE  RespostaDoProprioPedido'
  OBVIOUS
<1> USE DEF RespostaDoProprioPedido
<1>1. CASE Recebe
  <2>1. Head(saida) = atual
    BY <1>1 DEF Recebe, Protocolo, UmaMensagem
  <2>2. QED
    BY <1>1, <2>1 DEF Recebe, Devolve
<1>2. CASE Recusa \/ FalhaAoPreparar \/ FalhaAoSubir
  BY <1>2 DEF Recusa, FalhaAoPreparar, FalhaAoSubir, Devolve, SemResposta
<1>3. CASE FimDaDerrubada
  BY <1>3 DEF FimDaDerrubada, Devolve, SemResposta, hist
<1>4. CASE UNCHANGED entregue
  BY <1>4
<1>5. QED
  BY <1>1, <1>2, <1>3, <1>4
     DEF Next, vars, hist, Envia, Encerra, TravaEnvia, Sobe, Escreve, ComecaAEscrever,
         TerminaDeEscrever, EscritaFalha, LeituraFalha, Estoura, TravaEncerra,
         FimDaDespedida, Dispara, SoltaPorOciosidade, Le, Responde, Cai, Imprime, Morre,
         MorreOrfao, Tempo

\* The invariant is inductive.
LEMMA Indutivo == IInv /\ [Next]_vars => IInv'
BY PassoTipo, PassoProtocolo, PassoRelogio, PassoRecuo, PassoResposta DEF IInv

\* It holds of every reachable state.
THEOREM Invariante == Spec => []IInv
BY Inicio, Indutivo, PTL DEF Spec

\* Whatever the constants, the fields and the pipes of clienteWorker stay in their ranges.
THEOREM TipoCorreto == Spec => []TypeOK
<1>1. IInv => TypeOK
  BY DEF IInv
<1>2. QED
  BY <1>1, Invariante, PTL

\* No request ever gets another one's answer, however late the worker answers.
THEOREM RespostaCerta == Spec => []RespostaDoProprioPedido
<1>1. IInv => RespostaDoProprioPedido
  BY DEF IInv
<1>2. QED
  BY <1>1, Invariante, PTL

\* A call whose request fits in the pipe lasts at most its deadline plus one idle shutdown
\* and one derruba.
THEOREM ChamadaLimitada == Spec => []DuracaoLimitada
<1>1. IInv => DuracaoLimitada
  <2> SUFFICES ASSUME IInv, chamada = "envia", tamanho = "cabe"
               PROVE  duracao <= DuracaoMaxima
    BY DEF DuracaoLimitada
  <2> USE Constantes, PrazosAssumption, LimitesAssumption
      DEF IInv, Relogio, Protocolo, TypeOK, TipoTrava, TipoPedido, EsperaDaTrava, DuracaoMaxima
  <2>1. CASE dono = "ninguem"
    BY <2>1
  <2>2. CASE dono = "ocioso"
    BY <2>2
  <2>3. CASE dono = "sdk"
    BY <2>3
  <2>4. QED
    BY <2>1, <2>2, <2>3
<1>2. QED
  BY <1>1, Invariante, PTL

\* Only its own deadline, or something that is not an answer, kills the worker under a call that
\* waits for its answer.
THEOREM SoPrazoMata == Spec => SoOPrazoMata
<1>1. IInv /\ [Next]_vars =>
        [chamada = "envia" /\ dono = "sdk" /\ Vivo /\ proc' \in {"matado", "nenhum"}
           => fase = "esperando" /\ (prazo = 0 \/ sujo = "sim")]_vars
  <2> SUFFICES ASSUME IInv, Next, chamada = "envia", dono = "sdk", Vivo,
                      proc' \in {"matado", "nenhum"}
               PROVE  fase = "esperando" /\ (prazo = 0 \/ sujo = "sim")
    OBVIOUS
  <2> USE DEF IInv, Protocolo, Vivo
  <2>1. CASE Estoura
    BY <2>1 DEF Estoura
  <2>2. CASE EscritaFalha \/ LeituraFalha \/ FimDaDespedida \/ FimDaDerrubada
    BY <2>2 DEF EscritaFalha, LeituraFalha, FimDaDespedida, FimDaDerrubada, Mata
  <2>3. CASE SoltaPorOciosidade \/ TravaEncerra
    BY <2>3 DEF SoltaPorOciosidade, TravaEncerra, Trava
  <2>4. CASE proc' = proc
    BY <2>4
  <2>5. CASE Le \/ Responde \/ Cai \/ Imprime \/ Morre \/ TerminaDeEscrever \/ Sobe
    BY <2>5 DEF Le, Responde, Cai, Imprime, Morre, TerminaDeEscrever, Sobe
  <2>6. QED
    BY <2>1, <2>2, <2>3, <2>4, <2>5
       DEF Next, worker, Envia, Encerra, TravaEnvia, Recusa, FalhaAoPreparar, FalhaAoSubir,
           Escreve, ComecaAEscrever, Recebe, Dispara, MorreOrfao, Tempo
<1>2. QED
  BY <1>1, Invariante, PTL DEF Spec, SoOPrazoMata

\* The breaker spaces the processes, not only the calls: from the last start to the next
\* one goes at least the wait the failures call for.
THEOREM SubidasEspacadas == Spec => IntervaloEntreSubidas
<1>1. IInv /\ [Next]_vars =>
        [proc = "nenhum" /\ proc' = "pronto" /\ falhas >= FalhasParaEsfriar
           => desdeSubida >= EsperaAposFalhas(falhas)]_vars
  <2> SUFFICES ASSUME IInv, Next, proc = "nenhum", proc' = "pronto",
                      falhas >= FalhasParaEsfriar
               PROVE  desdeSubida >= EsperaAposFalhas(falhas)
    OBVIOUS
  <2>1. Sobe
    BY DEF Next, worker, Envia, Encerra, TravaEnvia, Recusa, FalhaAoPreparar, FalhaAoSubir,
           Escreve, ComecaAEscrever, TerminaDeEscrever, EscritaFalha, Recebe, LeituraFalha,
           Estoura, TravaEncerra, FimDaDespedida, FimDaDerrubada, Dispara,
           SoltaPorOciosidade, Le, Responde, Cai, Imprime, Morre, MorreOrfao, Tempo, Vivo, Mata
  <2>2. ~(desdeFalha < EsperaAposFalhas(falhas))
    BY <2>1 DEF Sobe, Esfriando
  <2>3. desdeSubida >= desdeFalha
    BY EsperasAssumption, Constantes DEF IInv, RecuoCoerente, TypeOK, TipoRecuo
  <2>4. EsperaAposFalhas(falhas) \in Nat
    BY EsperasAssumption, Constantes
       DEF EsperaAposFalhas, Min2, IInv, TypeOK, TipoRecuo
  <2>5. QED
    BY <2>2, <2>3, <2>4, Constantes DEF IInv, TypeOK, TipoRecuo, TipoHist
<1>2. QED
  BY <1>1, Invariante, PTL DEF Spec, IntervaloEntreSubidas

\* encerra leaves nothing behind.
THEOREM EncerraLimpa == Spec => EncerraNaoDeixaNada
<1>1. IInv /\ [Next]_vars =>
        [chamada = "encerra" /\ chamada' = "fora"
           => proc' = "nenhum" /\ ocioso' = "parado" /\ dono' = "ninguem"]_vars
  <2> SUFFICES ASSUME IInv, Next, chamada = "encerra", chamada' = "fora"
               PROVE  proc' = "nenhum" /\ ocioso' = "parado" /\ dono' = "ninguem"
    OBVIOUS
  <2>1. CASE TravaEncerra
    BY <2>1 DEF TravaEncerra, trava, worker, Trava, pedido
  <2>2. CASE FimDaDerrubada
    BY <2>2 DEF FimDaDerrubada, Destrava, timer, pedido, IInv, Protocolo
  <2>3. CASE chamada' = chamada
    BY <2>3
  <2>4. CASE \/ Recusa \/ FalhaAoPreparar \/ FalhaAoSubir \/ Recebe
             \/ \E p \in Pedidos, l \in Limites, t \in {"cabe", "excede"} : Envia(p, l, t)
    BY <2>4 DEF IInv, Protocolo, Recusa, FalhaAoPreparar, FalhaAoSubir, Recebe, Envia
  <2>5. QED
    BY <2>1, <2>2, <2>3, <2>4
       DEF Next, pedido, Encerra, TravaEnvia, Sobe, Escreve, ComecaAEscrever,
           TerminaDeEscrever, EscritaFalha, LeituraFalha, Estoura, FimDaDespedida, Dispara,
           SoltaPorOciosidade, Le, Responde, Cai, Imprime, Morre, MorreOrfao, Tempo
<1>2. QED
  BY <1>1, Invariante, PTL DEF Spec, EncerraNaoDeixaNada

----------------------------------------------------------------------------
(* The promise to each caller (ServicoWorker).                             *)

\* What the caller sees besides Andamento.
visto == <<chamada, atual, entregue>>

\* What the mapping reads in each state the protocol allows: at most one of its cases applies.
Visao ==
  /\ chamada # "envia" => Andamento = "livre"
  /\ chamada = "envia" =>
       /\ atual \in Pedidos /\ atual # Nenhum
       /\ Perdida => Andamento = "perdida"
       /\ fase = "esperando" /\ trabalho # Nenhum => Andamento = "executa" /\ ~Perdida
       /\ fase = "esperando" /\ saida # <<>> => Andamento = "feita" /\ ~Perdida /\ saida = <<atual>>
       /\ fase = "esperando" /\ trabalho = Nenhum /\ saida = <<>> /\ ~Perdida => Andamento = "pedida"
       /\ fase # "esperando" /\ ~(fase = "derrubando" /\ dono = "sdk") => Andamento = "pedida"

LEMMA VisaoDoProtocolo == IInv => Visao
<1> SUFFICES ASSUME IInv PROVE Visao
  OBVIOUS
<1>1. CASE chamada # "envia"
  BY <1>1 DEF Andamento, Visao
<1>2. CASE chamada = "envia"
  <2>1. fase = "esperando" => UmaMensagem(atual)
    BY DEF IInv, Protocolo
  <2>2. atual \in Pedidos /\ atual # Nenhum
    BY <1>2, PedidosAssumption DEF IInv, Protocolo
  <2>3. fase = "esperando" /\ saida # <<>> => trabalho = Nenhum /\ saida = <<atual>> /\ ~Perdida
    BY <2>1 DEF UmaMensagem, Perdida
  <2>4. fase = "esperando" /\ trabalho # Nenhum => saida = <<>> /\ ~Perdida
    BY <2>1 DEF UmaMensagem, Perdida
  <2>5. QED
    BY <1>2, <2>2, <2>3, <2>4 DEF Andamento, Perdida, Visao
<1>3. QED
  BY <1>1, <1>2

LEMMA VisaoDepois == IInv' => Visao'
  BY VisaoDoProtocolo, PTL

\* A step the caller does not see.
LEMMA PassoInvisivel ==
  ASSUME UNCHANGED visto, Andamento' = Andamento
  PROVE  UNCHANGED Servico!vars
BY DEF Servico!vars, visto

\* The steps of the calls, of the timer and of time that touch neither the call nor the worker.
LEMMA PassoAlheio ==
  ASSUME Encerra \/ Dispara \/ Imprime \/ MorreOrfao \/ Tempo \/ UNCHANGED vars
  PROVE  UNCHANGED Servico!vars
<1>1. UNCHANGED <<atual, entregue, fase, dono, proc, trabalho, saida>>
      /\ (chamada' = chamada \/ (chamada = "fora" /\ chamada' = "encerra"))
  BY DEF Encerra, Dispara, Imprime, MorreOrfao, Tempo, vars, pedido, trava, worker, canal, hist
<1>2. Andamento' = Andamento
  BY <1>1 DEF Andamento, Perdida
<1>3. QED
  BY <1>1, <1>2 DEF Servico!vars

\* A call begins, waits for the mutex, and goes until something is sent.
LEMMA PassoAteEnviar ==
  ASSUME IInv, Visao, Visao',
         \/ \E p \in Pedidos, l \in Limites, t \in {"cabe", "excede"} : Envia(p, l, t)
         \/ TravaEnvia \/ Sobe \/ Escreve \/ ComecaAEscrever
  PROVE  Servico!Next \/ UNCHANGED Servico!vars
<1>1. ASSUME NEW p \in Pedidos, NEW l \in Limites, NEW t \in {"cabe", "excede"}, Envia(p, l, t)
      PROVE  Servico!Chama(p)
  <2>1. /\ chamada = "fora" /\ chamada' = "envia" /\ atual' = p /\ UNCHANGED <<fase, dono, entregue>>
    BY <1>1 DEF Envia, trava, hist
  <2>2. fase = "livre" \/ dono = "ocioso"
    BY <2>1 DEF IInv, Protocolo, TypeOK, TipoTrava
  <2>3. Andamento = "livre" /\ Andamento' = "pedida"
    BY <2>1, <2>2 DEF IInv, Protocolo, Visao
  <2>4. QED
    BY <2>1, <2>3 DEF Servico!Chama
<1>2. CASE TravaEnvia \/ Sobe \/ ComecaAEscrever
  <2>1. /\ UNCHANGED visto /\ chamada = "envia"
        /\ fase # "esperando" /\ ~(fase = "derrubando" /\ dono = "sdk")
        /\ fase' # "esperando" /\ ~(fase' = "derrubando" /\ dono' = "sdk")
    BY <1>2 DEF TravaEnvia, Trava, Sobe, ComecaAEscrever, pedido, trava, hist, visto, IInv, Protocolo
  <2>2. Andamento = "pedida" /\ Andamento' = "pedida"
    BY <2>1 DEF visto, Visao
  <2>3. QED
    BY <2>1, <2>2, PassoInvisivel
<1>3. CASE Escreve
  <2>1. /\ UNCHANGED visto /\ chamada = "envia" /\ fase = "subindo" /\ fase' = "esperando"
        /\ proc' # "morto" /\ trabalho' = Nenhum /\ saida' = <<>>
    BY <1>3 DEF Escreve, Vivo, pedido, hist, visto, IInv, Protocolo, CanalVazio
  <2>2. Andamento = "pedida" /\ Andamento' = "pedida"
    BY <2>1 DEF visto, Perdida, Visao
  <2>3. QED
    BY <2>1, <2>2, PassoInvisivel
<1>4. QED
  BY <1>1, <1>2, <1>3 DEF Servico!Next

\* The worker takes a request, answers it or dies.
LEMMA PassoDoWorker ==
  ASSUME IInv, Visao, Visao', TerminaDeEscrever \/ Le \/ Responde \/ Cai \/ Morre
  PROVE  Servico!Next \/ UNCHANGED Servico!vars
<1>1. CASE TerminaDeEscrever
  <2>1. /\ UNCHANGED visto /\ chamada = "envia" /\ fase = "escrevendo" /\ fase' = "esperando"
        /\ trabalho' = atual
    BY <1>1 DEF TerminaDeEscrever, pedido, hist, visto, IInv, Protocolo
  <2>2. Andamento = "pedida" /\ Andamento' = "executa"
    BY <2>1 DEF visto, Visao
  <2>3. QED
    BY <2>1, <2>2 DEF visto, Servico!Next, Servico!Anda
<1>2. CASE (Le \/ Responde \/ Cai \/ Morre) /\ (chamada # "envia" \/ fase # "esperando")
  <2>1. UNCHANGED visto /\ UNCHANGED <<fase, dono>>
    BY <1>2 DEF Le, Responde, Cai, Morre, pedido, trava, hist, visto
  <2>2. Andamento' = Andamento
    BY <1>2, <2>1 DEF visto, Perdida, Visao
  <2>3. QED
    BY <2>1, <2>2, PassoInvisivel
<1>3. CASE Le /\ chamada = "envia" /\ fase = "esperando"
  <2>1. /\ UNCHANGED visto /\ fase' = "esperando" /\ proc = "pronto" /\ entrada # <<>>
        /\ trabalho' = Head(entrada)
    BY <1>3 DEF Le, pedido, trava, hist, visto
  <2>2. entrada = <<atual>> /\ trabalho = Nenhum /\ saida = <<>>
    BY <1>3, <2>1 DEF IInv, Protocolo, UmaMensagem
  <2>3. Andamento = "pedida" /\ Andamento' = "executa"
    BY <1>3, <2>1, <2>2 DEF visto, Perdida, Visao
  <2>4. QED
    BY <2>1, <2>3 DEF visto, Servico!Next, Servico!Anda
<1>4. CASE Responde /\ chamada = "envia" /\ fase = "esperando"
  <2>1. /\ UNCHANGED visto /\ fase' = "esperando" /\ proc = "atendendo"
        /\ saida' = Append(saida, trabalho)
    BY <1>4 DEF Responde, pedido, trava, hist, visto
  <2>2. trabalho = atual /\ saida = <<>>
    BY <1>4, <2>1 DEF IInv, Protocolo, UmaMensagem
  <2>3. saida' # <<>>
    BY <2>1, <2>2
  <2>4. Andamento = "executa" /\ Andamento' = "feita"
    BY <1>4, <2>1, <2>2, <2>3 DEF visto, Visao
  <2>5. QED
    BY <2>1, <2>4 DEF visto, Servico!Next, Servico!Anda
<1>5. CASE Cai /\ chamada = "envia" /\ fase = "esperando"
  <2>1. /\ UNCHANGED visto /\ fase' = "esperando" /\ proc' = "morto" /\ trabalho' = Nenhum
        /\ saida' = saida
    BY <1>5 DEF Cai, pedido, trava, hist, visto
  <2>2. CASE saida = <<>>
    <3>1. Andamento' = "perdida" /\ Andamento # "livre"
      BY <1>5, <2>1, <2>2 DEF visto, Perdida, Visao
    <3>2. QED
      BY <2>1, <3>1 DEF visto, Servico!Next, Servico!Perde
  <2>3. CASE saida # <<>>
    <3>1. Andamento = "feita" /\ Andamento' = "feita"
      BY <1>5, <2>1, <2>3 DEF visto, Visao
    <3>2. QED
      BY <2>1, <3>1, PassoInvisivel
  <2>4. QED
    BY <2>2, <2>3
<1>6. ~(Morre /\ fase = "esperando")
  BY DEF Morre, IInv, Protocolo, UmaMensagem
<1>7. QED
  BY <1>1, <1>2, <1>3, <1>4, <1>5, <1>6

\* A call returns: the answer to its own execution, or an error when there is none or it is lost.
LEMMA PassoDaVolta ==
  ASSUME IInv, Visao, Visao', Recusa \/ FalhaAoPreparar \/ FalhaAoSubir \/ Recebe \/ FimDaDerrubada
  PROVE  Servico!Next \/ UNCHANGED Servico!vars
<1>1. CASE Recusa \/ FalhaAoPreparar \/ FalhaAoSubir
  <2>1. chamada = "envia" /\ fase = "subindo" /\ chamada' = "fora" /\ entregue' = SemResposta
    BY <1>1 DEF Recusa, FalhaAoPreparar, FalhaAoSubir, Devolve, ForaDaChamada, IInv, Protocolo
  <2>2. Andamento = "pedida" /\ Andamento' = "livre"
    BY <2>1 DEF Visao
  <2>3. QED
    BY <2>1, <2>2 DEF SemResposta, Servico!Next, Servico!Falha, Servico!Volta
<1>2. CASE Recebe
  <2>1. /\ chamada = "envia" /\ fase = "esperando" /\ saida # <<>> /\ chamada' = "fora"
        /\ entregue'.de = Head(saida)
    BY <1>2 DEF Recebe, Devolve, ForaDaChamada, IInv, Protocolo
  <2>2. Andamento = "feita" /\ Andamento' = "livre" /\ saida = <<atual>>
    BY <2>1 DEF Visao
  <2>3. entregue'.de = atual
    BY <2>1, <2>2
  <2>4. QED
    BY <2>1, <2>2, <2>3 DEF Servico!Next, Servico!Responde, Servico!Volta
<1>3. CASE FimDaDerrubada /\ dono = "sdk" /\ chamada = "envia"
  <2>1. fase = "derrubando" /\ chamada' = "fora" /\ entregue' = SemResposta
    BY <1>3 DEF FimDaDerrubada, Devolve, ForaDaChamada
  <2>2. Andamento = "perdida" /\ Andamento' = "livre"
    BY <1>3, <2>1 DEF Perdida, Visao
  <2>3. QED
    BY <1>3, <2>1, <2>2 DEF SemResposta, Servico!Next, Servico!Falha, Servico!Volta
<1>4. CASE FimDaDerrubada /\ dono = "sdk" /\ chamada = "encerra"
  <2>1. chamada' = "fora" /\ entregue' = entregue
    BY <1>4 DEF FimDaDerrubada, ForaDaChamada, hist
  <2>2. Andamento = "livre" /\ Andamento' = "livre"
    BY <1>4, <2>1 DEF Visao
  <2>3. QED
    BY <1>4, <2>1, <2>2 DEF Servico!vars
<1>5. CASE FimDaDerrubada /\ dono = "ocioso"
  <2>1. UNCHANGED visto /\ fase = "derrubando" /\ fase' = "livre"
    BY <1>5 DEF FimDaDerrubada, Destrava, pedido, hist, visto
  <2>2. Andamento' = Andamento
    BY <1>5, <2>1 DEF visto, Visao
  <2>3. QED
    BY <2>1, <2>2, PassoInvisivel
<1>6. QED
  BY <1>1, <1>2, <1>3, <1>4, <1>5 DEF FimDaDerrubada

\* A worker is killed for a call, or let go of behind its back.
LEMMA PassoDaMorte ==
  ASSUME IInv, Visao, Visao',
         EscritaFalha \/ LeituraFalha \/ Estoura \/ TravaEncerra \/ FimDaDespedida \/ SoltaPorOciosidade
  PROVE  Servico!Next \/ UNCHANGED Servico!vars
<1>1. CASE EscritaFalha \/ LeituraFalha \/ Estoura
  <2>1. /\ UNCHANGED visto /\ UNCHANGED dono /\ chamada = "envia" /\ dono = "sdk"
        /\ fase' = "derrubando"
    BY <1>1 DEF EscritaFalha, LeituraFalha, Estoura, Mata, pedido, hist, visto, IInv, Protocolo
  <2>2. Andamento' = "perdida" /\ Andamento # "livre"
    BY <2>1 DEF visto, Perdida, Visao
  <2>3. QED
    BY <2>1, <2>2 DEF visto, Servico!Next, Servico!Perde
<1>2. CASE TravaEncerra
  <2>1. chamada = "encerra" /\ chamada' \in {"encerra", "fora"} /\ entregue' = entregue
    BY <1>2 DEF TravaEncerra, ForaDaChamada, pedido, hist
  <2>2. Andamento = "livre" /\ Andamento' = "livre"
    BY <2>1 DEF Visao
  <2>3. QED
    BY <2>1, <2>2 DEF Servico!vars
<1>3. CASE FimDaDespedida \/ SoltaPorOciosidade
  <2>1. /\ UNCHANGED visto /\ fase # "esperando" /\ fase' # "esperando"
        /\ chamada = "envia" => /\ ~(fase = "derrubando" /\ dono = "sdk")
                                /\ ~(fase' = "derrubando" /\ dono' = "sdk")
    BY <1>3 DEF FimDaDespedida, SoltaPorOciosidade, Despede, Mata, pedido, trava, hist, visto, IInv, Protocolo
  <2>2. Andamento' = Andamento
    BY <2>1 DEF visto, Visao
  <2>3. QED
    BY <2>1, <2>2, PassoInvisivel
<1>4. QED
  BY <1>1, <1>2, <1>3

\* Whatever the mutex, the timers, the deadlines and the process do, a call is executed at most
\* once, and returns the answer to that execution or an error.
THEOREM Implementa == Spec => ImplementaChamada
<1>1. Init => Servico!Init
  BY DEF Init, Servico!Init, Andamento
<1>2. IInv /\ IInv' /\ [Next]_vars => [Servico!Next]_(Servico!vars)
  BY VisaoDoProtocolo, VisaoDepois, PassoAlheio, PassoAteEnviar, PassoDoWorker, PassoDaVolta, PassoDaMorte DEF Next
<1>3. QED
  BY <1>1, <1>2, Invariante, PTL DEF Spec, ImplementaChamada, Servico!Spec
=============================================================================
