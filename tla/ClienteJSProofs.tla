--------------------------- MODULE ClienteJSProofs ---------------------------
(* Theorems about ClienteJS, for every set of operations and of lives of    *)
(* the agent, and every number of ports.                                    *)
EXTENDS ClienteJS, TLAPS

Procura(o) == pc[o] \in {"varre", "achou", "aguarda"}

----------------------------------------------------------------------------
(* The inductive invariant.                                                 *)

\* How often each operation was sent and executed, and with which error it was sent again.
Vezes(o) ==
  /\ tipo[o] = "conexao" => execs[o] = 0 /\ tenta[o] = 1
  /\ pc[o] = "fora" => execs[o] = 0 /\ tenta[o] = 1
  /\ pc[o] = "indo" => execs[o] < tenta[o]
  /\ execs[o] <= tenta[o]
  /\ Procura(o) => tenta[o] = 1
  /\ Procura(o) /\ tipo[o] # "conexao" => erro[o] \in {"401", "rede"}
  /\ pc[o] = "voltou" => resp[o] \in {"ok", "401", "403", "rede", "vazia"}
  /\ pc[o] = "voltou" /\ tenta[o] = 1 /\ resp[o] \notin {"ok", "rede", "vazia"} => execs[o] = 0
  /\ (tenta[o] = 2 /\ pc[o] = "indo") \/ Procura(o) => (execs[o] > 0 => erro[o] = "rede")
  /\ execs[o] = 2 => erro[o] = "rede"

\* An operation around which nothing failed: the discovery has not passed the agent's port, what
\* it found is the agent that runs, and the second request goes there with its secret.
Calma(o) ==
  ruido[o] = "nao" /\ pc[o] # "fora" =>
    /\ pc[o] # "fim" => vivo # "nenhum" /\ autorizada = "sim"
    /\ pc[o] = "indo" /\ tenta[o] = 1 => (Simples(tipo[o], leva[o]) => alvo[o] = porta)
    /\ pc[o] = "indo" /\ tenta[o] = 2 => leva[o] = vivo /\ alvo[o] = porta
    /\ pc[o] = "voltou" => resp[o] \in {"ok", "401", "rede"}
    /\ pc[o] = "voltou" /\ tenta[o] = 2 => resp[o] = "ok"
    /\ pc[o] = "varre" => alvo[o] <= porta
    /\ pc[o] = "achou" => \/ resp[o] = "ok" /\ leva[o] = vivo /\ alvo[o] = porta
                          \/ resp[o] = "nada" /\ alvo[o] < porta
    /\ pc[o] # "aguarda"
    /\ pc[o] = "fim" => resp[o] = "ok"

IInv == TypeOK /\ \A o \in Op : Vezes(o) /\ Calma(o)

\* The page before its first operation.
LEMMA Inicio == Init => IInv
  BY ClienteJSAssumption DEF Init, IInv, TypeOK, Vezes, Calma, Procura

----------------------------------------------------------------------------
(* What one operation does leaves the others alone.                         *)

\* The variables of an operation but for which it is.
Igual(o) ==
  /\ pc'[o] = pc[o] /\ tipo'[o] = tipo[o] /\ tenta'[o] = tenta[o] /\ leva'[o] = leva[o]
  /\ alvo'[o] = alvo[o] /\ resp'[o] = resp[o] /\ erro'[o] = erro[o] /\ execs'[o] = execs[o]
  /\ ruido'[o] = ruido[o]

\* Steps of an operation leave agent and the other operations as they are.
LEMMA SoUma ==
  ASSUME TypeOK, NEW o \in Op,
         \/ Pede(o) \/ PassoDaPagina(o) \/ Perde(o) \/ Usa(o)
  PROVE  UNCHANGED agente /\ \A q \in Op \ {o} : Igual(q)
<1> USE DEF TypeOK, Igual, agente, pagina
<1>1. CASE Pede(o)
  BY <1>1 DEF Pede, Requisita, Varre
<1>2. CASE Recusa(o) \/ Executa(o) \/ Responde(o) \/ Perde(o)
  BY <1>2 DEF Recusa, Executa, Responde, Atende, Perde, Volta
<1>3. CASE Recebe(o)
  BY <1>3 DEF Recebe, Varre, Fim
<1>4. CASE Hello(o)
  BY <1>4 DEF Hello
<1>5. CASE Acha(o)
  BY <1>5 DEF Acha, Conecta, Desiste, Requisita, Fim
<1>6. CASE Aguarda(o)
  BY <1>6 DEF Aguarda, Desiste, Requisita, Fim
<1>7. CASE Usa(o)
  BY <1>7 DEF Usa
<1>8. QED
  BY <1>1, <1>2, <1>3, <1>4, <1>5, <1>6, <1>7 DEF PassoDaPagina

\* What holds of an operation nothing happened to still holds.
LEMMA Alheia ==
  ASSUME NEW q \in Op, Vezes(q) /\ Calma(q), Igual(q), UNCHANGED agente
  PROVE  Vezes(q)' /\ Calma(q)'
  BY DEF Igual, agente, Vezes, Calma, Procura, Simples

----------------------------------------------------------------------------
(* The steps of one operation.                                              *)

\* Types, counts and calm of the operation that takes the step.
Desta(o) == TypeOK' /\ Vezes(o)' /\ Calma(o)'

\* A call begins.
LEMMA PassoPede == ASSUME IInv, NEW o \in Op, Pede(o) PROVE Desta(o)
<1> USE ClienteJSAssumption DEF IInv, TypeOK, agente, pagina
<1>1. PICK x \in Tipos[o] :
        /\ tipo' = [tipo EXCEPT ![o] = x]
        /\ ruido' = [ruido EXCEPT ![o] = IF BemComecada(x) THEN "nao" ELSE "sim"]
        /\ IF x = "conexao" /\ token = "nenhum" THEN Varre(o) ELSE Requisita(o, 1, token, endereco)
  BY DEF Pede
<1>2. x \in {"captura", "comparacao", "conexao"}
  OBVIOUS
<1>3. TypeOK'
  BY <1>1, <1>2 DEF Pede, Varre, Requisita
<1>4. Vezes(o)'
  BY <1>1, <1>2 DEF Pede, Varre, Requisita, Vezes, Procura
<1>5. Calma(o)'
  BY <1>1, <1>2 DEF Pede, Varre, Requisita, Calma, BemComecada, Simples
<1>6. QED
  BY <1>3, <1>4, <1>5 DEF Desta

\* The request and its answer.
LEMMA PassoPedido ==
  ASSUME IInv, NEW o \in Op, Recusa(o) \/ Executa(o) \/ Responde(o) \/ Perde(o) PROVE Desta(o)
<1> USE DEF IInv, TypeOK, agente, pagina, Volta, Alcanca
<1>1. CASE Recusa(o)
  <2>1. TypeOK' /\ Vezes(o)'
    BY <1>1 DEF Recusa, Vezes, Procura
  <2>2. Calma(o)'
    BY <1>1 DEF Recusa, Calma, Simples
  <2>3. QED
    BY <2>1, <2>2 DEF Desta
<1>2. CASE Executa(o)
  <2>1. execs[o] \in {0, 1} /\ execs[o] < tenta[o]
    BY <1>2 DEF Executa, Vezes
  <2>2. TypeOK'
    BY <1>2, <2>1 DEF Executa
  <2>3. execs'[o] = execs[o] + 1
    BY <1>2 DEF Executa
  <2>4. Vezes(o)'
    BY <1>2, <2>1, <2>3 DEF Executa, Vezes, Procura
  <2>5. Calma(o)'
    BY <1>2 DEF Executa, Calma
  <2>6. QED
    BY <2>2, <2>4, <2>5 DEF Desta
<1>3. CASE Responde(o)
  BY <1>3 DEF Responde, Atende, Desta, Vezes, Procura, Calma
<1>4. CASE Perde(o)
  <2>1. pc[o] \in {"indo", "executa"} /\ (Volta(o, "rede") \/ Volta(o, "vazia"))
    BY <1>4 DEF Perde, Atende
  <2>2. TypeOK' /\ Calma(o)'
    BY <1>4, <2>1 DEF Perde, Calma
  <2>3. Vezes(o)'
    BY <1>4, <2>1 DEF Perde, Vezes, Procura
  <2>4. QED
    BY <2>2, <2>3 DEF Desta
<1>5. QED
  BY <1>1, <1>2, <1>3, <1>4

\* The answer reaches the page.
LEMMA PassoRecebe == ASSUME IInv, NEW o \in Op, Recebe(o) PROVE Desta(o)
<1> USE ClienteJSAssumption DEF IInv, TypeOK, agente, pagina, Recebe, Reconectavel, Varre, Fim
<1>1. TypeOK'
  BY DEF Vezes
<1>2. Vezes(o)'
  BY DEF Vezes, Procura
<1>3. Calma(o)'
  BY DEF Calma, Vezes
<1>4. QED
  BY <1>1, <1>2, <1>3 DEF Desta

\* One port of the discovery.
LEMMA PassoHello == ASSUME IInv, NEW o \in Op, Hello(o) PROVE Desta(o)
<1> USE DEF IInv, TypeOK, agente, pagina, Hello, Alcanca
<1>1. TypeOK' /\ Vezes(o)'
  BY DEF Vezes, Procura
<1>2. Calma(o)'
  BY DEF Calma
<1>3. QED
  BY <1>1, <1>2 DEF Desta

\* What the discovery does with what it found.
LEMMA PassoAcha == ASSUME IInv, NEW o \in Op, Acha(o) \/ Aguarda(o) PROVE Desta(o)
<1> USE ClienteJSAssumption
    DEF IInv, TypeOK, agente, pagina, Acha, Aguarda, Conecta, Desiste, Requisita, Fim, Alcanca
<1>1. TypeOK'
  BY DEF Vezes, Procura
<1>2. Vezes(o)'
  BY DEF Vezes, Procura
<1>3. Calma(o)'
  BY DEF Calma, Vezes, Procura, Simples
<1>4. QED
  BY <1>1, <1>2, <1>3 DEF Desta

\* The page takes the result.
LEMMA PassoUsa == ASSUME IInv, NEW o \in Op, Usa(o) PROVE Desta(o)
  BY ClienteJSAssumption
  DEF IInv, TypeOK, agente, pagina, Usa, Desta, Vezes, Procura, Calma

----------------------------------------------------------------------------
(* The steps of the agent.                                                  *)

\* Death, birth and the user's decisions.
LEMMA PassoDoAgente == ASSUME IInv, Morre \/ Nasce \/ Decide PROVE IInv'
<1> USE ClienteJSAssumption DEF IInv, TypeOK, agente, pagina, oper
<1>1. CASE Morre
  <2>1. TypeOK'
    BY <1>1 DEF Morre, RuidoParaTodas
  <2>2. ASSUME NEW q \in Op PROVE Vezes(q)' /\ Calma(q)'
    BY <1>1 DEF Morre, RuidoParaTodas, Vezes, Procura, Calma
  <2>3. QED
    BY <2>1, <2>2
<1>2. CASE Nasce
  <2>1. TypeOK'
    BY <1>2 DEF Nasce
  <2>2. ASSUME NEW q \in Op PROVE Vezes(q)' /\ Calma(q)'
    BY <1>2 DEF Nasce, Vezes, Procura, Calma
  <2>3. QED
    BY <2>1, <2>2
<1>3. CASE Decide
  <2>1. TypeOK'
    BY <1>3 DEF Decide, RuidoParaTodas
  <2>2. ASSUME NEW q \in Op PROVE Vezes(q)' /\ Calma(q)'
    BY <1>3 DEF Decide, RuidoParaTodas, Vezes, Procura, Calma
  <2>3. QED
    BY <2>1, <2>2
<1>4. QED
  BY <1>1, <1>2, <1>3

----------------------------------------------------------------------------

\* The invariant.
THEOREM Invariante == Spec => []IInv
<1>1. IInv /\ [Next]_vars => IInv'
  <2> SUFFICES ASSUME IInv, [Next]_vars PROVE IInv'
    OBVIOUS
  <2>1. ASSUME NEW o \in Op, Pede(o) \/ PassoDaPagina(o) \/ Perde(o) \/ Usa(o) PROVE IInv'
    <3>1. Desta(o)
      BY <2>1, PassoPede, PassoPedido, PassoRecebe, PassoHello, PassoAcha, PassoUsa
      DEF PassoDaPagina
    <3>2. UNCHANGED agente /\ \A q \in Op \ {o} : Igual(q)
      BY <2>1, SoUma DEF IInv
    <3>3. ASSUME NEW q \in Op \ {o} PROVE Vezes(q)' /\ Calma(q)'
      BY <3>2, Alheia DEF IInv
    <3>4. QED
      BY <3>1, <3>3 DEF IInv, Desta
  <2>2. CASE Morre \/ Nasce \/ Decide
    BY <2>2, PassoDoAgente
  <2>3. CASE UNCHANGED vars
    BY <2>3 DEF vars, agente, pagina, oper, IInv, TypeOK, Vezes, Procura, Calma
  <2>4. QED
    BY <2>1, <2>2, <2>3 DEF Next
<1>2. QED
  BY <1>1, Inicio, PTL DEF Spec

\* Type correctness.
THEOREM TipoCorreto == Spec => []TypeOK
  BY Invariante, PTL DEF IInv

\* A capture is asked for again only when the connection of the first was lost
\* (integra-biometria.js:103-112).
THEOREM SoRepetePerdida == Spec => []RepeteSoSePerdeu
<1>1. ASSUME IInv, NEW o \in Op PROVE execs[o] <= 2 /\ (execs[o] = 2 => erro[o] = "rede")
  <2>1. execs[o] \in 0 .. 2 /\ tenta[o] \in {1, 2}
    BY <1>1 DEF IInv, TypeOK
  <2>2. Vezes(o)
    BY <1>1 DEF IInv
  <2>3. QED
    BY <2>1, <2>2 DEF Vezes
<1>2. QED
  <2>1. IInv => RepeteSoSePerdeu
    BY <1>1 DEF RepeteSoSePerdeu
  <2>2. QED
    BY <2>1, Invariante, PTL

\* An operation around which nothing fails is answered, whatever the page remembered and the
\* other operations do (integra-biometria.js:36-112, 144-189).
THEOREM SemRuidoVence == Spec => []SemRuidoResponde
<1>1. IInv => SemRuidoResponde
  BY DEF IInv, Calma, SemRuidoResponde
<1>2. QED
  BY <1>1, Invariante, PTL
=============================================================================
