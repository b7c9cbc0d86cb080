---------------------------- MODULE AgenteProofs ----------------------------
(* Theorems about the agent's process around its requests: what it         *)
(* believes of the reader and shows in the tray (EstadoLeitor), for any    *)
(* handlers, and its listener and supervisor (ProcessoAgente), for any     *)
(* connections, slots, waits and lives.                                    *)
EXTENDS EstadoLeitor, ListenerMista, Supervisor, TLAPS, FiniteSetTheorems,
  WellFoundedInduction

----------------------------------------------------------------------------
\* EstadoLeitor.

IInv == TypeOK /\ ArranqueDepois /\ UmaPorVez

\* An annotation changes the belief to one of the two it can be painted with.
LEMMA AnotacaoPintavel ==
  ASSUME NEW d PROVE Mudou(d) => Anotacao(d) \in {"conectado", "desconectado"}
BY DEF Mudou, Anotacao

LEMMA PassoTipo == TypeOK /\ ArranqueDepois /\ [Next]_vars => TypeOK' /\ ArranqueDepois'
<1> SUFFICES ASSUME TypeOK, ArranqueDepois, [Next]_vars PROVE TypeOK' /\ ArranqueDepois'
  OBVIOUS
<1> USE ArranqueAssumption DEF TypeOK, ArranqueDepois, Desfechos, Erros, Dispositivo, EmVoo, Anotadores
<1>1. CASE Liga \/ Desliga \/ SoltaPorOciosidade
  BY <1>1 DEF Liga, Desliga, SoltaPorOciosidade
<1>2. ASSUME NEW a \in Anotadores, NEW o \in {"conta", "captura"}, Pede(a, o)
      PROVE  TypeOK' /\ ArranqueDepois'
  BY <1>2 DEF Pede
<1>3. ASSUME NEW a \in Anotadores, Cancela(a) PROVE TypeOK' /\ ArranqueDepois'
  BY <1>3 DEF Cancela
<1>4. ASSUME NEW a \in Anotadores, NEW d \in Desfechos, Leva(a, d), pc[a] \in {"conta", "captura"},
             inst' \in {"nenhuma", "boa", "cega"}
      PROVE  TypeOK' /\ ArranqueDepois'
  <2>1. /\ pc' \in [Anotadores -> {"fora", "conta", "captura", "anota", "pinta"}]
        /\ valor' \in [Anotadores -> Desfechos \cup {"conectado", "desconectado", "nada"}]
        /\ pc'[a] = "anota" /\ valor'[a] = d
        /\ \A b \in Anotadores \ {a} : pc'[b] = pc[b] /\ valor'[b] = valor[b]
    BY <1>4 DEF Leva
  <2>2. \A b \in Anotadores :
          /\ pc'[b] = "anota" => valor'[b] \in Desfechos
          /\ pc'[b] = "pinta" => valor'[b] \in {"conectado", "desconectado"}
          /\ pc'[b] \notin {"anota", "pinta"} => valor'[b] = "nada"
    BY <2>1
  <2>3. ArranqueDepois'
    BY <1>4, <2>1 DEF Leva
  <2>4. limpo' \in {"sim", "nao"} /\ UNCHANGED <<leitor, estado, bandeja, icone, ultima>>
    BY <1>4 DEF Leva
  <2>5. QED
    BY <1>4, <2>1, <2>2, <2>3, <2>4
<1>5. ASSUME NEW a \in Anotadores, Executa(a) PROVE TypeOK' /\ ArranqueDepois'
  <2>1. PICK d \in Desfechos : inst' = InstanciaDepois(d) /\ Leva(a, d)
    BY <1>5 DEF Executa, Contagem, Leitura
  <2>2. inst' \in {"nenhuma", "boa", "cega"}
    BY <2>1 DEF InstanciaDepois, InstanciaDoPedido
  <2>3. QED
    BY <1>5, <2>1, <2>2, <1>4 DEF Executa
<1>6. ASSUME NEW a \in Anotadores, NaoInicia(a) \/ WorkerCai(a) PROVE TypeOK' /\ ArranqueDepois'
  <2>1. PICK d \in Desfechos : inst' \in {"nenhuma", "boa", "cega"} /\ Leva(a, d)
    BY <1>6 DEF NaoInicia, WorkerCai
  <2>2. QED
    BY <1>6, <2>1, <1>4 DEF NaoInicia, WorkerCai
<1>7. ASSUME NEW a \in Anotadores, Anota(a) PROVE TypeOK' /\ ArranqueDepois'
  <2>1. valor[a] \in Desfechos /\ pc[a] = "anota"
    BY <1>7 DEF Anota
  <2>2. /\ estado' \in {"naoAferido", "conectado", "desconectado"}
        /\ ultima' \in Desfechos /\ limpo' \in {"sim", "nao"}
    BY <1>7, <2>1 DEF Anota, Anotacao
  <2>3. CASE pc' = [pc EXCEPT ![a] = "fora"] /\ valor' = [valor EXCEPT ![a] = "nada"]
    BY <1>7, <2>1, <2>2, <2>3 DEF Anota
  <2>4. ASSUME NEW e \in {"conectado", "desconectado"},
               pc' = [pc EXCEPT ![a] = "pinta"], valor' = [valor EXCEPT ![a] = e]
        PROVE  TypeOK' /\ ArranqueDepois'
    BY <1>7, <2>1, <2>2, <2>4 DEF Anota
  <2>5. QED
    BY <1>7, <2>3, <2>4, AnotacaoPintavel DEF Anota
<1>8. ASSUME NEW a \in Anotadores, Pinta(a) PROVE TypeOK' /\ ArranqueDepois'
  BY <1>8 DEF Pinta, Cor
<1>9. CASE FechaBandejaPronta
  BY <1>9 DEF FechaBandejaPronta
<1>10. CASE PrimeiroIcone
  BY <1>10 DEF PrimeiroIcone
<1>11. CASE UNCHANGED vars
  BY <1>11 DEF vars
<1>12. QED
  BY <1>1, <1>2, <1>3, <1>5, <1>6, <1>7, <1>8, <1>9, <1>10, <1>11 DEF Next

\* An outcome that the worker handed over while nobody else was annotating is alone.
LEMMA LevaSozinho ==
  ASSUME TypeOK, UmaPorVez, NEW a \in Anotadores, NEW d, Leva(a, d), pc[a] \in {"conta", "captura"}
  PROVE  UmaPorVez'
<1> SUFFICES ASSUME limpo' = "sim" PROVE UmaPorVez'
  BY DEF UmaPorVez
<1>1. limpo = "sim" /\ EmVoo = {} /\ EmVoo' = {a} /\ pc'[a] = "anota"
  BY DEF Leva, EmVoo, TypeOK
<1>2. UNCHANGED <<estado, bandeja, icone>>
  BY DEF Leva
<1>3. QED
  BY <1>1, <1>2 DEF UmaPorVez, Cor

LEMMA PassoUmaPorVez == TypeOK /\ ArranqueDepois /\ UmaPorVez /\ [Next]_vars => UmaPorVez'
<1> SUFFICES ASSUME TypeOK, ArranqueDepois, UmaPorVez, [Next]_vars PROVE UmaPorVez'
  OBVIOUS
<1>1. CASE Liga \/ Desliga \/ SoltaPorOciosidade \/ FechaBandejaPronta \/ UNCHANGED vars
  BY <1>1 DEF Liga, Desliga, SoltaPorOciosidade, FechaBandejaPronta, vars, UmaPorVez, EmVoo, Cor
<1>2. ASSUME NEW a \in Anotadores, Cancela(a) \/ \E o \in {"conta", "captura"} : Pede(a, o)
      PROVE  UmaPorVez'
  <2>1. /\ UNCHANGED <<valor, estado, bandeja, icone, limpo>> /\ EmVoo' = EmVoo
        /\ \A b \in EmVoo : pc'[b] = pc[b]
    BY <1>2 DEF Cancela, Pede, TypeOK, EmVoo
  <2>2. QED
    BY <2>1 DEF UmaPorVez, Cor
<1>3. ASSUME NEW a \in Anotadores, Executa(a) \/ NaoInicia(a) \/ WorkerCai(a) PROVE UmaPorVez'
  BY <1>3, LevaSozinho DEF Executa, NaoInicia, WorkerCai
<1>4. ASSUME NEW a \in Anotadores, Anota(a), limpo' = "sim" PROVE UmaPorVez'
  <2>1. limpo = "sim" /\ bandeja = "pintada" /\ bandeja' = bandeja /\ icone' = icone /\ EmVoo = {a}
        /\ pc[a] = "anota"
    BY <1>4 DEF Anota, UmaPorVez, EmVoo
  <2>2. CASE Mudou(ComoChega(valor[a]))
    <3>1. EmVoo' = {a} /\ pc'[a] = "pinta" /\ valor'[a] = estado'
      BY <1>4, <2>1, <2>2 DEF Anota, TypeOK, EmVoo
    <3>2. QED
      BY <2>1, <3>1 DEF UmaPorVez
  <2>3. CASE ~Mudou(ComoChega(valor[a]))
    <3>1. EmVoo' = {} /\ estado' = estado
      BY <1>4, <2>1, <2>3 DEF Anota, TypeOK, EmVoo, Mudou
    <3>2. QED
      BY <2>1, <3>1 DEF UmaPorVez, Cor
  <2>4. QED
    BY <2>2, <2>3
<1>5. ASSUME NEW a \in Anotadores, Pinta(a), limpo' = "sim" PROVE UmaPorVez'
  <2>1. /\ limpo = "sim" /\ EmVoo = {a} /\ valor[a] = estado /\ bandeja = "pintada"
        /\ UNCHANGED <<bandeja, estado>> /\ icone' = Cor(estado) /\ EmVoo' = {}
    BY <1>5 DEF Pinta, UmaPorVez, EmVoo, TypeOK
  <2>2. QED
    BY <2>1 DEF UmaPorVez, Cor
<1>6. CASE PrimeiroIcone
  <2>1. limpo' = "sim" => limpo = "sim" /\ EmVoo' = {} /\ estado' = estado /\ estado = "naoAferido"
    BY <1>6 DEF PrimeiroIcone, UmaPorVez, EmVoo, TypeOK
  <2>2. QED
    BY <2>1 DEF UmaPorVez
<1>7. QED
  BY <1>1, <1>2, <1>3, <1>4, <1>5, <1>6 DEF Next, UmaPorVez

\* What the agent believes and shows is coherent as long as annotations come one at a time,
\* whatever the reader, the worker, the tray and the handlers do.
THEOREM Invariante == Spec => []IInv
<1>1. Init => IInv
  BY DEF Init, IInv, TypeOK, ArranqueDepois, UmaPorVez, EmVoo, Anotadores
<1>2. IInv /\ [Next]_vars => IInv'
  BY PassoTipo, PassoUmaPorVez DEF IInv
<1>3. QED
  BY <1>1, <1>2, PTL DEF Spec

\* The belief, the icon and each annotation stay among the values the code gives them.
THEOREM TipoCorreto == Spec => []TypeOK
BY Invariante, PTL DEF IInv

\* Annotations that come one at a time, once the tray is up, leave the icon in the colour of
\* what the agent believes (defineEstadoLeitor, pintaIconeLeitor).
THEOREM IconeCerto == Spec => []IconeCertoSemCorrida
<1>1. IInv => IconeCertoSemCorrida
  BY DEF IInv, UmaPorVez, IconeCertoSemCorrida
<1>2. QED
  BY <1>1, Invariante, PTL

\* Only an absence the SDK reported turns a reader off: no other outcome, in any race
\* (TestErroRotineiroDeCapturaNaoApagaOLeitor, TestErroSemCodigoDeSDKNaoMexeNoEstado).
THEOREM SoAusencia == Spec => SoAusenciaApaga
<1>1. ASSUME [Next]_vars
      PROVE  [estado = "conectado" /\ estado' = "desconectado" => ultima' \in {"zero"} \cup Dispositivo]_vars
  <2> SUFFICES ASSUME estado = "conectado", estado' = "desconectado"
               PROVE  ultima' \in {"zero"} \cup Dispositivo
    OBVIOUS
  <2>1. PICK a \in Anotadores : Anota(a)
    BY <1>1 DEF Next, Liga, Desliga, SoltaPorOciosidade, Pede, Cancela, Executa, NaoInicia, WorkerCai, Leva, Pinta,
      FechaBandejaPronta, PrimeiroIcone, vars
  <2>2. ultima' = valor[a] /\ Anotacao(ComoChega(valor[a])) = "desconectado"
    BY <2>1 DEF Anota
  <2>3. ComoChega(valor[a]) \in {"zero"} \cup Dispositivo
    BY <2>2 DEF Anotacao, ErroDeDispositivo
  <2>4. QED
    BY <2>2, <2>3 DEF ComoChega, Erros, Dispositivo
<1>2. QED
  BY <1>1, PTL DEF Spec, SoAusenciaApaga

----------------------------------------------------------------------------
\* ProcessoAgente.  Its tray is the same as EstadoLeitor's, seen by executa; the two are
\* specified apart, so it has a variable of its own here.

VARIABLES prog, bandejaNoProcesso, serve, erroServidor

P == INSTANCE ProcessoAgente WITH bandeja <- bandejaNoProcesso

\* A set of numbers that is not empty has a least one, and induction follows: the library's
\* induction rule takes an operator, this one a set.
LEMMA Minimo ==
  ASSUME NEW T, T \subseteq Nat, T # {}
  PROVE  \E x \in T : \A y \in T : x <= y
<1> DEFINE R == OpToRel(<, Nat)
<1>1. IsWellFoundedOn(R, Nat)
  BY NatLessThanWellFounded
<1>2. ASSUME NEW x \in T, NEW y \in T, <<y, x>> \notin R
      PROVE  x <= y
  <2>1. ~ (y < x)
    BY <1>2 DEF OpToRel
  <2> HIDE DEF R
  <2>2. QED
    BY <2>1
<1> HIDE DEF R
<1>3. PICK x \in T : \A y \in T : <<y, x>> \notin R
  BY WFMin, <1>1
<1>4. QED
  BY <1>2, <1>3

LEMMA Inducao ==
  ASSUME NEW T, 0 \in T, \A n \in Nat : n \in T => n + 1 \in T
  PROVE  \A n \in Nat : n \in T
<1> SUFFICES ASSUME Nat \ T # {} PROVE FALSE
  OBVIOUS
<1>1. PICK x \in Nat \ T : \A y \in Nat \ T : x <= y
  BY Minimo
<1>2. x # 0 /\ x - 1 \in Nat /\ ~ (x <= x - 1)
  BY <1>1
<1>3. x - 1 \in T
  BY <1>1, <1>2
<1>4. QED
  BY <1>2, <1>3

\* f is Base doubled, up to n.  There is one for each n, and they agree.
Tabela(f, n) == \A k \in 0..n : f[k] = IF k = 0 THEN Base ELSE 2 * f[k - 1]

LEMMA TabelaExiste == \A n \in Nat : \E f \in [Nat -> Nat] : Tabela(f, n)
<1> DEFINE T == {n \in Nat : \E f \in [Nat -> Nat] : Tabela(f, n)}
<1>1. 0 \in T
  <2>1. [k \in Nat |-> Base] \in [Nat -> Nat] /\ Tabela([k \in Nat |-> Base], 0)
    BY SupervisorAssumption DEF Tabela
  <2>2. QED
    BY <2>1
<1>2. ASSUME NEW n \in Nat, n \in T PROVE n + 1 \in T
  <2>1. PICK f \in [Nat -> Nat] : Tabela(f, n)
    BY <1>2
  <2> DEFINE g == [f EXCEPT ![n + 1] = 2 * f[n]]
  <2>2. g \in [Nat -> Nat] /\ g[n + 1] = 2 * g[n] /\ \A k \in 0..n : g[k] = f[k]
    OBVIOUS
  <2> HIDE DEF g
  <2>3. ASSUME NEW k \in 0..(n + 1) PROVE g[k] = IF k = 0 THEN Base ELSE 2 * g[k - 1]
    <3>1. CASE k = n + 1
      BY <2>2, <3>1
    <3>2. CASE k # n + 1
      <4>1. k \in 0..n /\ (k # 0 => k - 1 \in 0..n)
        BY <3>2
      <4>2. QED
        BY <2>1, <2>2, <4>1 DEF Tabela
    <3>3. QED
      BY <3>1, <3>2
  <2>4. QED
    BY <2>2, <2>3 DEF Tabela
<1> HIDE DEF T
<1>3. \A n \in Nat : n \in T
  BY <1>1, <1>2, Inducao
<1>4. QED
  BY <1>3 DEF T

LEMMA TabelaUnica ==
  ASSUME NEW f, NEW g, NEW m \in Nat, Tabela(f, m), NEW n \in Nat, Tabela(g, n)
  PROVE  \A k \in Nat : k <= m /\ k <= n => f[k] = g[k]
<1> DEFINE T == {k \in Nat : k <= m /\ k <= n => f[k] = g[k]}
<1>1. 0 \in T
  BY DEF Tabela
<1>2. ASSUME NEW k \in Nat, k \in T PROVE k + 1 \in T
  <2> SUFFICES ASSUME k + 1 <= m, k + 1 <= n PROVE f[k + 1] = g[k + 1]
    OBVIOUS
  <2>1. k <= m /\ k <= n /\ k + 1 \in 0..m /\ k + 1 \in 0..n /\ (k + 1) - 1 = k /\ k + 1 # 0
    OBVIOUS
  <2>2. f[k] = g[k]
    BY <1>2, <2>1
  <2>3. QED
    BY <2>1, <2>2 DEF Tabela
<1> HIDE DEF T
<1>3. \A k \in Nat : k \in T
  BY <1>1, <1>2, Inducao
<1>4. QED
  BY <1>3 DEF T

\* What the recursive definition of Dobrado reads as.
LEMMA Dobra ==
  /\ Dobrado[0] = Base
  /\ \A n \in Nat : Dobrado[n] \in Nat /\ Dobrado[n + 1] = 2 * Dobrado[n]
<1> DEFINE t[n \in Nat] == CHOOSE f \in [Nat -> Nat] : Tabela(f, n)
           D == [n \in Nat |-> t[n][n]]
<1>1. \A n \in Nat : t[n] \in [Nat -> Nat] /\ Tabela(t[n], n)
  BY TabelaExiste
<1> HIDE DEF t
<1>2. D \in [Nat -> Nat]
  BY <1>1
<1>3. ASSUME NEW n \in Nat PROVE D[n] = IF n = 0 THEN Base ELSE 2 * D[n - 1]
  <2>1. CASE n = 0
    BY <1>1, <2>1 DEF Tabela
  <2>2. CASE n # 0
    <3>1. n - 1 \in Nat /\ n - 1 <= n /\ n - 1 <= n - 1 /\ n \in 0..n
      BY <2>2
    <3>2. t[n][n - 1] = t[n - 1][n - 1]
      BY <1>1, <3>1, TabelaUnica
    <3>3. t[n][n] = 2 * t[n][n - 1]
      BY <1>1, <2>2, <3>1 DEF Tabela
    <3>4. QED
      BY <2>2, <3>1, <3>2, <3>3
  <2>3. QED
    BY <2>1, <2>2
<1> HIDE DEF D
<1>4. D = [n \in Nat |-> IF n = 0 THEN Base ELSE 2 * D[n - 1]]
  <2> DEFINE E == [n \in Nat |-> IF n = 0 THEN Base ELSE 2 * D[n - 1]]
  <2>1. \A n \in Nat : E[n] = D[n]
    BY <1>3
  <2>2. QED
    BY <1>2, <2>1
<1>5. Dobrado = [n \in Nat |-> IF n = 0 THEN Base ELSE 2 * Dobrado[n - 1]]
  BY <1>4 DEF Dobrado
<1>6. Dobrado[0] = Base /\ \A n \in Nat : Dobrado[n + 1] = 2 * Dobrado[n]
  BY <1>5
<1> DEFINE T == {n \in Nat : Dobrado[n] \in Nat}
<1>7. 0 \in T /\ \A n \in Nat : n \in T => n + 1 \in T
  BY <1>6, SupervisorAssumption
<1> HIDE DEF T
<1>8. \A n \in Nat : n \in T
  BY <1>7, Inducao
<1>9. QED
  BY <1>6, <1>8 DEF T

\* The steps that leave the supervisor where it is: the user leaves, or nothing.
Fica == UNCHANGED <<sup, espera, vida, rajada>> /\ saiu' \in {saiu, "sim"}

\* Whatever the process and its listener do, the supervisor moves by its own steps.
LEMMA PassoDoSupervisor ==
  ASSUME [P!Next]_(P!vars)
  PROVE  Sobe \/ Acorda \/ NaoAcorda \/ (\E codigo \in Nat : FilhoSai(codigo)) \/ Fica
BY DEF P!Next, P!vars, P!Comeca, P!Sobe, P!Acorda, P!DoProcesso, P!Desliga, P!Desligado, P!Retorna,
  P!Termina, P!FilhoSai, P!ServeRetorna, P!EncerraBandeja, P!NaoComeca, P!NaoAcorda, P!OnReady, P!Sair,
  P!Cai, P!NoProcesso, P!supervisao, P!Desde, P!Proxima, P!Menor, P!espaco,
  Sobe, Acorda, NaoAcorda, FilhoSai, Fica, Desde, Proxima, Menor

SInv == TypeOKSupervisor /\ EsperaDaRajada /\ RajadaLimitada

LEMMA InitDaRajada == P!Init => SInv
BY SupervisorAssumption DEF P!Init, P!InitSupervisor, SInv, TypeOKSupervisor, EsperaDaRajada,
  RajadaLimitada

LEMMA PassoDaRajada ==
  ASSUME SInv,
         Sobe \/ Acorda \/ NaoAcorda \/ (\E codigo \in Nat : FilhoSai(codigo)) \/ Fica
  PROVE  SInv'
<1> USE SupervisorAssumption DEF SInv, TypeOKSupervisor, EsperaDaRajada, RajadaLimitada
<1>1. CASE Sobe \/ NaoAcorda
  BY <1>1, Dobra DEF Sobe, NaoAcorda
<1>2. ASSUME NEW codigo \in Nat, FilhoSai(codigo) PROVE SInv'
  BY <1>2 DEF FilhoSai
<1>3. CASE Acorda /\ Desde >= Minuto
  BY <1>3 DEF Acorda, Proxima
<1>4. CASE Acorda /\ ~ (Desde >= Minuto)
  <2>1. rajada' = rajada + 1 /\ espera' = Menor(2 * espera, Minuto) /\ espera < Minuto
    BY <1>4 DEF Acorda, Proxima, Desde
  <2>2. espera = Dobrado[rajada]
    BY <2>1, Dobra DEF Menor
  <2>3. Dobrado[rajada + 1] = 2 * espera /\ (rajada + 1) - 1 = rajada /\ rajada + 1 > 0
    BY <2>2, Dobra
  <2>4. QED
    BY <1>4, <2>1, <2>2, <2>3 DEF Acorda, Menor
<1>5. CASE Fica
  BY <1>5 DEF Fica
<1>6. QED
  BY <1>1, <1>2, <1>3, <1>4, <1>5

\* However short each child lives, a burst of starts is as long as the doublings from the
\* first wait to a minute (supervisor.go:39-61), for any waits.
THEOREM RajadaCurta == P!Spec => []RajadaLimitada
<1>1. P!Init => SInv
  BY InitDaRajada
<1>2. SInv /\ [P!Next]_(P!vars) => SInv'
  BY PassoDoSupervisor, PassoDaRajada
<1>3. SInv => RajadaLimitada
  BY DEF SInv
<1>4. QED
  BY <1>1, <1>2, <1>3, PTL DEF P!Spec
----------------------------------------------------------------------------
\* What the process ends with.

\* The steps that leave what the process knows of its end alone.
Quieto == UNCHANGED <<prog, serve, erroServidor, saiu, sup>>

LEMMA PassoQuieto == P!CodigoDoFim /\ Quieto => P!CodigoDoFim'
BY DEF Quieto, P!CodigoDoFim

\* A process that is not there, or has just started.
LEMMA ProcessoLimpo ==
  P!Limpo /\ prog' \in {"fora", "bandeja"} /\ (prog' = "fora" <=> sup' # "vigia") => P!CodigoDoFim'
BY DEF P!Limpo, P!CodigoDoFim

LEMMA PassoCodigo == P!CodigoDoFim /\ [P!Next]_(P!vars) => P!CodigoDoFim'
<1> SUFFICES ASSUME P!CodigoDoFim, [P!Next]_(P!vars) PROVE P!CodigoDoFim'
  OBVIOUS
<1>1. CASE P!Comeca
  BY <1>1, ProcessoLimpo DEF P!Comeca, P!Sobe, P!Acorda
<1>2. ASSUME NEW codigo \in Nat, P!Termina(codigo) PROVE P!CodigoDoFim'
  BY <1>2, ProcessoLimpo DEF P!Termina, P!FilhoSai
<1>3. CASE P!Desliga \/ P!Desligado
  BY <1>3 DEF P!Desliga, P!Desligado, P!CodigoDoFim, P!supervisao
<1>4. CASE P!Retorna
  BY <1>4, <1>2 DEF P!Retorna
<1>5. CASE P!ServeRetorna
  BY <1>5 DEF P!ServeRetorna, P!CodigoDoFim, P!supervisao
<1>6. CASE P!EncerraBandeja
  <2>1. CASE P!Termina(1)
    BY <2>1, <1>2
  <2>2. CASE /\ serve = "encerra" /\ serve' = "fim" /\ prog' = (IF prog = "bandeja" THEN "saindo" ELSE prog)
             /\ UNCHANGED <<erroServidor, saiu, sup>>
    BY <2>2 DEF P!CodigoDoFim
  <2>3. QED
    BY <1>6, <2>1, <2>2 DEF P!EncerraBandeja, P!supervisao
<1>7. CASE P!NaoComeca
  BY <1>7 DEF P!NaoComeca, P!NaoAcorda, P!processo, P!CodigoDoFim
<1>8. CASE P!Sair
  BY <1>8 DEF P!Sair, P!CodigoDoFim, P!supervisao
<1>9. CASE P!Cai
  BY <1>9, <1>2 DEF P!Cai
<1>10. CASE P!OnReady \/ UNCHANGED P!vars \/ UNCHANGED <<P!supervisao, P!processo>>
  BY <1>10, PassoQuieto DEF P!OnReady, P!vars, P!supervisao, P!processo, Quieto
<1>11. QED
  BY <1>1, <1>3, <1>4, <1>5, <1>6, <1>7, <1>8, <1>9, <1>10 DEF P!Next, P!DoProcesso, P!NoProcesso

\* Of all the steps only the return of executa, with what Serve handed over after the user's
\* exit, takes the supervisor away with its process.
LEMMA FimDoSupervisor ==
  P!CodigoDoFim /\ [P!Next]_(P!vars) => (sup = "vigia" /\ sup' = "fora" => saiu = "sim")
<1> SUFFICES ASSUME P!CodigoDoFim, [P!Next]_(P!vars), sup = "vigia", sup' = "fora" PROVE saiu = "sim"
  OBVIOUS
<1>1. sup = "vigia"
  OBVIOUS
<1>2. ASSUME NEW codigo \in Nat, P!Termina(codigo) PROVE codigo = 0
  BY <1>2 DEF P!Termina, P!FilhoSai
<1>3. ~ UNCHANGED P!supervisao
  BY <1>1 DEF P!supervisao
<1>4. ~ P!Comeca /\ ~ P!NaoComeca
  BY <1>1 DEF P!Comeca, P!Sobe, P!Acorda, P!NaoComeca, P!NaoAcorda
<1>5. P!Retorna \/ P!EncerraBandeja \/ P!Cai
  BY <1>3, <1>4 DEF P!Next, P!DoProcesso, P!Desliga, P!Desligado, P!ServeRetorna, P!OnReady, P!Sair,
    P!NoProcesso, P!vars
<1>6. ~ P!EncerraBandeja /\ ~ P!Cai
  BY <1>2, <1>3 DEF P!EncerraBandeja, P!Cai
<1>7. erroServidor = "nil"
  BY <1>2, <1>5, <1>6 DEF P!Retorna
<1>8. QED
  BY <1>7 DEF P!CodigoDoFim

\* A listener that failed at any moment, a crash or a shutdown that went wrong never ends the
\* supervisor: of the processes that end, only the one the user left ends it too, and after any
\* other it tries to start one (main.go:1049-1079, supervisor.go:49-51).  Its other end is a
\* process that cannot be started (46-48), which is not a step of the process.
THEOREM SoQuandoSaem == P!Spec => SoParaSeSaiu
<1>1. P!Init => P!CodigoDoFim
  BY DEF P!Init, P!InitSupervisor, P!CodigoDoFim
<1>2. P!CodigoDoFim /\ [P!Next]_(P!vars) => [sup = "vigia" /\ sup' = "fora" => saiu = "sim"]_supervisao
  BY FimDoSupervisor
<1>3. QED
  BY <1>1, <1>2, PassoCodigo, PTL DEF P!Spec, SoParaSeSaiu
----------------------------------------------------------------------------
\* The limits of the listener.  Con may be infinite: what is counted are the connections that
\* are somewhere, and those are always a finite number.

Nos(e) == {c \in Con : con[c] = e}

LInv ==
  /\ TypeOKListener
  /\ \A e \in {"espia", "envia", "fila"} : IsFiniteSet(Nos(e))

\* A connection that moves leaves one place and adds to another.
LEMMA Mudanca ==
  ASSUME LInv, NEW c \in Con, NEW f \in {"fora", "espia", "envia", "fila", "servida"},
         Vai(c, f), con[c] # f
  PROVE  /\ con' \in [Con -> {"fora", "espia", "envia", "fila", "servida"}]
         /\ \A e \in {"espia", "envia", "fila"} :
              /\ IsFiniteSet(Nos(e)) /\ IsFiniteSet(Nos(e)')
              /\ Em(e) \in Nat
              /\ Em(e)' = IF e = f THEN Em(e) + 1 ELSE IF e = con[c] THEN Em(e) - 1 ELSE Em(e)
<1>1. con' \in [Con -> {"fora", "espia", "envia", "fila", "servida"}]
  BY DEF LInv, TypeOKListener, Vai
<1>2. ASSUME NEW e \in {"espia", "envia", "fila"}
      PROVE  /\ IsFiniteSet(Nos(e)) /\ IsFiniteSet(Nos(e)')
             /\ Em(e) \in Nat
             /\ Em(e)' = IF e = f THEN Em(e) + 1 ELSE IF e = con[c] THEN Em(e) - 1 ELSE Em(e)
  <2>1. IsFiniteSet(Nos(e)) /\ Em(e) = Cardinality(Nos(e)) /\ Em(e)' = Cardinality(Nos(e)')
    BY DEF LInv, Nos, Em
  <2>2. Em(e) \in Nat
    BY <2>1, FS_CardinalityType
  <2>3. CASE e = f
    <3>1. Nos(e)' = Nos(e) \cup {c} /\ c \notin Nos(e)
      BY <2>3 DEF Nos, Vai, LInv, TypeOKListener
    <3>2. QED
      BY <2>1, <2>2, <2>3, <3>1, FS_AddElement
  <2>4. CASE e # f /\ e = con[c]
    <3>1. Nos(e)' = Nos(e) \ {c} /\ c \in Nos(e)
      BY <2>4 DEF Nos, Vai, LInv, TypeOKListener
    <3>2. QED
      BY <2>1, <2>2, <2>4, <3>1, FS_RemoveElement
  <2>5. CASE e # f /\ e # con[c]
    <3>1. Nos(e)' = Nos(e)
      BY <2>5 DEF Nos, Vai, LInv, TypeOKListener
    <3>2. QED
      BY <2>1, <2>2, <2>5, <3>1
  <2>6. QED
    BY <2>3, <2>4, <2>5
<1>3. QED
  BY <1>1, <1>2

\* With nobody connected.
LEMMA Vazio ==
  ASSUME \A c \in Con : con[c] = "fora"
  PROVE  \A e \in {"espia", "envia", "fila"} : IsFiniteSet(Nos(e)) /\ Em(e) = 0
<1>1. \A e \in {"espia", "envia", "fila"} : Nos(e) = {} /\ Em(e) = Cardinality(Nos(e))
  BY DEF Nos, Em
<1>2. QED
  BY <1>1, FS_EmptySet

LEMMA MesmaConta == P!Em("espia") = Em("espia") /\ P!Em("envia") = Em("envia") /\ P!Em("fila") = Em("fila")
<1>1. \A S : P!Cardinality(S) = Cardinality(S)
  BY DEF P!Cardinality, Cardinality
<1>2. QED
  BY <1>1 DEF P!Em, Em

Conexoes ==
  \/ AceitaDepois \/ AceitaFalha \/ FechaListener
  \/ \E c \in Con : Aceita(c) \/ Espia(c) \/ Cala(c) \/ Envia(c) \/ Entrega(c) \/ Atendida(c)

LEMMA PassoDoListener ==
  ASSUME [P!Next]_(P!vars)
  PROVE  Conexoes \/ P!Limpo \/ UNCHANGED listener
BY MesmaConta
DEF P!Next, P!vars, P!Comeca, P!DoProcesso, P!Desliga, P!Desligado, P!Retorna, P!Termina,
  P!ServeRetorna, P!EncerraBandeja, P!NaoComeca, P!OnReady, P!Sair, P!Cai, P!NoProcesso, P!listener,
  P!FechaListener, P!AceitaDepois, P!AceitaFalha, P!Aceita, P!Espia, P!Cala, P!Envia, P!Entrega,
  P!Atendida, P!Espiando, P!Vai, FechaListener, AceitaDepois, AceitaFalha, Aceita, Espia, Cala,
  Envia, Entrega, Atendida, Espiando, Vai, listener, Conexoes

LEMMA PassoDasVagas == LInv /\ (Conexoes \/ P!Limpo \/ UNCHANGED listener) => LInv'
<1> SUFFICES ASSUME LInv, Conexoes \/ P!Limpo \/ UNCHANGED listener PROVE LInv'
  OBVIOUS
<1> USE ListenerAssumption
<1>1. CASE con' = con /\ aceita' \in {"pronta", "dorme", "fim"} /\ bruto' \in {"aberto", "fechado"}
           /\ done' \in {"aberto", "fechado"}
  BY <1>1 DEF LInv, TypeOKListener, Espiando, Em, Nos
<1>2. CASE P!Limpo
  <2>1. /\ con' = [c \in Con |-> "fora"] /\ aceita' = "pronta" /\ bruto' = "aberto"
        /\ done' = "aberto"
    BY <1>2 DEF P!Limpo
  <2>2. \A c \in Con : con'[c] = "fora"
    BY <2>1
  <2>3. \A e \in {"espia", "envia", "fila"} : IsFiniteSet(Nos(e)') /\ Em(e)' = 0
    <3>1. \A e \in {"espia", "envia", "fila"} : Nos(e)' = {} /\ Em(e)' = Cardinality(Nos(e)')
      BY <2>2 DEF Nos, Em
    <3>2. QED
      BY <3>1, FS_EmptySet
  <2>4. QED
    BY <2>1, <2>3 DEF LInv, TypeOKListener, Espiando
<1>3. ASSUME NEW c \in Con, NEW f \in {"fora", "espia", "envia", "fila", "servida"}, Vai(c, f),
             con[c] # f, UNCHANGED <<aceita, bruto, done>>,
             f = "espia" => Espiando < Vagas, f = "envia" => con[c] = "espia",
             f = "fila" => Em("fila") < Canal
      PROVE  LInv'
  <2>1. /\ con' \in [Con -> {"fora", "espia", "envia", "fila", "servida"}]
        /\ \A e \in {"espia", "envia", "fila"} : IsFiniteSet(Nos(e)')
    BY <1>3, Mudanca
  <2>2. /\ Em("espia") \in Nat /\ Em("envia") \in Nat /\ Em("fila") \in Nat
        /\ \A e \in {"espia", "envia", "fila"} :
             Em(e)' = IF e = f THEN Em(e) + 1 ELSE IF e = con[c] THEN Em(e) - 1 ELSE Em(e)
    BY <1>3, Mudanca
  <2>3. Em("espia")' + Em("envia")' <= Vagas /\ Em("fila")' <= Canal
    BY <1>3, <2>2 DEF LInv, TypeOKListener, Espiando
  <2>4. QED
    BY <1>3, <2>1, <2>3 DEF LInv, TypeOKListener, Espiando
<1>4. CASE AceitaDepois \/ AceitaFalha \/ FechaListener \/ UNCHANGED listener
  BY <1>1, <1>4 DEF AceitaDepois, AceitaFalha, FechaListener, listener, LInv, TypeOKListener
<1>5. ASSUME NEW c \in Con, Aceita(c) PROVE LInv'
  BY <1>1, <1>3, <1>5 DEF Aceita, LInv, TypeOKListener
<1>6. ASSUME NEW c \in Con, Espia(c) \/ Cala(c) \/ Envia(c) \/ Entrega(c) \/ Atendida(c) PROVE LInv'
  BY <1>3, <1>6 DEF Espia, Cala, Envia, Entrega, Atendida
<1>7. QED
  BY <1>2, <1>4, <1>5, <1>6 DEF Conexoes

\* What the process of the agent and its supervisor hold, and that the listener's two limits
\* are kept: the goroutines that wait for a first byte or for room in the channel are at most
\* the slots of the semaphore, however many clients come (cert.go:353-413).
THEOREM TipoDoProcesso == P!Spec => []P!TypeOK
<1> DEFINE Local ==
      /\ prog \in {"fora", "bandeja", "saindo", "desliga", "espera"}
      /\ bandejaNoProcesso \in {"subindo", "pronta"} /\ serve \in {"aceita", "encerra", "fim"}
      /\ erroServidor \in {"nada", "nil", "erro"}
<1>1. P!Init => LInv /\ Local /\ SInv
  <2>1. P!Init => LInv
    <3> SUFFICES ASSUME P!Init PROVE LInv
      OBVIOUS
    <3>1. /\ con = [c \in Con |-> "fora"] /\ aceita = "pronta" /\ bruto = "aberto" /\ done = "aberto"
      BY DEF P!Init, P!InitListener
    <3>2. \A c \in Con : con[c] = "fora"
      BY <3>1
    <3>3. QED
      BY <3>1, <3>2, Vazio, ListenerAssumption DEF LInv, TypeOKListener, Espiando
  <2>2. P!Init => Local
    BY DEF P!Init
  <2>3. QED
    BY <2>1, <2>2, InitDaRajada
<1>2. LInv /\ [P!Next]_(P!vars) => LInv'
  BY PassoDoListener, PassoDasVagas
<1>3. Local /\ [P!Next]_(P!vars) => Local'
  BY DEF P!Next, P!vars, P!processo, P!Comeca, P!DoProcesso, P!Desliga, P!Desligado, P!Retorna,
    P!Termina, P!Limpo, P!ServeRetorna, P!EncerraBandeja, P!NaoComeca, P!OnReady, P!Sair, P!Cai,
    P!NoProcesso
<1>4. SInv /\ [P!Next]_(P!vars) => SInv'
  BY PassoDoSupervisor, PassoDaRajada
<1>5. LInv /\ Local /\ SInv => P!TypeOK
  BY MesmaConta
  DEF LInv, SInv, TypeOKListener, TypeOKSupervisor, Espiando, P!TypeOK, P!TypeOKListener,
    P!TypeOKSupervisor, P!Espiando
<1> HIDE DEF Local
<1>6. QED
  BY <1>1, <1>2, <1>3, <1>4, <1>5, PTL DEF P!Spec
=============================================================================
