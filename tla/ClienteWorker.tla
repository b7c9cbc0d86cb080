--------------------------- MODULE ClienteWorker ---------------------------
(***************************************************************************)
(* The agent's side of the SDK worker process (worker.go, clienteWorker).  *)
(*                                                                         *)
(* NBioBSP.dll runs in a child process that is started on demand, spoken   *)
(* to through two pipes, killed when it does not answer in time, left      *)
(* alone for a while after repeated failures (the circuit breaker) and     *)
(* released when nobody uses it (the idle timer).  The parties are         *)
(*   - the SDK goroutine, which makes one call at a time (envia, encerra), *)
(*   - the idle timer, whose callback (soltaPorOciosidade) runs on a       *)
(*     goroutine of its own and contends for the client's mutex,           *)
(*   - the worker process, which may answer, hang or die at any point.     *)
(*                                                                         *)
(* Time is discrete: Tempo is one unit, and it cannot pass over a step     *)
(* that Go takes as soon as it can (Urgente).  Timers count down and ages  *)
(* saturate, so no clock grows without bound.                              *)
(*                                                                         *)
(* External: the worker's process writes one answer for each request it    *)
(* reads, and what the DLL prints on its standard output is not itself an  *)
(* answer.                                                                 *)
(***************************************************************************)
EXTENDS Naturals, Sequences

CONSTANTS
  Pedidos,           \* requests, by identity: what tells one answer from another
  Limites,           \* deadlines a call may ask for (20 s .. 3 min)
  PrazoOciosidade,   \* prazoOciosidade (5 min)
  PrazoEncerrar,     \* prazoEncerrarWorker (10 s)
  PrazoDespedida,    \* how long encerraTravado waits for an answer (3 s)
  FalhasParaEsfriar, \* falhasParaEsfriar (3)
  Esperas,           \* esperasAposFalhas, shortest first
  MaxOrfaos,         \* bound: killed processes still alive at the same time
  Nenhum,            \* no request
  Encerrar           \* the message opEncerrar

LimiteMaximo == CHOOSE l \in Limites : \A m \in Limites : m <= l

ASSUME PedidosAssumption == Nenhum \notin Pedidos /\ Encerrar \notin Pedidos
                            /\ Nenhum # Encerrar
ASSUME LimitesAssumption == Limites \subseteq Nat \ {0}
                            /\ LimiteMaximo \in Limites
                            /\ \A m \in Limites : m <= LimiteMaximo
ASSUME PrazosAssumption  == /\ PrazoOciosidade \in Nat \ {0}
                            /\ PrazoEncerrar   \in Nat \ {0}
                            /\ PrazoDespedida  \in Nat \ {0}
ASSUME EsperasAssumption == /\ FalhasParaEsfriar \in Nat \ {0}
                            /\ Esperas \in Seq(Nat \ {0})
                            /\ Len(Esperas) > 0
                            /\ \A i \in DOMAIN Esperas : Esperas[i] <= Esperas[Len(Esperas)]
ASSUME OrfaosAssumption  == MaxOrfaos \in Nat

VARIABLES
  chamada,     \* the SDK goroutine's call: "fora" (none), "envia", "encerra"
  atual,       \* the request of the call in progress
  limite,      \* and its deadline
  tamanho,     \* and whether the pipe's buffer holds it: "cabe", "excede"
  dono,        \* who holds c.mu
  fase,        \* where the holder of c.mu is
  prazo,       \* what is left of the timer the holder waits on
  proc,        \* the process behind c.cmd ("nenhum": c.cmd = nil)
  entrada,     \* the pipe to the worker
  trabalho,    \* the request the worker is serving
  saida,       \* the pipe from the worker
  sujo,        \* and whether what comes first in it is no JSON at all ("sim", "nao")
  orfaos,      \* processes killed and given up on, still alive
  falhas,      \* c.falhasSeguidas
  desdeFalha,  \* time since c.ultimaFalha
  ocioso,      \* c.ocioso: "armado", "parado" (stopped, fired or never armed)
  resta,       \* and what is left of it
  disparos,    \* callbacks of c.ocioso waiting for c.mu
  mutex,       \* "fome": one of them lost the lock to a newcomer, the next Unlock is its own
  duracao,     \* history: time since the call in progress began
  entregue,    \* history: whose answer the last call returned, and to whom
  semUso,      \* history: time since the last call ended
  desdeSubida  \* history: time since the last process was started

pedido  == <<chamada, atual, limite, tamanho, duracao>>
trava   == <<dono, fase, prazo>>
canal   == <<entrada, trabalho, saida, sujo>>
worker  == <<proc, canal, orfaos>>
recuo   == <<falhas, desdeFalha>>
timer   == <<ocioso, resta, disparos, mutex>>
hist    == <<entregue, semUso, desdeSubida>>
vars    == <<pedido, trava, worker, recuo, timer, hist>>

Min2(a, b) == IF a <= b THEN a ELSE b

\* Failures past this one change nothing: esperaAposFalhas has reached its last step.
TetoFalhas == FalhasParaEsfriar + Len(Esperas)

\* esperaAposFalhas: the n-th failure's wait, both ends of the table clamped.
EsperaAposFalhas(n) ==
  Esperas[IF n <= FalhasParaEsfriar THEN 1
          ELSE Min2(n - FalhasParaEsfriar + 1, Len(Esperas))]

EsperaMaxima == Esperas[Len(Esperas)]

Vivo == proc \in {"pronto", "atendendo"}

Init ==
  /\ chamada = "fora" /\ atual = Nenhum /\ limite = 0 /\ tamanho = "cabe" /\ duracao = 0
  /\ dono = "ninguem" /\ fase = "livre" /\ prazo = 0
  /\ proc = "nenhum" /\ entrada = <<>> /\ trabalho = Nenhum /\ saida = <<>>
  /\ sujo = "nao" /\ orfaos = 0
  /\ falhas = 0 /\ desdeFalha = EsperaMaxima
  /\ ocioso = "parado" /\ resta = 0 /\ disparos = 0 /\ mutex = "normal"
  /\ entregue = [de |-> Nenhum, para |-> Nenhum]
  /\ semUso = 0 /\ desdeSubida = EsperaMaxima

----------------------------------------------------------------------------
\* Pieces the methods are made of.

\* The operators named ..._defeito are mistakes a change could make in the definition that
\* follows each of them; no action uses them.  The properties are known to notice them.

\* Reset only of a timer still running: the first one is never created.
ArmaOciosidade_defeito ==
  /\ ocioso' = ocioso /\ resta' = IF ocioso = "armado" THEN PrazoOciosidade ELSE resta
  /\ UNCHANGED <<disparos, mutex>>

\* armaOciosidade: AfterFunc the first time, Reset from then on.
ArmaOciosidade ==
  ocioso' = "armado" /\ resta' = PrazoOciosidade /\ UNCHANGED <<disparos, mutex>>

\* The failure counted, its time not recorded.
RegistraFalha_defeito == falhas' = Min2(falhas + 1, TetoFalhas) /\ UNCHANGED desdeFalha

RegistraFalha ==
  falhas' = Min2(falhas + 1, TetoFalhas) /\ desdeFalha' = 0

Destrava == dono' = "ninguem" /\ fase' = "livre" /\ prazo' = 0

ForaDaChamada ==
  /\ chamada' = "fora" /\ atual' = Nenhum /\ limite' = 0 /\ tamanho' = "cabe"
  /\ duracao' = 0

\* envia returns: the deferred armaOciosidade, then the deferred Unlock.
Devolve(resposta) ==
  /\ ForaDaChamada /\ Destrava /\ ArmaOciosidade
  /\ entregue' = resposta /\ semUso' = 0
  /\ UNCHANGED desdeSubida

SemResposta == [de |-> Nenhum, para |-> Nenhum]

\* derruba up to its select: stdin closed, Kill, a goroutine left in Wait.
Mata ==
  /\ fase' = "derrubando" /\ prazo' = PrazoEncerrar
  /\ proc' = IF proc = "morto" THEN "morto" ELSE "matado"

\* The goodbye given a call's deadline.
Despede_defeito ==
  IF proc = "morto"
  THEN Mata /\ UNCHANGED entrada
  ELSE /\ entrada' = Append(entrada, Encerrar)
       /\ fase' = "despedindo" /\ prazo' = LimiteMaximo
       /\ UNCHANGED proc

\* encerraTravado with a worker up: opEncerrar is written, and its answer awaited.
Despede ==
  IF proc = "morto"
  THEN Mata /\ UNCHANGED entrada
  ELSE /\ entrada' = Append(entrada, Encerrar)
       /\ fase' = "despedindo" /\ prazo' = PrazoDespedida
       /\ UNCHANGED proc

\* c.mu.Lock by the SDK goroutine.  A callback already waiting may lose the lock to it
\* once; sync.Mutex then hands the lock over at the next Unlock.
Trava ==
  dono = "ninguem" /\ mutex = "normal" /\ mutex' = IF disparos > 0 THEN "fome" ELSE "normal"

----------------------------------------------------------------------------
\* The SDK goroutine.

\* A caller picks an operation; contaDispositivos, capturaTexto, comparaTextos and
\* identifica differ in the deadline and in the size of what they send.
Envia(p, l, t) ==
  /\ chamada = "fora"
  /\ chamada' = "envia" /\ atual' = p /\ limite' = l /\ tamanho' = t
  /\ duracao' = 0
  /\ UNCHANGED <<trava, worker, recuo, timer, hist>>

Encerra ==
  /\ chamada = "fora"
  /\ chamada' = "encerra"
  /\ UNCHANGED <<atual, limite, tamanho, duracao, trava, worker, recuo, timer, hist>>

TravaEnvia ==
  /\ chamada = "envia" /\ Trava
  /\ dono' = "sdk" /\ fase' = "subindo"
  /\ UNCHANGED <<pedido, prazo, worker, recuo, ocioso, resta, disparos, hist>>

Esfriando ==
  falhas >= FalhasParaEsfriar /\ desdeFalha < EsperaAposFalhas(falhas)

\* sobe: the breaker turns the call away.
Recusa ==
  /\ fase = "subindo" /\ proc = "nenhum"
  /\ Esfriando
  /\ Devolve(SemResposta)
  /\ UNCHANGED <<worker, recuo>>

\* sobe: os.Executable or os.Pipe fails.  No failure is recorded.
FalhaAoPreparar ==
  /\ fase = "subindo" /\ proc = "nenhum"
  /\ ~Esfriando
  /\ Devolve(SemResposta)
  /\ UNCHANGED <<worker, recuo>>

\* sobe: the process does not start.
FalhaAoSubir ==
  /\ fase = "subindo" /\ proc = "nenhum"
  /\ ~Esfriando
  /\ Devolve(SemResposta) /\ RegistraFalha
  /\ UNCHANGED worker

\* sobe: a process, with pipes of its own.
Sobe ==
  /\ fase = "subindo" /\ proc = "nenhum"
  /\ ~Esfriando
  /\ proc' = "pronto" /\ desdeSubida' = 0
  /\ UNCHANGED <<pedido, trava, canal, orfaos, recuo, timer, entregue, semUso>>

\* Encode of a request that fits in the pipe: it does not wait for the worker.
Escreve ==
  /\ fase = "subindo" /\ Vivo /\ tamanho = "cabe"
  /\ entrada' = Append(entrada, atual)
  /\ fase' = "esperando" /\ prazo' = limite
  /\ UNCHANGED <<pedido, dono, proc, trabalho, saida, sujo, orfaos, recuo, timer, hist>>

\* Encode of a request that does not: it blocks, and no timer is running yet.
ComecaAEscrever ==
  /\ fase = "subindo" /\ Vivo /\ tamanho = "excede"
  /\ fase' = "escrevendo"
  /\ UNCHANGED <<pedido, dono, prazo, worker, recuo, timer, hist>>

\* The worker takes all of a large request, Encode returns, the timer starts.
TerminaDeEscrever ==
  /\ fase = "escrevendo" /\ proc = "pronto" /\ entrada = <<>>
  /\ proc' = "atendendo" /\ trabalho' = atual
  /\ fase' = "esperando" /\ prazo' = limite
  /\ UNCHANGED <<pedido, dono, entrada, saida, sujo, orfaos, recuo, timer, hist>>

\* Encode into a pipe whose reader died.
EscritaFalha ==
  /\ fase \in {"subindo", "escrevendo"} /\ proc = "morto"
  /\ Mata
  /\ UNCHANGED <<pedido, dono, canal, orfaos, recuo, timer, hist>>

\* An answer arrives in time.  One with OK = false clears the failures as well.
Recebe ==
  /\ fase = "esperando" /\ saida # <<>> /\ sujo = "nao"
  /\ saida' = Tail(saida)
  /\ falhas' = 0 /\ UNCHANGED desdeFalha
  /\ Devolve([de |-> Head(saida), para |-> atual])
  /\ UNCHANGED <<proc, entrada, trabalho, sujo, orfaos>>

\* A worker that died is replaced and asked again.
LeituraFalha_defeito ==
  /\ fase = "esperando" /\ saida = <<>> /\ proc = "morto"
  /\ fase' = "subindo" /\ proc' = "nenhum"
  /\ UNCHANGED <<pedido, dono, prazo, canal, orfaos, recuo, timer, hist>>

\* Decode fails: the pipe ends before an answer, or what comes out of it is not one, although
\* the worker is up.
LeituraFalha ==
  /\ fase = "esperando"
  /\ sujo = "sim" \/ (saida = <<>> /\ proc = "morto")
  /\ Mata
  /\ UNCHANGED <<pedido, dono, canal, orfaos, recuo, timer, hist>>

\* The deadline passes and the worker is kept.
Estoura_defeito ==
  /\ fase = "esperando" /\ prazo = 0
  /\ Devolve(SemResposta) /\ RegistraFalha
  /\ UNCHANGED worker

\* The deadline is looked at only once the process is gone.
EstouraTarde_defeito ==
  /\ fase = "esperando" /\ prazo = 0 /\ proc = "morto"
  /\ Mata
  /\ UNCHANGED <<pedido, dono, canal, orfaos, recuo, timer, hist>>

\* The deadline.  With an answer ready at the same instant, select picks either.
Estoura ==
  /\ fase = "esperando" /\ prazo = 0
  /\ Mata
  /\ UNCHANGED <<pedido, dono, canal, orfaos, recuo, timer, hist>>

\* encerra without stopping the timer.
TravaEncerra_defeito ==
  /\ chamada = "encerra" /\ Trava
  /\ IF proc = "nenhum"
     THEN ForaDaChamada /\ UNCHANGED <<trava, worker>>
     ELSE /\ dono' = "sdk" /\ Despede
          /\ UNCHANGED <<pedido, trabalho, saida, sujo, orfaos>>
  /\ UNCHANGED <<recuo, ocioso, resta, disparos, hist>>

TravaEncerra ==
  /\ chamada = "encerra" /\ Trava
  /\ ocioso' = "parado"
  /\ IF proc = "nenhum"
     THEN ForaDaChamada /\ UNCHANGED <<trava, worker>>
     ELSE /\ dono' = "sdk" /\ Despede
          /\ UNCHANGED <<pedido, trabalho, saida, sujo, orfaos>>
  /\ UNCHANGED <<recuo, resta, disparos, hist>>

----------------------------------------------------------------------------
\* Either holder of the lock.

\* encerraTravado: whatever Decode makes of the pipe, or three seconds without anything.
FimDaDespedida ==
  /\ fase = "despedindo"
  /\ saida # <<>> \/ sujo = "sim" \/ proc = "morto" \/ prazo = 0
  /\ Mata
  /\ UNCHANGED <<pedido, dono, canal, orfaos, recuo, timer, hist>>

\* derruba's select and what follows it: the process is dead, or it is given up on;
\* then c.cmd and the pipes go, and the method that called derruba ends.
FimDaDerrubada ==
  /\ fase = "derrubando"
  /\ \/ proc = "morto" /\ UNCHANGED orfaos
     \/ /\ proc = "matado" /\ prazo = 0 /\ orfaos < MaxOrfaos
        /\ orfaos' = orfaos + 1
  /\ proc' = "nenhum" /\ entrada' = <<>> /\ trabalho' = Nenhum /\ saida' = <<>>
  /\ sujo' = "nao"
  /\ \/ /\ dono = "sdk" /\ chamada = "envia"
        /\ RegistraFalha /\ Devolve(SemResposta)
     \/ /\ dono = "sdk" /\ chamada = "encerra"
        /\ ForaDaChamada /\ Destrava
        /\ UNCHANGED <<recuo, timer, hist>>
     \/ /\ dono = "ocioso"
        /\ Destrava
        /\ UNCHANGED <<pedido, recuo, timer, hist>>

----------------------------------------------------------------------------
\* The idle timer.

Dispara ==
  /\ ocioso = "armado" /\ resta = 0
  /\ ocioso' = "parado" /\ disparos' = disparos + 1
  /\ UNCHANGED <<pedido, trava, worker, recuo, resta, mutex, hist>>

\* The callback kills the worker without taking c.mu.
SoltaPorOciosidade_defeito ==
  /\ disparos > 0
  /\ disparos' = disparos - 1 /\ mutex' = "normal"
  /\ proc' = IF Vivo THEN "matado" ELSE proc
  /\ UNCHANGED <<pedido, trava, canal, orfaos, recuo, ocioso, resta, hist>>

SoltaPorOciosidade ==
  /\ disparos > 0 /\ dono = "ninguem"
  /\ disparos' = disparos - 1 /\ mutex' = "normal"
  /\ IF proc = "nenhum"
     THEN UNCHANGED <<trava, worker, ocioso>>
     ELSE /\ dono' = "ocioso" /\ Despede /\ ocioso' = "parado"
          /\ UNCHANGED <<trabalho, saida, sujo, orfaos>>
  /\ UNCHANGED <<pedido, recuo, resta, hist>>

----------------------------------------------------------------------------
\* The worker process: workerMain's loop.

Le ==
  /\ proc = "pronto" /\ entrada # <<>>
  /\ proc' = "atendendo" /\ trabalho' = Head(entrada) /\ entrada' = Tail(entrada)
  /\ UNCHANGED <<pedido, trava, saida, sujo, orfaos, recuo, timer, hist>>

\* One answer per request; after the one to opEncerrar the process exits.
Responde ==
  /\ proc = "atendendo"
  /\ saida' = Append(saida, trabalho) /\ trabalho' = Nenhum
  /\ proc' = IF trabalho = Encerrar THEN "morto" ELSE "pronto"
  /\ UNCHANGED <<pedido, trava, entrada, sujo, orfaos, recuo, timer, hist>>

\* The DLL prints on the standard output that carries the answers.
Imprime ==
  /\ Vivo /\ saida = <<>> /\ sujo = "nao"
  /\ sujo' = "sim"
  /\ UNCHANGED <<pedido, trava, proc, entrada, trabalho, saida, orfaos, recuo, timer, hist>>

\* The DLL takes the process down.
Cai ==
  /\ Vivo
  /\ proc' = "morto" /\ trabalho' = Nenhum /\ entrada' = <<>>
  /\ UNCHANGED <<pedido, trava, saida, sujo, orfaos, recuo, timer, hist>>

\* Kill takes effect.
Morre ==
  /\ proc = "matado"
  /\ proc' = "morto"
  /\ UNCHANGED <<pedido, trava, canal, orfaos, recuo, timer, hist>>

MorreOrfao ==
  /\ orfaos > 0
  /\ orfaos' = orfaos - 1
  /\ UNCHANGED <<pedido, trava, proc, canal, recuo, timer, hist>>

----------------------------------------------------------------------------
\* Time.

EmEspera == fase \in {"esperando", "despedindo", "derrubando"}

\* Some goroutine can run: no time passes before it does.
Urgente ==
  \/ ocioso = "armado" /\ resta = 0
  \/ dono = "ninguem" /\ (disparos > 0 \/ chamada # "fora")
  \/ fase = "subindo"
  \/ fase = "escrevendo" /\ proc = "morto"
  \/ EmEspera /\ (prazo = 0 \/ proc = "morto")
  \/ fase \in {"esperando", "despedindo"} /\ (saida # <<>> \/ sujo = "sim")

\* The longest a call waits for the lock: the whole of an idle shutdown.
EsperaDaTrava == PrazoDespedida + PrazoEncerrar

\* The longest a call may last when its request fits in the pipe: the wait for the lock,
\* its own deadline, and the process it kills.
DuracaoMaxima == EsperaDaTrava + LimiteMaximo + PrazoEncerrar

Tempo ==
  /\ ~Urgente
  /\ prazo' = IF EmEspera THEN prazo - 1 ELSE prazo
  /\ resta' = IF ocioso = "armado" THEN resta - 1 ELSE resta
  /\ desdeFalha'  = Min2(desdeFalha + 1, EsperaMaxima)
  /\ desdeSubida' = Min2(desdeSubida + 1, EsperaMaxima)
  /\ duracao' = IF chamada = "fora" THEN 0 ELSE Min2(duracao + 1, DuracaoMaxima + 1)
  /\ semUso'  = Min2(semUso + 1, PrazoOciosidade)
  /\ UNCHANGED <<chamada, atual, limite, tamanho, dono, fase, worker, falhas, ocioso, disparos,
                 mutex, entregue>>

----------------------------------------------------------------------------
Next ==
  \/ \E p \in Pedidos, l \in Limites, t \in {"cabe", "excede"} : Envia(p, l, t)
  \/ Encerra
  \/ TravaEnvia \/ Recusa \/ FalhaAoPreparar \/ FalhaAoSubir \/ Sobe
  \/ Escreve \/ ComecaAEscrever \/ TerminaDeEscrever \/ EscritaFalha
  \/ Recebe \/ LeituraFalha \/ Estoura
  \/ TravaEncerra \/ FimDaDespedida \/ FimDaDerrubada
  \/ Dispara \/ SoltaPorOciosidade
  \/ Le \/ Responde \/ Imprime \/ Cai \/ Morre \/ MorreOrfao
  \/ Tempo

Spec == Init /\ [][Next]_vars

\* What the Go scheduler and Windows guarantee: a goroutine that can run runs, time
\* passes, TerminateProcess takes effect, and a worker between two requests is in
\* Decode and reads what it is sent.  Nothing says that it answers or stays up.
Justica ==
  /\ WF_vars(TravaEnvia) /\ WF_vars(Recusa)
  /\ WF_vars(FalhaAoPreparar \/ FalhaAoSubir \/ Sobe)
  /\ WF_vars(Escreve \/ ComecaAEscrever) /\ WF_vars(EscritaFalha)
  /\ WF_vars(TerminaDeEscrever)
  /\ WF_vars(Recebe \/ LeituraFalha \/ Estoura)
  /\ WF_vars(TravaEncerra) /\ WF_vars(FimDaDespedida) /\ WF_vars(FimDaDerrubada)
  /\ WF_vars(Dispara) /\ WF_vars(SoltaPorOciosidade)
  /\ WF_vars(Morre) /\ WF_vars(MorreOrfao)
  /\ WF_vars(Tempo)

SpecJusta == Spec /\ Justica

----------------------------------------------------------------------------
Mensagens == Pedidos \cup {Encerrar}

TipoPedido ==
  /\ chamada \in {"fora", "envia", "encerra"}
  /\ atual \in Pedidos \cup {Nenhum}
  /\ limite \in Limites \cup {0}
  /\ tamanho \in {"cabe", "excede"}
  /\ duracao \in 0..(DuracaoMaxima + 1)
TipoTrava ==
  /\ dono \in {"ninguem", "sdk", "ocioso"}
  /\ fase \in {"livre", "subindo", "escrevendo", "esperando", "despedindo", "derrubando"}
  /\ prazo \in Nat
TipoWorker ==
  /\ proc \in {"nenhum", "pronto", "atendendo", "matado", "morto"}
  /\ entrada \in Seq(Mensagens)
  /\ trabalho \in Mensagens \cup {Nenhum}
  /\ saida \in Seq(Mensagens) /\ sujo \in {"sim", "nao"}
  /\ orfaos \in 0..MaxOrfaos
TipoRecuo == falhas \in 0..TetoFalhas /\ desdeFalha \in 0..EsperaMaxima
TipoTimer ==
  /\ ocioso \in {"armado", "parado"} /\ resta \in 0..PrazoOciosidade
  /\ disparos \in Nat /\ mutex \in {"normal", "fome"}
TipoHist ==
  /\ entregue \in [de : Mensagens \cup {Nenhum}, para : Pedidos \cup {Nenhum}]
  /\ semUso \in 0..PrazoOciosidade
  /\ desdeSubida \in 0..EsperaMaxima

\* Every variable ranges over what the Go fields and the pipes can hold.
TypeOK == TipoPedido /\ TipoTrava /\ TipoWorker /\ TipoRecuo /\ TipoTimer /\ TipoHist

\* An answer is never handed to a request that did not ask for it, although a worker
\* may answer after its caller gave up (envia kills it and drops its pipes).
RespostaDoProprioPedido == entregue.de = entregue.para

\* The one message in the channel, wherever it is: sent, being served, answered, or lost
\* with the process.
UmaMensagem(m) ==
  \/ entrada = <<m>> /\ trabalho = Nenhum /\ saida = <<>> /\ proc = "pronto"
  \/ entrada = <<>> /\ trabalho = m /\ saida = <<>> /\ proc = "atendendo"
  \/ entrada = <<>> /\ trabalho = Nenhum /\ saida = <<m>> /\ proc \in {"pronto", "morto"}
  \/ entrada = <<>> /\ trabalho = Nenhum /\ saida = <<>> /\ proc = "morto"

CanalVazio == entrada = <<>> /\ trabalho = Nenhum /\ saida = <<>>

\* The inductive strengthening of the property above: who holds the lock in each
\* phase, and what the pipes may hold then.
Protocolo ==
  /\ dono = "ninguem" <=> fase = "livre"
  /\ fase \in {"subindo", "escrevendo", "esperando"} => dono = "sdk" /\ chamada = "envia"
  /\ fase = "despedindo" => dono = "ocioso" \/ chamada = "encerra"
  /\ dono = "sdk" => chamada # "fora"
  /\ chamada = "envia" => atual \in Pedidos
  /\ dono = "sdk" /\ chamada = "encerra" => ocioso = "parado"
  /\ fase \in {"livre", "subindo", "escrevendo"} => CanalVazio
  /\ fase \in {"livre", "subindo"} => proc \in {"nenhum", "pronto", "morto"}
  /\ fase = "escrevendo" => proc \in {"pronto", "morto"}
  /\ fase = "esperando"  => UmaMensagem(atual)
  /\ fase = "despedindo" => UmaMensagem(Encerrar)
  /\ fase = "derrubando" => proc \in {"matado", "morto"}

\* A call whose request fits in the pipe ends in bounded time, the wait for the lock
\* and the wait for a process that will not die included.
DuracaoLimitada == chamada = "envia" /\ tamanho = "cabe" => duracao <= DuracaoMaxima

\* Its inductive strengthening: how much of each wait is behind the call.
Relogio ==
  /\ fase = "despedindo" => prazo <= PrazoDespedida
  /\ fase = "derrubando" => prazo <= PrazoEncerrar
  /\ chamada = "envia" /\ tamanho = "cabe" =>
       /\ fase # "escrevendo"
       /\ dono = "ninguem" => /\ duracao <= EsperaDaTrava
                              /\ duracao > 0 => proc = "nenhum"
       /\ dono = "ocioso" => /\ fase = "despedindo" => duracao + prazo <= PrazoDespedida
                             /\ fase = "derrubando" => duracao + prazo <= EsperaDaTrava
       /\ dono = "sdk" => /\ fase = "subindo"    => duracao <= EsperaDaTrava
                          /\ fase = "esperando"  => duracao + prazo <= EsperaDaTrava + limite
                          /\ fase = "derrubando" => duracao + prazo <= DuracaoMaxima

\* After FalhasParaEsfriar failures in a row, two processes are never started closer
\* to each other than the wait the failures call for (worker.go:183-189).
IntervaloEntreSubidas ==
  [][proc = "nenhum" /\ proc' = "pronto" /\ falhas >= FalhasParaEsfriar
       => desdeSubida >= EsperaAposFalhas(falhas)]_vars

\* Behind it: a worker kept up between two calls is one that answered its last call, so
\* with failures outstanding none is up, and none was started since the last failure.
RecuoCoerente ==
  /\ fase \in {"livre", "despedindo"} /\ proc # "nenhum" => falhas = 0
  /\ fase = "derrubando" /\ ~(dono = "sdk" /\ chamada = "envia") => falhas = 0
  /\ proc = "nenhum" /\ falhas > 0 => desdeSubida >= desdeFalha

\* While a call has the worker, only the call kills it, and only when its deadline passed or
\* what it read is not an answer: neither the idle timer nor a shutdown gets between (the
\* mutex, worker.go:331-385).
SoOPrazoMata ==
  [][chamada = "envia" /\ dono = "sdk" /\ Vivo /\ proc' \in {"matado", "nenhum"}
       => fase = "esperando" /\ (prazo = 0 \/ sujo = "sim")]_vars

\* encerra leaves neither a worker nor a running timer behind.
EncerraNaoDeixaNada ==
  [][chamada = "encerra" /\ chamada' = "fora"
       => proc' = "nenhum" /\ ocioso' = "parado" /\ dono' = "ninguem"]_vars

\* Does not hold. The comment on prazoOciosidade and the callback's log line say that the
\* worker is let go after five minutes with nobody using it; a callback that waited for
\* the mutex while a call held it lets go of the worker right after that call.
OciosidadeRespeitada ==
  [][dono = "ninguem" /\ dono' = "ocioso" => semUso >= PrazoOciosidade]_vars

\* Every call returns, whatever the worker does.
TodaChamadaRetorna == chamada # "fora" ~> chamada = "fora"

\* When the calls stop, the worker is let go for good, crashed or not, and no killed
\* process is left.
OciosoESolto == <>[](chamada = "fora") => <>[](proc = "nenhum" /\ orfaos = 0)

----------------------------------------------------------------------------
\* A call as its caller sees it.  What was sent to a worker that died, or to one being killed,
\* is lost.
Perdida ==
  \/ fase = "esperando" /\ proc = "morto" /\ saida = <<>>
  \/ fase = "derrubando" /\ dono = "sdk"

Andamento ==
  CASE chamada # "envia"                                             -> "livre"
    [] chamada = "envia" /\ Perdida                                  -> "perdida"
    [] chamada = "envia" /\ fase = "esperando" /\ trabalho # Nenhum  -> "executa"
    [] chamada = "envia" /\ fase = "esperando" /\ saida # <<>>       -> "feita"
    [] OTHER                                                         -> "pedida"

Servico == INSTANCE ServicoWorker
             WITH chamado   <- IF chamada = "envia" THEN atual ELSE Nenhum,
                  andamento <- Andamento,
                  resposta  <- entregue.de

\* No call is executed twice, nor after it was lost, and what a call returns is the answer to
\* its own execution or an error, whatever the mutex, the timers, the deadlines and the process
\* do (envia never asks again, worker.go:331-385).
ImplementaChamada == Servico!Spec
=============================================================================
