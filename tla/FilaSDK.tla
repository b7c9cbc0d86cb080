------------------------------ MODULE FilaSDK ------------------------------
(***************************************************************************)
(* The agent's HTTP requests and its only SDK thread (main.go).            *)
(*                                                                         *)
(* Handlers run concurrently, each under a context that dies when its      *)
(* client leaves, when its deadline passes or when the agent shuts down.   *)
(* What touches the SDK is put on sdkTasks and executed by one goroutine   *)
(* in order (naThreadSDK, sdkThreadMain); a caller that gives up leaves    *)
(* its task behind.  Shutting down cancels every context, waits for the    *)
(* handlers and queues the end of the SDK behind what is already there.    *)
(* A task's execution lasts at most Duracao, which is what ClienteWorker   *)
(* promises of a call (DuracaoLimitada).  Comparisons are the local ones;  *)
(* delegated ones never reach the queue.  The count the agent makes as it  *)
(* starts (checaLeitorNoArranque) is a /status whose client stays; it      *)
(* takes no slot of the middleware, which one more of them stands for.     *)
(***************************************************************************)
EXTENDS Naturals, Sequences, FiniteSets

CONSTANTS
  Req,               \* requests; one is reused only when nothing of it is left
  Desliga,           \* the call of naThreadSDK made by encerraSDK
  Ninguem,           \* the SDK thread waits for a task
  Op,                \* what each of them asks for
  PrazoCtx,          \* the deadline of an operation's context (+ PrazoCtx[o])
  Duracao,           \* the longest its execution takes
  PrazoDesliga,      \* ctxShutdown (10 s)
  Capacidade,        \* of sdkTasks (16)
  MaxRequisicoes,    \* limiteHTTP (32)
  MaxIdentificacoes  \* limiteIdentificar (2)

Tarefas == Req \cup {Desliga}
Operacoes == {"contar", "capturar", "comparar", "identificar"}

ASSUME TarefasAssumption == Desliga \notin Req /\ Ninguem \notin Tarefas
ASSUME OpAssumption == /\ Op \in [Tarefas -> Operacoes \cup {"encerrar"}]
                       /\ \A t \in Tarefas : Op[t] = "encerrar" <=> t = Desliga
ASSUME PrazosAssumption == /\ PrazoCtx \in [Operacoes \ {"contar"} -> Nat \ {0}]
                           /\ Duracao \in [Operacoes \cup {"encerrar"} -> Nat]
                           /\ PrazoDesliga \in Nat \ {0}
ASSUME LimitesAssumption == /\ Capacidade \in Nat \ {0}
                            /\ MaxRequisicoes \in Nat \ {0}
                            /\ MaxIdentificacoes \in Nat \ {0}

VARIABLES
  pc,         \* where each caller is
  ctx,        \* its context: "vivo", "desistiu" (cancelled), "venceu" (deadline)
  resta,      \* what is left of its deadline
  resultado,  \* its result channel, while somebody may read it
  fila,       \* sdkTasks
  thread,     \* the task the SDK thread executes
  rodou,      \* for how long it has been executing
  sdk,        \* sdkInst: "nenhum", "criado"
  app,        \* "rodando", "desligando" (Shutdown), "encerrando" (encerraSDK), "fora"
  encerrou    \* history: encerraSDK's task has run ("sim", "nao")

chamadores == <<pc, ctx, resta>>
execucao   == <<thread, rodou>>
processo   == <<sdk, app, encerrou>>
vars == <<chamadores, resultado, fila, execucao, processo>>

Na(t, lugares) == pc[t] \in lugares
Morto(t) == ctx[t] # "vivo"

\* A request's handler holds a slot of limiteHTTP from the middleware to its return.
Dentro == {r \in Req : pc[r] # "fora"}

\* And one of limiteIdentificar once it passed the reservation.
Identificando == {r \in Dentro : Op[r] = "identificar" /\ pc[r] # "reserva"}

\* What is left of a request besides its handler: its task, queued or executing.
NaFila(t) == \E i \in DOMAIN fila : fila[i] = t
Pendente(t) == thread = t \/ NaFila(t)

\* A body the process still refers to: its handler's, or its task's.
CorposNaMemoria ==
  {r \in Req : Op[r] = "identificar" /\ (r \in Identificando \/ Pendente(r))}

Init ==
  /\ pc = [t \in Tarefas |-> "fora"]
  /\ ctx = [t \in Tarefas |-> "desistiu"]
  /\ resta = [t \in Tarefas |-> 0]
  /\ resultado = [t \in Tarefas |-> "nada"]
  /\ fila = <<>> /\ thread = Ninguem /\ rodou = 0
  /\ sdk = "nenhum" /\ app = "rodando" /\ encerrou = "nao"

----------------------------------------------------------------------------
\* Handlers.  The operators named ..._defeito are mistakes a change could make in the
\* definition that follows each of them; no action uses them.

\* A handler returns: its slots are free, the deferred cancel kills the context, and
\* nobody is left to read the result.
Responde(t) ==
  /\ pc' = [pc EXCEPT ![t] = "fora"]
  /\ ctx' = [ctx EXCEPT ![t] = "desistiu"]
  /\ resta' = [resta EXCEPT ![t] = 0]
  /\ resultado' = [resultado EXCEPT ![t] = "nada"]

\* The context of the operation, a child of the request's; /status uses the request's own.
PrazoDe(r) == IF Op[r] = "contar" THEN 0 ELSE PrazoCtx[Op[r]]

\* /status and the captures go to the SDK at once, the comparison reads its body, the
\* identification waits for a slot of its own first.
PrimeiroPasso(r) ==
  CASE Op[r] = "comparar" -> "corpo" [] Op[r] = "identificar" -> "reserva" [] OTHER -> "enfila"

\* The middleware finds a slot.  (Without one it answers 503 and nothing changes.)  While
\* the agent shuts down a connection already open may still bring a request; its context
\* is a child of one that is dead.
Chega(r) ==
  /\ pc[r] = "fora" /\ ~Pendente(r)
  /\ Cardinality(Dentro) < MaxRequisicoes
  /\ pc' = [pc EXCEPT ![r] = PrimeiroPasso(r)]
  /\ ctx' = [ctx EXCEPT ![r] = IF app = "rodando" THEN "vivo" ELSE "desistiu"]
  /\ resta' = [resta EXCEPT ![r] = PrazoDe(r)]
  /\ UNCHANGED <<resultado, fila, execucao, processo>>

Reserva(r) ==
  /\ Na(r, {"reserva"}) /\ Cardinality(Identificando) < MaxIdentificacoes
  /\ pc' = [pc EXCEPT ![r] = "corpo"]
  /\ UNCHANGED <<ctx, resta, resultado, fila, execucao, processo>>

\* Two seconds without a slot, or the client is gone.
ReservaFalha(r) ==
  /\ Na(r, {"reserva"})
  /\ Cardinality(Identificando) >= MaxIdentificacoes \/ Morto(r)
  /\ Responde(r)
  /\ UNCHANGED <<fila, execucao, processo>>

LeCorpo(r) ==
  /\ Na(r, {"corpo"})
  /\ pc' = [pc EXCEPT ![r] = "enfila"]
  /\ UNCHANGED <<ctx, resta, resultado, fila, execucao, processo>>

\* Unreadable, incomplete or refused by the handler's checks.
CorpoInvalido(r) ==
  /\ Na(r, {"corpo"})
  /\ Responde(r)
  /\ UNCHANGED <<fila, execucao, processo>>

\* The connection closes: net/http cancels the request's context.
ClienteSome(r) ==
  /\ r \in Dentro /\ ~Morto(r)
  /\ ctx' = [ctx EXCEPT ![r] = "desistiu"]
  /\ UNCHANGED <<pc, resta, resultado, fila, execucao, processo>>

----------------------------------------------------------------------------
\* naThreadSDK, on the caller's side.  Either select may take either ready case.

Enfila(t) ==
  /\ Na(t, {"enfila"}) /\ Len(fila) < Capacidade
  /\ fila' = Append(fila, t)
  /\ pc' = [pc EXCEPT ![t] = "aguarda"]
  /\ UNCHANGED <<ctx, resta, resultado, execucao, processo>>

Desiste(t) ==
  /\ Na(t, {"enfila", "aguarda"}) /\ Morto(t)
  /\ Responde(t)
  /\ UNCHANGED <<fila, execucao, processo>>

Recolhe(t) ==
  /\ Na(t, {"aguarda"}) /\ resultado[t] # "nada"
  /\ Responde(t)
  /\ UNCHANGED <<fila, execucao, processo>>

----------------------------------------------------------------------------
\* The SDK thread: sdkThreadMain and the task naThreadSDK hands it.

\* The channel holds one result, so the thread never waits for a reader; with nobody
\* left to read it, it is garbage.
Entrega(t, res) ==
  resultado' = [resultado EXCEPT ![t] = IF Na(t, {"aguarda"}) THEN res ELSE "nada"]

\* The queue is drained after its callers gave up: the task does not look at its context.
Executa_defeito ==
  /\ thread = Ninguem /\ fila # <<>>
  /\ thread' = Head(fila) /\ rodou' = 0
  /\ fila' = Tail(fila)
  /\ UNCHANGED <<chamadores, resultado, processo>>

Executa ==
  /\ thread = Ninguem /\ fila # <<>> /\ ~Morto(Head(fila))
  /\ thread' = Head(fila) /\ rodou' = 0
  /\ fila' = Tail(fila)
  /\ UNCHANGED <<chamadores, resultado, processo>>

\* A task whose caller gave up while it was queued does not run.
Descarta ==
  /\ thread = Ninguem /\ fila # <<>> /\ Morto(Head(fila))
  /\ Entrega(Head(fila), "cancelado")
  /\ fila' = Tail(fila)
  /\ UNCHANGED <<chamadores, execucao, processo>>

\* A channel that holds no result: the thread waits for somebody to read it.
Termina_defeito ==
  /\ thread \in Req /\ Na(thread, {"aguarda"})
  /\ resultado' = [resultado EXCEPT ![thread] = "pronto"]
  /\ sdk' \in {sdk, "criado"}
  /\ thread' = Ninguem /\ rodou' = 0
  /\ UNCHANGED <<chamadores, fila, app, encerrou>>

\* An operation the worker did not survive is tried again.
TerminaDeNovo_defeito ==
  /\ thread \in Req
  /\ \/ Entrega(thread, "pronto") /\ UNCHANGED fila
     \/ Len(fila) < Capacidade /\ fila' = Append(fila, thread) /\ UNCHANGED resultado
  /\ sdk' \in {sdk, "criado"}
  /\ thread' = Ninguem /\ rodou' = 0
  /\ UNCHANGED <<chamadores, app, encerrou>>

\* fn returns, or panics and is recovered.  ensureSDK may fail, otherwise sdkInst is set.
Termina ==
  /\ thread \in Req
  /\ Entrega(thread, "pronto")
  /\ sdk' \in {sdk, "criado"}
  /\ thread' = Ninguem /\ rodou' = 0
  /\ UNCHANGED <<chamadores, fila, app, encerrou>>

\* encerraSDK's fn.
TerminaDesliga ==
  /\ thread = Desliga
  /\ Entrega(Desliga, "pronto")
  /\ sdk' = "nenhum" /\ encerrou' = "sim"
  /\ thread' = Ninguem /\ rodou' = 0
  /\ UNCHANGED <<chamadores, fila, app>>

----------------------------------------------------------------------------
\* Shutting down: the end of executa.

\* encerraSDK given the application's context, which cancelaApp has just killed.
Desligar_defeito ==
  /\ app = "rodando"
  /\ app' = "desligando"
  /\ ctx' = [t \in Tarefas |-> IF ctx[t] = "vivo" THEN "desistiu" ELSE ctx[t]]
  /\ resta' = [resta EXCEPT ![Desliga] = PrazoDesliga]
  /\ UNCHANGED <<pc, resultado, fila, execucao, sdk, encerrou>>

\* cancelaApp kills every request's context (BaseContext); ctxShutdown starts.
Desligar ==
  /\ app = "rodando"
  /\ app' = "desligando"
  /\ ctx' = [t \in Tarefas |-> IF t = Desliga THEN "vivo"
                               ELSE IF ctx[t] = "vivo" THEN "desistiu" ELSE ctx[t]]
  /\ resta' = [resta EXCEPT ![Desliga] = PrazoDesliga]
  /\ UNCHANGED <<pc, resultado, fila, execucao, sdk, encerrou>>

\* servidor.Shutdown returns: no handler is left, or its context expired.  encerraSDK
\* goes on under the same context.
ShutdownRetorna ==
  /\ app = "desligando"
  /\ Dentro = {} \/ Morto(Desliga)
  /\ app' = "encerrando"
  /\ pc' = [pc EXCEPT ![Desliga] = "enfila"]
  /\ UNCHANGED <<ctx, resta, resultado, fila, execucao, sdk, encerrou>>

\* encerraSDK returned, executa returns, and the process is gone with all its goroutines.
Sai ==
  /\ app = "encerrando" /\ pc[Desliga] = "fora"
  /\ app' = "fora"
  /\ UNCHANGED <<chamadores, resultado, fila, execucao, sdk, encerrou>>

----------------------------------------------------------------------------
\* Time.

\* A deadline is running: /status has none of its own.
ComPrazo(t) ==
  /\ ~Morto(t)
  /\ IF t = Desliga THEN app \in {"desligando", "encerrando"}
                    ELSE Na(t, {"enfila", "aguarda"}) /\ Op[t] # "contar"

Vence(t) ==
  /\ ComPrazo(t) /\ resta[t] = 0
  /\ ctx' = [ctx EXCEPT ![t] = "venceu"]
  /\ UNCHANGED <<pc, resta, resultado, fila, execucao, processo>>

\* Some goroutine can run: no time passes before it does.
Urgente ==
  \/ \E t \in Tarefas : \/ ComPrazo(t) /\ resta[t] = 0
                        \/ Na(t, {"reserva", "enfila", "aguarda"}) /\ Morto(t)
                        \/ Na(t, {"enfila"}) /\ Len(fila) < Capacidade
                        \/ Na(t, {"aguarda"}) /\ resultado[t] # "nada"
  \/ thread = Ninguem /\ fila # <<>>
  \/ app = "desligando" /\ (Dentro = {} \/ Morto(Desliga))
  \/ app = "encerrando" /\ pc[Desliga] = "fora"

Tempo ==
  /\ ~Urgente
  /\ IF thread = Ninguem THEN UNCHANGED rodou
                         ELSE rodou < Duracao[Op[thread]] /\ rodou' = rodou + 1
  /\ resta' = [t \in Tarefas |-> IF ComPrazo(t) THEN resta[t] - 1 ELSE resta[t]]
  /\ UNCHANGED <<pc, ctx, resultado, fila, thread, processo>>

----------------------------------------------------------------------------
Handler(r) == Reserva(r) \/ ReservaFalha(r) \/ LeCorpo(r) \/ CorpoInvalido(r)

NaThreadSDK(t) == Enfila(t) \/ Desiste(t) \/ Recolhe(t)

SDKThread == Executa \/ Descarta \/ Termina \/ TerminaDesliga

\* Nothing moves once the process is gone.
Next ==
  /\ app # "fora"
  /\ \/ \E r \in Req : Chega(r) \/ Handler(r) \/ ClienteSome(r)
     \/ \E t \in Tarefas : NaThreadSDK(t) \/ Vence(t)
     \/ SDKThread
     \/ Desligar \/ ShutdownRetorna \/ Sai
     \/ Tempo

Spec == Init /\ [][Next]_vars

\* A goroutine that can run runs, ReadTimeout ends the reading of a body, a task ends
\* (ClienteWorker, TodaChamadaRetorna), time passes.  The runtime queues the goroutines
\* blocked in a send (SF of Enfila), and nothing makes a client stay or the user quit.
Justica ==
  /\ \A r \in Req : WF_vars(app # "fora" /\ Handler(r))
  /\ \A t \in Tarefas : /\ SF_vars(app # "fora" /\ Enfila(t))
                        /\ WF_vars(app # "fora" /\ (Desiste(t) \/ Recolhe(t)))
                        /\ WF_vars(app # "fora" /\ Vence(t))
  /\ WF_vars(app # "fora" /\ SDKThread)
  /\ WF_vars(ShutdownRetorna) /\ WF_vars(Sai)
  /\ WF_vars(app # "fora" /\ Tempo)

SpecJusta == Spec /\ Justica

----------------------------------------------------------------------------
\* Every variable ranges over what the handlers, the queue and the channels can hold.
TypeOK ==
  /\ pc \in [Tarefas -> {"fora", "reserva", "corpo", "enfila", "aguarda"}]
  /\ ctx \in [Tarefas -> {"vivo", "desistiu", "venceu"}]
  /\ resta \in [Tarefas -> Nat]
  /\ resultado \in [Tarefas -> {"nada", "pronto", "cancelado"}]
  /\ fila \in Seq(Tarefas) /\ Len(fila) <= Capacidade
  /\ thread \in Tarefas \cup {Ninguem} /\ rodou \in Nat
  /\ sdk \in {"nenhum", "criado"}
  /\ app \in {"rodando", "desligando", "encerrando", "fora"}
  /\ encerrou \in {"sim", "nao"}

\* Once encerraSDK has closed the SDK, neither a task left in the queue nor a handler late
\* to put its own there brings it back before the process exits.
NadaDepoisDeEncerrar == encerrou = "sim" => sdk = "nenhum" /\ thread = Ninguem

\* What makes the two around it inductive.  Before the end of the shutdown nobody has asked
\* for the end of the SDK; it is asked for once, under a context that only its deadline
\* kills, and its task is in one place; once shutting down, no request's context lives.
FimDoSDK ==
  /\ app \in {"rodando", "desligando"} \/ pc[Desliga] = "enfila"
       => encerrou = "nao" /\ ~Pendente(Desliga)
  /\ app \in {"rodando", "desligando"} => pc[Desliga] = "fora"
  /\ app = "desligando" \/ pc[Desliga] # "fora" => ctx[Desliga] # "desistiu"
  /\ app # "rodando" => \A r \in Req : Morto(r)
  /\ thread = Desliga => ~NaFila(Desliga)
  /\ \A i, j \in DOMAIN fila : fila[i] = Desliga /\ fila[j] = Desliga => i = j
  /\ encerrou = "sim" => ~Pendente(Desliga)
  /\ resultado[Desliga] # "nada" => pc[Desliga] = "aguarda"
  /\ resultado[Desliga] = "pronto" => encerrou = "sim"
  /\ resultado[Desliga] = "cancelado" => ctx[Desliga] = "venceu"

\* The process leaves the SDK open only when the ten seconds of the shutdown were over
\* (a body still being read, or a task still executing): nothing else keeps encerraSDK
\* from its turn in the queue.
SemEncerrarSoNoPrazo ==
  [][pc[Desliga] # "fora" /\ pc'[Desliga] = "fora" /\ encerrou' = "nao"
       => ctx[Desliga] = "venceu"]_vars

\* What a call is to who asked for it, wherever its task is.
PedidoDe(t) ==
  CASE Na(t, {"fora", "reserva", "corpo"})               -> "fora"
    [] Na(t, {"aguarda"}) /\ thread = t                  -> "executando"
    [] Na(t, {"aguarda"}) /\ thread # t
         /\ resultado[t] = "pronto"                      -> "atendido"
    [] OTHER                                             -> "espera"

pedidos == [t \in Tarefas |-> PedidoDe(t)]

Servico == INSTANCE ServicoSDK WITH pedido <- pedidos, executa <- thread

\* Queue, abandoned tasks and shutdown keep what is promised of the SDK: executed at most
\* once, only while its caller waits, one at a time, and not after the end.
ImplementaServico == Servico!Spec

\* What that takes: a task is in one place, its caller waits for it unless it gave up, and
\* nothing was delivered for it yet.
TarefaUnica ==
  /\ \A i, j \in DOMAIN fila : fila[i] = fila[j] => i = j
  /\ thread # Ninguem => ~NaFila(thread)
  /\ \A t \in Tarefas :
       /\ Na(t, {"reserva", "corpo", "enfila"}) => ~Pendente(t)
       /\ ~Na(t, {"aguarda"}) => resultado[t] = "nada"
       /\ Pendente(t) => resultado[t] = "nada"
       /\ Pendente(t) /\ ~Morto(t) => Na(t, {"aguarda"})

\* The SDK thread is never held by an answer nobody takes: every request is answered, one
\* without a deadline (/status) included, whatever the other callers give up.
TodaRequisicaoResponde ==
  \A r \in Req : pc[r] # "fora" ~> pc[r] = "fora" \/ app = "fora"

\* Does not hold. The comment in capturaEResponde says that the context of a capture
\* outlasts the capture, so that the SDK thread never reads a finger for an answer nobody
\* will read; the wait in the queue consumes the same context.
CapturaTemQuemEspere ==
  thread \in Req /\ Op[thread] = "capturar" => ctx[thread] # "venceu"

\* Does not hold. The comments on limiteIdentificar and in handleIdentificar say that no
\* more bodies of an identification are in memory at once than limiteIdentificar has
\* slots; a task given up in the queue keeps its body after its slot is free.
CorposLimitados == Cardinality(CorposNaMemoria) <= MaxIdentificacoes
=============================================================================
