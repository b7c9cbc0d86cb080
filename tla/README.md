# Verification of the biometrics agent

TLA+ models of the agent in this repository (`api_remote_biometrics`): a Windows
program that lets web pages capture and compare fingerprints through the NBioBSP
SDK, one agent per RDP session, with an optional comparison service per server.
The modules keep the names of the Go code where TLA+ allows; comments quote
`file:line` of the commit beside them.

Run from this directory:

    tlc -config ClienteWorker.cfg MCClienteWorker.tla      # any run of the table below
    tlapm ClienteWorkerProofs.tla                          # the proofs

## 1. Inventory of the system

| component | state | operations | talks to |
|---|---|---|---|
| SDK worker client (`worker.go`) | child process and pipes, failures, idle timer, mutex | `envia`, `encerra`, the timer's callback | worker process over stdin/stdout; called by the SDK thread |
| Worker process (`worker.go`, `sdk.go`) | one NBioBSP instance | one request, one answer | the DLL and the reader |
| SDK thread and handlers (`main.go`) | `sdkTasks`, `sdkInst`, slots of `limiteHTTP` and `limiteIdentificar`, a context per request | `naThreadSDK`, handlers, shutdown of `executa` | worker client (agent) |
| Reader state and icon (`main.go`) | `leitorConectado`, `leitorAferido`, the tray's icon | annotations of every operation, check at startup | handlers, tray |
| Origins and menu (`origins.go`, `main.go`) | fixed, approved and pending origins, file, menu items | request, approve, revoke | `/api/hello`, tray |
| Comparison service (`comparador.go`, `servico.go`) | secret, port, announcement | start, serve, stop | service manager, agents |
| Announcement and delegation (`anuncio.go`, `delegacao.go`) | `comparador.json`; the agent's copy | publish, remove, read at startup, delegate | service and agents |
| Certificates (`cert.go`) | machine and user certificate files, Root stores | generate, install, renew, remove, load | service, agents, certutil |
| Listener and process life (`cert.go`, `main.go`) | connections being sniffed, slots, `conns`; `erroServidor`, the tray | accept, sniff, deliver, close; `executa`, `encerraBandeja` | browsers, `net/http`, the supervisor |
| NBioBSP binding (`sdk.go`) | the instance; native memory, device, FIR and text of one operation | count, capture, compare, identify | the DLL, from the worker |
| Atomic write (`storage.go`) | a file and a temporary one | `gravaArquivoAtomico` | origins, discovery file, announcement, certificates |
| Log (`log.go`) | file, size, the logger's output | open, write, rotate | everything |
| Supervisor (`supervisor.go`) | a child process, the next wait | start, wait, start again | the agent, by its exit code |
| Session check (`session.go`) | – | PID and session of a connection | `/api/hello` |
| Browser client (`integra-biometria.js`) | port, token, protocol | discovery, operations with one reconnection | the agent |

What is hard to test here, in order of weight: calls that give up while the work goes on
(contexts, abandoned tasks, a killed process, answers that come late); one mutex between
calls, a timer and a shutdown; state that is right in memory and stale elsewhere (icon,
announcement, root store, another session's memory); files that survive crashes half way
through a sequence; native resources obtained half way through an operation that fails; and
a retry or restart that does not repeat the step that failed, or repeats one that did not.
`PROJECT.json` lists these hazards at their lines with the properties that watch them.

What makes each component correct:

- worker client: an answer reaches only its request; a call is bounded whatever
  the process does; failures space out the starts; a worker in use is killed only by
  the call that uses it, at its deadline or over an answer that is none; an unused
  worker goes away; ending leaves nothing behind.
- SDK thread: a call is executed at most once and only while somebody waits for it; the
  thread never waits for a caller; ending the SDK is the last thing it does; slots bound
  what they say.
- reader state: follows what operations found, and the icon follows it.
- service and agents: whoever reads the announcement reaches the comparator that
  serves, crashes keep agents working, certificates served are registered ones and
  registered ones do not outlive the installation, all of it up to failures that the
  properties name one by one.
- native binding: whatever fails, what was obtained is given back once, and a search
  answers about the candidate that matched and not about an earlier one.
- files: always one whole content; a save changes what it was asked to; the log is
  bounded as long as its renames work.
- listener, process and supervisor: no connection stays for good, what must end ends,
  what fails at once is not started again at once, and a process that ends without its
  user having left it is followed by another or by a failed attempt at one.
- browser client: an operation that nothing disturbs is answered, one that is repeated
  was lost before, and every one ends.
- origins: a site gets in only by configuration or by a click that no revocation
  followed; memory and file agree unless a read or a write failed or another session
  wrote; what waits for the user is shown to the user.

## 2. Modules

| module | models | proofs |
|---|---|---|
| `ClienteWorker` | `worker.go`: `clienteWorker` and the process at the other end of the pipes | `ClienteWorkerProofs` |
| `ServicoWorker` | what a call of the worker client is promised, an abstraction implemented by `ClienteWorker` | `ClienteWorkerProofs` |
| `FilaSDK` | `main.go`: handlers, `naThreadSDK`, SDK thread, shutdown | `FilaSDKProofs` |
| `ServicoSDK` | what callers are promised of the SDK, an abstraction implemented by `FilaSDK` | `FilaSDKProofs` |
| `EstadoLeitor` | `main.go`, `worker.go`, `sdk.go`: reader, SDK instance, annotations, icon | `AgenteProofs` |
| `Comparador` | `comparador.go`, `anuncio.go`, `delegacao.go`, `cert.go`: service, files, agents | `ComparadorProofs` |
| `Origens` | `origins.go`, `main.go`, `storage.go`: authorised origins, file, tray menu | `OrigensProofs` |
| `NBio` | `sdk.go`, `worker.go`: the native binding, one operation at a time | `NBioProofs` |
| `Identificacao` | `main.go`: `/identificar` around the search of `NBio` (EXTENDS it) | `NBioProofs` |
| `GravaAtomico` | `storage.go`: `gravaArquivoAtomico` and readers of the file | `PastaProofs` |
| `Registro` | what it promises, an abstraction implemented by `GravaAtomico` | `PastaProofs` |
| `ArquivoRotativo` | `log.go`: the log shared by processes | `PastaProofs` |
| `Pasta` | `origins.go`, `main.go`: the data directory of two sessions (EXTENDS `GravaAtomico`, `ArquivoRotativo`) | `PastaProofs` |
| `ListenerMista` | `cert.go`: `listenerMista` | `AgenteProofs` |
| `Supervisor` | `supervisor.go` | `AgenteProofs` |
| `ProcessoAgente` | `main.go`: `executa` around its listener and under its supervisor (EXTENDS both) | `AgenteProofs` |
| `ClienteJS` | `integra-biometria.js` and the agent it talks to | `ClienteJSProofs` |
| `MC...` | the small instance of each | – |

Every module says in its header what is external to it. Operators whose name ends
in `_defeito` are mistakes a change could make in the definition after them; no
action uses them. They document what each property notices: `PROJECT.json`
("mutants") says which property is violated when one takes its definition's place.

### ClienteWorker

`chamada` is what the SDK goroutine is doing (`envia`, `encerra`), `dono` who
holds `c.mu` and `fase` where the holder is (`sobe`, `Encode`, the `select`,
`derruba`); `proc` is the process behind `c.cmd`, `entrada`, `trabalho` and
`saida` the request and the answer on their way. `falhas`, `desdeFalha` are the
breaker, `ocioso`, `resta`, `disparos` the timer and its callbacks waiting for the
mutex. One action per blocking point: `TravaEnvia`, `Recusa`, `FalhaAoPreparar`,
`FalhaAoSubir`, `Sobe`, `Escreve` (fits the pipe) or `ComecaAEscrever` and
`TerminaDeEscrever` (does not), `Recebe`, `LeituraFalha`, `Estoura`,
`FimDaDerrubada` and so on. The worker reads, answers, dies, or does nothing. What the
DLL prints on the standard output the answers travel on (`Imprime`, `sujo`) makes the
next `Decode` fail, and the call then kills a worker that is alive (`LeituraFalha`).

Time is a counter: `Tempo` passes one unit, unless a goroutine can run. Deadlines
count down, ages saturate, so the state space is finite without a constraint.
`mutex` is `sync.Mutex`'s starvation mode: a waiting callback loses the lock to a
newcomer at most once (really: for 1 ms).

`ServicoWorker` has no mutex, timers, pipes or process: a call is asked, taken, done, or
lost at any point, and returns the answer to its own execution or an error. `Servico`
instantiates it over `ClienteWorker`; `Andamento` reads how far the call is from where the
goroutine is, from the request and the answer in the pipes and from whether the process
that has them lives (`Perdida`). Waiting for the mutex, starting and killing processes
and everything the timer does are steps the service does not see.

### FilaSDK

`pc` is where each caller is: reserving (`reserva`), reading its body (`corpo`),
in the first `select` of `naThreadSDK` (`enfila`) or in the second (`aguarda`).
`ctx` is its context and `resta` what is left of its deadline. `fila`, `thread`
and `rodou` are the queue, the task being executed and for how long. `Desliga` is
the call made by `encerraSDK`. Each request has a fixed operation (`Op`) and is
used again once nothing of it is left, its abandoned task included. While the agent shuts
down an open connection may still bring a request, whose context is dead. Both selects
may take either ready case, as Go's do. A task lasts at most `Duracao`: that is
what `DuracaoLimitada` says of the worker client.

`ServicoSDK` has no queue, contexts or channels: a call asks, is executed at most
once and only while it waits, one at a time, never after the SDK was ended, and
may leave at any moment. `Servico` instantiates it over `FilaSDK` with `pedidos`
(what each call is, computed from its place, its task and its result) for `pedido`
and `thread` for `executa`. Entering the queue and discarding an abandoned task
are steps the service does not see.

### EstadoLeitor

Annotators (handlers and the check at startup) pass through `conta`/`captura`
(the operation, one at a time), `anota` (between `naThreadSDK` returning and the
lock) and `pinta` (after the Unlock). `inst` is the worker's NBioBSP instance,
which stops seeing a reader that left; the error classes are the ones
`exigeReinicio` and `erroDeDispositivo` tell apart, and any instance may answer any of
them, or zero readers if it sees none. `SoltaPorOciosidade` is the idle timer of the worker
client, seen from here. `ComoChega` is the conversion the error suffers on its way: a text.
`ultima` and `limpo` are history.

### Comparador

`pc` follows `rodaComparadorCom`: secret, certificate (key, certificate, certutil:
three steps that can each fail or be the last before a crash), port, announcement,
serving, closing (the worker is ended, up to ten seconds), and the deferred
removal. Agents read the announcement and then the certificate, once. Several
comparators may start side by side; the port arbitrates, between them and with any other
program. A read of the announcement or of the pair may fail (`leAnuncio` and
`certificadoValido` do not say why), a removal may fail and is only logged, and the
uninstaller may stop half way. `eventos` records which of these happened: `ilegivel` (a
secret drawn although one was announced), `presa` (an announcement that would not go),
`junto` (a start beside another) and so on; the properties name the ones they exclude.

### Origens

`aprovadas` and `pendentes` are the maps of `gerenciadorOrigens` (`velhas`: past
`validadePendente`), `arquivo` the file, `envia` what each request to `/hello`
holds between `Unlock` and its non-blocking send, `novas` the channel. `menu` is
where the goroutine of `gerenciaMenuOrigens` is: before `onReady`, at its `select`,
writing the file under the mutex, or removing the items after a revocation.
`itens` says of each origin whether it has an item and whether that item's
goroutine already got its click; `decisoes` counts the clicks the menu has not
read, in whatever order the goroutines and the channel deliver them. `permitida`
changes nothing: its answer is `aprovadas` while the mutex is free (`Livre`).
`Reinicia` is any end of the process followed by a start, at any step; `carrega` says
nothing when it cannot read the file, and the agent begins with no origin. `OutraSessao` is
a save by the agent of another session of the user (`Pasta` has both). `difere` (the two
may differ: the last write failed, the start could not read, another session saved),
`clicadas` and `perdidas` are history.

### NBio and Identificacao

`pc` is the next native call of the operation the worker executes; `recursos` what is
allocated, open or owned for it, `adiados` the deferred releases (last in, first out),
`mao` what the DLL handed over and nothing will release until it is read (`Recolhe`).
Every allocation, call and read may fail (`Retorna`), then `Libera` runs the deferred
calls one by one and `Volta` gives the outcome to `atendePedido` (`Atende`), which
ends an instance that lost its reader. A template is the class of outcome that
comparing it has. `celula` is the out parameter of `VerifyMatch`, which may write less
than the cell when the templates differ: that is why `Zera` exists. `perdidos` records
what the code cannot give back: a device that would not close, an instance that would
not end, a handle in memory that could not be read.

`Identificacao` puts the handler around it: `Recebe` takes a body whose ids are right
(`Aceitos`) and leaves out unreadable records, `Recusa` is every other way to answer without
a search, `Responde` takes the ids back from the positions the search gave, and `Desiste` is
the end of the context, after which the worker goes on searching for nobody.
Other operations, and lists nobody filtered (the comparison service hands them over),
come in between. Its steps are steps of `NBio` with every list allowed.

### GravaAtomico, ArquivoRotativo and Pasta

`passo` is where each writer is in `gravaArquivoAtomico`; any step may fail (`Tenta`),
a process may die between two (`Cai`) and the machine may lose power (`FaltaLuz`): what
was not synchronised is then garbage, the rename is not undone. A process that reads
the target makes `MoveFileEx` fail, for Go opens files without `FILE_SHARE_DELETE`.
`Registro` has none of this: a write happens at one point or not at all.

In `ArquivoRotativo` sizes are lines. A rename may fail at any time, and always does when
some process of the agent has the file open: every attempt deletes `agente.log.1`, fails to
rename and starts counting from zero (the content of `agente.log.1` is not modelled).
`estorvo` records that, since the file was last moved away, a rename failed, its size could
not be read or a process opened it beside another. A rotation that cannot open the file
again leaves the logger discarding until the process restarts.

`Pasta` composes them: the mutex of `instanciaUnica` belongs to a session and the
directory to a user, so two agents read `origens-autorizadas.json` when they start, save
their whole memory at each click and write the same log. `sabe` records whether an
agent's memory is what the file holds.

### ListenerMista, Supervisor and ProcessoAgente

`con` follows each connection from the accepting goroutine through `espia` (`Peek` with
ten seconds), the `select` into `conns` and `Accept`. `ProcessoAgente` is `executa`
(`prog`), the goroutine of `Serve` (`serve`) and the tray; its exit code goes to
`Supervisor` (`FilhoSai`), which sleeps and starts it again, or ends. `vida` and `espera`
are seconds; `rajada` counts the starts in a row that came less than a minute after the
one before, and `Dobrado` is the wait doubled that many times. `saiu` is history: the user
left this process.

### ClienteJS

Each operation of the page is a chain of awaits: `requisicao` (`indo`, `executa`,
`voltou`), `descobrir` (`varre`, `achou`), `aguardaAutorizacao` (`aguarda`). What runs
between two awaits is one action: `Conecta` stores the secret and sends the operation
again. `token` and `endereco` are `sessionStorage` and `localStorage`, shared by all
operations. The agent lives, dies and starts again with another secret (`Agente`) and
perhaps on another port; another session's agent may answer on the other ports. `ruido`
records that something failed around an operation, `execs` how often the agent executed
it. An answer whose body is lost after its headers is no error to `respostaJSON`: the
operation ends with nothing (`vazia`), and is not tried again.

## 3. Runs

| run | instance | shows |
|---|---|---|
| `ClienteWorker` | 2 requests, deadlines 1 and 2, waits `<<1, 2, 3>>` after 3 failures, idle time 5, one orphan | all safety and liveness properties of the worker client hold; they implement `ServicoWorker` |
| `FilaSDK` | a status, a capture, two identifications; queue of 1, 2 HTTP slots, 1 identification slot | safety and liveness of queue and shutdown hold; they implement `ServicoSDK` |
| `EstadoLeitor` | two handlers and the check at startup | belief and icon agree when annotations do not race; a blind instance goes, when an answer calls for it or nobody asks |
| `EstadoLeitor_erro` | same | **violated**: a device error does not turn the reader off |
| `Comparador` | two comparators, one agent, two secrets, two certificates | whose the announcement is, what crashes cost, who leaves a dead announcement, what certificates served and removed leave, up to the failures named |
| `Comparador_token` | one comparator | **violated**: an orderly restart invalidates the agents |
| `Comparador_cert` | one comparator | **violated**: a certificate never registered is taken as done |
| `Origens` | two origins, one predefined, two requests, one pending at a time, another session that saves | revocations, file and menu agree with what the user clicked, up to the failures named; nothing pending is hidden |
| `Identificacao` | every list of 2 candidates, every body of 3 (and empty, repeated, invalid ones) | nothing leaks, no double release, the search and the answer name the right candidates |
| `Pasta` | two sessions, two origins, a log of two lines | the file is a register of whole contents, a save changes what it was asked to, the log's limit |
| `ClienteJS` | a capture beside a comparison or `garantirConexao`, two lives of the agent, two ports | undisturbed operations are answered, repeated ones were lost, all end |
| `ProcessoAgente` | three connections, two slots, a channel of one; the real waits | every connection leaves, what must end ends, bursts of starts are bounded, no end of a process but the user's ends the supervisor |

The bounds. Two requests tell "mine" from "someone else's", and only the SDK
goroutine calls, so a third adds nothing; two deadlines make calls shorter and
longer than what is left of the idle timer; the waits are three so that the breaker
has a first, a middle, a last and a clamped step. In `FilaSDK` every bound (queue, HTTP
slots, identification slots) is reached and overflows with four requests.
`EstadoLeitor` needs two annotations in flight to paint in the wrong order and the
third for the check at startup. In `Comparador` two secrets and two certificates
let each be replaced once, which is when old and new can be confused; one agent is
enough because agents do not interact. In `Origens` one pending origin at a time
makes both limits bite (`maxOrigensPendentes` and the full channel, reached by
letting a pending origin expire before the tray is up), two requests race between
`Unlock` and send; the proofs cover larger limits. In `Identificacao` two candidates
let one follow another in the cell and three let positions shift twice between the body
and what the worker sees. In `Pasta` two processes are what a sharing violation and a
stale memory need, and a limit of two lines is passed by one. In `ClienteJS` a second
operation is the one that discovers, stores and forgets under the first; the third start
of the agent reuses a forgotten secret. Three connections overflow two slots and a
channel of one. In `Supervisor` lives of 0, 20 and 60 seconds are short, past a minute
only together with the wait, and long.

Named bounds in guards: `MaxOrfaos` (killed processes alive at once; the kernel has no such
limit), `MaxTokens`, `MaxCerts`, `MaxCliques` (clicks on one origin not read yet), `MaxTam`
(lines of the log, `Cabe`), `Vidas` (how long a child may live), `Agente` with `Esquecido`
(secrets; one nobody remembers may be drawn again). `Pasta` uses symmetry of sessions and of
origins, `Comparador` of comparators; their properties are safety properties. `CHECK_DEADLOCK FALSE` in `FilaSDK` (the
process exits) and `Comparador` (secrets and certificates run out).

### The disagreements found

Three runs end in a counterexample to what a comment, a test or a document says; each
is a finding in `PROJECT.json` with the lines on both sides: error codes do not survive
the pipe, so device errors never turn the icon red; an orderly stop deletes the secret
the next start was to reuse; a certificate is registered only by the start that wrote
it.

Four more statements of the repository do not hold of the models. They are formulas of
the modules, commented "Does not hold", and no run checks them; adding one to the cfg of
its module shows the counterexample.

- `OciosidadeRespeitada` (`ClienteWorker`): `worker.go:170` and the log line at 430 say
  the worker is let go when nobody uses it. A callback of the idle timer that waited for
  the mutex behind a call kills the worker the moment the call ends; `Reset`
  (`worker.go:419`) does not take it back.
- `CapturaTemQuemEspere` (`FilaSDK`): `main.go:365-367` says the context of a capture
  outlasts it. The context starts before the queue, the worker's deadline after it.
- `CorposLimitados` (`FilaSDK`; needs a third HTTP slot): `main.go:485-487` bounds the
  bodies in memory by the slots of `limiteIdentificar`. The slot of an identification
  given up in the queue is free while its body is still there.
- `IconeRefleteOperacao` (`EstadoLeitor`): `COMO-USAR.md:116` says the icon is the outcome
  of the last operation. An annotation made before the tray is up is recorded and never
  painted.

And what the later modules showed, without a statement of the repository against it:

- Two sessions of one user overwrite each other's `origens-autorizadas.json`: the last
  save wins, and a save from a memory older than a revocation undoes it in the file.
  `SalvaSoOPedido` says when this cannot happen. A file that cannot be read at start is
  taken for an empty one, and the next save makes it so.
- A rename of the log that fails, for another process that has it open or for any other
  reason, lets it grow past its limit (`estorvo`), which is not what the comment on
  `arquivoRotativo` (`log.go:17`) expects.
- A start of the service that cannot read the announcement draws a new secret, as if there
  were none (`anuncio.go:117`), and the agents that are up are refused from then on.
- An answer of the agent whose body is lost reaches the page as a success without data
  (`integra-biometria.js:66`): a capture is lost, and no error says so.
- A page that never connected and sends a capture to another session's agent gets 403,
  which is final: only 401 and lost connections make it discover. A page with a secret
  whose origin was revoked sees a refused preflight, which is a lost connection to it, and
  waits a minute for the user.
- The wait of the supervisor is reset only when the sleep and the life before it passed a
  minute together, so a child that fails at once sees 2, 4, 8, 16, 32, 60 and 2 seconds
  again, and one that lived long after a burst waits what the burst left.
- A user who leaves while the listener fails for good gets exit code 1, and the
  supervisor starts the agent again.

### Fairness

`ClienteWorker`: weak fairness of every step of a goroutine that can run (the Go
scheduler), of time, of `TerminateProcess` taking effect, and of a worker in
`Decode` reading a request. None of the worker's answering or staying up. The last
assumption matters: `Encode` of a request larger than the pipe has no deadline, so
a worker that hung *between* requests would hold the mutex for ever; that hazard
is listed without a property.

`FilaSDK`: weak fairness of goroutines, of reading a body (`ReadTimeout`, 20 s), of
the SDK thread (a task ends: `TodaChamadaRetorna` of the worker client), of time;
strong fairness of `Enfila`, because the runtime serves goroutines blocked in a
send in order. None of clients leaving or of the user quitting.

`Origens`: weak fairness of the goroutines, strong fairness of each case of the
menu's `select`, because Go takes one of the ready cases at random. None of the
user, of the tray coming up or of restarts.

`ClienteJS`: weak fairness of each operation's next step: the browser runs its tasks, a
port answers or its 700 ms pass, the agent's server answers or closes the connection
(`WriteTimeout`), the minute of `aguardaAutorizacao` passes. None of the agent living,
or of the user authorising.

`ProcessoAgente`: weak fairness of the goroutines of `executa`, of the deadline of a
silent connection and of `Serve` accepting; strong fairness of the send into `conns`,
because senders blocked on a channel are served in order. None of clients, of the tray
or of the user. `Identificacao` and `Pasta` state safety only.

`EstadoLeitor`: weak fairness of the idle timer once nobody asks anything for good, which is
`OciosoESolto` of the worker client. `RecuperaLeitor` has its other assumptions in its
antecedent: the reader stays, and from some point on either nobody asks or answers that call
for a restart keep coming. A blind instance that is used for ever and answers nothing but
zero readers or other codes stays blind, for nothing is assumed of what the DLL
answers. `Comparador` states safety only: nothing
obliges the service to be started.

## 4. Proofs

`ClienteWorkerProofs` proves, for every set of requests, every set of deadlines,
every table of waits and every value of the other constants allowed by the
assumptions of `ClienteWorker` (deadlines and waits positive, the table's last wait
its longest), that `IInv` is inductive:

    IInv == TypeOK /\ Protocolo /\ Relogio /\ RecuoCoerente /\ RespostaDoProprioPedido

`Protocolo` says who may hold the mutex in each phase and that at most one message
is in the pipes, the one of the call in progress: that is why a late answer cannot
be read by another call, which `RespostaDoProprioPedido` alone does not say of the
next step. `Relogio` splits the duration of a call into lock wait, deadline and
kill wait: `DuracaoLimitada` is not inductive without it, because nothing in it
bounds the time already spent in the earlier phases. `RecuoCoerente` says that a
worker kept between calls answered the last one and that no process started after
the last failure, which is what turns the wait since the *failure* (what the code
measures) into the distance between *starts* (what the property says).

The theorems: `TipoCorreto`, `RespostaCerta`, `ChamadaLimitada`, `SoPrazoMata`,
`SubidasEspacadas`, `EncerraLimpa`. TLC checks the same formulas on the small
instance first.

`Implementa`, in the same module, is the step simulation of `ServicoWorker`. It needs
`Protocolo`: a request is in one place, and whoever receives an answer is the call that
asked, so no step that starts, kills or lets go of a process can move a call backwards.

`FilaSDKProofs` proves, for every set of requests with any operations, every
deadline and every capacity, that

    IInv == TypeOK /\ NadaDepoisDeEncerrar /\ FimDoSDK

is inductive. `NadaDepoisDeEncerrar` alone is not: it does not exclude a task left
in the queue with a live context. `FimDoSDK` adds that the shutdown killed the
contexts of all requests before the end of the SDK could be queued, that this end
is queued once and is in one place, and that the context of `encerraSDK` dies of
its deadline only. Theorems: `TipoCorreto`, `FimDefinitivo`, `DesistePeloPrazo`.

It also proves that `FilaSDK` implements `ServicoSDK` (`Implementa`).
The step simulation needs `TarefaUnica`, itself inductive together with `IInv`: a
task is in the queue once or executing, its caller waits for it unless it gave up,
and no result was delivered for it yet; without it, taking a task could be the
second execution of a call, or the execution of one that already left.

`OrigensProofs` proves, for every set of origins, predefined origins and requests
and every limit, that

    IInv == /\ TypeOK /\ RevogacaoVale /\ MemoriaNoArquivo /\ PendenteTemAviso
            /\ RevogacaoCoerente

is inductive. `RevogacaoCoerente` says where a revocation can be half done: the
maps are empty before the file is written, clicks not read yet are still counted,
and whoever asks while the items are being removed is announced by a message and
not by an item about to go. Theorems: `TipoCorreto`, `RevogacaoFica`,
`ArquivoConcorda`, `NadaPendenteEscondido`.

`NBioProofs` proves, for every set of candidate lists, `TypeOK /\ Posse` and, over it,
`Busca`. `Posse` is what the deferred calls are there for: the stack holds each resource
at most once, all of them are held, the text of the DLL is above the struct that points
to it (`Ordenada`), the phase says what is on it, in hand, and not counted yet
(`PilhaDaFase`, `MaoDaFase`), and everything held is one of these or lost (`Contado`).
`NadaVaza` needs it because it speaks only of the worker between requests. `Busca` adds
that up to candidate `i` none matched and the bad ones are noted, and that the cell was
zeroed before each comparison. Theorems: `NadaFica`, `LiberaOQueTem`, `VereditoDaLista`.

The second half proves `RespostaFiel` of `Identificacao`, for bodies of any length, from

    IInv == TypeOKIdentificacao /\ Posse /\ Busca /\ PedidoDoCorpo /\ RespostaDoCorpo

`PedidoDoCorpo` ties the two sides: while a request is with the worker, the list it searches
is the classes of what the handler kept, and what it has when it ends (`Achou`) is about
that list. The handler's loop is a recursive function (`ValidosAte`, one turn per
candidate). By induction over its turns, every kept candidate comes from a position of the
body, in the body's order, and every readable position was kept (the induction rule is the one
described under `AgenteProofs`); with distinct ids a
position in the worker's list and an id of the body are then the same thing, which is what
taking the id from the search's position relies on. `WorkerNaIdentificacao` carries the
properties of `NBio` to the composition.

`ComparadorProofs` proves, for any number of comparators and agents and any numbers of
secrets and certificates,

    IInv == /\ TypeOK /\ ArquivosGerados /\ PortaUnica /\ Sozinho
            /\ AnuncioDeQuemServe /\ AnuncioMortoSoPorQueda /\ SegredoUnico
            /\ ParInstalado /\ RaizDoArquivo

`PortaUnica` says that at most one comparator has the port, and that the announcement is
written only by it: `AnuncioDeQuemServe` alone does not exclude a second one that publishes.
`Sozinho` says what `eventos` without `junto` means (no other process), and `SegredoUnico`
that without an orderly stop, company or an announcement that could not be read whoever is
up has the secret that is announced, and agents have no other. `ParInstalado` and
`RaizDoArquivo` relate files, store and the step each comparator is at in
`garanteCertificadoMaquina`. Theorems: `AnuncioConfere`, `QuedaMantemSegredo`,
`ParadaLimpa`, `ServeOQueConfiam`, `SemRaizOrfa`.

`AgenteProofs` is about `EstadoLeitor`, `ListenerMista`, `Supervisor` and `ProcessoAgente`.

- `IconeCerto`, for any number of handlers, from `UmaPorVez`: as long as no annotation began
  while another was under way, at most one is in flight, and either the icon has the colour
  of the belief or the one in flight is about to paint it. `SoAusencia` needs only the step.
- `RajadaCurta`, for any waits and lives. `EsperaDaRajada` says that within a burst the wait
  is the first one doubled once per start, capped. The number of doublings is the recursive
  function `Dobrado`; what it computes (`Dobra`) is proved by induction, with a rule for sets
  (`Inducao`) obtained from the least element of a set of numbers (`Minimo`), because the
  library's own rule takes an operator and cannot be used here.
- `SoQuandoSaem`, from `CodigoDoFim`: Serve hands over its result once, the result is an error
  unless the user's exit had begun, and whoever is past the tray without the user got there
  through that error. Only then is a zero the user's. A process that cannot be started ends
  the supervisor too (`NaoAcorda`), and is no step of a process.
- `TipoDoProcesso`: the slots of the semaphore and the channel are never exceeded. Nothing is
  assumed of the number of connections; the finite sets are those of connections under way.

`PastaProofs` proves that `GravaAtomico` implements `Registro` (`Implementa`), from `Firme`:
what takes the place of the target was synchronised, so a power loss never leaves garbage.
`ImplementaNaPasta` carries it to the data directory: each step of `Pasta` is a step of
`GravaAtomico` or leaves it alone (`PassoNoArquivo`). `LogNoLimite` needs that, unless
something was in its way (`estorvo`), a process that has the log open knows its size and
that one that is to open it after a rotation finds it empty; `SalvaCerto` that an agent that
knows the file has in memory what the file is, or what its click makes of it.

`ClienteJSProofs` proves, for every set of operations, lives and ports,

    IInv == TypeOK /\ \A o \in Op : Vezes(o) /\ Calma(o)

`Vezes` counts how often an operation was sent and executed and with which error it is
sent again; `Calma` says of an undisturbed one that the discovery has not passed the
agent's port and that the second request goes there with its secret, whatever other
operations do to the page's memory meanwhile. Theorems: `SoRepetePerdida`,
`SemRuidoVence`.

Type correctness, with the capacities of queues and channels in it, is proved for each
component (`TipoCorreto`, `TipoDaIdentificacao`, `TipoDoProcesso`) and no run repeats it.

The assumptions are those of the modules (`ASSUME`); every run of a module
evaluates them on its instance.

Only model-checked: the liveness properties (`TodaChamadaRetorna`, `OciosoESolto`,
`TodaRequisicaoResponde`, `RecuperaLeitor`, `PedidoAparece`, `CliqueDecide`,
`OperacaoTermina`, `TodaConexaoSai`, `FimChega`), which are beyond the prover. Every safety
and action property of the passing runs, and the three refinements, are also theorems.

## 5. Not modelled, and why

CORS headers and the parsing of bodies, origins and certificates (data the properties do
not distinguish); layouts of native structs and `cStrLimitada` (bytes); logs and
messages; the session check (reads Windows tables, keeps no state); self test, DLL
version, installer and build (interactive or packaging). The user certificate is an
outcome of `CarregaTLS`, not a file. A delegated comparison is only the question whether
its secret is accepted, and a delegated identification (`main.go:553`) is not in
`Identificacao`. In `integra-biometria.js`: `configurar`, the parameters in the
hash, the choice between HTTP and HTTPS, and an agent that refuses for being busy (503).
An agent without certificate listens through `net/http` alone. A supervisor killed on
its own leaves its child, and a second agent may then start in the session: `Supervisor`
starts and ends them together. A supervisor that cannot start its first process ends at once,
as if it had not been there.

## 6. Plan

Done: every component of the table of section 1 but those of section 5, and the proofs of
section 4.

Next, in this order:

1. The requests of a delegated comparison (`clienteComparador.chama`): what the agent does
   with a comparator that refuses, times out or is replaced while it answers.
2. The user certificate of `carregaTLS`, in the order in which service and sessions start.
3. `Duracao`, which `FilaSDK` takes for granted of a task, from `DuracaoLimitada` of the
   worker client by a module that composes the two.
