---------------------------- MODULE EstadoLeitor ----------------------------
(***************************************************************************)
(* What the agent believes of the reader, and what the tray icon says      *)
(* (main.go, sdk.go, worker.go).                                           *)
(*                                                                         *)
(* The agent does not poll.  An operation that touches the reader runs in  *)
(* the worker, on an NBioBSP instance that is thrown away after certain    *)
(* errors; its outcome crosses the process as an answer or as a text; the  *)
(* handler, on its own goroutine and in no particular order, annotates it  *)
(* and, outside the lock, paints the icon -- if the tray is already up.    *)
(* The reader, the user who plugs it and the DLL are external.             *)
(***************************************************************************)
EXTENDS FiniteSets

CONSTANTS Pedidos,   \* handlers of /status and of the captures
          Arranque   \* the goroutine of checaLeitorNoArranque

ASSUME ArranqueAssumption == Arranque \notin Pedidos

VARIABLES
  leitor,    \* the device: "presente", "ausente"
  inst,      \* the worker's NBioBSP instance: "nenhuma", "boa", "cega" (lost its reader)
  pc,        \* where each annotator is: "fora", "conta", "captura", "anota", "pinta"
  valor,     \* the outcome it carries to "anota", the colour it carries to "pinta"
  estado,    \* leitorAferido, leitorConectado: "naoAferido", "conectado", "desconectado"
  bandeja,   \* onReady: "subindo", "pronta" (bandejaPronta closed), "pintada" (first icon set)
  icone,     \* what the tray shows: "nenhum", "vermelho", "verde"
  ultima,    \* history: the last outcome annotated, as the SDK gave it
  limpo      \* history: "sim" until two annotations overlap or one comes before the tray

vars == <<leitor, inst, pc, valor, estado, bandeja, icone, ultima, limpo>>

Anotadores == Pedidos \cup {Arranque}
EmVoo == {a \in Anotadores : pc[a] \in {"anota", "pinta"}}

\* Outcomes.  Codes by what the two decisions tell apart: "perdido" is 0x0101, 0x010A or
\* 0x010B (device error, and the instance is restarted), "ausente" 0x0102 or 0x010C (device
\* error only), "invalido" 0x0001 (restart only), "rotineiro" any other.
Dispositivo == {"perdido", "ausente"}
Erros == Dispositivo \cup {"invalido", "rotineiro"}
Desfechos == {"achou", "zero", "capturou", "falhou"} \cup Erros

Init ==
  /\ leitor \in {"presente", "ausente"} /\ inst = "nenhuma"
  /\ pc = [a \in Anotadores |-> "fora"] /\ valor = [a \in Anotadores |-> "nada"]
  /\ estado = "naoAferido" /\ bandeja = "subindo" /\ icone = "nenhum"
  /\ ultima = "nada" /\ limpo = "sim"

----------------------------------------------------------------------------
\* The reader and the DLL.

Liga ==
  /\ leitor = "ausente" /\ leitor' = "presente"
  /\ UNCHANGED <<inst, pc, valor, estado, bandeja, icone, ultima, limpo>>

\* An instance that loses its reader does not see it again: that is what atendePedido's
\* comment says of NBioBSP.
Desliga ==
  /\ leitor = "presente" /\ leitor' = "ausente"
  /\ inst' = IF inst = "boa" THEN "cega" ELSE inst
  /\ UNCHANGED <<pc, valor, estado, bandeja, icone, ultima, limpo>>

Enxerga(i) == i = "boa" /\ leitor = "presente"

\* What EnumerateDevice, and OpenDevice followed by Capture, may answer on instance i.
\* Nothing is known of the errors the DLL chooses, least of all a blind instance's.
Contagem(i) == Erros \cup {IF Enxerga(i) THEN "achou" ELSE "zero"}
Leitura(i)  == Erros \cup (IF Enxerga(i) THEN {"capturou"} ELSE {})

----------------------------------------------------------------------------
\* The worker: atendePedido.  The operators named ..._defeito are mistakes a change could
\* make in the definition that follows each of them; no action uses them.

\* exigeReinicioSDK
ExigeReinicio(e) == e \in {"invalido", "perdido"}

\* The instance the operation runs on: the one there is, or a new one.
InstanciaDoPedido == IF inst = "nenhuma" THEN "boa" ELSE inst

\* Only the loss of the device is an error to restart for.
InstanciaDepois_defeito(e) == IF e = "perdido" THEN "nenhuma" ELSE InstanciaDoPedido

\* Thrown away when the error calls for it, so that the next request makes another.
InstanciaDepois(e) == IF ExigeReinicio(e) THEN "nenhuma" ELSE InstanciaDoPedido

----------------------------------------------------------------------------
\* Handlers, and the check at startup.

Pede(a, operacao) ==
  /\ a \in Pedidos /\ pc[a] = "fora"
  /\ pc' = [pc EXCEPT ![a] = operacao]
  /\ UNCHANGED <<leitor, inst, valor, estado, bandeja, icone, ultima, limpo>>

\* naThreadSDK returns the context's error: nothing to annotate.
Cancela(a) ==
  /\ a \in Pedidos /\ pc[a] \in {"conta", "captura"}
  /\ pc' = [pc EXCEPT ![a] = "fora"]
  /\ UNCHANGED <<leitor, inst, valor, estado, bandeja, icone, ultima, limpo>>

\* From the SDK thread's answer on, the handler runs on its own.
Leva(a, d) ==
  /\ pc' = [pc EXCEPT ![a] = "anota"]
  /\ valor' = [valor EXCEPT ![a] = d]
  /\ limpo' = IF EmVoo = {} THEN limpo ELSE "nao"
  /\ UNCHANGED <<leitor, estado, bandeja, icone, ultima>>

\* One operation at a time (FilaSDK, ClienteWorker), on one reading of the device.
Executa(a) ==
  /\ pc[a] \in {"conta", "captura"}
  /\ \E d \in IF pc[a] = "conta" THEN Contagem(InstanciaDoPedido)
                                 ELSE Leitura(InstanciaDoPedido) :
       inst' = InstanciaDepois(d) /\ Leva(a, d)

\* novoSDK fails.
NaoInicia(a) ==
  /\ pc[a] \in {"conta", "captura"} /\ inst = "nenhuma"
  /\ \E d \in Erros : Leva(a, d)
  /\ UNCHANGED inst

\* The worker dies, or is killed, during the operation.
WorkerCai(a) ==
  /\ pc[a] \in {"conta", "captura"}
  /\ inst' = "nenhuma" /\ Leva(a, "falhou")

\* A worker nobody has asked for prazoOciosidade is let go, and its instance with it.
SoltaPorOciosidade ==
  /\ inst # "nenhuma" /\ inst' = "nenhuma"
  /\ UNCHANGED <<leitor, pc, valor, estado, bandeja, icone, ultima, limpo>>

\* The answer's Erro is a string, which envia wraps in an error of its own: what the
\* agent holds is no longer an erroSDK, whatever the code was.
ComoChega(d) == IF d \in Erros \cup {"falhou"} THEN "texto" ELSE d

\* erroDeDispositivo: errors.As finds an erroSDK with one of the five codes.
ErroDeDispositivo(e) == e \in Dispositivo

\* anotaContagemLeitor and anotaCapturaLeitor: the state an outcome stands for.  Any
\* other error says nothing.
Anotacao_defeito(d) ==
  IF d \in {"achou", "capturou"} THEN "conectado" ELSE "desconectado"

Anotacao(d) ==
  CASE d \in {"achou", "capturou"}                -> "conectado"
    [] d = "zero" \/ ErroDeDispositivo(d)         -> "desconectado"
    [] OTHER                                      -> estado

\* Only the first annotation is painted.
Mudou_defeito(d) == estado = "naoAferido" /\ Anotacao(d) # estado

Mudou(d) == Anotacao(d) # estado

\* defineEstadoLeitor, under leitorMu; only a change goes on to paint.
Anota(a) ==
  LET d == ComoChega(valor[a]) IN
  /\ pc[a] = "anota"
  /\ estado' = Anotacao(d)
  /\ pc' = [pc EXCEPT ![a] = IF Mudou(d) THEN "pinta" ELSE "fora"]
  /\ ultima' = valor[a]
  /\ valor' = [valor EXCEPT ![a] = IF Mudou(d) THEN Anotacao(d) ELSE "nada"]
  /\ limpo' = IF bandeja = "pintada" THEN limpo ELSE "nao"
  /\ UNCHANGED <<leitor, inst, bandeja, icone>>

Cor(e) == IF e = "conectado" THEN "verde" ELSE "vermelho"

\* pintaIconeLeitor, after the Unlock.
Pinta(a) ==
  /\ pc[a] = "pinta"
  /\ icone' = IF bandeja = "subindo" THEN icone ELSE Cor(valor[a])
  /\ pc' = [pc EXCEPT ![a] = "fora"] /\ valor' = [valor EXCEPT ![a] = "nada"]
  /\ UNCHANGED <<leitor, inst, estado, bandeja, ultima, limpo>>

----------------------------------------------------------------------------
\* onReady: bandejaPronta is closed, then the first icon is set and the check at startup
\* is started.

FechaBandejaPronta ==
  /\ bandeja = "subindo" /\ bandeja' = "pronta"
  /\ UNCHANGED <<leitor, inst, pc, valor, estado, icone, ultima, limpo>>

PrimeiroIcone ==
  /\ bandeja = "pronta" /\ bandeja' = "pintada"
  /\ icone' = "vermelho"
  /\ pc' = [pc EXCEPT ![Arranque] = "conta"]
  /\ limpo' = IF EmVoo = {} THEN limpo ELSE "nao"
  /\ UNCHANGED <<leitor, inst, valor, estado, ultima>>

----------------------------------------------------------------------------
Next ==
  \/ Liga \/ Desliga \/ SoltaPorOciosidade
  \/ \E a \in Anotadores :
       \/ \E o \in {"conta", "captura"} : Pede(a, o)
       \/ Cancela(a) \/ Executa(a) \/ NaoInicia(a) \/ WorkerCai(a)
       \/ Anota(a) \/ Pinta(a)
  \/ FechaBandejaPronta \/ PrimeiroIcone

Spec == Init /\ [][Next]_vars

\* No operation waits for the worker or uses it.
Ocioso == \A a \in Anotadores : pc[a] \notin {"conta", "captura"}

\* The idle timer of the worker client does end an unused worker (ClienteWorker,
\* OciosoESolto).
SpecJusta == Spec /\ WF_vars(Ocioso /\ SoltaPorOciosidade)

----------------------------------------------------------------------------
\* Every variable ranges over what the fields stand for.
TypeOK ==
  /\ leitor \in {"presente", "ausente"} /\ inst \in {"nenhuma", "boa", "cega"}
  /\ pc \in [Anotadores -> {"fora", "conta", "captura", "anota", "pinta"}]
  /\ valor \in [Anotadores -> Desfechos \cup {"conectado", "desconectado", "nada"}]
  /\ \A a \in Anotadores :
       /\ pc[a] = "anota" => valor[a] \in Desfechos
       /\ pc[a] = "pinta" => valor[a] \in {"conectado", "desconectado"}
       /\ a \notin EmVoo => valor[a] = "nada"
  /\ estado \in {"naoAferido", "conectado", "desconectado"}
  /\ bandeja \in {"subindo", "pronta", "pintada"}
  /\ icone \in {"nenhum", "vermelho", "verde"}
  /\ ultima \in Desfechos \cup {"nada"} /\ limpo \in {"sim", "nao"}

\* Annotations that come one at a time, once the tray is up, leave the icon in the colour
\* of what the agent believes.
IconeCertoSemCorrida ==
  limpo = "sim" /\ EmVoo = {} /\ estado # "naoAferido" => icone = Cor(estado)

\* A finger that does not read, a capture that times out, a worker that dies: none of
\* them turns a reader off, whatever else is in flight
\* (TestErroRotineiroDeCapturaNaoApagaOLeitor, TestErroSemCodigoDeSDKNaoMexeNoEstado).
SoAusenciaApaga ==
  [][estado = "conectado" /\ estado' = "desconectado"
       => ultima' \in {"zero"} \cup Dispositivo]_vars

\* With the reader back for good, an instance that lost it does not stay: the answers that
\* call for a restart throw it away, the idle timer does when nobody asks any more (the
\* comment on exigeReinicioSDK).  What is left out is left to the DLL: a blind instance
\* that is used for ever and only ever answers zero readers or other codes stays.
RecuperaLeitor ==
  /\ <>[](leitor = "presente")
  /\ \/ []<><<\E a \in Anotadores : Executa(a) /\ valor'[a] = "perdido">>_vars
     \/ []<><<\E a \in Anotadores : Executa(a) /\ valor'[a] = "invalido">>_vars
     \/ <>[]Ocioso
  => <>[](inst # "cega")

\* COMO-USAR.md: green is reader present, red is no reader, and a device error turns the
\* reader off (TestErroDeDispositivoApagaOLeitor).
DispositivoPerdidoApaga ==
  limpo = "sim" /\ EmVoo = {} /\ ultima \in Dispositivo => estado # "conectado"

\* Does not hold. COMO-USAR.md: after the check at startup, the icon is the outcome of the
\* last real operation; an annotation that came before the tray was up is never painted.
IconeRefleteOperacao ==
  EmVoo = {} /\ bandeja = "pintada" /\ pc[Arranque] = "fora" /\ estado # "naoAferido" => icone = Cor(estado)

\* The check at startup comes after the first icon.
ArranqueDepois == bandeja # "pintada" => pc[Arranque] = "fora"

\* What IconeCertoSemCorrida rests on: as long as annotations come one at a time, the one in
\* flight is about to paint what the agent believes, and otherwise the icon shows it.
UmaPorVez ==
  limpo = "sim" =>
    /\ \A a, b \in EmVoo : a = b
    /\ estado # "naoAferido" => bandeja = "pintada"
    /\ \A a \in EmVoo : pc[a] = "pinta" => valor[a] = estado
    /\ estado # "naoAferido" /\ (\A a \in EmVoo : pc[a] # "pinta") => icone = Cor(estado)
=============================================================================
