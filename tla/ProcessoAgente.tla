--------------------------- MODULE ProcessoAgente ---------------------------
(***************************************************************************)
(* The agent's process (executa, main.go) around its listener, and the      *)
(* supervisor around the process: the HTTP server takes connections, the    *)
(* tray comes up or does not, the user leaves, the listener fails, the      *)
(* process crashes, and the exit code decides what the supervisor does.     *)
(*                                                                          *)
(* External: net/http.  Serve returns ErrServerClosed once Shutdown began,  *)
(* and closes the listener when it returns; systray.Run returns after Quit. *)
(***************************************************************************)
EXTENDS ListenerMista, Supervisor

VARIABLES
  prog,    \* executa: "fora", "bandeja" (systray.Run), "saindo" (Run returned), "desliga"
           \* (Shutdown), "espera" (<-erroServidor)
  bandeja, \* "subindo" or "pronta"
  serve,   \* the goroutine of Serve: "aceita", "encerra" (encerraBandeja), "fim"
  erroServidor \* "nada", "nil" or "erro"

processo == <<prog, bandeja, serve, erroServidor>>
vars == <<listener, supervisao, processo>>

\* A process that is not there.
Init ==
  /\ InitListener /\ InitSupervisor
  /\ prog = "fora" /\ bandeja = "subindo" /\ serve = "aceita" /\ erroServidor = "nada"

Limpo ==
  /\ con' = [c \in Con |-> "fora"]
  /\ aceita' = "pronta" /\ bruto' = "aberto" /\ done' = "aberto"
  /\ bandeja' = "subindo" /\ serve' = "aceita" /\ erroServidor' = "nada"

\* The process starts, its server and its listener with it.
Comeca == (Sobe \/ Acorda) /\ prog' = "bandeja" /\ Limpo

NaoComeca == NaoAcorda /\ UNCHANGED <<listener, processo>>

\* The process ends, and its connections with it.
Termina(codigo) == FilhoSai(codigo) /\ prog' = "fora" /\ Limpo

----------------------------------------------------------------------------
OnReady ==
  /\ prog = "bandeja" /\ bandeja = "subindo" /\ bandeja' = "pronta"
  /\ UNCHANGED <<listener, supervisao, prog, serve, erroServidor>>

\* The user leaves.
Sair ==
  /\ prog = "bandeja" /\ bandeja = "pronta" /\ prog' = "saindo" /\ saiu' = "sim"
  /\ UNCHANGED <<listener, sup, espaco, bandeja, serve, erroServidor>>

\* Shutdown, which closes the listener first.
Desliga ==
  /\ prog = "saindo" /\ prog' = "desliga"
  /\ FechaListener
  /\ UNCHANGED <<supervisao, bandeja, serve, erroServidor>>

\* Shutdown and encerraSDK return: nothing left to wait for, or ten seconds.
Desligado ==
  /\ prog = "desliga" /\ prog' = "espera"
  /\ UNCHANGED <<listener, supervisao, bandeja, serve, erroServidor>>

Retorna == prog = "espera" /\ erroServidor # "nada" /\ Termina(IF erroServidor = "nil" THEN 0 ELSE 1)

\* Whatever Serve returns is taken for the end of a Shutdown.
ServeRetorna_defeito ==
  /\ serve = "aceita" /\ done = "fechado"
  /\ FechaListener
  /\ serve' = (IF prog \in {"desliga", "espera"} THEN "fim" ELSE "encerra") /\ erroServidor' = "nil"
  /\ UNCHANGED <<supervisao, prog, bandeja>>

\* Accept gave Serve the error.
ServeRetorna ==
  /\ serve = "aceita" /\ done = "fechado"
  /\ FechaListener
  /\ IF prog \in {"desliga", "espera"} THEN serve' = "fim" /\ erroServidor' = "nil"
                                       ELSE serve' = "encerra" /\ erroServidor' = "erro"
  /\ UNCHANGED <<supervisao, prog, bandeja>>

\* encerraBandeja: the tray, or ten seconds without one.
EncerraBandeja ==
  /\ serve = "encerra"
  /\ \/ /\ bandeja = "pronta" /\ serve' = "fim"
        /\ prog' = IF prog = "bandeja" THEN "saindo" ELSE prog
        /\ UNCHANGED <<listener, supervisao, bandeja, erroServidor>>
     \/ bandeja = "subindo" /\ Termina(1)

\* A panic, or somebody ends the process.
Cai == Termina(2)

DoProcesso == Desliga \/ Desligado \/ Retorna \/ ServeRetorna \/ EncerraBandeja

NoProcesso(A) == prog # "fora" /\ A /\ UNCHANGED <<supervisao, processo>>

Next ==
  \/ Comeca \/ DoProcesso \/ NaoComeca \/ OnReady \/ Sair \/ Cai
  \/ NoProcesso(AceitaDepois) \/ NoProcesso(AceitaFalha)
  \/ \E c \in Con :
       \/ NoProcesso(Aceita(c)) \/ NoProcesso(Espia(c)) \/ NoProcesso(Cala(c)) \/ NoProcesso(Envia(c))
       \/ serve = "aceita" /\ NoProcesso(Entrega(c))
       \/ NoProcesso(Atendida(c))

\* The goroutines run, and the deadline of a silent client comes.  A sender blocked on a full
\* channel has its turn when those before it had theirs, hence strong fairness.
Fairness ==
  /\ WF_vars(DoProcesso)
  /\ \A c \in Con :
       /\ WF_vars(NoProcesso(Cala(c)))
       /\ SF_vars(NoProcesso(Envia(c)))
       /\ WF_vars(serve = "aceita" /\ NoProcesso(Entrega(c)))

Spec == Init /\ [][Next]_vars /\ Fairness

----------------------------------------------------------------------------
TypeOK ==
  /\ TypeOKListener /\ TypeOKSupervisor
  /\ prog \in {"fora", "bandeja", "saindo", "desliga", "espera"}
  /\ bandeja \in {"subindo", "pronta"} /\ serve \in {"aceita", "encerra", "fim"}
  /\ erroServidor \in {"nada", "nil", "erro"}

\* Every connection the listener took a slot for is served, closed or ended with the process: a
\* silent client, a full channel or a Close at any moment keeps none for good
\* (cert.go:353-429).
TodaConexaoSai ==
  \A c \in Con : con[c] \in {"espia", "envia", "fila"} ~> con[c] \in {"servida", "fora"}

\* Once the user left, or nothing is accepted any more, the process ends: no wait of the
\* listener, the server, the tray or executa on another lasts for ever (main.go:1057-1079).
FimChega == (prog = "saindo" \/ aceita = "fim") ~> prog = "fora"

\* Behind SoParaSeSaiu: Serve hands over what it returned exactly once, an error unless the user's exit had
\* begun to close the listener, and the supervisor watches exactly while there is a process.
CodigoDoFim ==
  /\ erroServidor = "nada" <=> serve = "aceita"
  /\ erroServidor = "nil" => saiu = "sim"
  /\ prog \in {"saindo", "desliga", "espera"} => saiu = "sim" \/ serve # "aceita"
  /\ prog = "fora" <=> sup # "vigia"
=============================================================================
