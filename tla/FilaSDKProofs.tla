--------------------------- MODULE FilaSDKProofs ---------------------------
(* Theorems about FilaSDK, for every set of requests, every deadline and   *)
(* every capacity.                                                         *)
EXTENDS FilaSDK, TLAPS

IInv == TypeOK /\ NadaDepoisDeEncerrar /\ FimDoSDK

\* The agent starts with an empty queue and nobody in it.
LEMMA Inicio == Init => IInv
<1> SUFFICES ASSUME Init PROVE IInv
  OBVIOUS
<1>1. TypeOK
  BY LimitesAssumption DEF Init, TypeOK
<1>2. NadaDepoisDeEncerrar /\ FimDoSDK
  BY TarefasAssumption DEF Init, NadaDepoisDeEncerrar, FimDoSDK, Pendente, NaFila, Morto, Tarefas
<1>3. QED
  BY <1>1, <1>2 DEF IInv

\* What is left of a queue whose head was taken: the rest of it, one place earlier.
LEMMA Retira ==
  ASSUME NEW S, NEW s \in Seq(S), s # <<>>
  PROVE  /\ Head(s) \in S /\ Head(s) = s[1] /\ 1 \in DOMAIN s
         /\ Tail(s) \in Seq(S) /\ Len(Tail(s)) = Len(s) - 1
         /\ \A i \in DOMAIN Tail(s) :
              i \in Nat \ {0} /\ i + 1 \in DOMAIN s /\ Tail(s)[i] = s[i + 1]
  OBVIOUS

\* What a queue holds after a send: what it held, in place, and the new one at its end.
LEMMA Poe ==
  ASSUME NEW S, NEW s \in Seq(S), NEW x \in S
  PROVE  /\ Append(s, x) \in Seq(S) /\ Len(Append(s, x)) = Len(s) + 1
         /\ \A i \in DOMAIN Append(s, x) :
              (i \in DOMAIN s /\ Append(s, x)[i] = s[i])
                \/ (i = Len(s) + 1 /\ Append(s, x)[i] = x)
  OBVIOUS

\* The types of what a handler that returns leaves.
LEMMA TipoResponde ==
  ASSUME TypeOK, NEW t \in Tarefas, Responde(t)
  PROVE  /\ pc' \in [Tarefas -> {"fora", "reserva", "corpo", "enfila", "aguarda"}]
         /\ ctx' \in [Tarefas -> {"vivo", "desistiu", "venceu"}]
         /\ resta' \in [Tarefas -> Nat]
         /\ resultado' \in [Tarefas -> {"nada", "pronto", "cancelado"}]
  BY DEF TypeOK, Responde

\* The deadline of a request's context is a number.
LEMMA PrazoNatural == \A r \in Req : PrazoDe(r) \in Nat
  BY OpAssumption, PrazosAssumption, TarefasAssumption DEF PrazoDe, Tarefas, Operacoes

LEMMA TipoPasso == TypeOK /\ Next => TypeOK'
<1> SUFFICES ASSUME TypeOK, Next PROVE TypeOK'
  OBVIOUS
<1>r. Req \subseteq Tarefas /\ Desliga \in Tarefas
  BY DEF Tarefas
<1>1. ASSUME NEW r \in Req, Chega(r) PROVE TypeOK'
  <2>1. resta' \in [Tarefas -> Nat]
    BY <1>1, <1>r, PrazoNatural DEF TypeOK, Chega
  <2>2. PrimeiroPasso(r) \in {"corpo", "reserva", "enfila"}
    BY DEF PrimeiroPasso
  <2>3. pc' \in [Tarefas -> {"fora", "reserva", "corpo", "enfila", "aguarda"}]
    BY <1>1, <2>2, <1>r DEF TypeOK, Chega
  <2>4. QED
    BY <1>1, <2>1, <2>3 DEF TypeOK, Chega, execucao, processo
<1>2. ASSUME NEW r \in Req, Reserva(r) \/ LeCorpo(r) \/ ClienteSome(r) PROVE TypeOK'
  BY <1>2, <1>r DEF TypeOK, Reserva, LeCorpo, ClienteSome, execucao, processo
<1>3. ASSUME NEW t \in Tarefas, Responde(t), UNCHANGED <<fila, execucao, processo>>
      PROVE  TypeOK'
  BY <1>3, TipoResponde DEF TypeOK, execucao, processo
<1>4. ASSUME NEW t \in Tarefas, Enfila(t) PROVE TypeOK'
  <2>1. fila' \in Seq(Tarefas) /\ Len(fila') <= Capacidade
    BY <1>4, Poe, LimitesAssumption DEF TypeOK, Enfila
  <2>2. QED
    BY <1>4, <2>1 DEF TypeOK, Enfila, execucao, processo
<1>5. ASSUME NEW t \in Tarefas, Vence(t) PROVE TypeOK'
  BY <1>5 DEF TypeOK, Vence, execucao, processo
<1>6. CASE Executa \/ Descarta
  <2>1. /\ Head(fila) \in Tarefas /\ Tail(fila) \in Seq(Tarefas)
        /\ Len(Tail(fila)) <= Capacidade
    BY <1>6, Retira, LimitesAssumption DEF TypeOK, Executa, Descarta
  <2>2. CASE Executa
    BY <2>1, <2>2 DEF TypeOK, Executa, chamadores, processo
  <2>3. CASE Descarta
    BY <2>1, <2>3 DEF TypeOK, Descarta, Entrega, chamadores, execucao, processo
  <2>4. QED
    BY <1>6, <2>2, <2>3
<1>7. CASE Termina \/ TerminaDesliga
  BY <1>7, <1>r DEF TypeOK, Termina, TerminaDesliga, Entrega, chamadores
<1>8. CASE Desligar
  <2>1. resta' \in [Tarefas -> Nat]
    BY <1>8, PrazosAssumption DEF TypeOK, Desligar
  <2>2. QED
    BY <1>8, <2>1 DEF TypeOK, Desligar, execucao
<1>9. CASE ShutdownRetorna \/ Sai
  BY <1>9 DEF TypeOK, ShutdownRetorna, Sai, execucao, chamadores
<1>10. CASE Tempo
  <2>1. \A t \in Tarefas : ComPrazo(t) => resta[t] # 0
    BY <1>10 DEF Tempo, Urgente
  <2>2. resta' \in [Tarefas -> Nat]
    BY <1>10, <2>1 DEF TypeOK, Tempo
  <2>3. rodou' \in Nat
    BY <1>10 DEF TypeOK, Tempo
  <2>4. QED
    BY <1>10, <2>2, <2>3 DEF TypeOK, Tempo, processo
<1>11. QED
  BY <1>1, <1>2, <1>3, <1>4, <1>5, <1>6, <1>7, <1>8, <1>9, <1>10, <1>r
     DEF Next, Handler, NaThreadSDK, SDKThread, ReservaFalha, CorpoInvalido, Desiste, Recolhe

\* Steps of one caller that leave the queue and the SDK thread alone.
LEMMA PassoChamador ==
  ASSUME IInv, UNCHANGED <<fila, thread, processo>>,
         \/ \E r \in Req : Chega(r) \/ Handler(r) \/ ClienteSome(r)
         \/ \E t \in Tarefas : Desiste(t) \/ Recolhe(t) \/ Vence(t)
         \/ Tempo
  PROVE  (NadaDepoisDeEncerrar /\ FimDoSDK)'
<1>1. NadaDepoisDeEncerrar'
  BY DEF IInv, NadaDepoisDeEncerrar, processo
<1>r. Desliga \notin Req /\ Desliga \in Tarefas /\ Req \subseteq Tarefas
  BY TarefasAssumption DEF Tarefas
<1>2. \/ /\ pc'[Desliga] = pc[Desliga] /\ resultado'[Desliga] = resultado[Desliga]
         /\ \/ ctx'[Desliga] = ctx[Desliga]
            \/ ctx'[Desliga] = "venceu" /\ app \in {"desligando", "encerrando"}
      \/ /\ pc[Desliga] \in {"enfila", "aguarda"}
         /\ pc'[Desliga] = "fora" /\ resultado'[Desliga] = "nada"
  <2>1. CASE \E r \in Req : Chega(r) \/ Handler(r) \/ ClienteSome(r)
    BY <2>1, <1>r DEF IInv, TypeOK, Chega, Handler, Reserva, ReservaFalha, LeCorpo,
                      CorpoInvalido, ClienteSome, Responde
  <2>2. CASE \E t \in Tarefas : Desiste(t) \/ Recolhe(t)
    BY <2>2, <1>r DEF IInv, TypeOK, Desiste, Recolhe, Responde, Na
  <2>3. CASE \E t \in Tarefas : Vence(t)
    BY <2>3, <1>r DEF IInv, TypeOK, Vence, ComPrazo
  <2>4. CASE Tempo
    BY <2>4 DEF Tempo
  <2>5. QED
    BY <2>1, <2>2, <2>3, <2>4
<1>3. app # "rodando" => \A r \in Req : Morto(r)'
  <2> SUFFICES ASSUME app # "rodando", NEW r \in Req
               PROVE  ctx'[r] # "vivo"
    BY DEF Morto
  <2>1. ctx[r] # "vivo"
    BY DEF IInv, FimDoSDK, Morto
  <2>2. CASE \E q \in Req : Chega(q) \/ Handler(q) \/ ClienteSome(q)
    BY <2>1, <2>2, <1>r DEF IInv, TypeOK, Chega, Handler, Reserva, ReservaFalha, LeCorpo,
                            CorpoInvalido, ClienteSome, Responde
  <2>3. CASE \E t \in Tarefas : Desiste(t) \/ Recolhe(t) \/ Vence(t)
    BY <2>1, <2>3, <1>r DEF IInv, TypeOK, Desiste, Recolhe, Vence, Responde
  <2>4. CASE Tempo
    BY <2>1, <2>4 DEF Tempo
  <2>5. QED
    BY <2>2, <2>3, <2>4
<1>4. /\ fila' = fila /\ thread' = thread /\ app' = app /\ encerrou' = encerrou
      /\ \A t : Pendente(t)' = Pendente(t) /\ NaFila(t)' = NaFila(t)
  BY DEF processo, Pendente, NaFila
<1>5. FimDoSDK'
  <2>1. /\ app' \in {"rodando", "desligando"} \/ pc'[Desliga] = "enfila"
             => encerrou' = "nao" /\ ~Pendente(Desliga)'
        /\ app' \in {"rodando", "desligando"} => pc'[Desliga] = "fora"
    BY <1>2, <1>4 DEF IInv, FimDoSDK
  <2>2. app' = "desligando" \/ pc'[Desliga] # "fora" => ctx'[Desliga] # "desistiu"
    BY <1>2, <1>4 DEF IInv, FimDoSDK
  <2>3. /\ resultado'[Desliga] # "nada" => pc'[Desliga] = "aguarda"
        /\ resultado'[Desliga] = "pronto" => encerrou' = "sim"
        /\ resultado'[Desliga] = "cancelado" => ctx'[Desliga] = "venceu"
    BY <1>2, <1>4 DEF IInv, FimDoSDK
  <2>4. /\ thread' = Desliga => ~NaFila(Desliga)'
        /\ \A i, j \in DOMAIN fila' : fila'[i] = Desliga /\ fila'[j] = Desliga => i = j
        /\ encerrou' = "sim" => ~Pendente(Desliga)'
    BY <1>4 DEF IInv, FimDoSDK
  <2>5. QED
    BY <1>3, <1>4, <2>1, <2>2, <2>3, <2>4 DEF FimDoSDK
<1>6. QED
  BY <1>1, <1>5

\* Steps of the shutdown.
LEMMA PassoFim ==
  ASSUME IInv, Desligar \/ ShutdownRetorna \/ Sai
  PROVE  (NadaDepoisDeEncerrar /\ FimDoSDK)'
<1>r. Desliga \notin Req /\ Desliga \in Tarefas /\ Req \subseteq Tarefas
  BY TarefasAssumption DEF Tarefas
<1>1. /\ fila' = fila /\ thread' = thread /\ encerrou' = encerrou /\ sdk' = sdk
      /\ resultado' = resultado
  BY DEF Desligar, ShutdownRetorna, Sai, execucao
<1>2. NadaDepoisDeEncerrar'
  BY <1>1 DEF IInv, NadaDepoisDeEncerrar
<1>3. /\ NaFila(Desliga)' <=> NaFila(Desliga)
      /\ Pendente(Desliga)' <=> Pendente(Desliga)
  BY <1>1 DEF Pendente, NaFila
<1>4. /\ thread' = Desliga => ~NaFila(Desliga)'
      /\ \A i, j \in DOMAIN fila' : fila'[i] = Desliga /\ fila'[j] = Desliga => i = j
      /\ encerrou' = "sim" => ~Pendente(Desliga)'
      /\ resultado'[Desliga] = "pronto" => encerrou' = "sim"
  BY <1>1, <1>3 DEF IInv, FimDoSDK
<1>5. app' # "rodando" => \A r \in Req : Morto(r)'
  <2>1. CASE Desligar
    BY <1>r, <2>1 DEF Desligar, IInv, TypeOK, Morto
  <2>2. CASE ShutdownRetorna \/ Sai
    BY <2>2 DEF ShutdownRetorna, Sai, chamadores, IInv, FimDoSDK, Morto
  <2>3. QED
    BY <2>1, <2>2
<1>6. /\ app' \in {"rodando", "desligando"} \/ pc'[Desliga] = "enfila"
           => encerrou' = "nao" /\ ~Pendente(Desliga)'
      /\ app' \in {"rodando", "desligando"} => pc'[Desliga] = "fora"
  <2>1. CASE Desligar
    BY <1>1, <1>3, <2>1 DEF Desligar, IInv, FimDoSDK
  <2>2. CASE ShutdownRetorna
    BY <1>1, <1>3, <2>2 DEF ShutdownRetorna, IInv, FimDoSDK
  <2>3. CASE Sai
    BY <1>1, <1>3, <2>3 DEF Sai, chamadores, IInv, FimDoSDK
  <2>4. QED
    BY <2>1, <2>2, <2>3
<1>7. /\ app' = "desligando" \/ pc'[Desliga] # "fora" => ctx'[Desliga] # "desistiu"
      /\ resultado'[Desliga] # "nada" => pc'[Desliga] = "aguarda"
      /\ resultado'[Desliga] = "cancelado" => ctx'[Desliga] = "venceu"
  <2>1. CASE Desligar
    <3>1. ctx'[Desliga] = "vivo" /\ pc' = pc /\ resultado'[Desliga] = "nada"
      BY <1>r, <1>1, <2>1 DEF Desligar, IInv, TypeOK, FimDoSDK
    <3>2. QED
      BY <3>1
  <2>2. CASE ShutdownRetorna
    <3>1. ctx' = ctx /\ ctx[Desliga] # "desistiu" /\ resultado'[Desliga] = "nada"
      BY <1>1, <2>2 DEF ShutdownRetorna, IInv, FimDoSDK
    <3>2. QED
      BY <3>1
  <2>3. CASE Sai
    BY <1>1, <2>3 DEF Sai, chamadores, IInv, FimDoSDK
  <2>4. QED
    BY <2>1, <2>2, <2>3
<1>8. FimDoSDK'
  BY <1>4, <1>5, <1>6, <1>7 DEF FimDoSDK
<1>9. QED
  BY <1>2, <1>8

\* A task goes into the queue: the end of the SDK only once, and nothing but requests
\* that were already there before it.
LEMMA PassoEnfila ==
  ASSUME IInv, NEW t \in Tarefas, Enfila(t)
  PROVE  (NadaDepoisDeEncerrar /\ FimDoSDK)'
<1>r. Desliga \notin Req /\ Desliga \in Tarefas /\ Req \subseteq Tarefas
  BY TarefasAssumption DEF Tarefas
<1>1. /\ UNCHANGED <<ctx, resultado, thread, sdk, app, encerrou>>
      /\ pc' = [pc EXCEPT ![t] = "aguarda"] /\ pc[t] = "enfila" /\ fila' = Append(fila, t)
  BY DEF Enfila, Na, execucao, processo
<1>2. NadaDepoisDeEncerrar'
  BY <1>1 DEF IInv, NadaDepoisDeEncerrar
<1>3. \A i \in DOMAIN fila' :
        \/ i \in DOMAIN fila /\ fila'[i] = fila[i]
        \/ i = Len(fila) + 1 /\ fila'[i] = t
  BY <1>1, Poe DEF IInv, TypeOK
<1>m. app' # "rodando" => \A r \in Req : Morto(r)'
  BY <1>1 DEF IInv, FimDoSDK, Morto
<1>4. CASE t = Desliga
  <2>1. encerrou = "nao" /\ ~NaFila(Desliga) /\ thread # Desliga
    BY <1>1, <1>4 DEF IInv, FimDoSDK, Pendente
  <2>2. \A i, j \in DOMAIN fila' : fila'[i] = Desliga /\ fila'[j] = Desliga => i = j
    BY <1>3, <2>1 DEF NaFila
  <2>3. pc'[Desliga] = "aguarda" /\ pc[Desliga] # "fora" /\ app \notin {"rodando", "desligando"}
    BY <1>1, <1>4, <1>r DEF IInv, TypeOK, FimDoSDK
  <2>4. ctx[Desliga] # "desistiu" /\ resultado[Desliga] = "nada"
    BY <1>1, <1>4 DEF IInv, FimDoSDK
  <2>5. thread' = thread /\ app' = app /\ encerrou' = "nao" /\ ctx' = ctx
          /\ resultado' = resultado
    BY <1>1, <2>1
  <2>6. /\ app' \in {"rodando", "desligando"} \/ pc'[Desliga] = "enfila"
             => encerrou' = "nao" /\ ~Pendente(Desliga)'
        /\ app' \in {"rodando", "desligando"} => pc'[Desliga] = "fora"
        /\ app' = "desligando" \/ pc'[Desliga] # "fora" => ctx'[Desliga] # "desistiu"
    BY <2>3, <2>4, <2>5
  <2>7. /\ thread' = Desliga => ~NaFila(Desliga)'
        /\ encerrou' = "sim" => ~Pendente(Desliga)'
        /\ resultado'[Desliga] # "nada" => pc'[Desliga] = "aguarda"
        /\ resultado'[Desliga] = "pronto" => encerrou' = "sim"
        /\ resultado'[Desliga] = "cancelado" => ctx'[Desliga] = "venceu"
    BY <2>1, <2>4, <2>5
  <2>8. QED
    BY <1>2, <1>m, <2>2, <2>6, <2>7 DEF FimDoSDK
<1>5. CASE t # Desliga
  <2>1. pc'[Desliga] = pc[Desliga]
    BY <1>1, <1>5, <1>r DEF IInv, TypeOK
  <2>2. NaFila(Desliga)' => NaFila(Desliga)
    BY <1>3, <1>5 DEF NaFila
  <2>3. \A i, j \in DOMAIN fila' : fila'[i] = Desliga /\ fila'[j] = Desliga => i = j
    BY <1>3, <1>5 DEF IInv, FimDoSDK
  <2>4. Pendente(Desliga)' => Pendente(Desliga)
    BY <1>1, <2>2 DEF Pendente
  <2>5. thread' = thread /\ app' = app /\ encerrou' = encerrou /\ ctx' = ctx
          /\ resultado' = resultado
    BY <1>1
  <2>6. /\ app' \in {"rodando", "desligando"} \/ pc'[Desliga] = "enfila"
             => encerrou' = "nao" /\ ~Pendente(Desliga)'
        /\ app' \in {"rodando", "desligando"} => pc'[Desliga] = "fora"
        /\ app' = "desligando" \/ pc'[Desliga] # "fora" => ctx'[Desliga] # "desistiu"
    BY <2>1, <2>4, <2>5 DEF IInv, FimDoSDK
  <2>7. /\ thread' = Desliga => ~NaFila(Desliga)'
        /\ encerrou' = "sim" => ~Pendente(Desliga)'
        /\ resultado'[Desliga] # "nada" => pc'[Desliga] = "aguarda"
        /\ resultado'[Desliga] = "pronto" => encerrou' = "sim"
        /\ resultado'[Desliga] = "cancelado" => ctx'[Desliga] = "venceu"
    BY <2>1, <2>2, <2>4, <2>5 DEF IInv, FimDoSDK
  <2>8. QED
    BY <1>2, <1>m, <2>3, <2>6, <2>7 DEF FimDoSDK
<1>6. QED
  BY <1>2, <1>4, <1>5

\* The SDK thread takes a task: once the SDK was ended every context is dead, and what is
\* left in the queue is discarded.
LEMMA PassoRetira ==
  ASSUME IInv, Executa \/ Descarta
  PROVE  (NadaDepoisDeEncerrar /\ FimDoSDK)'
<1>r. Desliga \notin Req /\ Desliga \in Tarefas /\ Req \subseteq Tarefas /\ Ninguem # Desliga
  BY TarefasAssumption DEF Tarefas
<1>1. /\ UNCHANGED <<pc, ctx, sdk, app, encerrou>>
      /\ thread = Ninguem /\ fila # <<>> /\ fila' = Tail(fila)
  BY DEF Executa, Descarta, chamadores, processo, execucao
<1>2. /\ Head(fila) \in Tarefas /\ Head(fila) = fila[1] /\ 1 \in DOMAIN fila
      /\ \A i \in DOMAIN fila' :
           i \in Nat \ {0} /\ i + 1 \in DOMAIN fila /\ fila'[i] = fila[i + 1]
  BY <1>1, Retira DEF IInv, TypeOK
<1>3. \A i, j \in DOMAIN fila' : fila'[i] = Desliga /\ fila'[j] = Desliga => i = j
  <2> SUFFICES ASSUME NEW i \in DOMAIN fila', NEW j \in DOMAIN fila',
                      fila'[i] = Desliga, fila'[j] = Desliga
               PROVE  i = j
    OBVIOUS
  <2>1. i + 1 = j + 1
    BY <1>2 DEF IInv, FimDoSDK
  <2>2. QED
    BY <1>2, <2>1
<1>4. NaFila(Desliga)' => NaFila(Desliga) /\ Head(fila) # Desliga
  <2> SUFFICES ASSUME NEW i \in DOMAIN fila', fila'[i] = Desliga
               PROVE  NaFila(Desliga) /\ Head(fila) # Desliga
    BY DEF NaFila
  <2>1. i + 1 \in DOMAIN fila /\ fila[i + 1] = Desliga /\ i + 1 # 1
    BY <1>2
  <2>2. fila[1] # Desliga
    BY <1>2, <2>1 DEF IInv, FimDoSDK
  <2>3. QED
    BY <1>2, <2>1, <2>2 DEF NaFila
<1>5. Head(fila) = Desliga => NaFila(Desliga)
  BY <1>2 DEF NaFila
<1>6. CASE Executa
  <2>1. thread' = Head(fila) /\ ctx[Head(fila)] = "vivo" /\ resultado' = resultado
    BY <1>2, <1>6 DEF Executa, Morto, IInv, TypeOK
  <2>2. encerrou # "sim"
    <3>1. CASE Head(fila) = Desliga
      BY <1>5, <3>1 DEF IInv, FimDoSDK, Pendente
    <3>2. CASE Head(fila) \in Req
      BY <2>1, <3>2 DEF IInv, FimDoSDK, Morto
    <3>3. QED
      BY <1>2, <3>1, <3>2 DEF Tarefas
  <2>3. Pendente(Desliga)' => Pendente(Desliga)
    BY <1>4, <1>5, <2>1 DEF Pendente
  <2>4. thread' = Desliga => ~NaFila(Desliga)'
    BY <1>4, <2>1
  <2>5. QED
    BY <1>1, <1>3, <2>1, <2>2, <2>3, <2>4 DEF IInv, FimDoSDK, NadaDepoisDeEncerrar, Morto
<1>7. CASE Descarta
  <2>1. thread' = thread /\ Entrega(Head(fila), "cancelado") /\ ctx[Head(fila)] # "vivo"
    BY <1>7 DEF Descarta, execucao, Morto
  <2>2. Pendente(Desliga)' => Pendente(Desliga)
    BY <1>4, <2>1 DEF Pendente
  <2>3. thread' # Desliga
    BY <1>r, <1>1, <2>1
  <2>4. \/ resultado'[Desliga] = resultado[Desliga]
        \/ resultado'[Desliga] = "nada"
        \/ /\ resultado'[Desliga] = "cancelado" /\ ctx[Desliga] = "venceu"
           /\ pc[Desliga] = "aguarda"
    <3>1. CASE Head(fila) = Desliga
      <4>1. CASE pc[Desliga] = "aguarda"
        <5>1. ctx[Desliga] = "venceu"
          BY <2>1, <3>1, <4>1, <1>r DEF IInv, FimDoSDK, TypeOK
        <5>2. resultado'[Desliga] = "cancelado"
          BY <2>1, <3>1, <4>1, <1>r DEF Entrega, Na, IInv, TypeOK
        <5>3. QED
          BY <4>1, <5>1, <5>2
      <4>2. CASE pc[Desliga] # "aguarda"
        BY <2>1, <3>1, <4>2, <1>r DEF Entrega, Na, IInv, TypeOK
      <4>3. QED
        BY <4>1, <4>2
    <3>2. CASE Head(fila) # Desliga
      BY <2>1, <3>2, <1>r DEF Entrega, IInv, TypeOK
    <3>3. QED
      BY <3>1, <3>2
  <2>5. NadaDepoisDeEncerrar'
    BY <1>1, <2>1 DEF IInv, NadaDepoisDeEncerrar
  <2>6. /\ resultado'[Desliga] # "nada" => pc'[Desliga] = "aguarda"
        /\ resultado'[Desliga] = "pronto" => encerrou' = "sim"
        /\ resultado'[Desliga] = "cancelado" => ctx'[Desliga] = "venceu"
    BY <1>1, <2>4 DEF IInv, FimDoSDK
  <2>7. QED
    BY <1>1, <1>3, <2>2, <2>3, <2>5, <2>6 DEF IInv, FimDoSDK, Morto
<1>8. QED
  BY <1>6, <1>7

\* The SDK thread ends a task.
LEMMA PassoTermina ==
  ASSUME IInv, Termina \/ TerminaDesliga
  PROVE  (NadaDepoisDeEncerrar /\ FimDoSDK)'
<1>r. Desliga \notin Req /\ Desliga \in Tarefas /\ Req \subseteq Tarefas /\ Ninguem # Desliga
  BY TarefasAssumption DEF Tarefas
<1>1. /\ UNCHANGED <<pc, ctx, fila, app>> /\ thread' = Ninguem
      /\ NaFila(Desliga)' <=> NaFila(Desliga)
  BY DEF Termina, TerminaDesliga, chamadores, NaFila
<1>2. Pendente(Desliga)' <=> NaFila(Desliga)
  BY <1>r, <1>1 DEF Pendente
<1>3. CASE Termina
  <2>1. thread \in Req /\ Entrega(thread, "pronto") /\ encerrou' = encerrou
    BY <1>3 DEF Termina
  <2>2. encerrou # "sim"
    BY <1>r, <2>1, TarefasAssumption DEF IInv, NadaDepoisDeEncerrar, Tarefas
  <2>3. resultado'[Desliga] = resultado[Desliga]
    BY <1>r, <2>1 DEF Entrega, IInv, TypeOK
  <2>4. QED
    BY <1>r, <1>1, <1>2, <2>1, <2>2, <2>3
       DEF IInv, FimDoSDK, NadaDepoisDeEncerrar, Pendente, Morto
<1>4. CASE TerminaDesliga
  <2>1. thread = Desliga /\ Entrega(Desliga, "pronto") /\ encerrou' = "sim" /\ sdk' = "nenhum"
    BY <1>4 DEF TerminaDesliga
  <2>2. ~NaFila(Desliga) /\ app \notin {"rodando", "desligando"} /\ pc[Desliga] # "enfila"
    BY <2>1 DEF IInv, FimDoSDK, Pendente
  <2>3. /\ resultado'[Desliga] # "cancelado"
        /\ (resultado'[Desliga] # "nada" => pc[Desliga] = "aguarda")
    BY <2>1, <1>r DEF Entrega, Na, IInv, TypeOK
  <2>4. NadaDepoisDeEncerrar'
    BY <1>1, <2>1 DEF NadaDepoisDeEncerrar
  <2>5. QED
    BY <1>r, <1>1, <1>2, <2>1, <2>2, <2>3, <2>4 DEF IInv, FimDoSDK, Morto
<1>5. QED
  BY <1>3, <1>4

\* The invariant holds of every behaviour.
THEOREM Invariante == Spec => []IInv
<1>1. ASSUME IInv, UNCHANGED vars
      PROVE  IInv'
  BY <1>1 DEF vars, chamadores, execucao, processo, IInv, TypeOK, NadaDepoisDeEncerrar,
              FimDoSDK, Pendente, NaFila, Morto
<1>2. ASSUME IInv, Next
      PROVE  IInv'
  <2>1. TypeOK'
    BY <1>2, TipoPasso DEF IInv
  <2>2. CASE \/ \E r \in Req : Chega(r) \/ Handler(r) \/ ClienteSome(r)
             \/ \E t \in Tarefas : Desiste(t) \/ Recolhe(t) \/ Vence(t)
             \/ Tempo
    <3>1. UNCHANGED <<fila, thread, processo>>
      BY <2>2 DEF Chega, Handler, Reserva, ReservaFalha, LeCorpo, CorpoInvalido, ClienteSome,
                  Desiste, Recolhe, Vence, Tempo, execucao, processo
    <3>2. QED
      BY <1>2, <2>1, <2>2, <3>1, PassoChamador DEF IInv
  <2>3. CASE \E t \in Tarefas : Enfila(t)
    BY <1>2, <2>1, <2>3, PassoEnfila DEF IInv
  <2>4. CASE SDKThread
    BY <1>2, <2>1, <2>4, PassoRetira, PassoTermina DEF IInv, SDKThread
  <2>5. CASE Desligar \/ ShutdownRetorna \/ Sai
    BY <1>2, <2>1, <2>5, PassoFim DEF IInv
  <2>6. QED
    BY <1>2, <2>2, <2>3, <2>4, <2>5 DEF Next, NaThreadSDK
<1>3. QED
  BY Inicio, <1>1, <1>2, PTL DEF Spec

\* Type correctness: in particular the queue never holds more than its capacity.
THEOREM TipoCorreto == Spec => []TypeOK
<1>1. IInv => TypeOK
  BY DEF IInv
<1>2. QED
  BY <1>1, Invariante, PTL

\* After encerraSDK's task nothing reaches the SDK.
THEOREM FimDefinitivo == Spec => []NadaDepoisDeEncerrar
<1>1. IInv => NadaDepoisDeEncerrar
  BY DEF IInv
<1>2. QED
  BY <1>1, Invariante, PTL

\* The caller of encerraSDK gives up only when the ten seconds are over.
THEOREM DesistePeloPrazo == Spec => SemEncerrarSoNoPrazo
<1>1. IInv /\ [Next]_vars =>
        [pc[Desliga] # "fora" /\ pc'[Desliga] = "fora" /\ encerrou' = "nao"
           => ctx[Desliga] = "venceu"]_vars
  <2> SUFFICES ASSUME IInv, Next, pc[Desliga] # "fora", pc'[Desliga] = "fora",
                      encerrou' = "nao"
               PROVE  ctx[Desliga] = "venceu"
    OBVIOUS
  <2>r. Desliga \notin Req /\ Desliga \in Tarefas /\ Req \subseteq Tarefas
    BY TarefasAssumption DEF Tarefas
  <2>1. \/ Desiste(Desliga) \/ Recolhe(Desliga)
        \/ pc'[Desliga] = pc[Desliga] \/ pc'[Desliga] = "aguarda" \/ pc'[Desliga] = "enfila"
    <3>1. CASE \E r \in Req : Chega(r) \/ Handler(r) \/ ClienteSome(r)
      BY <3>1, <2>r DEF IInv, TypeOK, Chega, Handler, Reserva, ReservaFalha, LeCorpo,
                        CorpoInvalido, ClienteSome, Responde
    <3>2. CASE \E t \in Tarefas : NaThreadSDK(t) \/ Vence(t)
      BY <3>2, <2>r DEF IInv, TypeOK, NaThreadSDK, Enfila, Desiste, Recolhe, Vence, Responde
    <3>3. CASE SDKThread \/ Desligar \/ Sai \/ Tempo
      BY <3>3 DEF SDKThread, Executa, Descarta, Termina, TerminaDesliga, Desligar, Sai, Tempo,
                  chamadores
    <3>4. CASE ShutdownRetorna
      BY <3>4, <2>r DEF ShutdownRetorna, IInv, TypeOK
    <3>5. QED
      BY <3>1, <3>2, <3>3, <3>4 DEF Next
  <2>2. CASE Desiste(Desliga)
    BY <2>2, <2>r DEF Desiste, Morto, IInv, TypeOK, FimDoSDK
  <2>3. CASE Recolhe(Desliga)
    <3>1. encerrou = "nao" /\ resultado[Desliga] # "nada"
      BY <2>3 DEF Recolhe, processo
    <3>2. resultado[Desliga] \in {"pronto", "cancelado"}
      BY <3>1, <2>r DEF IInv, TypeOK
    <3>3. QED
      BY <3>1, <3>2 DEF IInv, FimDoSDK
  <2>4. QED
    BY <2>1, <2>2, <2>3
<1>2. QED
  BY <1>1, Invariante, PTL DEF Spec, SemEncerrarSoNoPrazo

----------------------------------------------------------------------------
\* FilaSDK implements ServicoSDK.

UInv == IInv /\ TarefaUnica

\* Taking the head out of the queue: it is nowhere else in it.
LEMMA FilaSemCabeca ==
  ASSUME UInv, Executa \/ Descarta
  PROVE  /\ Head(fila) \in Tarefas /\ NaFila(Head(fila))
         /\ \A i, j \in DOMAIN fila' : fila'[i] = fila'[j] => i = j
         /\ \A u : NaFila(u)' => NaFila(u) /\ u # Head(fila)
<1>1. fila # <<>> /\ fila' = Tail(fila) /\ fila \in Seq(Tarefas)
  BY DEF Executa, Descarta, UInv, IInv, TypeOK
<1>2. /\ Head(fila) \in Tarefas /\ Head(fila) = fila[1] /\ 1 \in DOMAIN fila
      /\ \A i \in DOMAIN fila' :
           i \in Nat \ {0} /\ i + 1 \in DOMAIN fila /\ fila'[i] = fila[i + 1]
  BY <1>1, Retira
<1>3. ASSUME NEW i \in DOMAIN fila', NEW j \in DOMAIN fila', fila'[i] = fila'[j]
      PROVE  i = j
  <2>1. i + 1 = j + 1
    BY <1>2, <1>3 DEF UInv, TarefaUnica
  <2>2. QED
    BY <1>2, <2>1
<1>4. ASSUME NEW u, NaFila(u)'
      PROVE  NaFila(u) /\ u # Head(fila)
  <2>1. PICK i \in DOMAIN fila' : fila'[i] = u
    BY <1>4 DEF NaFila
  <2>2. i + 1 \in DOMAIN fila /\ fila[i + 1] = u /\ i + 1 # 1
    BY <1>2, <2>1
  <2>3. QED
    BY <1>2, <2>2 DEF NaFila, UInv, TarefaUnica
<1>5. QED
  BY <1>2, <1>3, <1>4 DEF NaFila

\* Putting a task that is not in the queue at its end.
LEMMA FilaComMais ==
  ASSUME UInv, NEW t \in Tarefas, Enfila(t)
  PROVE  /\ ~Pendente(t)
         /\ \A i, j \in DOMAIN fila' : fila'[i] = fila'[j] => i = j
         /\ \A u : NaFila(u)' => NaFila(u) \/ u = t
<1>1. fila' = Append(fila, t) /\ fila \in Seq(Tarefas)
  BY DEF Enfila, UInv, IInv, TypeOK
<1>2. \A i \in DOMAIN fila' :
        \/ i \in DOMAIN fila /\ fila'[i] = fila[i]
        \/ i = Len(fila) + 1 /\ fila'[i] = t
  BY <1>1, Poe
<1>3. ~Pendente(t) /\ ~NaFila(t)
  BY DEF UInv, TarefaUnica, Enfila, Na, Pendente
<1>4. \A i, j \in DOMAIN fila' : fila'[i] = fila'[j] => i = j
  BY <1>2, <1>3 DEF NaFila, UInv, TarefaUnica
<1>5. \A u : NaFila(u)' => NaFila(u) \/ u = t
  BY <1>2 DEF NaFila
<1>6. QED
  BY <1>3, <1>4, <1>5

\* What TarefaUnica says of one task.
Coerente(t) ==
  /\ Na(t, {"reserva", "corpo", "enfila"}) => ~Pendente(t)
  /\ ~Na(t, {"aguarda"}) => resultado[t] = "nada"
  /\ Pendente(t) => resultado[t] = "nada"
  /\ Pendente(t) /\ ~Morto(t) => Na(t, {"aguarda"})

\* Everything but what puts tasks in the queue, takes them out and ends them.
SemFila ==
  \/ \E r \in Req : Chega(r) \/ Handler(r) \/ ClienteSome(r)
  \/ \E t \in Tarefas : Desiste(t) \/ Recolhe(t) \/ Vence(t)
  \/ Desligar \/ ShutdownRetorna \/ Sai
  \/ Tempo

\* What such a step does to one call: nothing its task depends on; or it is answered; or,
\* without a task yet, it goes on.
LEMMA PassoDeUm ==
  ASSUME UInv, SemFila, NEW t \in Tarefas
  PROVE  \/ pc'[t] = pc[t] /\ resultado'[t] = resultado[t] /\ (Morto(t) => Morto(t)')
         \/ pc'[t] = "fora" /\ ctx'[t] = "desistiu" /\ resultado'[t] = "nada"
         \/ /\ ~Pendente(t) /\ pc[t] # "aguarda" /\ pc'[t] # "aguarda"
            /\ resultado'[t] = resultado[t]
<1>r. Desliga \notin Req /\ Desliga \in Tarefas /\ Req \subseteq Tarefas
  BY TarefasAssumption DEF Tarefas
<1>1. ASSUME NEW r \in Req, Chega(r)
      PROVE  \/ pc'[t] = pc[t] /\ resultado'[t] = resultado[t] /\ (Morto(t) => Morto(t)')
             \/ /\ ~Pendente(t) /\ pc[t] # "aguarda" /\ pc'[t] # "aguarda"
                /\ resultado'[t] = resultado[t]
  <2>1. PrimeiroPasso(r) # "aguarda"
    BY DEF PrimeiroPasso
  <2>2. CASE t = r
    <3>1. pc'[t] = PrimeiroPasso(r) /\ pc[t] = "fora" /\ ~Pendente(t) /\ resultado' = resultado
      BY <1>1, <2>2, <1>r DEF Chega, UInv, IInv, TypeOK
    <3>2. QED
      BY <2>1, <3>1
  <2>3. CASE t # r
    BY <1>1, <2>3, <1>r DEF Chega, UInv, IInv, TypeOK, Morto
  <2>4. QED
    BY <2>2, <2>3
<1>2. ASSUME NEW r \in Req, Reserva(r) \/ LeCorpo(r)
      PROVE  \/ pc'[t] = pc[t] /\ resultado'[t] = resultado[t] /\ (Morto(t) => Morto(t)')
             \/ /\ ~Pendente(t) /\ pc[t] # "aguarda" /\ pc'[t] # "aguarda"
                /\ resultado'[t] = resultado[t]
  <2>1. ctx' = ctx /\ resultado' = resultado /\ pc[r] \in {"reserva", "corpo"}
    BY <1>2 DEF Reserva, LeCorpo, Na
  <2>2. CASE t = r
    <3>1. ~Pendente(t)
      BY <2>1, <2>2, <1>r DEF UInv, TarefaUnica, Na
    <3>2. pc'[t] \in {"corpo", "enfila"}
      BY <1>2, <2>2, <1>r DEF Reserva, LeCorpo, UInv, IInv, TypeOK
    <3>3. QED
      BY <2>1, <2>2, <3>1, <3>2
  <2>3. CASE t # r
    BY <1>2, <2>1, <2>3, <1>r DEF Reserva, LeCorpo, UInv, IInv, TypeOK, Morto
  <2>4. QED
    BY <2>2, <2>3
<1>3. ASSUME NEW u \in Tarefas, Responde(u)
      PROVE  \/ pc'[t] = pc[t] /\ resultado'[t] = resultado[t] /\ (Morto(t) => Morto(t)')
             \/ pc'[t] = "fora" /\ ctx'[t] = "desistiu" /\ resultado'[t] = "nada"
  <2>1. CASE t = u
    BY <1>3, <2>1 DEF Responde, UInv, IInv, TypeOK
  <2>2. CASE t # u
    BY <1>3, <2>2 DEF Responde, UInv, IInv, TypeOK, Morto
  <2>3. QED
    BY <2>1, <2>2
<1>4. ASSUME NEW u \in Tarefas, ClienteSome(u) \/ Vence(u)
      PROVE  pc'[t] = pc[t] /\ resultado'[t] = resultado[t] /\ (Morto(t) => Morto(t)')
  BY <1>4 DEF ClienteSome, Vence, UInv, IInv, TypeOK, Morto
<1>5. CASE Sai \/ Tempo
  BY <1>5 DEF Sai, Tempo, chamadores, Morto
<1>6. CASE Desligar
  <2>1. pc' = pc /\ resultado' = resultado
    BY <1>6 DEF Desligar
  <2>2. CASE t = Desliga
    BY <1>6, <2>1, <2>2 DEF Desligar, UInv, IInv, FimDoSDK
  <2>3. CASE t # Desliga
    BY <1>6, <2>1, <2>3 DEF Desligar, UInv, IInv, TypeOK, Morto
  <2>4. QED
    BY <2>2, <2>3
<1>7. CASE ShutdownRetorna
  <2>1. ctx' = ctx /\ resultado' = resultado
    BY <1>7 DEF ShutdownRetorna
  <2>2. CASE t = Desliga
    <3>1. ~Pendente(t) /\ pc[t] = "fora"
      BY <1>7, <2>2 DEF ShutdownRetorna, UInv, IInv, FimDoSDK
    <3>2. pc'[t] = "enfila"
      BY <1>7, <2>2, <1>r DEF ShutdownRetorna, UInv, IInv, TypeOK
    <3>3. QED
      BY <2>1, <3>1, <3>2
  <2>3. CASE t # Desliga
    BY <1>7, <2>1, <2>3 DEF ShutdownRetorna, UInv, IInv, TypeOK, Morto
  <2>4. QED
    BY <2>2, <2>3
<1>8. QED
  BY <1>1, <1>2, <1>3, <1>4, <1>5, <1>6, <1>7, <1>r
     DEF SemFila, Handler, ReservaFalha, CorpoInvalido, Desiste, Recolhe

\* A step of those keeps a task in one place.
LEMMA UnicaSemFila ==
  ASSUME UInv, SemFila
  PROVE  TarefaUnica'
<1>1. fila' = fila /\ thread' = thread
  BY DEF SemFila, Chega, Handler, Reserva, ReservaFalha, LeCorpo, CorpoInvalido, ClienteSome,
         Desiste, Recolhe, Vence, Desligar, ShutdownRetorna, Sai, Tempo, execucao
<1>2. \A u : (NaFila(u)' <=> NaFila(u)) /\ (Pendente(u)' <=> Pendente(u))
  BY <1>1 DEF NaFila, Pendente
<1>3. ASSUME NEW t \in Tarefas
      PROVE  Coerente(t)'
  <2>1. Coerente(t)
    BY DEF UInv, TarefaUnica, Coerente
  <2>2. CASE pc'[t] = pc[t] /\ resultado'[t] = resultado[t] /\ (Morto(t) => Morto(t)')
    BY <1>2, <2>1, <2>2 DEF Coerente, Na
  <2>3. CASE pc'[t] = "fora" /\ ctx'[t] = "desistiu" /\ resultado'[t] = "nada"
    BY <2>3 DEF Coerente, Na, Morto
  <2>4. CASE /\ ~Pendente(t) /\ pc[t] # "aguarda" /\ pc'[t] # "aguarda"
             /\ resultado'[t] = resultado[t]
    BY <1>2, <2>1, <2>4 DEF Coerente, Na
  <2>5. QED
    BY <2>2, <2>3, <2>4, PassoDeUm
<1>4. QED
  BY <1>1, <1>2, <1>3 DEF TarefaUnica, Coerente, UInv

\* So does a task going into the queue, being taken and being ended.
LEMMA UnicaComFila ==
  ASSUME UInv, (\E t \in Tarefas : Enfila(t)) \/ SDKThread
  PROVE  TarefaUnica'
<1>r. Ninguem \notin Tarefas /\ Req \subseteq Tarefas /\ Desliga \in Tarefas
  BY TarefasAssumption DEF Tarefas
<1>c. \A u \in Tarefas : Coerente(u)
  BY DEF UInv, TarefaUnica, Coerente
<1>1. ASSUME NEW t \in Tarefas, Enfila(t) PROVE TarefaUnica'
  <2>1. /\ thread' = thread /\ ctx' = ctx /\ resultado' = resultado
        /\ pc' = [pc EXCEPT ![t] = "aguarda"] /\ pc[t] = "enfila" /\ thread # t
    BY <1>1, FilaComMais DEF Enfila, Na, execucao, Pendente
  <2>2. ASSUME NEW u \in Tarefas PROVE Coerente(u)'
    <3>1. CASE u = t
      <4>1. pc'[u] = "aguarda" /\ resultado'[u] = "nada"
        BY <2>1, <3>1, <1>c DEF UInv, IInv, TypeOK, Coerente, Na
      <4>2. QED
        BY <4>1 DEF Coerente, Na
    <3>2. CASE u # t
      <4>1. pc'[u] = pc[u]
        BY <2>1, <3>2 DEF UInv, IInv, TypeOK
      <4>2. Pendente(u)' => Pendente(u)
        BY <1>1, <2>1, <3>2, FilaComMais DEF Pendente
      <4>3. QED
        BY <1>c, <2>1, <4>1, <4>2 DEF Coerente, Na, Morto
    <3>3. QED
      BY <3>1, <3>2
  <2>3. thread' # Ninguem => ~NaFila(thread)'
    BY <1>1, <2>1, FilaComMais DEF UInv, TarefaUnica
  <2>4. QED
    BY <1>1, <2>2, <2>3, FilaComMais DEF TarefaUnica, Coerente
<1>2. CASE Executa
  <2>1. /\ thread = Ninguem /\ thread' = Head(fila)
        /\ pc' = pc /\ ctx' = ctx /\ resultado' = resultado
    BY <1>2 DEF Executa, chamadores
  <2>2. ASSUME NEW u \in Tarefas PROVE Coerente(u)'
    <3>1. Pendente(u)' => Pendente(u)
      BY <1>2, <2>1, FilaSemCabeca DEF Pendente
    <3>2. QED
      BY <1>c, <2>1, <3>1 DEF Coerente, Na, Morto
  <2>3. ~NaFila(thread)'
    BY <1>2, <2>1, FilaSemCabeca
  <2>4. QED
    BY <1>2, <2>2, <2>3, FilaSemCabeca DEF TarefaUnica, Coerente
<1>3. CASE Descarta
  <2>1. /\ thread = Ninguem /\ thread' = Ninguem /\ pc' = pc /\ ctx' = ctx
        /\ Entrega(Head(fila), "cancelado")
    BY <1>3 DEF Descarta, chamadores, execucao
  <2>2. ASSUME NEW u \in Tarefas PROVE Coerente(u)'
    <3>1. Pendente(u)' => Pendente(u) /\ u # Head(fila)
      BY <1>3, <1>r, <2>1, FilaSemCabeca DEF Pendente
    <3>2. CASE u = Head(fila)
      <4>1. ~Pendente(u)'
        BY <3>1, <3>2
      <4>2. ~Na(u, {"aguarda"}) => resultado'[u] = "nada"
        BY <2>1, <3>2 DEF Entrega, UInv, IInv, TypeOK
      <4>3. QED
        BY <2>1, <4>1, <4>2 DEF Coerente, Na
    <3>3. CASE u # Head(fila)
      <4>1. resultado'[u] = resultado[u]
        BY <2>1, <3>3 DEF Entrega, UInv, IInv, TypeOK
      <4>2. QED
        BY <1>c, <2>1, <3>1, <4>1 DEF Coerente, Na, Morto
    <3>4. QED
      BY <3>2, <3>3
  <2>3. QED
    BY <1>3, <2>1, <2>2, FilaSemCabeca DEF TarefaUnica, Coerente
<1>4. CASE Termina \/ TerminaDesliga
  <2>1. /\ thread \in Tarefas /\ thread' = Ninguem /\ pc' = pc /\ ctx' = ctx /\ fila' = fila
        /\ Entrega(thread, "pronto")
    BY <1>4, <1>r DEF Termina, TerminaDesliga, chamadores
  <2>2. \A u : NaFila(u)' <=> NaFila(u)
    BY <2>1 DEF NaFila
  <2>3. ~NaFila(thread)
    BY <1>r, <2>1 DEF UInv, TarefaUnica
  <2>4. ASSUME NEW u \in Tarefas PROVE Coerente(u)'
    <3>1. Pendente(u)' => Pendente(u) /\ u # thread
      BY <1>r, <2>1, <2>2, <2>3 DEF Pendente
    <3>2. CASE u = thread
      <4>1. ~Pendente(u)'
        BY <3>1, <3>2
      <4>2. ~Na(u, {"aguarda"}) => resultado'[u] = "nada"
        BY <2>1, <3>2 DEF Entrega, UInv, IInv, TypeOK
      <4>3. QED
        BY <2>1, <4>1, <4>2 DEF Coerente, Na
    <3>3. CASE u # thread
      <4>1. resultado'[u] = resultado[u]
        BY <2>1, <3>3 DEF Entrega, UInv, IInv, TypeOK
      <4>2. QED
        BY <1>c, <2>1, <3>1, <4>1 DEF Coerente, Na, Morto
    <3>4. QED
      BY <3>2, <3>3
  <2>5. \A i, j \in DOMAIN fila' : fila'[i] = fila'[j] => i = j
    BY <2>1 DEF UInv, TarefaUnica
  <2>6. QED
    BY <2>1, <2>4, <2>5 DEF TarefaUnica, Coerente
<1>5. QED
  BY <1>1, <1>2, <1>3, <1>4 DEF SDKThread

\* A task is in one place, and waited for unless given up.
THEOREM UnicaSempre == Spec => []UInv
<1>1. Init => TarefaUnica
  BY TarefasAssumption DEF Init, TarefaUnica, Na, Pendente, NaFila, Morto, Tarefas
<1>2. ASSUME IInv, TarefaUnica, Next
      PROVE  TarefaUnica'
  BY <1>2, UnicaSemFila, UnicaComFila DEF UInv, Next, NaThreadSDK, SemFila
<1>3. ASSUME TarefaUnica, UNCHANGED vars
      PROVE  TarefaUnica'
  BY <1>3 DEF TarefaUnica, vars, chamadores, execucao, processo, Na, Pendente, NaFila, Morto
<1>4. IInv /\ TarefaUnica /\ [Next]_vars => TarefaUnica'
  BY <1>2, <1>3
<1>5. QED
  BY Invariante, <1>1, <1>4, PTL DEF Spec, UInv

\* What a call is, by cases that do not overlap.
LEMMA Pedido ==
  ASSUME NEW t \in Tarefas, UInv
  PROVE  /\ pc[t] \in {"fora", "reserva", "corpo"} => PedidoDe(t) = "fora"
         /\ pc[t] = "enfila" => PedidoDe(t) = "espera"
         /\ pc[t] = "aguarda" /\ thread = t => PedidoDe(t) = "executando"
         /\ pc[t] = "aguarda" /\ thread # t /\ resultado[t] = "pronto"
              => PedidoDe(t) = "atendido"
         /\ pc[t] = "aguarda" /\ thread # t /\ resultado[t] # "pronto"
              => PedidoDe(t) = "espera"
         /\ pc[t] \in {"fora", "reserva", "corpo", "enfila", "aguarda"}
         /\ pedidos[t] = PedidoDe(t)
  BY DEF PedidoDe, Na, pedidos, UInv, IInv, TypeOK

LEMMA PedidoDepois ==
  ASSUME NEW t \in Tarefas, UInv'
  PROVE  /\ pc'[t] \in {"fora", "reserva", "corpo"} => PedidoDe(t)' = "fora"
         /\ pc'[t] = "enfila" => PedidoDe(t)' = "espera"
         /\ pc'[t] = "aguarda" /\ thread' = t => PedidoDe(t)' = "executando"
         /\ pc'[t] = "aguarda" /\ thread' # t /\ resultado'[t] = "pronto"
              => PedidoDe(t)' = "atendido"
         /\ pc'[t] = "aguarda" /\ thread' # t /\ resultado'[t] # "pronto"
              => PedidoDe(t)' = "espera"
         /\ pc'[t] \in {"fora", "reserva", "corpo", "enfila", "aguarda"}
  BY DEF PedidoDe, Na, UInv, IInv, TypeOK

\* When one call changes, the abstract state changes there only.
LEMMA MudaUm ==
  ASSUME NEW t \in Tarefas,
         \A u \in Tarefas \ {t} : PedidoDe(u)' = PedidoDe(u)
  PROVE  /\ pedidos' = [pedidos EXCEPT ![t] = PedidoDe(t)']
         /\ PedidoDe(t)' = PedidoDe(t) => pedidos' = pedidos
  BY DEF pedidos

\* A step away from the queue changes one call at most.
LEMMA SoUm ==
  ASSUME UInv, SemFila
  PROVE  \E t \in Tarefas : \A u \in Tarefas \ {t} :
            pc'[u] = pc[u] /\ resultado'[u] = resultado[u]
<1>r. Desliga \in Tarefas /\ Req \subseteq Tarefas
  BY DEF Tarefas
<1>1. ASSUME NEW r \in Tarefas,
             Chega(r) \/ Reserva(r) \/ LeCorpo(r) \/ ClienteSome(r) \/ Vence(r)
      PROVE  \A u \in Tarefas \ {r} : pc'[u] = pc[u] /\ resultado'[u] = resultado[u]
  BY <1>1 DEF Chega, Reserva, LeCorpo, ClienteSome, Vence, UInv, IInv, TypeOK
<1>2. ASSUME NEW r \in Tarefas, Responde(r)
      PROVE  \A u \in Tarefas \ {r} : pc'[u] = pc[u] /\ resultado'[u] = resultado[u]
  BY <1>2 DEF Responde, UInv, IInv, TypeOK
<1>3. CASE Desligar \/ ShutdownRetorna \/ Sai \/ Tempo
  <2>1. \A u \in Tarefas \ {Desliga} : pc'[u] = pc[u] /\ resultado'[u] = resultado[u]
    BY <1>3 DEF Desligar, ShutdownRetorna, Sai, Tempo, chamadores, UInv, IInv, TypeOK
  <2>2. QED
    BY <1>r, <2>1
<1>4. QED
  BY <1>r, <1>1, <1>2, <1>3
     DEF SemFila, Handler, ReservaFalha, CorpoInvalido, Desiste, Recolhe

\* Such a step asks, leaves, or is nothing to the service.
LEMMA ServicoSemFila ==
  ASSUME UInv, UInv', SemFila
  PROVE  Servico!Next \/ UNCHANGED Servico!vars
<1>1. thread' = thread /\ encerrou' = encerrou
  BY DEF SemFila, Chega, Handler, Reserva, ReservaFalha, LeCorpo, CorpoInvalido, ClienteSome,
         Desiste, Recolhe, Vence, Desligar, ShutdownRetorna, Sai, Tempo, execucao, processo
<1>2. PICK t \in Tarefas : \A u \in Tarefas \ {t} :
        pc'[u] = pc[u] /\ resultado'[u] = resultado[u]
  BY SoUm
<1>3. \A u \in Tarefas \ {t} : PedidoDe(u)' = PedidoDe(u)
  BY <1>1, <1>2 DEF PedidoDe, Na
<1>4. /\ pedidos' = [pedidos EXCEPT ![t] = PedidoDe(t)']
      /\ PedidoDe(t)' = PedidoDe(t) => pedidos' = pedidos
      /\ pedidos[t] = PedidoDe(t)
  BY <1>3, MudaUm, Pedido
<1>5. CASE PedidoDe(t)' = PedidoDe(t)
  BY <1>1, <1>4, <1>5 DEF Servico!vars
<1>6. CASE PedidoDe(t)' # PedidoDe(t) /\ PedidoDe(t)' = "fora"
  BY <1>1, <1>4, <1>6 DEF Servico!Next, Servico!Sai
<1>7. CASE PedidoDe(t)' # PedidoDe(t) /\ PedidoDe(t)' # "fora"
  <2>1. ~(pc'[t] = pc[t] /\ resultado'[t] = resultado[t])
    BY <1>1, <1>7 DEF PedidoDe, Na
  <2>2. pc'[t] # "fora"
    BY <1>7, PedidoDepois
  <2>3. ~Pendente(t) /\ pc[t] # "aguarda" /\ pc'[t] # "aguarda"
    BY <2>1, <2>2, PassoDeUm
  <2>4. PedidoDe(t) \in {"fora", "espera"} /\ PedidoDe(t)' \in {"fora", "espera"}
    BY <2>3, Pedido, PedidoDepois
  <2>5. PedidoDe(t) = "fora" /\ PedidoDe(t)' = "espera" /\ thread # t
    BY <1>7, <2>3, <2>4 DEF Pendente
  <2>6. QED
    BY <1>1, <1>4, <2>5 DEF Servico!Next, Servico!Pede
<1>8. QED
  BY <1>5, <1>6, <1>7

\* Entering the queue is nothing to the service; what is taken from it starts or had been
\* given up; what ends, ends.
LEMMA ServicoComFila ==
  ASSUME UInv, UInv', (\E t \in Tarefas : Enfila(t)) \/ SDKThread
  PROVE  Servico!Next \/ UNCHANGED Servico!vars
<1>r. /\ Ninguem \notin Tarefas /\ Req \subseteq Tarefas
      /\ Desliga \in Tarefas /\ Desliga \notin Req
  BY TarefasAssumption DEF Tarefas
<1>1. ASSUME NEW t \in Tarefas, Enfila(t)
      PROVE  UNCHANGED Servico!vars
  <2>1. /\ thread' = thread /\ encerrou' = encerrou /\ resultado' = resultado /\ thread # t
        /\ pc[t] = "enfila" /\ pc' = [pc EXCEPT ![t] = "aguarda"]
    BY <1>1, FilaComMais DEF Enfila, Na, execucao, processo, Pendente
  <2>2. pc'[t] = "aguarda" /\ \A u \in Tarefas \ {t} : pc'[u] = pc[u]
    BY <2>1 DEF UInv, IInv, TypeOK
  <2>3. resultado[t] = "nada"
    BY <2>1 DEF UInv, TarefaUnica, Na
  <2>4. PedidoDe(t) = "espera" /\ PedidoDe(t)' = "espera"
    BY <2>1, <2>2, <2>3, Pedido, PedidoDepois
  <2>5. \A u \in Tarefas \ {t} : PedidoDe(u)' = PedidoDe(u)
    BY <2>1, <2>2 DEF PedidoDe, Na
  <2>6. pedidos' = pedidos
    BY <2>4, <2>5, MudaUm
  <2>7. QED
    BY <2>1, <2>6 DEF Servico!vars
<1>2. CASE Executa
  <2>1. PICK u \in Tarefas : u = Head(fila) /\ NaFila(u)
    BY <1>2, FilaSemCabeca
  <2>2. /\ thread = Ninguem /\ thread' = u /\ ~Morto(u)
        /\ pc' = pc /\ resultado' = resultado /\ encerrou' = encerrou
    BY <1>2, <2>1 DEF Executa, chamadores, processo
  <2>3. pc[u] = "aguarda" /\ resultado[u] = "nada"
    BY <2>1, <2>2 DEF UInv, TarefaUnica, Pendente, Na
  <2>4. encerrou = "nao"
    <3>1. encerrou # "sim"
      BY <2>1, <2>2, <1>r DEF UInv, IInv, FimDoSDK, Pendente, Morto, Tarefas
    <3>2. QED
      BY <3>1 DEF UInv, IInv, TypeOK
  <2>5. PedidoDe(u) = "espera" /\ PedidoDe(u)' = "executando" /\ pedidos[u] = PedidoDe(u)
    BY <1>r, <2>2, <2>3, Pedido, PedidoDepois
  <2>6. \A v \in Tarefas \ {u} : PedidoDe(v)' = PedidoDe(v)
    BY <1>r, <2>2 DEF PedidoDe, Na
  <2>7. pedidos' = [pedidos EXCEPT ![u] = "executando"]
    BY <2>5, <2>6, MudaUm
  <2>8. QED
    BY <2>2, <2>4, <2>5, <2>7 DEF Servico!Next, Servico!Comeca
<1>3. CASE Descarta
  <2>1. PICK u \in Tarefas : u = Head(fila) /\ NaFila(u)
    BY <1>3, FilaSemCabeca
  <2>2. /\ thread = Ninguem /\ thread' = Ninguem /\ pc' = pc /\ encerrou' = encerrou
        /\ Entrega(u, "cancelado")
    BY <1>3, <2>1 DEF Descarta, chamadores, execucao, processo
  <2>3. resultado[u] = "nada"
    BY <2>1 DEF UInv, TarefaUnica, Pendente
  <2>4. resultado'[u] # "pronto" /\ \A v \in Tarefas \ {u} : resultado'[v] = resultado[v]
    BY <2>2 DEF Entrega, UInv, IInv, TypeOK
  <2>5. PedidoDe(u)' = PedidoDe(u)
    BY <2>2, <2>3, <2>4 DEF PedidoDe, Na
  <2>6. \A v \in Tarefas \ {u} : PedidoDe(v)' = PedidoDe(v)
    BY <2>2, <2>4 DEF PedidoDe, Na
  <2>7. QED
    BY <2>2, <2>5, <2>6, MudaUm DEF Servico!vars
<1>4. CASE Termina \/ TerminaDesliga
  <2>1. PICK u \in Tarefas : u = thread
    BY <1>4, <1>r DEF Termina, TerminaDesliga
  <2>2. /\ thread' = Ninguem /\ pc' = pc /\ Entrega(u, "pronto")
        /\ encerrou' = IF u = Desliga THEN "sim" ELSE encerrou
    BY <1>4, <1>r, <2>1 DEF Termina, TerminaDesliga, chamadores
  <2>3. \A v \in Tarefas \ {u} : PedidoDe(v)' = PedidoDe(v)
    <3>1. \A v \in Tarefas \ {u} : resultado'[v] = resultado[v]
      BY <2>2 DEF Entrega, UInv, IInv, TypeOK
    <3>2. QED
      BY <1>r, <2>1, <2>2, <3>1 DEF PedidoDe, Na
  <2>4. PedidoDe(u)' = IF PedidoDe(u) = "executando" THEN "atendido" ELSE PedidoDe(u)
    <3>1. CASE pc[u] = "aguarda"
      <4>1. resultado'[u] = "pronto"
        BY <2>2, <3>1 DEF Entrega, Na, UInv, IInv, TypeOK
      <4>2. PedidoDe(u) = "executando"
        BY <2>1, <3>1, Pedido
      <4>3. PedidoDe(u)' = "atendido"
        BY <1>r, <2>2, <3>1, <4>1, PedidoDepois
      <4>4. QED
        BY <4>2, <4>3
    <3>2. CASE pc[u] # "aguarda"
      <4>1. PedidoDe(u) # "executando" /\ PedidoDe(u)' = PedidoDe(u)
        BY <2>2, <3>2, Pedido, PedidoDepois
      <4>2. QED
        BY <4>1
    <3>3. QED
      BY <3>1, <3>2
  <2>5. pedidos' = [pedidos EXCEPT ![u] = PedidoDe(u)'] /\ pedidos[u] = PedidoDe(u)
    BY <2>3, MudaUm, Pedido
  <2>6. pedidos' = [pedidos EXCEPT ![u] = IF @ = "executando" THEN "atendido" ELSE @]
    BY <2>4, <2>5
  <2>7. QED
    BY <2>1, <2>2, <2>6 DEF Servico!Next, Servico!Termina
<1>5. QED
  BY <1>1, <1>2, <1>3, <1>4 DEF SDKThread

\* The queue, with its abandoned tasks and its shutdown, is an implementation of the service.
THEOREM Implementa == Spec => ImplementaServico
<1>1. Init => Servico!Init
  BY DEF Init, Servico!Init, pedidos, PedidoDe, Na
<1>2. ASSUME UInv, UInv', Next
      PROVE  Servico!Next \/ UNCHANGED Servico!vars
  BY <1>2, ServicoSemFila, ServicoComFila DEF Next, NaThreadSDK, SemFila
<1>3. ASSUME UNCHANGED vars
      PROVE  UNCHANGED Servico!vars
  BY <1>3 DEF vars, chamadores, execucao, processo, Servico!vars, pedidos, PedidoDe, Na
<1>4. UInv /\ UInv' /\ [Next]_vars => [Servico!Next]_(Servico!vars)
  BY <1>2, <1>3
<1>5. QED
  BY <1>1, <1>4, UnicaSempre, PTL DEF Spec, ImplementaServico, Servico!Spec

=============================================================================
