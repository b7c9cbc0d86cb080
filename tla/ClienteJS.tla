------------------------------ MODULE ClienteJS ------------------------------
(***************************************************************************)
(* The browser client (integra-biometria.js) of one page, with several      *)
(* operations at the same time, and the agent of the user's session: it     *)
(* dies and starts again with another secret and perhaps on another port,   *)
(* loses connections half way, answers the discovery late, and has the      *)
(* page's origin approved or revoked by its user.                           *)
(*                                                                          *)
(* JavaScript runs between two awaits without interruption: storing what    *)
(* the discovery found and sending the operation again are one step.        *)
(*                                                                          *)
(* External: fetch.  A request with a token or a JSON body is preceded by   *)
(* a preflight, and a preflight refused looks like a connection that        *)
(* failed.  A port without the agent of this session is closed, or belongs  *)
(* to the agent of another session, which may know the page's origin.       *)
(***************************************************************************)
EXTENDS Naturals

CONSTANTS
  Op,
  Tipos,    \* what each may be: "captura", "comparacao" (with a JSON body) or "conexao"
  Agente,   \* the lives of the agent; each is known by the secret it drew
  Portas    \* the ports the discovery tries, 1 .. Portas

ASSUME ClienteJSAssumption ==
  /\ Tipos \in [Op -> SUBSET {"captura", "comparacao", "conexao"}]
  /\ Portas \in Nat \ {0}

VARIABLES
  vivo, porta, \* the agent that runs, or "nenhum", and its port
  autorizada,  \* the page's origin
  token,       \* sessionStorage: the secret, or "nenhum"
  endereco,    \* localStorage: the port
  pc,          \* each operation: "fora", "indo" and "executa" (its request), "voltou", "varre" (a
               \* hello of descobrir), "achou" (its answer), "aguarda" (the user), "fim"
  tipo,        \* what it is
  tenta,       \* 1, or 2 after tentaComReconexao sent it again
  leva,        \* the secret the request carries, or the one hello answered
  alvo,        \* the port of the request or of hello
  resp,        \* what came back: "ok" (an answer of the operation itself), "401", "403", "rede",
               \* "vazia" (a 200 whose body was lost)
  erro,        \* the error tentaComReconexao caught, or "nenhum"
  execs,       \* how many times the agent executed it
  ruido        \* history: since it began something failed around it ("sim")

agente == <<vivo, porta, autorizada>>
pagina == <<token, endereco>>
oper == <<pc, tipo, tenta, leva, alvo, resp, erro, execs, ruido>>
vars == <<agente, pagina, oper>>

Init ==
  /\ vivo = "nenhum" /\ porta = 1 /\ autorizada = "nao"
  /\ token = "nenhum" /\ endereco = 1
  /\ pc = [o \in Op |-> "fora"] /\ tipo = [o \in Op |-> "captura"]
  /\ tenta = [o \in Op |-> 1] /\ leva = [o \in Op |-> "nenhum"] /\ alvo = [o \in Op |-> 1]
  /\ resp = [o \in Op |-> "nada"] /\ erro = [o \in Op |-> "nenhum"]
  /\ execs = [o \in Op |-> 0] /\ ruido = [o \in Op |-> "nao"]

Alcanca(o) == vivo # "nenhum" /\ porta = alvo[o]

\* requisicao: what the page knows goes with the request.
Requisita(o, n, t, p) ==
  /\ pc' = [pc EXCEPT ![o] = "indo"]
  /\ tenta' = [tenta EXCEPT ![o] = n]
  /\ leva' = [leva EXCEPT ![o] = t] /\ alvo' = [alvo EXCEPT ![o] = p]
  /\ resp' = [resp EXCEPT ![o] = "nada"]

\* descobrir.
Varre(o) ==
  /\ pc' = [pc EXCEPT ![o] = "varre"] /\ alvo' = [alvo EXCEPT ![o] = 1]
  /\ leva' = [leva EXCEPT ![o] = "nenhum"] /\ resp' = [resp EXCEPT ![o] = "nada"]
  /\ UNCHANGED tenta

Simples(x, t) == t = "nenhum" /\ x = "captura"

\* The agent runs, its user approved the page, and the request is to go to it or is one whose
\* refusal by another session's agent the client can tell from a refusal for good.
BemComecada(x) ==
  /\ vivo # "nenhum" /\ autorizada = "sim"
  /\ Simples(x, token) => porta = endereco

\* capturar, enroll, comparar, identificar; garantirConexao, which asks for a ping first when
\* the page has a secret.
Pede(o) ==
  /\ pc[o] = "fora"
  /\ \E x \in Tipos[o] :
       /\ tipo' = [tipo EXCEPT ![o] = x]
       /\ ruido' = [ruido EXCEPT ![o] = IF BemComecada(x) THEN "nao" ELSE "sim"]
       /\ IF x = "conexao" /\ token = "nenhum" THEN Varre(o)
                                               ELSE Requisita(o, 1, token, endereco)
  /\ UNCHANGED <<agente, pagina, erro, execs>>

Volta(o, r) ==
  /\ pc' = [pc EXCEPT ![o] = "voltou"] /\ resp' = [resp EXCEPT ![o] = r]
  /\ leva' = [leva EXCEPT ![o] = "nenhum"]

\* A closed port, or the middleware of an agent: the origin, then the secret.
Recusa(o) ==
  /\ pc[o] = "indo"
  /\ \/ ~Alcanca(o) /\ (Volta(o, "rede") \/ Volta(o, "401"))
     \/ /\ ~Alcanca(o) \/ autorizada = "nao"
        /\ Volta(o, IF Simples(tipo[o], leva[o]) THEN "403" ELSE "rede")
     \/ Alcanca(o) /\ autorizada = "sim" /\ leva[o] # vivo /\ Volta(o, "401")
  /\ UNCHANGED <<agente, pagina, tipo, tenta, alvo, erro, execs, ruido>>

Executa(o) ==
  /\ pc[o] = "indo" /\ Alcanca(o) /\ autorizada = "sim" /\ leva[o] = vivo
  /\ tipo[o] # "conexao"
  /\ pc' = [pc EXCEPT ![o] = "executa"]
  /\ execs' = [execs EXCEPT ![o] = @ + 1]
  /\ UNCHANGED <<agente, pagina, tipo, tenta, leva, alvo, resp, erro, ruido>>

\* What the agent is to answer: an operation it executes, or a ping.
Atende(o) ==
  \/ pc[o] = "executa"
  \/ pc[o] = "indo" /\ tipo[o] = "conexao" /\ Alcanca(o) /\ autorizada = "sim" /\ leva[o] = vivo

Responde(o) ==
  /\ Atende(o) /\ Volta(o, "ok")
  /\ UNCHANGED <<agente, pagina, tipo, tenta, alvo, erro, execs, ruido>>

\* A connection lost with the request or its answer on the way.  When only the body is, respostaJSON
\* reads nothing of it, and says so of an answer that is not an error.
Perde(o) ==
  /\ \/ pc[o] \in {"indo", "executa"} /\ Volta(o, "rede")
     \/ Atende(o) /\ Volta(o, "vazia")
  /\ ruido' = [ruido EXCEPT ![o] = "sim"]
  /\ UNCHANGED <<agente, pagina, tipo, tenta, alvo, erro, execs>>

Fim(o, r) ==
  /\ pc' = [pc EXCEPT ![o] = "fim"] /\ resp' = [resp EXCEPT ![o] = r]
  /\ leva' = [leva EXCEPT ![o] = "nenhum"] /\ UNCHANGED <<tenta, alvo>>

\* What makes the page discover: for garantirConexao, whatever is not the pong.
Reconectavel(o) ==
  IF tipo[o] = "conexao" THEN resp[o] # "ok" ELSE resp[o] \in {"401", "rede"} /\ tenta[o] = 1

\* The operation is tried again after every error that a discovery may cure.
Recebe_defeito(o) ==
  /\ pc[o] = "voltou"
  /\ token' = IF resp[o] = "401" THEN "nenhum" ELSE token
  /\ IF resp[o] # "ok" /\ resp[o] # "403"
       THEN Varre(o) /\ erro' = [erro EXCEPT ![o] = resp[o]]
       ELSE Fim(o, resp[o]) /\ UNCHANGED erro
  /\ UNCHANGED <<agente, endereco, tipo, execs, ruido>>

\* respostaJSON, erroToken and the catch of tentaComReconexao: the first time, discover.
Recebe(o) ==
  /\ pc[o] = "voltou"
  /\ token' = IF resp[o] = "401" THEN "nenhum" ELSE token
  /\ IF Reconectavel(o)
       THEN Varre(o) /\ erro' = [erro EXCEPT ![o] = resp[o]]
       ELSE Fim(o, resp[o]) /\ UNCHANGED erro
  /\ UNCHANGED <<agente, endereco, tipo, execs, ruido>>

\* What hello gets from the agent; a port without it, an answer after 700 ms and one refused
\* before the session is known are nothing.
Hello(o) ==
  /\ pc[o] = "varre"
  /\ pc' = [pc EXCEPT ![o] = "achou"]
  /\ \/ /\ Alcanca(o)
        /\ resp' = [resp EXCEPT ![o] = IF autorizada = "sim" THEN "ok" ELSE "pendente"]
        /\ leva' = [leva EXCEPT ![o] = IF autorizada = "sim" THEN vivo ELSE "nenhum"]
        /\ UNCHANGED ruido
     \/ /\ resp' = [resp EXCEPT ![o] = "nada"]
        /\ ruido' = [ruido EXCEPT ![o] = IF Alcanca(o) THEN "sim" ELSE @]
        /\ UNCHANGED leva
  /\ UNCHANGED <<agente, pagina, tipo, tenta, alvo, erro, execs>>

\* The operation goes again with what it carried before.
Conecta_defeito(o) ==
  /\ resp[o] = "ok"
  /\ token' = leva[o] /\ endereco' = alvo[o]
  /\ IF tipo[o] = "conexao" THEN Fim(o, "ok") ELSE Requisita(o, 2, token, alvo[o])

\* conecta; then the operation again with what it stored.
Conecta(o) ==
  /\ resp[o] = "ok"
  /\ token' = leva[o] /\ endereco' = alvo[o]
  /\ IF tipo[o] = "conexao" THEN Fim(o, "ok") ELSE Requisita(o, 2, leva[o], alvo[o])

\* descobrir found nothing: without a secret the error caught is thrown again, and
\* garantirConexao says whether there is one.
Desiste(o) ==
  /\ \/ token = "nenhum" /\ Fim(o, IF tipo[o] = "conexao" THEN "nada" ELSE erro[o])
     \/ token # "nenhum" /\ tipo[o] = "conexao" /\ Fim(o, "ok")
     \/ token # "nenhum" /\ tipo[o] # "conexao" /\ Requisita(o, 2, token, endereco)
  /\ UNCHANGED pagina

\* The loop of descobrir.
Acha(o) ==
  /\ pc[o] = "achou"
  /\ \/ Conecta(o)
     \/ /\ resp[o] = "pendente"
        /\ pc' = [pc EXCEPT ![o] = "aguarda"]
        /\ endereco' = alvo[o]
        /\ UNCHANGED <<token, tenta, leva, alvo, resp>>
     \/ /\ resp[o] = "nada" /\ alvo[o] < Portas
        /\ pc' = [pc EXCEPT ![o] = "varre"] /\ alvo' = [alvo EXCEPT ![o] = @ + 1]
        /\ UNCHANGED <<pagina, tenta, leva, resp>>
     \/ resp[o] = "nada" /\ alvo[o] = Portas /\ Desiste(o)
  /\ UNCHANGED <<agente, tipo, erro, execs, ruido>>

\* The user's decision is waited for however long it takes.
Aguarda_defeito(o) ==
  /\ pc[o] = "aguarda"
  /\ Alcanca(o) /\ autorizada = "sim" /\ resp' = [resp EXCEPT ![o] = "ok"]
  /\ leva' = [leva EXCEPT ![o] = vivo]
  /\ pc' = [pc EXCEPT ![o] = "achou"]
  /\ UNCHANGED <<agente, pagina, tipo, tenta, alvo, erro, execs, ruido>>

\* aguardaAutorizacao: a hello a second, always of the same port, until the user decides or the
\* minute is over.
Aguarda(o) ==
  /\ pc[o] = "aguarda"
  /\ \/ Alcanca(o) /\ autorizada = "sim" /\ resp' = [resp EXCEPT ![o] = "ok"]
        /\ leva' = [leva EXCEPT ![o] = vivo]
        /\ pc' = [pc EXCEPT ![o] = "achou"]
        /\ UNCHANGED <<tenta, alvo, pagina>>
     \/ Desiste(o)
  /\ UNCHANGED <<agente, tipo, erro, execs, ruido>>

\* The page has the result, and calls again later.
Usa(o) ==
  /\ pc[o] = "fim" /\ pc' = [pc EXCEPT ![o] = "fora"] /\ tipo' = [tipo EXCEPT ![o] = "captura"]
  /\ tenta' = [tenta EXCEPT ![o] = 1] /\ alvo' = [alvo EXCEPT ![o] = 1]
  /\ resp' = [resp EXCEPT ![o] = "nada"] /\ erro' = [erro EXCEPT ![o] = "nenhum"]
  /\ execs' = [execs EXCEPT ![o] = 0] /\ ruido' = [ruido EXCEPT ![o] = "nao"]
  /\ UNCHANGED <<agente, pagina, leva>>

----------------------------------------------------------------------------
(* The agent.                                                               *)

RuidoParaTodas ==
  ruido' = [o \in Op |-> IF pc[o] \in {"fora", "fim"} THEN ruido[o] ELSE "sim"]

\* The end of the agent: what it was executing comes to nothing.
Morre ==
  /\ vivo # "nenhum" /\ vivo' = "nenhum" /\ porta' = 1
  /\ pc' = [o \in Op |-> IF pc[o] = "executa" THEN "voltou" ELSE pc[o]]
  /\ resp' = [o \in Op |-> IF pc[o] = "executa" THEN "rede" ELSE resp[o]]
  /\ leva' = [o \in Op |-> IF pc[o] = "executa" THEN "nenhum" ELSE leva[o]]
  /\ RuidoParaTodas
  /\ UNCHANGED <<autorizada, pagina, tipo, tenta, alvo, erro, execs>>

\* Bound: a secret that nobody remembers may be drawn again.
Esquecido(a) == a # token /\ \A o \in Op : leva[o] # a

\* executa: escolheListener takes a port that is free, geraToken draws the secret.
Nasce ==
  /\ vivo = "nenhum"
  /\ \E a \in Agente : Esquecido(a) /\ vivo' = a
  /\ porta' \in 1 .. Portas
  /\ UNCHANGED <<autorizada, pagina, oper>>

\* aprova and revogaTodas.
Decide ==
  /\ vivo # "nenhum"
  /\ \/ autorizada = "nao" /\ autorizada' = "sim" /\ UNCHANGED ruido
     \/ autorizada = "sim" /\ autorizada' = "nao" /\ RuidoParaTodas
  /\ UNCHANGED <<vivo, porta, pagina, pc, tipo, tenta, leva, alvo, resp, erro, execs>>

PassoDaPagina(o) ==
  \/ Recusa(o) \/ Executa(o) \/ Responde(o) \/ Recebe(o) \/ Hello(o) \/ Acha(o) \/ Aguarda(o)

Next ==
  \/ \E o \in Op : Pede(o) \/ PassoDaPagina(o) \/ Perde(o) \/ Usa(o)
  \/ Morre \/ Nasce \/ Decide

\* The browser runs its tasks, ports answer or are given up, the agent's server answers or closes
\* (WriteTimeout), and the minute of aguardaAutorizacao passes.
Fairness == \A o \in Op : WF_vars(PassoDaPagina(o))

Spec == Init /\ [][Next]_vars /\ Fairness

----------------------------------------------------------------------------
TypeOK ==
  /\ vivo \in Agente \cup {"nenhum"} /\ porta \in 1 .. Portas /\ autorizada \in {"sim", "nao"}
  /\ token \in Agente \cup {"nenhum"} /\ endereco \in 1 .. Portas
  /\ pc \in [Op -> {"fora", "indo", "executa", "voltou", "varre", "achou", "aguarda", "fim"}]
  /\ tipo \in [Op -> {"captura", "comparacao", "conexao"}] /\ tenta \in [Op -> {1, 2}]
  /\ leva \in [Op -> Agente \cup {"nenhum"}] /\ alvo \in [Op -> 1 .. Portas]
  /\ resp \in [Op -> {"nada", "ok", "pendente", "401", "403", "rede", "vazia"}]
  /\ erro \in [Op -> {"nenhum", "401", "403", "rede", "vazia"}]
  /\ execs \in [Op -> 0 .. 2] /\ ruido \in [Op -> {"sim", "nao"}]

\* The agent executes an operation of the page at most twice, and twice only when the connection
\* of the first was lost (integra-biometria.js:103-112): a 401 never asks for a finger again.
RepeteSoSePerdeu ==
  \A o \in Op : execs[o] <= 2 /\ (execs[o] = 2 => erro[o] = "rede")

\* An operation that begins with the agent running and the origin approved, and around which
\* nothing fails, ends with an answer, whatever the page remembered and whatever other
\* operations discover, store or forget meanwhile (integra-biometria.js:36-112, 144-189).  Out
\* of it stays a capture by a page that never connected, sent to another session's agent.
SemRuidoResponde == \A o \in Op : pc[o] = "fim" /\ ruido[o] = "nao" => resp[o] = "ok"

\* Every operation ends (integra-biometria.js:103-189), even with an agent that dies at every try.
OperacaoTermina == \A o \in Op : pc[o] # "fora" ~> pc[o] = "fim"
=============================================================================
