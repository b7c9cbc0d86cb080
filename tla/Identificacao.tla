--------------------------- MODULE Identificacao ---------------------------
(***************************************************************************)
(* A request to /identificar, from its body to its answer: what the handler *)
(* checks and leaves out (handleIdentificar, main.go), the search the       *)
(* worker makes over the rest (NBio), and the answer put together from both.*)
(* The worker serves the other operations meanwhile, and other callers of   *)
(* identifica hand it lists that nobody filtered.  With a comparator        *)
(* (delegacao.go) the search is the same handler's in another process,      *)
(* which is given what this one kept and answers ids; it is not modelled.   *)
(***************************************************************************)
EXTENDS NBio, FiniteSets

CONSTANTS
  Id,      \* candidate ids
  SemId,   \* an id that is missing or too long
  Corpos   \* the bodies clients send

Candidatos == [id : Id, classe : Classes]

ASSUME CorposAssumption == SemId \in Id /\ Corpos \subseteq Seq(Candidatos)

VARIABLES
  corpo,   \* the candidates of the request being served
  etapa,   \* where its handler is: "livre", "worker", "responde"
  resposta \* the last answer

handler == <<corpo, etapa, resposta>>

Resposta == [status : {"nenhuma", "400", "422", "502", "200"}, id : Id \cup {0},
             ignorados : SUBSET Id]

SemCorpo(s) == [status |-> s, id |-> 0, ignorados |-> {}]

InitIdentificacao ==
  Init /\ corpo = <<>> /\ etapa = "livre" /\ resposta = SemCorpo("nenhuma")

Ids(c) == {c[k].id : k \in DOMAIN c}

\* No candidate, or an id that is missing, too long or repeated: defects of the caller.
Aceito(c) == c # <<>> /\ SemId \notin Ids(c) /\ Cardinality(Ids(c)) = Len(c)

\* validos of the handler, after each turn of its loop over the candidates, and ignorados.
ValidosAte(c) ==
  LET f[n \in 0..Len(c)] ==
        IF n = 0 THEN <<>>
        ELSE IF c[n].classe = "ilegivel" THEN f[n - 1] ELSE Append(f[n - 1], c[n])
  IN  f
Validos(c) == ValidosAte(c)[Len(c)]
ClassesDe(c) == [k \in DOMAIN Validos(c) |-> Validos(c)[k].classe]
Ilegiveis(c) == {c[k].id : k \in {m \in DOMAIN c : c[m].classe = "ilegivel"}}

\* No worker is asked.  Any body may also bring a template to compare that is no template, or too
\* many candidates (400), and any request be given up before its turn or find no DLL (502).
Recusa ==
  /\ etapa = "livre" /\ UNCHANGED <<etapa, vars>>
  /\ \E s \in {"400", "502"} : resposta' = SemCorpo(s) /\ corpo' = <<>>

\* The bodies that pass the checks of the handler.
Aceitos == {c \in Corpos : Aceito(c)}

\* handleIdentificar until it asks the worker, for a body that passes its checks.
Recebe(c) ==
  /\ etapa = "livre"
  /\ \/ /\ Validos(c) = <<>>
        /\ resposta' = SemCorpo("422") /\ corpo' = <<>> /\ UNCHANGED <<etapa, vars>>
     \/ /\ pc = "parado" /\ Validos(c) # <<>>
        /\ Pede("identifica", ClassesDe(c))
        /\ etapa' = "worker" /\ corpo' = c /\ resposta' = SemCorpo("nenhuma")

\* The id is taken from the body by the position the search gave.
Responde_defeito ==
  /\ etapa = "worker" /\ pc = "parado"
  /\ etapa' = "livre"
  /\ resposta' =
       IF fim # "ok" THEN SemCorpo("502")
       ELSE [status |-> "200",
             id |-> IF quem = 0 THEN 0 ELSE corpo[quem].id,
             ignorados |-> Ilegiveis(corpo) \cup {corpo[k].id : k \in ignorados}]
  /\ UNCHANGED <<corpo, vars>>

\* The rest of the handler: 502, or the id found and everyone left out on either side.
Responde ==
  /\ etapa = "worker" /\ pc = "parado"
  /\ etapa' = "livre"
  /\ resposta' =
       IF fim # "ok" THEN SemCorpo("502")
       ELSE [status |-> "200",
             id |-> IF quem = 0 THEN 0 ELSE Validos(corpo)[quem].id,
             ignorados |-> Ilegiveis(corpo) \cup {Validos(corpo)[k].id : k \in ignorados}]
  /\ UNCHANGED <<corpo, vars>>

\* The four minutes pass, or the client leaves: 502, and the worker goes on with the search.
Desiste ==
  /\ etapa = "worker" /\ etapa' = "livre"
  /\ resposta' = SemCorpo("502") /\ corpo' = <<>>
  /\ UNCHANGED vars

NextIdentificacao ==
  \/ Recusa \/ \E c \in Aceitos : Recebe(c)
  \/ /\ etapa = "livre" /\ PedeAlgo
     /\ corpo' = <<>> /\ resposta' = SemCorpo("nenhuma") /\ UNCHANGED etapa
  \/ Passo /\ UNCHANGED handler
  \/ Responde \/ Desiste

SpecIdentificacao == InitIdentificacao /\ [][NextIdentificacao]_<<vars, handler>>

----------------------------------------------------------------------------
TypeOKIdentificacao ==
  /\ TypeOK /\ corpo \in Seq(Candidatos)
  /\ etapa \in {"livre", "worker"} /\ resposta \in Resposta

\* The position of the first candidate of the body that matches, 0 if none does.
PrimeiroQueConfere ==
  LET certos == {k \in DOMAIN corpo : corpo[k].classe = "confere"}
  IN  IF certos = {} THEN 0 ELSE CHOOSE k \in certos : \A m \in certos : k <= m

\* The answer speaks of the body the client sent (main.go:517-582): the id is the one of its
\* first candidate that matches, and the ids left out are those of every unreadable record and
\* of the tampered ones before the match.
RespostaDoCorpo ==
  etapa = "livre" /\ resposta.status = "200" =>
    LET p == PrimeiroQueConfere
        ate == IF p = 0 THEN Len(corpo) ELSE p
    IN  /\ resposta.id = IF p = 0 THEN 0 ELSE corpo[p].id
        /\ resposta.ignorados =
             Ilegiveis(corpo) \cup
             {corpo[k].id : k \in {m \in 1..ate : corpo[m].classe = "adulterado"}}

\* What the search says of the list it went through, once it returned.
Achou(l) ==
  IF quem = 0
    THEN /\ \A k \in DOMAIN l : l[k] # "confere"
         /\ ignorados = {k \in DOMAIN l : l[k] \in {"ilegivel", "adulterado"}}
    ELSE /\ quem \in DOMAIN l /\ l[quem] = "confere"
         /\ \A k \in 1..(quem - 1) : l[k] # "confere"
         /\ ignorados = {k \in 1..quem : l[k] \in {"ilegivel", "adulterado"}}

\* Until the handler answers, the worker is at the candidates it was given, or has searched
\* them, and nobody else asks anything.
PedidoDoCorpo ==
  etapa = "worker" =>
    /\ pc # "parado" => op = "identifica" /\ lista = ClassesDe(corpo)
    /\ pc = "parado" /\ fim = "ok" => Achou(ClassesDe(corpo))
=============================================================================
