------------------------------ MODULE Origens ------------------------------
(***************************************************************************)
(* The web origins that may use the agent: gerenciadorOrigens (origins.go),*)
(* its file, and the tray menu where the user decides about those that ask *)
(* (gerenciaMenuOrigens, main.go).                                         *)
(*                                                                         *)
(* A page that asks (/hello) leaves its origin pending and tells the menu, *)
(* without waiting for it.  A click travels through a goroutine of its     *)
(* item to the menu's; only the menu's goroutine approves and revokes, and *)
(* it writes the file while it holds the mutex.  The agent may end at any  *)
(* step and starts again from the file, or from nothing when it cannot     *)
(* read it.  An agent in another session of the same user saves its own    *)
(* origins in the same file at any time; how two of them mix is Pasta's.   *)
(***************************************************************************)
EXTENDS Naturals, Sequences, FiniteSets

CONSTANTS
  Origem,        \* origins that ask
  Predefinidas,  \* those of CORS_ORIGEM and SISTEMA_URL
  Hello,         \* concurrent requests to /hello
  Nenhuma,       \* a request that has no origin to send
  MaxPendentes,  \* maxOrigensPendentes (8), also the capacity of novas
  MaxCliques     \* bound: clicks on one origin waiting for the menu

ASSUME OrigensAssumption == Predefinidas \subseteq Origem /\ Nenhuma \notin Origem
ASSUME LimitesAssumption == MaxPendentes \in Nat \ {0} /\ MaxCliques \in Nat \ {0}

VARIABLES
  aprovadas,  \* g.aprovadas
  pendentes,  \* the keys of g.pendentes
  velhas,     \* those of them that are validadePendente old
  envia,      \* what each request is about to send, between Unlock and the select
  novas,      \* the channel to the menu
  itens,      \* the items: "sem", "aberto" (a goroutine listens), "clicado" (it got a click)
  decisoes,   \* clicks not read yet, by origin: in a goroutine's hands, or in the channel
  menu,       \* the menu's goroutine: "fora" (before onReady), "select", "aprova" and
              \* "revoga" (writing the file, under the mutex), "limpa"
  arquivo,    \* origens-autorizadas.json
  difere,     \* history: the last write of this process failed, its start could not read the
              \* file, or another session saved since ("sim", "nao")
  clicadas,   \* history: origins clicked since the last revocation the file knows, here or in
              \* the session that saved them
  perdidas    \* history: pending origins a full channel did not take

memoria  == <<aprovadas, pendentes, velhas>>
bandeja  == <<itens, decisoes, menu>>
historia == <<difere, clicadas, perdidas>>
vars == <<memoria, envia, novas, bandeja, arquivo, historia>>

\* The mutex.  Whoever else takes it takes it for one step.
Livre == menu \notin {"aprova", "revoga"}

EmCanal(o) == \E i \in DOMAIN novas : novas[i] = o

\* The menu is going to hear of o, or the channel did not take it.
Avisado(o) == EmCanal(o) \/ o \in perdidas \/ \E h \in Hello : envia[h] = o

Init ==
  /\ aprovadas = {} /\ arquivo = {} /\ clicadas = {}
  /\ pendentes = {} /\ velhas = {} /\ novas = <<>>
  /\ envia = [h \in Hello |-> Nenhuma]
  /\ itens = [o \in Origem |-> "sem"] /\ decisoes = [o \in Origem |-> 0] /\ menu = "fora"
  /\ difere = "nao" /\ perdidas = {}

----------------------------------------------------------------------------
\* The requests.  The operators named ..._defeito are mistakes a change could make in the
\* definition that follows each of them; no action uses them.

\* What solicita leaves pending of what was: the old ones go whoever asks.
Vivas == pendentes \ velhas

Nova(o) == /\ o \notin Predefinidas \cup aprovadas \cup Vivas
           /\ Cardinality(Vivas) < MaxPendentes

\* solicita under the mutex.  Known, pending or one too many: answered and nothing is sent.
Solicita(h, o) ==
  /\ Livre /\ envia[h] = Nenhuma
  /\ pendentes' = IF Nova(o) THEN Vivas \cup {o} ELSE Vivas
  /\ velhas' = {}
  /\ envia' = [envia EXCEPT ![h] = IF Nova(o) THEN o ELSE Nenhuma]
  /\ perdidas' = perdidas \cap Vivas
  /\ UNCHANGED <<aprovadas, novas, bandeja, arquivo, difere, clicadas>>

\* Its select, after Unlock: the menu is told, or the channel is full and it is not.
Avisa(h) ==
  /\ envia[h] # Nenhuma
  /\ IF Len(novas) < MaxPendentes
       THEN novas' = Append(novas, envia[h]) /\ perdidas' = perdidas \ {envia[h]}
       ELSE perdidas' = perdidas \cup {envia[h]} /\ UNCHANGED novas
  /\ envia' = [envia EXCEPT ![h] = Nenhuma]
  /\ UNCHANGED <<memoria, bandeja, arquivo, difere, clicadas>>

\* Ten minutes: the next solicita drops it.
Envelhece(o) ==
  /\ o \in Vivas
  /\ velhas' = velhas \cup {o}
  /\ UNCHANGED <<aprovadas, pendentes, envia, novas, bandeja, arquivo, historia>>

----------------------------------------------------------------------------
\* The menu.

\* onReady starts its goroutine.
BandejaPronta ==
  /\ menu = "fora"
  /\ menu' = "select"
  /\ UNCHANGED <<memoria, envia, novas, itens, decisoes, arquivo, historia>>

\* The user clicks an item: its goroutine ends with this click, and no other is heard.
Clica(o) ==
  /\ itens[o] = "aberto" /\ decisoes[o] < MaxCliques
  /\ itens' = [itens EXCEPT ![o] = "clicado"]
  /\ decisoes' = [decisoes EXCEPT ![o] = @ + 1]
  /\ clicadas' = clicadas \cup {o}
  /\ UNCHANGED <<memoria, envia, novas, menu, arquivo, difere, perdidas>>

\* One prompt at a time.
RecebeNova_defeito ==
  /\ menu = "select" /\ novas # <<>>
  /\ itens' = IF \E o \in Origem : itens[o] = "aberto" THEN itens
              ELSE [itens EXCEPT ![Head(novas)] = "aberto"]
  /\ novas' = Tail(novas)
  /\ UNCHANGED <<memoria, envia, decisoes, menu, arquivo, historia>>

RecebeNova ==
  /\ menu = "select" /\ novas # <<>>
  /\ itens' = [itens EXCEPT ![Head(novas)] = IF @ = "sem" THEN "aberto" ELSE @]
  /\ novas' = Tail(novas)
  /\ UNCHANGED <<memoria, envia, decisoes, menu, arquivo, historia>>

\* aprova changes the maps and leaves the file to whoever revokes.
DecideSemGravar_defeito(o) ==
  /\ menu = "select" /\ decisoes[o] > 0
  /\ decisoes' = [decisoes EXCEPT ![o] = @ - 1]
  /\ itens' = [itens EXCEPT ![o] = "sem"]
  /\ aprovadas' = aprovadas \cup {o}
  /\ pendentes' = pendentes \ {o} /\ velhas' = velhas \ {o}
  /\ UNCHANGED <<envia, novas, menu, arquivo, historia>>

\* Only a request that is still pending can be approved.
Decide_defeito(o) ==
  /\ menu = "select" /\ decisoes[o] > 0 /\ o \in pendentes
  /\ decisoes' = [decisoes EXCEPT ![o] = @ - 1]
  /\ itens' = [itens EXCEPT ![o] = "sem"]
  /\ aprovadas' = aprovadas \cup {o}
  /\ pendentes' = pendentes \ {o} /\ velhas' = velhas \ {o}
  /\ menu' = "aprova"
  /\ UNCHANGED <<envia, novas, arquivo, historia>>

\* The item goes, and aprova changes the maps.
Decide(o) ==
  /\ menu = "select" /\ decisoes[o] > 0
  /\ decisoes' = [decisoes EXCEPT ![o] = @ - 1]
  /\ itens' = [itens EXCEPT ![o] = "sem"]
  /\ aprovadas' = aprovadas \cup {o}
  /\ pendentes' = pendentes \ {o} /\ velhas' = velhas \ {o}
  /\ menu' = "aprova"
  /\ UNCHANGED <<envia, novas, arquivo, historia>>

\* The pending ones are forgotten by the menu only.
Revoga_defeito ==
  /\ menu = "select"
  /\ aprovadas' = {}
  /\ menu' = "revoga"
  /\ UNCHANGED <<pendentes, velhas, envia, novas, itens, decisoes, arquivo, historia>>

\* revogaTodas.  The click is heard only while the goroutine is at its select.
Revoga ==
  /\ menu = "select"
  /\ aprovadas' = {} /\ pendentes' = {} /\ velhas' = {}
  /\ menu' = "revoga"
  /\ UNCHANGED <<envia, novas, itens, decisoes, arquivo, historia>>

\* An empty list is not worth a file.
Grava_defeito ==
  /\ ~Livre
  /\ arquivo' = IF aprovadas = {} THEN arquivo ELSE aprovadas
  /\ difere' = "nao"
  /\ clicadas' = IF menu = "revoga" THEN {o \in Origem : decisoes[o] > 0} ELSE clicadas
  /\ menu' = IF menu = "revoga" THEN "limpa" ELSE "select"
  /\ UNCHANGED <<memoria, envia, novas, itens, decisoes, perdidas>>

\* salvaBloqueado and Unlock.  What the user clicked before revoking and the menu has not
\* read yet is still to be decided.
Grava ==
  /\ ~Livre
  /\ arquivo' = aprovadas /\ difere' = "nao"
  /\ clicadas' = IF menu = "revoga" THEN {o \in Origem : decisoes[o] > 0} ELSE clicadas
  /\ menu' = IF menu = "revoga" THEN "limpa" ELSE "select"
  /\ UNCHANGED <<memoria, envia, novas, itens, decisoes, perdidas>>

\* A write that fails goes to the log: the maps keep what they have.
GravaFalha ==
  /\ ~Livre
  /\ difere' = "sim"
  /\ menu' = IF menu = "revoga" THEN "limpa" ELSE "select"
  /\ UNCHANGED <<memoria, envia, novas, itens, decisoes, arquivo, clicadas, perdidas>>

\* The agent of another session saves its whole memory, in this one's sight or between two
\* lives of it.
OutraSessao(s) ==
  /\ arquivo' = s /\ difere' = "sim"
  /\ clicadas' = clicadas \cup s
  /\ UNCHANGED <<memoria, envia, novas, bandeja, perdidas>>

\* After revogaTodas: the items and their goroutines go, clicks already taken do not.
Limpa ==
  /\ menu = "limpa"
  /\ itens' = [o \in Origem |-> "sem"]
  /\ menu' = "select"
  /\ UNCHANGED <<memoria, envia, novas, decisoes, arquivo, historia>>

----------------------------------------------------------------------------
\* The process ends, by "Sair" or by any failure, and another one starts: carrega, which
\* takes a file it cannot read or parse for an empty one and says nothing.  MoveFileEx
\* replaces the file whole.
Reinicia ==
  /\ aprovadas' \in {arquivo, {}} /\ pendentes' = {} /\ velhas' = {}
  /\ envia' = [h \in Hello |-> Nenhuma] /\ novas' = <<>>
  /\ itens' = [o \in Origem |-> "sem"] /\ decisoes' = [o \in Origem |-> 0] /\ menu' = "fora"
  /\ difere' = (IF aprovadas' = arquivo THEN "nao" ELSE "sim") /\ perdidas' = {}
  /\ clicadas' = clicadas \cap arquivo
  /\ UNCHANGED arquivo

Menu == RecebeNova \/ (\E o \in Origem : Decide(o)) \/ Grava \/ GravaFalha \/ Limpa

Next ==
  \/ \E h \in Hello : Avisa(h) \/ \E o \in Origem : Solicita(h, o)
  \/ \E o \in Origem : Envelhece(o) \/ Clica(o)
  \/ BandejaPronta \/ Revoga \/ Menu
  \/ Reinicia \/ \E s \in SUBSET (Origem \ Predefinidas) : OutraSessao(s)

Spec == Init /\ [][Next]_vars

\* A goroutine that can run runs, and a select with several cases ready takes any of them:
\* each is taken in the end (SF).  Nothing makes the user click or the tray come up.
Justica ==
  /\ \A h \in Hello : WF_vars(Avisa(h))
  /\ WF_vars(Grava \/ GravaFalha) /\ WF_vars(Limpa)
  /\ SF_vars(RecebeNova) /\ \A o \in Origem : SF_vars(Decide(o))

SpecJusta == Spec /\ Justica

----------------------------------------------------------------------------
\* Every variable ranges over what the maps, the channels and the menu can hold.
TypeOK ==
  /\ aprovadas \in SUBSET Origem /\ arquivo \in SUBSET Origem
  /\ pendentes \in SUBSET Origem /\ velhas \in SUBSET pendentes
  /\ envia \in [Hello -> Origem \cup {Nenhuma}]
  /\ novas \in Seq(Origem) /\ Len(novas) <= MaxPendentes
  /\ itens \in [Origem -> {"sem", "aberto", "clicado"}]
  /\ decisoes \in [Origem -> Nat]
  /\ menu \in {"fora", "select", "aprova", "revoga", "limpa"}
  /\ difere \in {"sim", "nao"}
  /\ clicadas \in SUBSET Origem /\ perdidas \in SUBSET Origem

\* Once a revocation is in the file, an origin is authorised again, in memory or in the
\* file, only if the user clicked it afterwards, the menu had not read an earlier click, or
\* another session saved it since; no restart, no failed read or write and no pending
\* request brings it back.
RevogacaoVale == aprovadas \cup arquivo \subseteq clicadas

\* With the mutex free, what /hello answers is what the file holds, unless the last write
\* failed, the start could not read the file or another session saved since; and one save
\* that works is enough to make the two agree again, whatever it overwrites
\* (origins.go:149-161).
MemoriaNoArquivo == Livre /\ difere = "nao" => aprovadas = arquivo

\* An origin is not left pending (and so refused for ten minutes) with nothing to show it:
\* it has an item, or the menu is going to hear of it, or the channel was full.
PendenteTemAviso == \A o \in pendentes : itens[o] # "sem" \/ Avisado(o)

\* What the three above need besides themselves to be inductive: a click waiting for the
\* menu was given after the last revocation or is still counted; a revocation empties the
\* maps before it writes; and what asked while the items were still to go is on its way.
RevogacaoCoerente ==
  /\ \A o \in Origem : decisoes[o] > 0 => o \in clicadas
  /\ menu = "revoga" => aprovadas = {} /\ pendentes = {}
  /\ menu = "limpa" => \A o \in pendentes : Avisado(o)

\* While the process lives, what is pending and was not lost gets an item.
PedidoAparece ==
  \A o \in Origem :
    o \in pendentes \ perdidas /\ menu # "fora"
      ~> itens[o] # "sem" \/ o \notin pendentes \ perdidas \/ menu = "fora"

\* A click is decided, however often the other cases of the select are ready: the item
\* goes with it (or with a revocation).
CliqueDecide == \A o \in Origem : itens[o] = "clicado" ~> itens[o] # "clicado"
=============================================================================
