----------------------------- MODULE Comparador -----------------------------
(***************************************************************************)
(* The comparison service of a server and the agents of its sessions       *)
(* (comparador.go, anuncio.go, delegacao.go, cert.go, servico.go).         *)
(*                                                                         *)
(* They meet in files under ProgramData: the announcement (comparador.json *)
(* with the port and the secret) and the machine's certificate and key.    *)
(* The service reads and writes them as it starts and stops; an agent      *)
(* reads them once, as it starts.  Comparadores are processes in that      *)
(* mode: the service, and one run by hand (--comparador) beside it.        *)
(* COMPARADOR_URL, _TOKEN and _PORTA are not set, as the MSI leaves them.  *)
(* Windows' root store, certutil and the service manager are external.     *)
(* Any read of a shared file may fail, and so may any removal.             *)
(***************************************************************************)
EXTENDS Naturals, FiniteSets

CONSTANTS Comparadores, Agentes,
          MaxTokens,   \* bound: secrets drawn by geraToken
          MaxCerts     \* bound: certificates drawn by materialCertificado

ASSUME LimitesAssumption == MaxTokens \in Nat \ {0} /\ MaxCerts \in Nat \ {0}

VARIABLES
  pc,        \* where each comparator is
  segredo,   \* its secret
  cert,      \* the certificate it is generating
  anuncio,   \* the secret in comparador.json
  tokens,    \* secrets drawn so far
  arquivos,  \* the machine's certificate files: which generation each is of
  vencidos,  \* generations close to their end, or past it
  certs,     \* generations so far
  loja,      \* generations in the machine's Root store
  agente,    \* "fora", "lendo" (configuraComparador done), "ativo"
  delega,    \* the secret an agent delegates with; Nada: compares locally
  tls,       \* the generation it serves; 0: HTTP, or the user's own certificate
  eventos    \* history: what has happened so far

daqui == <<segredo, cert>>
vars == <<pc, daqui, anuncio, tokens, arquivos, vencidos, certs, loja, agente, delega, tls, eventos>>

Nada == 0
Fases == {"parado", "segredo", "gravando", "instalando", "abrindo", "aberto",
          "servindo", "mudo", "fechando"}
Eventos == {"parada", "queda", "junto", "ilegivel", "presa", "falha", "renovacao", "remocao"}

Em(c, fases) == pc[c] \in fases
Escutando(c) == Em(c, {"aberto", "servindo", "mudo"})
Vai(c, fase) == pc' = [pc EXCEPT ![c] = fase]
Acontece(e) == eventos' = eventos \cup e

\* The end of a process, and of what it had in memory.
Acaba(c) ==
  /\ Vai(c, "parado")
  /\ segredo' = [segredo EXCEPT ![c] = Nada] /\ cert' = [cert EXCEPT ![c] = Nada]

\* certificadoValido: both files there, of the same pair, not close to the end.
CertificadoValido ==
  /\ arquivos.cert # Nada /\ arquivos.chave = arquivos.cert
  /\ arquivos.cert \notin vencidos

Init ==
  /\ pc = [c \in Comparadores |-> "parado"]
  /\ segredo = [c \in Comparadores |-> Nada] /\ cert = [c \in Comparadores |-> Nada]
  /\ anuncio = Nada /\ tokens = 0
  /\ arquivos = [cert |-> Nada, chave |-> Nada] /\ vencidos = {} /\ certs = 0 /\ loja = {}
  /\ agente = [a \in Agentes |-> "fora"]
  /\ delega = [a \in Agentes |-> Nada] /\ tls = [a \in Agentes |-> Nada]
  /\ eventos = {}

----------------------------------------------------------------------------
\* rodaComparadorCom.  The operators named ..._defeito are mistakes a change could make in
\* the definition that follows each of them; no action uses them.

\* It starts beside another one.
Junto(c) == IF \E d \in Comparadores \ {c} : ~Em(d, {"parado"}) THEN {"junto"} ELSE {}

\* A secret of its own at every start.
Inicia_defeito(c) ==
  /\ Em(c, {"parado"}) /\ tokens < MaxTokens
  /\ segredo' = [segredo EXCEPT ![c] = tokens + 1] /\ tokens' = tokens + 1
  /\ Vai(c, "segredo") /\ Acontece(Junto(c))
  /\ UNCHANGED <<cert, anuncio, arquivos, vencidos, certs, loja, agente, delega, tls>>

\* tokenDoComparador: the one published, or a new one, whatever leAnuncio failed for: a file
\* that is there and cannot be read or parsed is like one that is not.
Inicia(c) ==
  /\ Em(c, {"parado"})
  /\ \/ /\ anuncio # Nada
        /\ segredo' = [segredo EXCEPT ![c] = anuncio] /\ UNCHANGED tokens
        /\ Acontece(Junto(c))
     \/ /\ tokens < MaxTokens
        /\ segredo' = [segredo EXCEPT ![c] = tokens + 1] /\ tokens' = tokens + 1
        /\ Acontece(Junto(c) \cup IF anuncio = Nada THEN {} ELSE {"ilegivel"})
  /\ Vai(c, "segredo")
  /\ UNCHANGED <<cert, anuncio, arquivos, vencidos, certs, loja, agente, delega, tls>>

\* garanteCertificadoMaquina: nothing to do.
CertificadoServe(c) ==
  /\ Em(c, {"segredo"}) /\ CertificadoValido
  /\ Vai(c, "abrindo")
  /\ UNCHANGED <<daqui, anuncio, tokens, arquivos, vencidos, certs, loja, agente, delega, tls, eventos>>

\* The pair is not valid, or could not be read: a new one; the key is written first.
GravaChave(c) ==
  /\ Em(c, {"segredo"}) /\ certs < MaxCerts
  /\ certs' = certs + 1 /\ cert' = [cert EXCEPT ![c] = certs + 1]
  /\ arquivos' = [arquivos EXCEPT !.chave = certs + 1]
  /\ Acontece(IF arquivos.cert # Nada THEN {"renovacao"} ELSE {})
  /\ Vai(c, "gravando")
  /\ UNCHANGED <<segredo, anuncio, tokens, vencidos, loja, agente, delega, tls>>

GravaCert(c) ==
  /\ Em(c, {"gravando"})
  /\ arquivos' = [arquivos EXCEPT !.cert = cert[c]]
  /\ Vai(c, "instalando")
  /\ UNCHANGED <<daqui, anuncio, tokens, vencidos, certs, loja, agente, delega, tls, eventos>>

\* The pair is read back, and that is all.
InstalaCert_defeito(c) ==
  /\ Em(c, {"instalando"}) /\ CertificadoValido
  /\ Vai(c, "abrindo")
  /\ UNCHANGED <<daqui, anuncio, tokens, arquivos, vencidos, certs, loja, agente, delega, tls, eventos>>

\* The pair is read back and certutil takes what is in the file.
InstalaCert(c) ==
  /\ Em(c, {"instalando"}) /\ CertificadoValido
  /\ loja' = loja \cup {arquivos.cert}
  /\ Vai(c, "abrindo")
  /\ UNCHANGED <<daqui, anuncio, tokens, arquivos, vencidos, certs, agente, delega, tls, eventos>>

\* A file that cannot be written, a pair that does not read back, certutil failing: an
\* error is logged and the service goes on.
CertificadoFalha(c) ==
  /\ Em(c, {"segredo", "gravando", "instalando"})
  /\ Vai(c, "abrindo") /\ Acontece({"falha"})
  /\ UNCHANGED <<daqui, anuncio, tokens, arquivos, vencidos, certs, loja, agente, delega, tls>>

\* Announced before the port is open.
AbrePublicando_defeito(c) ==
  /\ Em(c, {"abrindo"})
  /\ IF \E d \in Comparadores : Escutando(d) THEN Acaba(c) ELSE Vai(c, "aberto") /\ UNCHANGED daqui
  /\ anuncio' = segredo[c]
  /\ UNCHANGED <<tokens, arquivos, vencidos, certs, loja, agente, delega, tls, eventos>>

\* net.Listen: one process has the port, a comparator or any other.
Abre(c) ==
  /\ Em(c, {"abrindo"})
  /\ \/ Acaba(c)
     \/ (\A d \in Comparadores : ~Escutando(d)) /\ Vai(c, "aberto") /\ UNCHANGED daqui
  /\ UNCHANGED <<anuncio, tokens, arquivos, vencidos, certs, loja, agente, delega, tls, eventos>>

\* publicaAnuncio; then Serve, and pronto for the service manager.
Publica(c) ==
  /\ Em(c, {"aberto"})
  /\ anuncio' = segredo[c] /\ Vai(c, "servindo")
  /\ UNCHANGED <<daqui, tokens, arquivos, vencidos, certs, loja, agente, delega, tls, eventos>>

\* It fails, and the service serves unannounced.
PublicaFalha(c) ==
  /\ Em(c, {"aberto"})
  /\ Vai(c, "mudo")
  /\ UNCHANGED <<daqui, anuncio, tokens, arquivos, vencidos, certs, loja, agente, delega, tls, eventos>>

\* Stop, Shutdown or an error: the port is closed, Serve returns, the worker is ended.
Fecha(c) ==
  /\ Em(c, {"servindo", "mudo"})
  /\ Vai(c, "fechando")
  /\ UNCHANGED <<daqui, anuncio, tokens, arquivos, vencidos, certs, loja, agente, delega, tls, eventos>>

\* The announcement is left where it is.
Retorna_defeito(c) ==
  /\ Em(c, {"fechando"})
  /\ Acaba(c) /\ Acontece({"parada"}) /\ UNCHANGED anuncio
  /\ UNCHANGED <<tokens, arquivos, vencidos, certs, loja, agente, delega, tls>>

\* The deferred removeAnuncio, whoever's it is; that it failed is only logged.
Retorna(c) ==
  /\ Em(c, {"fechando"})
  /\ \/ anuncio' = Nada /\ Acontece({"parada"})
     \/ anuncio # Nada /\ UNCHANGED anuncio /\ Acontece({"parada", "presa"})
  /\ Acaba(c)
  /\ UNCHANGED <<tokens, arquivos, vencidos, certs, loja, agente, delega, tls>>

\* The process is killed, or the machine loses power, at any point.
Cai(c) ==
  /\ ~Em(c, {"parado"})
  /\ Acaba(c) /\ Acontece({"queda"})
  /\ UNCHANGED <<anuncio, tokens, arquivos, vencidos, certs, loja, agente, delega, tls>>

----------------------------------------------------------------------------
\* The rest of the machine.

\* Time: the certificate in use comes close to its end.
Vence ==
  /\ arquivos.cert # Nada /\ vencidos' = vencidos \cup {arquivos.cert} /\ vencidos' # vencidos
  /\ UNCHANGED <<pc, daqui, anuncio, tokens, arquivos, certs, loja, agente, delega, tls, eventos>>

\* The files go first, and then there is no certificate to look for in the store.
Desinstala_defeito ==
  /\ \A c \in Comparadores : Em(c, {"parado"})
  /\ arquivos.cert # Nada
  /\ arquivos' = [cert |-> Nada, chave |-> Nada]
  /\ Acontece({"remocao"})
  /\ UNCHANGED <<pc, daqui, anuncio, tokens, vencidos, certs, loja, agente, delega, tls>>

\* removeCertificadoMaquina, by the uninstaller, when the service is stopped: the one in
\* the file leaves the store, unless certutil fails, and then the key and the certificate
\* go.  A removal that fails leaves the files after it, a certificate that cannot be read
\* leaves everything.
Desinstala ==
  /\ \A c \in Comparadores : Em(c, {"parado"})
  /\ arquivos.cert # Nada
  /\ \E ficam \in {{}, {"cert"}, {"cert", "chave"}} :
       /\ arquivos' = [cert |-> IF "cert" \in ficam THEN arquivos.cert ELSE Nada,
                       chave |-> IF "chave" \in ficam THEN arquivos.chave ELSE Nada]
       /\ \/ ficam = {} /\ loja' = loja \ {arquivos.cert} /\ Acontece({"remocao"})
          \/ loja' \in {loja, loja \ {arquivos.cert}} /\ Acontece({"remocao", "falha"})
  /\ UNCHANGED <<pc, daqui, anuncio, tokens, vencidos, certs, agente, delega, tls>>

----------------------------------------------------------------------------
\* Agents.

\* configuraComparador: once, at startup; without an announcement, or with one that cannot
\* be read, it compares locally.
Configura(a) ==
  /\ agente[a] = "fora"
  /\ \E lido \in {anuncio, Nada} : delega' = [delega EXCEPT ![a] = lido]
  /\ agente' = [agente EXCEPT ![a] = "lendo"]
  /\ UNCHANGED <<pc, daqui, anuncio, tokens, arquivos, vencidos, certs, loja, tls, eventos>>

\* carregaTLS: the machine's certificate if it is usable and can be read, and otherwise
\* HTTP or, with no announcement, the user's own.
CarregaTLS(a) ==
  /\ agente[a] = "lendo"
  /\ \E lido \in {Nada} \cup (IF CertificadoValido THEN {arquivos.cert} ELSE {}) :
       tls' = [tls EXCEPT ![a] = lido]
  /\ agente' = [agente EXCEPT ![a] = "ativo"]
  /\ UNCHANGED <<pc, daqui, anuncio, tokens, arquivos, vencidos, certs, loja, delega, eventos>>

SaiAgente(a) ==
  /\ agente[a] = "ativo"
  /\ agente' = [agente EXCEPT ![a] = "fora"]
  /\ delega' = [delega EXCEPT ![a] = Nada] /\ tls' = [tls EXCEPT ![a] = Nada]
  /\ UNCHANGED <<pc, daqui, anuncio, tokens, arquivos, vencidos, certs, loja, eventos>>

----------------------------------------------------------------------------
Next ==
  \/ \E c \in Comparadores :
       \/ Inicia(c) \/ CertificadoServe(c) \/ GravaChave(c) \/ GravaCert(c) \/ InstalaCert(c)
       \/ CertificadoFalha(c) \/ Abre(c) \/ Publica(c) \/ PublicaFalha(c)
       \/ Fecha(c) \/ Retorna(c) \/ Cai(c)
  \/ Vence \/ Desinstala
  \/ \E a \in Agentes : Configura(a) \/ CarregaTLS(a) \/ SaiAgente(a)

Spec == Init /\ [][Next]_vars

----------------------------------------------------------------------------
\* Every variable ranges over what the files and the processes can hold.
TypeOK ==
  /\ pc \in [Comparadores -> Fases]
  /\ segredo \in [Comparadores -> 0..MaxTokens] /\ cert \in [Comparadores -> 0..MaxCerts]
  /\ anuncio \in 0..MaxTokens /\ tokens \in 0..MaxTokens
  /\ arquivos \in [cert : 0..MaxCerts, chave : 0..MaxCerts]
  /\ certs \in 0..MaxCerts /\ vencidos \subseteq 1..certs /\ loja \subseteq 1..certs
  /\ agente \in [Agentes -> {"fora", "lendo", "ativo"}]
  /\ delega \in [Agentes -> 0..MaxTokens] /\ tls \in [Agentes -> 0..MaxCerts]
  /\ eventos \subseteq Eventos

\* exigeSegredo answers 401 to an agent that delegates with another secret.
Recusa(c, a) == Em(c, {"servindo", "mudo"}) /\ delega[a] \notin {Nada, segredo[c]}

\* While an announced comparator serves, whoever reads the announcement finds its secret
\* or nothing, another comparator coming up or going down beside it included: the port
\* arbitrates before the file is touched (comparador.go:106).
AnuncioDeQuemServe ==
  \A c \in Comparadores : Em(c, {"servindo"}) => anuncio \in {Nada, segredo[c]}

\* A service that crashed and came back still serves every agent that was up, unless it
\* had stopped in order, another was beside it or a start could not read the announcement
\* (tokenDoComparador): a lost power, a failed publication, a port taken by another program
\* or a certificate that could not be installed never costs an agent its secret.
QuedaNaoInvalida ==
  eventos \cap {"parada", "junto", "ilegivel"} = {}
    => \A c \in Comparadores, a \in Agentes : ~Recusa(c, a)

\* An announcement that nobody serves is left by a crash, or by a stop whose removal of the
\* file failed, and by nothing else: not by one of two comparators stopping, a port already
\* taken or a publication that failed (the comment on removeAnuncio).
AnuncioMortoSoPorQueda ==
  anuncio # Nada /\ eventos \cap {"queda", "presa"} = {}
    => \E c \in Comparadores : Em(c, {"servindo", "mudo", "fechando"})

\* Without failures, crashes, company and removals, what an agent serves is in the store,
\* at the latest when the service that wrote it goes on to open its port.
ServidoEConfiavelSemFalha ==
  \/ eventos \cap {"falha", "queda", "junto", "remocao"} # {}
  \/ \E c \in Comparadores : Em(c, {"gravando", "instalando"})
  \/ \A a \in Agentes : tls[a] \in loja \cup {Nada}

\* A root that outlives its files is the doing of a renewal, or of a failure: a machine
\* that installed and removed the service cleanly keeps none (cert.go:223-228).
OrfaSoPorRenovacao ==
  eventos \cap {"falha", "renovacao", "junto"} = {} /\ arquivos.cert = Nada => loja = {}

\* Does not hold. The comment on tokenDoComparador: a restart of the service, with an
\* announcement that can be read whenever there is one, does not invalidate the agents that
\* are up.
ReinicioNaoInvalida ==
  "ilegivel" \notin eventos => \A c \in Comparadores, a \in Agentes : ~Recusa(c, a)

\* The comment on garanteCertificadoMaquina: it generates and registers the machine's
\* certificate.  So when it finds a valid one and returns, that one is registered.
GaranteRegistra ==
  [][\A c \in Comparadores :
       pc[c] = "segredo" /\ pc'[c] = "abrindo" /\ CertificadoValido
         => arquivos.cert \in loja]_vars
----------------------------------------------------------------------------
\* What the invariants above rest on.

\* A comparator that is not stopped, and the phases that leave the machine's pair unfinished.
Vivo(c) == ~Em(c, {"parado"})
SemEvento(es) == eventos \cap es = {}

\* The files, and what is about to be written to them, are of generations that were drawn.
ArquivosGerados ==
  arquivos.cert <= certs /\ arquivos.chave <= certs /\ \A c \in Comparadores : cert[c] <= certs

\* net.Listen arbitrates: one comparator at a time has the port.
PortaUnica == \A c, d \in Comparadores : Escutando(c) /\ Escutando(d) => c = d

\* As long as none started beside another, at most one is up.
Sozinho == SemEvento({"junto"}) => \A c, d \in Comparadores : Vivo(c) /\ Vivo(d) => c = d

\* The secret survives crashes: until an orderly stop or an announcement that cannot be
\* read, whoever starts takes the one announced, and agents have no other.
SegredoUnico ==
  SemEvento({"parada", "junto", "ilegivel"}) =>
    /\ anuncio # Nada => \A c \in Comparadores : Vivo(c) => segredo[c] = anuncio
    /\ \A a \in Agentes : delega[a] \in {Nada, anuncio}

\* Between the two writes the pair does not match, between the second and the store it is
\* the new one, and otherwise it is in the store.
ParInstalado ==
  SemEvento({"falha", "queda", "junto", "remocao"}) =>
    /\ \A c \in Comparadores :
         /\ Em(c, {"gravando"}) => arquivos.chave = cert[c] /\ arquivos.cert # arquivos.chave
         /\ Em(c, {"instalando"}) => arquivos.chave = cert[c] /\ arquivos.cert = cert[c]
    /\ (\A c \in Comparadores : ~Em(c, {"gravando"})) => arquivos.chave = arquivos.cert
    /\ (\A c \in Comparadores : ~Em(c, {"instalando"})) => arquivos.cert \in loja \cup {Nada}
    /\ \A a \in Agentes :
         tls[a] \in loja \cup {Nada} \/ tls[a] = arquivos.cert

\* Without renewals the store holds the certificate of the file at most, and nothing is
\* written over one.
RaizDoArquivo ==
  SemEvento({"falha", "renovacao", "junto"}) =>
    /\ loja \subseteq {arquivos.cert}
    /\ \A c \in Comparadores : Em(c, {"gravando"}) => arquivos.cert = Nada
=============================================================================
