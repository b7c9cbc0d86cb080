-------------------------------- MODULE NBio --------------------------------
(***************************************************************************)
(* The binding to NBioBSP.dll (sdk.go) as the worker process uses it        *)
(* (atendePedido, worker.go): one operation at a time, each a sequence of   *)
(* allocations, calls and reads of native memory, any of which may fail,    *)
(* with what was obtained so far given back by deferred calls in reverse    *)
(* order.                                                                   *)
(*                                                                          *)
(* External: what the DLL answers.  A template is the class of outcome that *)
(* comparing it has; an error of the DLL either asks for a new instance     *)
(* (exigeReinicio) or does not.  VerifyMatch writes a result that may be    *)
(* narrower than the cell it is given, and anything when it fails.          *)
(***************************************************************************)
EXTENDS Naturals, Sequences

Classes == {"ilegivel",    \* normalizaTemplate refuses it
            "adulterado",  \* VerifyMatch answers erroChecksum
            "difere", "confere"}

CONSTANT Listas  \* the candidates an identification may bring, by class

ASSUME ListasAssumption == Listas \subseteq Seq(Classes)

VARIABLES
  pc,        \* the next native call of the operation
  op, lista, \* the request
  inst,      \* the worker's *nbio: "nil", "viva"
  recursos,  \* what is allocated, open or owned on behalf of the worker
  mao,       \* what the DLL has just handed over and no deferred call releases yet
  adiados,   \* the deferred releases, the next to run first
  celula,    \* the out parameter of VerifyMatch
  i,         \* the candidate being compared
  ignorados, \* the candidates left out
  fim, quem, \* the outcome, and the candidate found (0: none)
  perdidos   \* history: what a failed close or a failed read of own memory left behind

pedido == <<op, lista>>
busca == <<i, ignorados, quem>>
vars == <<pc, pedido, inst, recursos, mao, adiados, celula, busca, fim, perdidos>>

Operacoes == {"conta", "captura", "compara", "identifica"}
Memoria == {"saida", "texto", "inA", "inB", "inC"}          \* LocalAlloc
Recursos == Memoria \cup {"instancia", "leitor", "fir", "textoDLL"}  \* the DLL's
ErrosDLL == {"sdk", "reinicia"}
Fins == {"nenhum", "ok", "memoria", "leitura", "nulo", "template", "checksum"} \cup ErrosDLL

Primeiro(o) == CASE o = "conta" -> "alocaConta" [] o = "captura" -> "abre"
                 [] o = "compara" -> "alocaPar" [] OTHER -> "alocaLida"

Init ==
  /\ pc = "parado" /\ op = "conta" /\ lista = <<>>
  /\ inst = "nil" /\ recursos = {} /\ mao = "nada" /\ adiados = <<>>
  /\ celula = 0 /\ i = 1 /\ ignorados = {} /\ fim = "nenhum" /\ quem = 0 /\ perdidos = {}

----------------------------------------------------------------------------
\* The shapes every operation is made of.

\* A step that works: it may obtain a resource, with its release deferred.
Passa(de, para, obtem, adia) ==
  /\ pc = de /\ pc' = para
  /\ recursos' = recursos \cup obtem
  /\ adiados' = adia \o adiados
  /\ UNCHANGED <<pedido, inst, mao, celula, busca, fim, perdidos>>

\* A return: the deferred calls run next.
Retorna(de, f) ==
  /\ pc = de /\ pc' = "sai"
  /\ fim' = f
  /\ UNCHANGED <<pedido, inst, recursos, mao, adiados, celula, busca, perdidos>>

\* nativoAloca(...) followed by defer nativoLibera.
Aloca(de, para, r) == Passa(de, para, {r}, <<r>>) \/ Retorna(de, "memoria")

\* A call of the DLL that obtains nothing.
Chama(de, para) == Passa(de, para, {}, <<>>) \/ \E e \in ErrosDLL : Retorna(de, e)

\* A call that hands over r, or claims success and hands over nothing.
Entrega(de, para, r) ==
  \/ /\ pc = de /\ pc' = para
     /\ \/ recursos' = recursos \cup {r} /\ mao' = r
        \/ UNCHANGED <<recursos, mao>>
     /\ UNCHANGED <<pedido, inst, adiados, celula, busca, fim, perdidos>>
  \/ \E e \in ErrosDLL : Retorna(de, e)

\* The defer after the read, and none when the read fails.
Recolhe_defeito(de, para, r) ==
  /\ pc = de
  /\ \/ mao = r /\ pc' = para /\ mao' = "nada" /\ UNCHANGED <<adiados, fim, perdidos>>
     \/ mao = "nada" /\ pc' = "sai" /\ fim' = "nulo" /\ UNCHANGED <<mao, adiados, perdidos>>
     \/ /\ pc' = "sai" /\ fim' = "leitura" /\ mao' = "nada"
        /\ perdidos' = perdidos \cup ({mao} \cap Recursos)
        /\ UNCHANGED adiados
  /\ UNCHANGED <<pedido, inst, recursos, celula, busca>>

\* Reading what was handed over: only then is its release deferred.
Recolhe(de, para, r) ==
  /\ pc = de
  /\ \/ /\ mao = r /\ pc' = para /\ mao' = "nada"
        /\ adiados' = <<r>> \o adiados
        /\ UNCHANGED <<fim, perdidos>>
     \/ mao = "nada" /\ pc' = "sai" /\ fim' = "nulo" /\ UNCHANGED <<mao, adiados, perdidos>>
     \/ /\ pc' = "sai" /\ fim' = "leitura" /\ mao' = "nada"
        /\ perdidos' = perdidos \cup ({mao} \cap Recursos)
        /\ UNCHANGED adiados
  /\ UNCHANGED <<pedido, inst, recursos, celula, busca>>

----------------------------------------------------------------------------
\* The operations.

\* executaOperacao, after novoSDK when the worker has no instance.
Pede(o, l) ==
  /\ pc = "parado"
  /\ op' = o /\ lista' = l
  /\ pc' = IF inst = "nil" THEN "alocaInit" ELSE Primeiro(o)
  /\ fim' = "nenhum" /\ i' = 1 /\ ignorados' = {} /\ quem' = 0
  /\ celula' = 0                                 \* LocalAlloc zeroes
  /\ UNCHANGED <<inst, recursos, mao, adiados, perdidos>>

\* novoSDK: the DLL and its symbols, then NBioAPI_Init.  "sai" with fim = "nenhum" is its
\* success; a handle that cannot be read is an instance nobody terminates.
NovoSDK ==
  \/ Retorna("alocaInit", "sdk")
  \/ Aloca("alocaInit", "init", "saida")
  \/ Passa("init", "leInit", {"instancia"}, <<>>) \/ Retorna("init", "sdk")
  \/ Retorna("leInit", "nenhum")
  \/ /\ pc = "leInit" /\ pc' = "sai" /\ fim' = "leitura"
     /\ perdidos' = perdidos \cup {"instancia"}
     /\ UNCHANGED <<pedido, inst, recursos, mao, adiados, celula, busca>>

ContaDispositivos ==
  \/ Aloca("alocaConta", "enumera", "saida")
  \/ Chama("enumera", "leConta")
  \/ Retorna("leConta", "ok") \/ Retorna("leConta", "leitura")

\* abre: a device left open by a failed close answers 0x0104, which is success.
Abre ==
  \/ /\ pc = "abre" /\ pc' = "alocaFIR"
     /\ recursos' = recursos \cup {"leitor"} /\ perdidos' = perdidos \ {"leitor"}
     /\ adiados' = <<"leitor">> \o adiados
     /\ UNCHANGED <<pedido, inst, mao, celula, busca, fim>>
  \/ \E e \in ErrosDLL : Retorna("abre", e)

\* The struct of the text is released before what it points to.
CapturaTexto_defeito ==
  \/ Abre
  \/ Aloca("alocaFIR", "captura", "saida")
  \/ Entrega("captura", "leFIR", "fir")
  \/ Recolhe("leFIR", "exporta", "fir")
  \/ Entrega("exporta", "leTexto", "textoDLL")
  \/ Recolhe("leTexto", "alocaTexto", "textoDLL")
  \/ Aloca("alocaTexto", "copia", "texto")
  \/ Retorna("copia", "ok") \/ Retorna("copia", "leitura")

CapturaTexto ==
  \/ Abre
  \/ Aloca("alocaFIR", "captura", "saida")
  \/ Entrega("captura", "leFIR", "fir")
  \/ Recolhe("leFIR", "alocaTexto", "fir")
  \/ Aloca("alocaTexto", "exporta", "texto")
  \/ Entrega("exporta", "leTexto", "textoDLL")
  \/ Recolhe("leTexto", "copia", "textoDLL")
  \/ Retorna("copia", "ok") \/ Retorna("copia", "leitura")

\* An allocation whose failure is looked at later: nativoLibera(0) does nothing.
Tenta(de, para, r) == Passa(de, para, {r}, <<r>>) \/ Passa(de, para, {}, <<>>)

Confere(de, para, rs) ==
  \/ rs \subseteq recursos /\ Passa(de, para, {}, <<>>)
  \/ ~ (rs \subseteq recursos) /\ Retorna(de, "memoria")

\* What VerifyMatch leaves in the cell when it answers 0.
Veredito(c) == IF c = "confere" THEN {1} ELSE {0, celula}

\* comparaTextos and comparaBrutos, of one pair: lista has one class.
ComparaTextos ==
  \/ pc = "alocaPar" /\ lista[1] = "ilegivel" /\ Retorna("alocaPar", "template")
  \/ pc = "alocaPar" /\ lista[1] # "ilegivel" /\ Tenta("alocaPar", "alocaB", "inA")
  \/ Tenta("alocaB", "alocaSaida", "inB")
  \/ Tenta("alocaSaida", "temPar", "saida")
  \/ Confere("temPar", "verifica", {"inA", "inB", "saida"})
  \/ /\ pc = "verifica" /\ lista[1] \in {"difere", "confere"}
     /\ pc' = "lePar" /\ celula' \in Veredito(lista[1])
     /\ UNCHANGED <<pedido, inst, recursos, mao, adiados, busca, fim, perdidos>>
  \/ pc = "verifica" /\ lista[1] = "adulterado" /\ Retorna("verifica", "checksum")
  \/ \E e \in ErrosDLL : Retorna("verifica", e)
  \/ /\ pc = "lePar" /\ pc' = "sai" /\ fim' = "ok" /\ quem' = celula
     /\ UNCHANGED <<pedido, inst, recursos, mao, adiados, celula, i, ignorados, perdidos>>
  \/ Retorna("lePar", "leitura")

\* A bad record is noted and the next one tried.
Ignora ==
  /\ ignorados' = ignorados \cup {i} /\ i' = i + 1 /\ pc' = "candidato"
  /\ UNCHANGED <<fim, quem>>

\* The top of the loop of identifica.
Candidato ==
  \/ pc = "candidato" /\ i > Len(lista) /\ Retorna("candidato", "ok")
  \/ /\ pc = "candidato" /\ i <= Len(lista) /\ lista[i] = "ilegivel"
     /\ Ignora
     /\ UNCHANGED <<pedido, inst, recursos, mao, adiados, celula, perdidos>>
  \/ /\ pc = "candidato" /\ i <= Len(lista) /\ lista[i] # "ilegivel"
     /\ Passa("candidato", "zera", {"inC"}, <<>>) \/ Retorna("candidato", "memoria")

\* The comparison starts from whatever the last one left in the cell.
Zera_defeito ==
  /\ pc = "zera" /\ pc' = "compara"
  /\ UNCHANGED <<pedido, inst, recursos, mao, adiados, celula, busca, fim, perdidos>>

\* escreveUint32Nativo(saida, 0), for a result that may fill only part of the cell.
Zera ==
  /\ pc = "zera"
  /\ \/ pc' = "compara" /\ celula' = 0 /\ UNCHANGED <<recursos, fim>>
     \/ pc' = "sai" /\ fim' = "leitura" /\ recursos' = recursos \ {"inC"} /\ UNCHANGED celula
  /\ UNCHANGED <<pedido, inst, mao, adiados, busca, perdidos>>

\* VerifyMatch on the candidate, whose copy is released whatever it answers.
ComparaCandidato ==
  /\ pc = "compara"
  /\ recursos' = recursos \ {"inC"}
  /\ \/ lista[i] = "adulterado" /\ celula' \in {0, 1} /\ Ignora
     \/ /\ lista[i] \in {"difere", "confere"} /\ celula' \in Veredito(lista[i])
        /\ pc' = "leVeredito" /\ UNCHANGED <<busca, fim>>
     \/ /\ celula' \in {0, 1} /\ fim' \in ErrosDLL
        /\ pc' = "sai" /\ UNCHANGED busca
  /\ UNCHANGED <<pedido, inst, mao, adiados, perdidos>>

LeVeredito ==
  \/ /\ pc = "leVeredito" /\ celula # 0
     /\ pc' = "sai" /\ fim' = "ok" /\ quem' = i
     /\ UNCHANGED <<pedido, inst, recursos, mao, adiados, celula, i, ignorados, perdidos>>
  \/ /\ pc = "leVeredito" /\ celula = 0
     /\ pc' = "candidato" /\ i' = i + 1
     /\ UNCHANGED <<pedido, inst, recursos, mao, adiados, celula, ignorados, fim, quem, perdidos>>
  \/ Retorna("leVeredito", "leitura")

Identifica ==
  \/ Tenta("alocaLida", "alocaCelula", "inA")
  \/ Tenta("alocaCelula", "temLida", "saida")
  \/ Confere("temLida", "candidato", {"inA", "saida"})
  \/ Candidato \/ Zera \/ ComparaCandidato \/ LeVeredito

----------------------------------------------------------------------------
\* The way out.

\* One deferred call.  Closing the device may fail: it is logged and the operation stands.
Libera ==
  /\ pc = "sai" /\ adiados # <<>>
  /\ adiados' = Tail(adiados)
  /\ \/ recursos' = recursos \ {Head(adiados)} /\ UNCHANGED perdidos
     \/ /\ Head(adiados) = "leitor"
        /\ perdidos' = perdidos \cup {"leitor"} /\ UNCHANGED recursos
  /\ UNCHANGED <<pc, pedido, inst, mao, celula, busca, fim>>

\* The function returned: novoSDK to the operation it was for, the others to atendePedido.
Volta ==
  /\ pc = "sai" /\ adiados = <<>>
  /\ IF fim = "nenhum" THEN pc' = Primeiro(op) /\ inst' = "viva"
                       ELSE pc' = "atende" /\ UNCHANGED inst
  /\ UNCHANGED <<pedido, recursos, mao, adiados, celula, busca, fim, perdidos>>

\* The rest of atendePedido: an instance that lost its reader is terminated, and what it held
\* with it, or at least forgotten: encerra drops the handle whatever NBioAPI_Terminate answers.
Atende ==
  /\ pc = "atende" /\ pc' = "parado"
  /\ \/ fim = "reinicia" /\ inst = "viva" /\ inst' = "nil"
        /\ \/ recursos' = recursos \ {"instancia", "leitor"} /\ UNCHANGED perdidos
           \/ perdidos' = perdidos \cup {"instancia"} /\ UNCHANGED recursos
     \/ ~ (fim = "reinicia" /\ inst = "viva") /\ UNCHANGED <<inst, recursos, perdidos>>
  /\ op' = "conta" /\ lista' = <<>> /\ i' = 1 /\ celula' = 0     \* out of scope
  /\ UNCHANGED <<mao, adiados, ignorados, quem, fim>>

PedeAlgo ==
  \/ \E o \in {"conta", "captura"} : Pede(o, <<>>)
  \/ \E c \in Classes : Pede("compara", <<c>>)
  \/ \E l \in Listas : Pede("identifica", l)

Passo == NovoSDK \/ ContaDispositivos \/ CapturaTexto \/ ComparaTextos \/ Identifica
         \/ Libera \/ Volta \/ Atende

Next == PedeAlgo \/ Passo

Spec == Init /\ [][Next]_vars

----------------------------------------------------------------------------
TypeOK ==
  /\ pc \in {"parado", "sai", "atende", "alocaInit", "init", "leInit", "alocaConta", "enumera",
             "leConta", "abre", "alocaFIR", "captura", "leFIR", "alocaTexto", "exporta",
             "leTexto", "copia", "alocaPar", "alocaB", "alocaSaida", "temPar", "verifica",
             "lePar", "alocaLida", "alocaCelula", "temLida", "candidato", "zera", "compara",
             "leVeredito"}
  /\ op \in Operacoes /\ lista \in Seq(Classes)
  /\ inst \in {"nil", "viva"}
  /\ recursos \subseteq Recursos /\ mao \in {"nada", "fir", "textoDLL"}
  /\ adiados \in Seq(Recursos)
  /\ celula \in {0, 1}
  /\ i \in Nat \ {0} /\ ignorados \subseteq Nat /\ quem \in Nat
  /\ fim \in Fins
  /\ perdidos \subseteq Recursos

\* Whatever failed and wherever (sdk.go:299-351, 460-557), the worker is left holding nothing
\* between two requests but its instance, except a device that would not close, an instance that
\* would not end and what was handed over through memory that could not be read.
NadaVaza ==
  pc = "parado" =>
    recursos \subseteq perdidos \cup (IF inst = "viva" THEN {"instancia"} ELSE {})

\* No release comes twice or too late: what a deferred call releases is held then, and the text
\* of the DLL goes while the struct that points to it is still allocated (sdk.go:346-349).
LiberaVivo ==
  pc = "sai" /\ adiados # <<>> =>
    /\ Head(adiados) \in recursos
    /\ Head(adiados) = "textoDLL" => "texto" \in recursos

\* The candidates up to n that cannot be compared.
Ruins(n) == {k \in 1..n : k \in DOMAIN lista /\ lista[k] \in {"ilegivel", "adulterado"}}

\* An identification that ends well names the first candidate that matches, none before it is
\* taken for a match by what an earlier comparison left behind, and exactly the bad records it
\* met are left out; a bad record never ends it (sdk.go:497-503, 528-530).
VereditoCerto ==
  op = "identifica" /\ pc \in {"sai", "atende"} =>
    /\ fim # "checksum"
    /\ fim = "ok" =>
         IF quem = 0
           THEN /\ \A k \in DOMAIN lista : lista[k] # "confere"
                /\ ignorados = Ruins(Len(lista))
           ELSE /\ quem \in DOMAIN lista /\ lista[quem] = "confere"
                /\ \A k \in 1..(quem - 1) : lista[k] # "confere"
                /\ ignorados = Ruins(quem)
=============================================================================
