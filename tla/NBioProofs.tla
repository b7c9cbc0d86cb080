----------------------------- MODULE NBioProofs -----------------------------
(* Theorems about NBio, for every list of candidates: who owns each native  *)
(* resource at every step (Posse), and what the search over the candidates  *)
(* knows at every step (Busca).  Then about Identificacao, for every body:  *)
(* the same while the handler of /identificar asks, and its answer.         *)
EXTENDS Identificacao, WellFoundedInduction, TLAPS

\* A release deferred on top of the others.
LEMMA Empilha ==
  ASSUME NEW S, NEW s \in Seq(S), NEW r \in S
  PROVE  /\ <<r>> \o s \in Seq(S)
         /\ Len(<<r>> \o s) = Len(s) + 1
         /\ (<<r>> \o s)[1] = r
         /\ \A k \in 1..Len(s) : (<<r>> \o s)[k + 1] = s[k]
  OBVIOUS

\* The releases left once the first ran.
LEMMA Desempilha ==
  ASSUME NEW S, NEW s \in Seq(S), s # <<>>
  PROVE  /\ Tail(s) \in Seq(S)
         /\ Len(Tail(s)) = Len(s) - 1
         /\ \A k \in 1..(Len(s) - 1) : Tail(s)[k] = s[k + 1]
         /\ Head(s) = s[1]
         /\ Head(s) \in S
  OBVIOUS

\* A step that defers nothing.
LEMMA NadaAEmpilhar ==
  ASSUME NEW S, NEW s \in Seq(S)
  PROVE  <<>> \o s = s
  OBVIOUS

\* What is on a stack of releases.
Itens(s) == {s[k] : k \in DOMAIN s}

\* Every release is of something held, none comes twice, and a text goes before its struct.
Ordenada(s, rec) ==
  /\ \A j \in DOMAIN s : s[j] \in rec
  /\ \A j, k \in DOMAIN s : s[j] = s[k] => j = k
  /\ \A j \in DOMAIN s : s[j] = "textoDLL" => \E k \in DOMAIN s : j < k /\ s[k] = "texto"

\* Deferring the release of what was just obtained keeps the stack in order.
LEMMA EmpilhaOrdenada ==
  ASSUME NEW s \in Seq(Recursos), NEW rec, Ordenada(s, rec), NEW r \in Recursos,
         r \notin Itens(s), r = "textoDLL" => "texto" \in Itens(s)
  PROVE  Ordenada(<<r>> \o s, rec \cup {r}) /\ Itens(<<r>> \o s) = Itens(s) \cup {r}
<1> DEFINE t == <<r>> \o s
<1>1. /\ t \in Seq(Recursos) /\ Len(t) = Len(s) + 1 /\ t[1] = r
      /\ \A k \in 1..Len(s) : t[k + 1] = s[k]
  BY Empilha
<1>2. DOMAIN t = 1..(Len(s) + 1) /\ DOMAIN s = 1..Len(s) /\ Len(s) \in Nat
  BY <1>1
<1> HIDE DEF t
<1>3. \A j \in DOMAIN t : j = 1 \/ (j - 1 \in DOMAIN s /\ t[j] = s[j - 1])
  <2> TAKE j \in DOMAIN t
  <2>1. CASE j # 1
    <3>1. j - 1 \in 1..Len(s)
      BY <1>2, <2>1
    <3>2. t[(j - 1) + 1] = s[j - 1] /\ (j - 1) + 1 = j
      BY <1>1, <1>2, <3>1
    <3>3. QED
      BY <3>1, <3>2, <1>2
  <2>2. QED
    BY <2>1
<1>4. Itens(t) = Itens(s) \cup {r}
  <2>1. \A x \in Itens(t) : x \in Itens(s) \cup {r}
    BY <1>1, <1>3 DEF Itens
  <2>2. \A k \in DOMAIN s : k + 1 \in DOMAIN t /\ t[k + 1] = s[k]
    BY <1>1, <1>2
  <2>3. r \in Itens(t)
    BY <1>1, <1>2 DEF Itens
  <2>4. \A x \in Itens(s) : x \in Itens(t)
    BY <2>2 DEF Itens
  <2>5. QED
    BY <2>1, <2>3, <2>4
<1>5. \A k \in DOMAIN s : s[k] # r
  BY DEF Itens
<1>6. \A j \in DOMAIN t : t[j] \in rec \cup {r}
  BY <1>1, <1>3 DEF Ordenada
<1>7. ASSUME NEW j \in DOMAIN t, NEW k \in DOMAIN t, t[j] = t[k] PROVE j = k
  <2>1. CASE j = 1 /\ k = 1
    BY <2>1
  <2>2. CASE j = 1 /\ k # 1
    BY <1>1, <1>3, <1>5, <1>7, <2>2
  <2>3. CASE j # 1 /\ k = 1
    BY <1>1, <1>3, <1>5, <1>7, <2>3
  <2>4. CASE j # 1 /\ k # 1
    <3>1. j - 1 = k - 1
      BY <1>3, <1>7, <2>4 DEF Ordenada
    <3>2. QED
      BY <3>1, <1>2
  <2>5. QED
    BY <2>1, <2>2, <2>3, <2>4
<1>8. ASSUME NEW j \in DOMAIN t, t[j] = "textoDLL"
      PROVE  \E k \in DOMAIN t : j < k /\ t[k] = "texto"
  <2>1. CASE j = 1
    <3>1. PICK k \in DOMAIN s : s[k] = "texto"
      BY <1>1, <1>8, <2>1 DEF Itens
    <3>2. k + 1 \in DOMAIN t /\ t[k + 1] = "texto" /\ j < k + 1
      BY <1>1, <1>2, <2>1, <3>1
    <3>3. QED
      BY <3>2
  <2>2. CASE j # 1
    <3>1. j - 1 \in DOMAIN s /\ s[j - 1] = "textoDLL"
      BY <1>3, <1>8, <2>2
    <3>2. PICK k \in DOMAIN s : j - 1 < k /\ s[k] = "texto"
      BY <3>1 DEF Ordenada
    <3>3. k + 1 \in DOMAIN t /\ t[k + 1] = "texto" /\ j < k + 1
      BY <1>1, <1>2, <3>2
    <3>4. QED
      BY <3>3
  <2>3. QED
    BY <2>1, <2>2
<1>9. Ordenada(t, rec \cup {r})
  BY <1>6, <1>7, <1>8 DEF Ordenada
<1>10. QED
  BY <1>4, <1>9 DEF t

\* Running the first release leaves the others in order, and it releases what is held.
LEMMA DesempilhaOrdenada ==
  ASSUME NEW s \in Seq(Recursos), NEW rec, Ordenada(s, rec), s # <<>>
  PROVE  /\ Ordenada(Tail(s), rec \ {Head(s)}) /\ Ordenada(Tail(s), rec)
         /\ Itens(Tail(s)) = Itens(s) \ {Head(s)}
         /\ Head(s) \in rec /\ Head(s) \in Itens(s) /\ Head(s) \in Recursos
         /\ Head(s) = "textoDLL" => "texto" \in rec
<1> DEFINE t == Tail(s)
<1>1. /\ t \in Seq(Recursos) /\ Len(t) = Len(s) - 1 /\ Head(s) = s[1]
      /\ \A k \in 1..(Len(s) - 1) : t[k] = s[k + 1]
      /\ Head(s) \in Recursos
  BY Desempilha
<1>2. /\ DOMAIN t = 1..(Len(s) - 1) /\ DOMAIN s = 1..Len(s) /\ Len(s) \in Nat /\ 1 \in DOMAIN s
  BY <1>1
<1> HIDE DEF t
<1>3. \A k \in DOMAIN t : k + 1 \in DOMAIN s /\ k + 1 # 1 /\ t[k] = s[k + 1]
  BY <1>1, <1>2
<1>4. \A k \in DOMAIN s : k # 1 => k - 1 \in DOMAIN t /\ t[k - 1] = s[k]
  <2> TAKE k \in DOMAIN s
  <2> HAVE k # 1
  <2>1. k - 1 \in DOMAIN t /\ (k - 1) + 1 = k
    BY <1>2
  <2>2. QED
    BY <2>1, <1>3
<1>5. \A k \in DOMAIN t : t[k] # Head(s)
  BY <1>1, <1>2, <1>3 DEF Ordenada
<1>6. Itens(t) = Itens(s) \ {Head(s)}
  <2>1. \A x \in Itens(t) : x \in Itens(s) /\ x # Head(s)
    BY <1>3, <1>5 DEF Itens
  <2>2. ASSUME NEW x \in Itens(s), x # Head(s) PROVE x \in Itens(t)
    <3>1. PICK k \in DOMAIN s : s[k] = x
      BY DEF Itens
    <3>2. k - 1 \in DOMAIN t /\ t[k - 1] = x
      BY <1>1, <1>4, <2>2, <3>1
    <3>3. QED
      BY <3>2 DEF Itens
  <2>3. QED
    BY <2>1, <2>2
<1>7. \A j \in DOMAIN t : t[j] \in rec \ {Head(s)}
  BY <1>3, <1>5 DEF Ordenada
<1>8. \A j, k \in DOMAIN t : t[j] = t[k] => j = k
  <2> TAKE j, k \in DOMAIN t
  <2> HAVE t[j] = t[k]
  <2>1. j + 1 = k + 1
    BY <1>3 DEF Ordenada
  <2>2. QED
    BY <2>1, <1>2
<1>9. ASSUME NEW j \in DOMAIN t, t[j] = "textoDLL"
      PROVE  \E k \in DOMAIN t : j < k /\ t[k] = "texto"
  <2>1. PICK k \in DOMAIN s : j + 1 < k /\ s[k] = "texto"
    BY <1>3, <1>9 DEF Ordenada
  <2>2. k - 1 \in DOMAIN t /\ t[k - 1] = "texto" /\ j < k - 1
    BY <1>2, <1>4, <2>1
  <2>3. QED
    BY <2>2
<1>10. Ordenada(t, rec \ {Head(s)}) /\ Ordenada(t, rec)
  BY <1>7, <1>8, <1>9 DEF Ordenada
<1>11. Head(s) \in rec /\ Head(s) \in Itens(s)
  BY <1>1, <1>2 DEF Ordenada, Itens
<1>12. Head(s) = "textoDLL" => "texto" \in rec
  BY <1>1, <1>2 DEF Ordenada
<1>13. QED
  BY <1>1, <1>6, <1>10, <1>11, <1>12 DEF t

----------------------------------------------------------------------------
(* What each phase holds, and where.                                       *)

Adiaveis == Recursos \ {"inC", "instancia"}

PilhaDaFase ==
  /\ Itens(adiados) \subseteq Adiaveis
  /\ pc \in {"parado", "atende", "alocaInit", "alocaConta", "abre", "alocaPar", "alocaLida"}
       => adiados = <<>>
  /\ pc \in {"init", "leInit", "enumera", "leConta"} => Itens(adiados) \subseteq {"saida"}
  /\ pc = "alocaFIR" => Itens(adiados) \subseteq {"leitor"}
  /\ pc \in {"captura", "leFIR"} => Itens(adiados) \subseteq {"leitor", "saida"}
  /\ pc = "alocaTexto" => Itens(adiados) \subseteq {"leitor", "saida", "fir"}
  /\ pc \in {"exporta", "leTexto"} =>
       "texto" \in Itens(adiados) /\ Itens(adiados) \subseteq {"leitor", "saida", "fir", "texto"}
  /\ pc \in {"alocaB", "alocaCelula"} => Itens(adiados) \subseteq {"inA"}
  /\ pc = "alocaSaida" => Itens(adiados) \subseteq {"inA", "inB"}
  /\ pc \in {"temLida", "candidato", "zera", "compara", "leVeredito"}
       => Itens(adiados) \subseteq {"inA", "saida"}

MaoDaFase ==
  /\ mao # "nada" => mao \in recursos
  /\ pc \notin {"leFIR", "leTexto"} => mao = "nada"
  /\ pc = "leFIR" => mao \in {"nada", "fir"}
  /\ pc = "leTexto" => mao \in {"nada", "textoDLL"}

\* Everything held has who releases it, or is lost.
Contado ==
  \A r \in recursos :
    \/ r \in perdidos \/ r \in Itens(adiados) \/ r = mao
    \/ r = "inC" /\ pc \in {"zera", "compara"}
    \/ r = "instancia" /\ (inst = "viva" \/ pc = "leInit" \/ (pc = "sai" /\ fim = "nenhum"))

Posse == Ordenada(adiados, recursos) /\ PilhaDaFase /\ MaoDaFase /\ Contado

\* With no release deferred.
LEMMA Vazia == Itens(<<>>) = {} /\ \A rec : Ordenada(<<>>, rec)
  BY DEF Itens, Ordenada

\* The step that obtains r and defers its release.
LEMMA Empurra ==
  ASSUME TypeOK, Posse, NEW r \in Recursos, r \notin Itens(adiados),
         r = "textoDLL" => "texto" \in Itens(adiados),
         recursos \cup {r} = recursos', adiados' = <<r>> \o adiados
  PROVE  Ordenada(adiados', recursos') /\ Itens(adiados') = Itens(adiados) \cup {r}
  BY EmpilhaOrdenada DEF TypeOK, Posse

\* A step that keeps what is held and moves on.
LEMMA Segue ==
  ASSUME TypeOK, Posse, UNCHANGED <<recursos, mao, adiados, perdidos, inst>>,
         PilhaDaFase', MaoDaFase',
         pc \notin {"zera", "compara", "sai"}, pc = "leInit" => pc' = "sai" /\ fim' = "nenhum"
  PROVE  Posse'
<1>1. Itens(adiados') = Itens(adiados)
  OBVIOUS
<1>2. Contado'
  BY <1>1 DEF Posse, Contado
<1>3. Ordenada(adiados', recursos')
  BY DEF Posse
<1>4. QED
  BY <1>2, <1>3 DEF Posse

\* A return, whatever the error: the deferred releases stay in charge.
LEMMA RetornaMantem ==
  ASSUME TypeOK, Posse, NEW de, NEW f, Retorna(de, f),
         de \notin {"leFIR", "leTexto", "zera", "compara", "sai"},
         de = "leInit" => f = "nenhum"
  PROVE  Posse'
<1>1. PilhaDaFase'
  BY DEF Posse, PilhaDaFase, Retorna, Itens
<1>2. MaoDaFase'
  BY DEF Posse, MaoDaFase, Retorna
<1>3. QED
  BY <1>1, <1>2, Segue DEF Retorna

Alocacao(de, para, r) ==
  \/ de = "alocaInit" /\ para = "init" /\ r = "saida"
  \/ de = "alocaConta" /\ para = "enumera" /\ r = "saida"
  \/ de = "abre" /\ para = "alocaFIR" /\ r = "leitor"
  \/ de = "alocaFIR" /\ para = "captura" /\ r = "saida"
  \/ de = "alocaTexto" /\ para = "exporta" /\ r = "texto"
  \/ de = "alocaPar" /\ para = "alocaB" /\ r = "inA"
  \/ de = "alocaB" /\ para = "alocaSaida" /\ r = "inB"
  \/ de = "alocaSaida" /\ para = "temPar" /\ r = "saida"
  \/ de = "alocaLida" /\ para = "alocaCelula" /\ r = "inA"
  \/ de = "alocaCelula" /\ para = "temLida" /\ r = "saida"

\* Obtaining what the phase does not hold yet, with its release deferred.
LEMMA ObtemMantem ==
  ASSUME TypeOK, Posse, NEW de, NEW para, NEW r, Alocacao(de, para, r),
         pc = de, pc' = para, recursos' = recursos \cup {r}, adiados' = <<r>> \o adiados,
         UNCHANGED <<mao, inst>>, perdidos' = perdidos \/ perdidos' = perdidos \ {r}
  PROVE  Posse'
<1>1. r \in Adiaveis /\ r # "textoDLL"
  BY DEF Alocacao, Adiaveis, Recursos, Memoria
<1>2. r \notin Itens(adiados)
  BY Vazia DEF Posse, PilhaDaFase, Alocacao
<1>3. Ordenada(adiados', recursos') /\ Itens(adiados') = Itens(adiados) \cup {r}
  BY <1>1, <1>2, Empurra DEF Adiaveis
<1>4. PilhaDaFase'
  BY <1>1, <1>3, Vazia DEF Posse, PilhaDaFase, Alocacao
<1>5. MaoDaFase'
  BY DEF Posse, MaoDaFase, Alocacao
<1>6. Contado'
  BY <1>3 DEF Posse, Contado, Alocacao
<1>7. QED
  BY <1>3, <1>4, <1>5, <1>6 DEF Posse

\* nativoAloca with its defer, or the return when there is no memory.
LEMMA AlocaMantem ==
  ASSUME TypeOK, Posse, NEW de, NEW para, NEW r, Alocacao(de, para, r), Aloca(de, para, r)
  PROVE  Posse'
<1>1. CASE Passa(de, para, {r}, <<r>>)
  BY <1>1, ObtemMantem DEF Passa
<1>2. CASE Retorna(de, "memoria")
  BY <1>2, RetornaMantem DEF Alocacao
<1>3. QED
  BY <1>1, <1>2 DEF Aloca

\* A step that obtains nothing, between phases that hold the same.
Avanco(de, para) ==
  \/ de = "enumera" /\ para = "leConta"
  \/ de = "alocaPar" /\ para = "alocaB"
  \/ de = "alocaB" /\ para = "alocaSaida"
  \/ de = "alocaSaida" /\ para = "temPar"
  \/ de = "temPar" /\ para = "verifica"
  \/ de = "alocaLida" /\ para = "alocaCelula"
  \/ de = "alocaCelula" /\ para = "temLida"
  \/ de = "temLida" /\ para = "candidato"

\* The steps that obtain nothing.
LEMMA PassaMantem ==
  ASSUME TypeOK, Posse, NEW de, NEW para, Avanco(de, para), Passa(de, para, {}, <<>>)
  PROVE  Posse'
<1>1. UNCHANGED <<recursos, adiados>>
  BY NadaAEmpilhar DEF Passa, TypeOK
<1>2. Itens(adiados') = Itens(adiados)
  BY <1>1
<1>3. PilhaDaFase'
  BY <1>1, <1>2, Vazia DEF Posse, PilhaDaFase, Passa, Avanco
<1>4. MaoDaFase'
  BY <1>1 DEF Posse, MaoDaFase, Passa, Avanco
<1>5. QED
  BY <1>1, <1>3, <1>4, Segue DEF Passa, Avanco

\* The allocations of comparaBrutos and identifica, whose failure is looked at later.
LEMMA TentaMantem ==
  ASSUME TypeOK, Posse, NEW de, NEW para, NEW r, Alocacao(de, para, r), Avanco(de, para),
         Tenta(de, para, r)
  PROVE  Posse'
<1>1. CASE Passa(de, para, {r}, <<r>>)
  BY <1>1, ObtemMantem DEF Passa
<1>2. CASE Passa(de, para, {}, <<>>)
  BY <1>2, PassaMantem
<1>3. QED
  BY <1>1, <1>2 DEF Tenta

\* The look at those allocations.
LEMMA ConfereMantem ==
  ASSUME TypeOK, Posse, NEW de, NEW para, NEW rs, Avanco(de, para), Confere(de, para, rs)
  PROVE  Posse'
<1>1. CASE Passa(de, para, {}, <<>>)
  BY <1>1, PassaMantem
<1>2. CASE Retorna(de, "memoria")
  BY <1>2, RetornaMantem DEF Avanco
<1>3. QED
  BY <1>1, <1>2 DEF Confere

\* The handle of a capture and the text it is exported to, from the call to the deferred release.
LEMMA EntregaMantem ==
  ASSUME TypeOK, Posse, NEW de, NEW para, NEW r, Entrega(de, para, r),
         (de = "captura" /\ para = "leFIR" /\ r = "fir")
           \/ (de = "exporta" /\ para = "leTexto" /\ r = "textoDLL")
  PROVE  Posse'
<1>1. CASE \E e \in ErrosDLL : Retorna(de, e)
  BY <1>1, RetornaMantem
<1>2. CASE /\ pc = de /\ pc' = para /\ UNCHANGED <<inst, adiados, perdidos>>
           /\ \/ recursos' = recursos \cup {r} /\ mao' = r
              \/ UNCHANGED <<recursos, mao>>
  <2>1. Itens(adiados') = Itens(adiados)
    BY <1>2
  <2>2. PilhaDaFase'
    BY <1>2, <2>1 DEF Posse, PilhaDaFase
  <2>3. MaoDaFase' /\ mao = "nada"
    BY <1>2 DEF Posse, MaoDaFase
  <2>a. "nada" \notin recursos
    BY DEF TypeOK, Recursos, Memoria
  <2>4. Contado'
    BY <1>2, <2>1, <2>3, <2>a DEF Posse, Contado
  <2>5. Ordenada(adiados', recursos')
    BY <1>2 DEF Posse, Ordenada
  <2>6. QED
    BY <2>2, <2>3, <2>4, <2>5 DEF Posse
<1>3. QED
  BY <1>1, <1>2 DEF Entrega

\* The handle or pointer read, null, or unreadable and then lost.
LEMMA RecolheMantem ==
  ASSUME TypeOK, Posse, NEW de, NEW para, NEW r, Recolhe(de, para, r),
         (de = "leFIR" /\ para = "alocaTexto" /\ r = "fir")
           \/ (de = "leTexto" /\ para = "copia" /\ r = "textoDLL")
  PROVE  Posse'
<1>1. r \in Adiaveis /\ r \notin Itens(adiados) /\ (r = "textoDLL" => "texto" \in Itens(adiados))
  BY DEF Recolhe, Posse, PilhaDaFase, Adiaveis, Recursos, Memoria
<1>2. CASE /\ mao = r /\ pc' = para /\ mao' = "nada" /\ adiados' = <<r>> \o adiados
           /\ UNCHANGED perdidos
  <2>1. recursos \cup {r} = recursos'
    BY <1>2 DEF Recolhe, Posse, MaoDaFase
  <2>2. Ordenada(adiados', recursos') /\ Itens(adiados') = Itens(adiados) \cup {r}
    BY <1>1, <1>2, <2>1, Empurra DEF Adiaveis
  <2>3. PilhaDaFase'
    BY <1>1, <1>2, <2>2 DEF Posse, PilhaDaFase, Recolhe
  <2>4. MaoDaFase'
    BY <1>2 DEF MaoDaFase
  <2>5. Contado'
    BY <1>2, <2>2 DEF Posse, Contado, Recolhe
  <2>6. QED
    BY <2>2, <2>3, <2>4, <2>5 DEF Posse
<1>3. CASE /\ pc' = "sai" /\ mao' = "nada" /\ UNCHANGED adiados
           /\ \/ mao = "nada" /\ UNCHANGED perdidos
              \/ perdidos' = perdidos \cup ({mao} \cap Recursos)
  <2>1. Itens(adiados') = Itens(adiados) /\ recursos' = recursos /\ inst' = inst
    BY <1>3 DEF Recolhe
  <2>2. PilhaDaFase'
    BY <1>3, <2>1 DEF Posse, PilhaDaFase
  <2>3. MaoDaFase'
    BY <1>3 DEF MaoDaFase
  <2>4. recursos \subseteq Recursos
    BY DEF TypeOK
  <2>5. Contado'
    BY <1>3, <2>1, <2>4 DEF Posse, Contado, Recolhe
  <2>6. QED
    BY <1>3, <2>1, <2>2, <2>3, <2>5 DEF Posse
<1>4. QED
  BY <1>2, <1>3 DEF Recolhe

\* The device, the capture and the text of it (capturaTexto), and the count of devices.
LEMMA ObtidosMantem ==
  ASSUME TypeOK, Posse, CapturaTexto \/ ContaDispositivos
  PROVE  Posse'
<1>1. CASE ContaDispositivos
  <2>1. CASE Aloca("alocaConta", "enumera", "saida")
    BY <2>1, AlocaMantem DEF Alocacao
  <2>2. CASE Passa("enumera", "leConta", {}, <<>>)
    BY <2>2, PassaMantem DEF Avanco
  <2>3. ASSUME NEW f, Retorna("enumera", f) \/ Retorna("leConta", f) PROVE Posse'
    BY <2>3, RetornaMantem
  <2>4. QED
    BY <1>1, <2>1, <2>2, <2>3 DEF ContaDispositivos, Chama
<1>2. CASE CapturaTexto
  <2>1. CASE Abre
    <3>1. CASE \E e \in ErrosDLL : Retorna("abre", e)
      BY <3>1, RetornaMantem
    <3>2. CASE ~ (\E e \in ErrosDLL : Retorna("abre", e))
      BY <2>1, <3>2, ObtemMantem DEF Abre, Alocacao
    <3>3. QED
      BY <3>1, <3>2
  <2>2. CASE Aloca("alocaFIR", "captura", "saida")
    BY <2>2, AlocaMantem DEF Alocacao
  <2>3. CASE Entrega("captura", "leFIR", "fir") \/ Entrega("exporta", "leTexto", "textoDLL")
    BY <2>3, EntregaMantem
  <2>4. CASE Recolhe("leFIR", "alocaTexto", "fir") \/ Recolhe("leTexto", "copia", "textoDLL")
    BY <2>4, RecolheMantem
  <2>5. CASE Aloca("alocaTexto", "exporta", "texto")
    BY <2>5, AlocaMantem DEF Alocacao
  <2>6. ASSUME NEW f, Retorna("copia", f) PROVE Posse'
    BY <2>6, RetornaMantem
  <2>7. QED
    BY <1>2, <2>1, <2>2, <2>3, <2>4, <2>5, <2>6 DEF CapturaTexto
<1>3. QED
  BY <1>1, <1>2

\* The instance (novoSDK): held by the step that reads its handle, then by the worker.
LEMMA NovoSDKMantem == ASSUME TypeOK, Posse, NovoSDK PROVE Posse'
<1>1. ASSUME NEW f, Retorna("alocaInit", f) \/ Retorna("init", f) PROVE Posse'
  BY <1>1, RetornaMantem
<1>2. CASE Aloca("alocaInit", "init", "saida")
  BY <1>2, AlocaMantem DEF Alocacao
<1>3. CASE Passa("init", "leInit", {"instancia"}, <<>>)
  <2>1. UNCHANGED adiados /\ Itens(adiados') = Itens(adiados)
    BY <1>3, NadaAEmpilhar DEF Passa, TypeOK
  <2>2. PilhaDaFase' /\ MaoDaFase'
    BY <1>3, <2>1 DEF Posse, PilhaDaFase, MaoDaFase, Passa
  <2>3. Contado' /\ Ordenada(adiados', recursos')
    BY <1>3, <2>1 DEF Posse, Contado, Ordenada, Passa
  <2>4. QED
    BY <2>2, <2>3 DEF Posse
<1>4. CASE Retorna("leInit", "nenhum")
  BY <1>4, RetornaMantem
<1>5. CASE /\ pc = "leInit" /\ pc' = "sai"
           /\ perdidos' = perdidos \cup {"instancia"}
           /\ UNCHANGED <<recursos, mao, adiados, inst>>
  <2>1. Itens(adiados') = Itens(adiados)
    BY <1>5
  <2>2. PilhaDaFase' /\ MaoDaFase'
    BY <1>5, <2>1 DEF Posse, PilhaDaFase, MaoDaFase
  <2>3. Contado' /\ Ordenada(adiados', recursos')
    BY <1>5, <2>1 DEF Posse, Contado
  <2>4. QED
    BY <2>2, <2>3 DEF Posse
<1>6. QED
  BY <1>1, <1>2, <1>3, <1>4, <1>5 DEF NovoSDK

\* A comparison of one pair (comparaBrutos).
LEMMA ComparaMantem == ASSUME TypeOK, Posse, ComparaTextos PROVE Posse'
<1>1. CASE Tenta("alocaPar", "alocaB", "inA") \/ Tenta("alocaB", "alocaSaida", "inB")
           \/ Tenta("alocaSaida", "temPar", "saida")
  BY <1>1, TentaMantem DEF Alocacao, Avanco
<1>2. CASE Confere("temPar", "verifica", {"inA", "inB", "saida"})
  BY <1>2, ConfereMantem DEF Avanco
<1>3. ASSUME NEW f, Retorna("alocaPar", f) \/ Retorna("verifica", f) \/ Retorna("lePar", f)
      PROVE  Posse'
  BY <1>3, RetornaMantem
<1>4. CASE /\ pc \in {"verifica", "lePar"} /\ pc' \in {"lePar", "sai"}
           /\ UNCHANGED <<inst, recursos, mao, adiados, perdidos>>
  <2>1. PilhaDaFase' /\ MaoDaFase'
    BY <1>4 DEF Posse, PilhaDaFase, MaoDaFase, Itens
  <2>2. QED
    BY <1>4, <2>1, Segue
<1>5. QED
  BY <1>1, <1>2, <1>3, <1>4 DEF ComparaTextos

\* The search over the candidates: the copy of a candidate lives from its allocation to its verdict.
LEMMA IdentificaMantem == ASSUME TypeOK, Posse, Identifica PROVE Posse'
<1>1. CASE Tenta("alocaLida", "alocaCelula", "inA") \/ Tenta("alocaCelula", "temLida", "saida")
  BY <1>1, TentaMantem DEF Alocacao, Avanco
<1>2. CASE Confere("temLida", "candidato", {"inA", "saida"})
  BY <1>2, ConfereMantem DEF Avanco
<1>3. ASSUME NEW f, Retorna("candidato", f) \/ Retorna("leVeredito", f) PROVE Posse'
  BY <1>3, RetornaMantem
<1>4. CASE /\ pc \in {"candidato", "leVeredito"} /\ pc' \in {"candidato", "sai"}
           /\ UNCHANGED <<inst, recursos, mao, adiados, perdidos>>
  <2>1. PilhaDaFase' /\ MaoDaFase'
    BY <1>4 DEF Posse, PilhaDaFase, MaoDaFase, Itens
  <2>2. QED
    BY <1>4, <2>1, Segue
<1>5. CASE Passa("candidato", "zera", {"inC"}, <<>>)
  <2>1. UNCHANGED adiados /\ Itens(adiados') = Itens(adiados)
    BY <1>5, NadaAEmpilhar DEF Passa, TypeOK
  <2>2. PilhaDaFase' /\ MaoDaFase'
    BY <1>5, <2>1 DEF Posse, PilhaDaFase, MaoDaFase, Passa
  <2>3. Contado' /\ Ordenada(adiados', recursos')
    BY <1>5, <2>1 DEF Posse, Contado, Ordenada, Passa
  <2>4. QED
    BY <2>2, <2>3 DEF Posse
<1>6. CASE /\ pc = "zera" /\ pc' = "compara"
           /\ UNCHANGED <<inst, recursos, mao, adiados, perdidos>>
  BY <1>6 DEF Posse, PilhaDaFase, MaoDaFase, Contado, Itens
<1>7. CASE /\ pc \in {"zera", "compara"} /\ pc' \in {"sai", "candidato", "leVeredito"}
           /\ recursos' = recursos \ {"inC"}
           /\ UNCHANGED <<inst, mao, adiados, perdidos>>
  <2>1. PilhaDaFase' /\ MaoDaFase'
    BY <1>7 DEF Posse, PilhaDaFase, MaoDaFase, Itens
  <2>2. "inC" \notin Itens(adiados)
    BY DEF Posse, PilhaDaFase, Adiaveis
  <2>3. Ordenada(adiados', recursos')
    BY <1>7, <2>2 DEF Posse, Ordenada, Itens
  <2>4. Contado'
    BY <1>7 DEF Posse, Contado, Itens
  <2>5. QED
    BY <2>1, <2>3, <2>4 DEF Posse
<1>8. CASE Candidato
  BY <1>3, <1>4, <1>5, <1>8 DEF Candidato, Ignora
<1>9. CASE Zera
  BY <1>6, <1>7, <1>9 DEF Zera
<1>10. CASE ComparaCandidato
  BY <1>7, <1>10 DEF ComparaCandidato, Ignora
<1>11. CASE LeVeredito
  BY <1>3, <1>4, <1>11 DEF LeVeredito
<1>12. QED
  BY <1>1, <1>2, <1>8, <1>9, <1>10, <1>11 DEF Identifica

\* The deferred releases, the return and what atendePedido does then.
LEMMA SaidaMantem == ASSUME TypeOK, Posse, Libera \/ Volta \/ Atende PROVE Posse'
<1>1. CASE Libera
  <2>1. /\ Ordenada(Tail(adiados), recursos \ {Head(adiados)})
        /\ Ordenada(Tail(adiados), recursos)
        /\ Itens(Tail(adiados)) = Itens(adiados) \ {Head(adiados)}
    BY <1>1, DesempilhaOrdenada DEF Libera, Posse, TypeOK
  <2>2. PilhaDaFase' /\ MaoDaFase'
    BY <1>1, <2>1 DEF Posse, PilhaDaFase, MaoDaFase, Libera
  <2>3. Ordenada(adiados', recursos')
    BY <1>1, <2>1 DEF Libera
  <2>4. Contado'
    BY <1>1, <2>1 DEF Posse, Contado, Libera
  <2>5. QED
    BY <2>2, <2>3, <2>4 DEF Posse
<1>2. CASE Volta
  <2>1. pc' \in {"atende", "alocaConta", "abre", "alocaPar", "alocaLida"}
    BY <1>2 DEF Volta, Primeiro
  <2>2. PilhaDaFase' /\ MaoDaFase'
    BY <1>2, <2>1, Vazia DEF Posse, PilhaDaFase, MaoDaFase, Volta
  <2>3. Contado' /\ Ordenada(adiados', recursos')
    BY <1>2, <2>1 DEF Posse, Contado, Volta
  <2>4. QED
    BY <2>2, <2>3 DEF Posse
<1>3. CASE Atende
  <2>1. PilhaDaFase' /\ MaoDaFase'
    BY <1>3, Vazia DEF Posse, PilhaDaFase, MaoDaFase, Atende
  <2>2. adiados = <<>> /\ adiados' = <<>>
    BY <1>3 DEF Posse, PilhaDaFase, Atende
  <2>3. Ordenada(adiados', recursos')
    BY <2>2, Vazia
  <2>4. Contado'
    BY <1>3, <2>2 DEF Posse, Contado, MaoDaFase, Atende
  <2>5. QED
    BY <2>1, <2>3, <2>4 DEF Posse
<1>4. QED
  BY <1>1, <1>2, <1>3

\* A request finds nothing to release.
LEMMA PosseDoPedido == ASSUME TypeOK, Posse, NEW o, NEW l, Pede(o, l) PROVE Posse'
<1>1. pc' \in {"alocaInit", "alocaConta", "abre", "alocaPar", "alocaLida"}
  BY DEF Pede, Primeiro
<1>2. PilhaDaFase' /\ MaoDaFase'
  BY <1>1, Vazia DEF Posse, PilhaDaFase, MaoDaFase, Pede
<1>3. Contado' /\ Ordenada(adiados', recursos')
  BY <1>1 DEF Posse, Contado, Pede
<1>4. QED
  BY <1>2, <1>3 DEF Posse

\* Every step keeps an owner for everything held.
LEMMA PosseDoPasso == TypeOK /\ Posse /\ [Next]_vars => Posse'
<1> SUFFICES ASSUME TypeOK, Posse, [Next]_vars PROVE Posse'
  OBVIOUS
<1>1. CASE UNCHANGED vars
  BY <1>1 DEF vars, Posse, PilhaDaFase, MaoDaFase, Contado, Itens
<1>2. QED
  BY <1>1, PosseDoPedido, NovoSDKMantem, ObtidosMantem, ComparaMantem, IdentificaMantem, SaidaMantem
  DEF Next, Passo, PedeAlgo

----------------------------------------------------------------------------
(* The types.                                                               *)

Fases == {"parado", "sai", "atende", "alocaInit", "init", "leInit", "alocaConta", "enumera",
          "leConta", "abre", "alocaFIR", "captura", "leFIR", "alocaTexto", "exporta",
          "leTexto", "copia", "alocaPar", "alocaB", "alocaSaida", "temPar", "verifica",
          "lePar", "alocaLida", "alocaCelula", "temLida", "candidato", "zera", "compara",
          "leVeredito"}

\* The types after a step that works.
LEMMA TipoPassa ==
  ASSUME TypeOK, NEW de, NEW para \in Fases, NEW obtem \in SUBSET Recursos,
         NEW adia, Passa(de, para, obtem, adia),
         adia = <<>> \/ \E r \in Recursos : adia = <<r>>
  PROVE  TypeOK'
<1>1. adiados' \in Seq(Recursos)
  BY Empilha, NadaAEmpilhar DEF Passa, TypeOK
<1>2. QED
  BY <1>1 DEF Passa, TypeOK, Fases, pedido, busca

\* The types after a return.
LEMMA TipoRetorna ==
  ASSUME TypeOK, NEW de, NEW f \in Fins, Retorna(de, f)
  PROVE  TypeOK'
  BY DEF Retorna, TypeOK, pedido, busca

\* The types after an allocation.
LEMMA TipoAloca ==
  ASSUME TypeOK, NEW de, NEW para \in Fases, NEW r \in Recursos,
         Aloca(de, para, r) \/ Tenta(de, para, r)
  PROVE  TypeOK'
  BY TipoPassa, TipoRetorna DEF Aloca, Tenta, Fins

\* The types after the DLL hands something over, and after it is read.
LEMMA TipoEntrega ==
  ASSUME TypeOK, NEW de, NEW para \in Fases, NEW r \in {"fir", "textoDLL"},
         Entrega(de, para, r) \/ Recolhe(de, para, r)
  PROVE  TypeOK'
<1>1. r \in Recursos
  BY DEF Recursos
<1>2. CASE Recolhe(de, para, r)
  <2>a. adiados \in Seq(Recursos)
    BY DEF TypeOK
  <2>b. <<r>> \o adiados \in Seq(Recursos)
    BY <1>1, <2>a, Empilha
  <2>1. adiados' \in Seq(Recursos)
    BY <1>2, <2>a, <2>b DEF Recolhe
  <2>2. QED
    BY <1>2, <2>1 DEF Recolhe, TypeOK, Fases, Fins, pedido, busca
<1>3. ASSUME NEW e \in ErrosDLL, Retorna(de, e) PROVE TypeOK'
  BY <1>3, TipoRetorna DEF Fins
<1>4. CASE Entrega(de, para, r) /\ ~ \E e \in ErrosDLL : Retorna(de, e)
  BY <1>1, <1>4 DEF Entrega, TypeOK, Fases, pedido, busca
<1>5. QED
  BY <1>2, <1>3, <1>4

\* The types after a request.
LEMMA TipoPede ==
  ASSUME TypeOK, NEW o \in Operacoes, NEW l \in Seq(Classes), Pede(o, l)
  PROVE  TypeOK'
  BY DEF Pede, Primeiro, TypeOK, Fins

\* Every step keeps the types.
LEMMA TipoPasso == TypeOK /\ [Next]_vars => TypeOK'
<1> SUFFICES ASSUME TypeOK, [Next]_vars PROVE TypeOK'
  OBVIOUS
<1> USE DEF pedido, busca
<1>m. {"instancia", "saida", "leitor", "fir", "textoDLL", "texto", "inA", "inB", "inC"}
        \subseteq Recursos
  BY DEF Recursos, Memoria
<1>2. CASE PedeAlgo
  <2>1. ASSUME NEW o \in {"conta", "captura"}, Pede(o, <<>>) PROVE TypeOK'
    <3>1. <<>> \in Seq(Classes) /\ o \in Operacoes
      BY DEF Operacoes
    <3>2. QED
      BY <2>1, <3>1, TipoPede
  <2>2. ASSUME NEW c \in Classes, Pede("compara", <<c>>) PROVE TypeOK'
    <3>1. <<c>> \in Seq(Classes) /\ "compara" \in Operacoes
      BY DEF Operacoes
    <3>2. QED
      BY <2>2, <3>1, TipoPede
  <2>3. ASSUME NEW l \in Listas, Pede("identifica", l) PROVE TypeOK'
    BY <2>3, TipoPede, ListasAssumption DEF Operacoes
  <2>4. QED
    BY <1>2, <2>1, <2>2, <2>3 DEF PedeAlgo
<1>3. ASSUME NEW de, NEW f \in Fins, Retorna(de, f) PROVE TypeOK'
  BY <1>3, TipoRetorna
<1>4. CASE NovoSDK
  <2>1. CASE Aloca("alocaInit", "init", "saida")
    BY <1>m, <2>1, TipoAloca DEF Fases
  <2>2. CASE Passa("init", "leInit", {"instancia"}, <<>>)
    BY <1>m, <2>2, TipoPassa DEF Fases
  <2>3. CASE pc = "leInit" /\ fim' = "leitura" /\ ~ Retorna("leInit", "nenhum")
               /\ ~ Aloca("alocaInit", "init", "saida")
               /\ ~ Passa("init", "leInit", {"instancia"}, <<>>)
               /\ ~ Retorna("alocaInit", "sdk") /\ ~ Retorna("init", "sdk")
    BY <1>4, <1>m, <2>3 DEF NovoSDK, TypeOK, Fins
  <2>4. QED
    BY <1>3, <1>4, <2>1, <2>2, <2>3 DEF NovoSDK, Fins, ErrosDLL
<1>5. CASE ContaDispositivos
  <2>1. CASE Aloca("alocaConta", "enumera", "saida")
    BY <1>m, <2>1, TipoAloca DEF Fases
  <2>2. CASE Passa("enumera", "leConta", {}, <<>>)
    BY <2>2, TipoPassa DEF Fases
  <2>3. QED
    BY <1>3, <1>5, <2>1, <2>2 DEF ContaDispositivos, Chama, Fins
<1>6. CASE CapturaTexto
  <2>1. CASE Abre
    <3>1. CASE \E e \in ErrosDLL : Retorna("abre", e)
      BY <1>3, <3>1 DEF Fins
    <3>2. CASE ~ \E e \in ErrosDLL : Retorna("abre", e)
      <4>a. adiados' = <<"leitor">> \o adiados
        BY <2>1, <3>2 DEF Abre
      <4>b. adiados \in Seq(Recursos) /\ "leitor" \in Recursos
        BY <1>m DEF TypeOK
      <4>1. adiados' \in Seq(Recursos)
        BY <4>a, <4>b, Empilha
      <4>2. QED
        BY <1>m, <2>1, <3>2, <4>1 DEF Abre, TypeOK
    <3>3. QED
      BY <3>1, <3>2
  <2>2. CASE Aloca("alocaFIR", "captura", "saida") \/ Aloca("alocaTexto", "exporta", "texto")
    BY <1>m, <2>2, TipoAloca DEF Fases
  <2>3. CASE Entrega("captura", "leFIR", "fir") \/ Entrega("exporta", "leTexto", "textoDLL")
    BY <2>3, TipoEntrega DEF Fases
  <2>4. CASE Recolhe("leFIR", "alocaTexto", "fir") \/ Recolhe("leTexto", "copia", "textoDLL")
    BY <2>4, TipoEntrega DEF Fases
  <2>5. QED
    BY <1>3, <1>6, <2>1, <2>2, <2>3, <2>4 DEF CapturaTexto, Fins
<1>7. ASSUME NEW de, NEW para \in Fases, NEW rs, Confere(de, para, rs) PROVE TypeOK'
  BY <1>3, <1>7, TipoPassa DEF Confere, Fins
<1>8. CASE ComparaTextos
  <2>1. CASE Tenta("alocaPar", "alocaB", "inA") \/ Tenta("alocaB", "alocaSaida", "inB")
             \/ Tenta("alocaSaida", "temPar", "saida")
    BY <1>m, <2>1, TipoAloca DEF Fases
  <2>2. CASE Confere("temPar", "verifica", {"inA", "inB", "saida"})
    BY <1>7, <2>2 DEF Fases
  <2>3. CASE \E f \in Fins : Retorna("alocaPar", f) \/ Retorna("verifica", f) \/ Retorna("lePar", f)
    BY <1>3, <2>3
  <2>4. CASE /\ pc = "verifica" /\ pc' = "lePar" /\ celula' \in Veredito(lista[1])
             /\ UNCHANGED <<pedido, inst, recursos, mao, adiados, busca, fim, perdidos>>
    BY <2>4 DEF TypeOK, Veredito
  <2>5. CASE /\ pc = "lePar" /\ pc' = "sai" /\ fim' = "ok" /\ quem' = celula
             /\ UNCHANGED <<pedido, inst, recursos, mao, adiados, celula, i, ignorados, perdidos>>
    BY <2>5 DEF TypeOK, Fins
  <2>6. QED
    BY <1>8, <2>1, <2>2, <2>3, <2>4, <2>5 DEF ComparaTextos, Fins
<1>9. CASE Identifica
  <2>1. CASE Tenta("alocaLida", "alocaCelula", "inA") \/ Tenta("alocaCelula", "temLida", "saida")
    BY <1>m, <2>1, TipoAloca DEF Fases
  <2>2. CASE Confere("temLida", "candidato", {"inA", "saida"})
    BY <1>7, <2>2 DEF Fases
  <2>3. CASE Candidato
    <3>1. CASE Passa("candidato", "zera", {"inC"}, <<>>)
      BY <1>m, <3>1, TipoPassa DEF Fases
    <3>2. CASE \E f \in Fins : Retorna("candidato", f)
      BY <1>3, <3>2
    <3>3. CASE pc = "candidato" /\ Ignora
               /\ UNCHANGED <<pedido, inst, recursos, mao, adiados, celula, perdidos>>
      BY <3>3 DEF Ignora, TypeOK
    <3>4. QED
      BY <2>3, <3>1, <3>2, <3>3 DEF Candidato, Fins
  <2>4. CASE Zera
    BY <2>4 DEF Zera, TypeOK, Fins
  <2>5. CASE ComparaCandidato
    <3>a. \A c : Veredito(c) \subseteq {0, 1}
      BY DEF Veredito, TypeOK
    <3>b. celula' \in {0, 1}
      BY <2>5, <3>a DEF ComparaCandidato
    <3>c. pc' \in {"candidato", "leVeredito", "sai"} /\ fim' \in {fim} \cup ErrosDLL
      BY <2>5 DEF ComparaCandidato, Ignora
    <3>d. pc' \in Fases
      BY <3>c DEF Fases
    <3>e. fim' \in Fins
      BY <3>c DEF TypeOK, Fins
    <3>1. celula' \in {0, 1} /\ pc' \in Fases /\ fim' \in Fins
      BY <3>b, <3>d, <3>e
    <3>2. i' \in Nat \ {0} /\ ignorados' \subseteq Nat /\ quem' \in Nat
      <4>1. /\ ignorados' \in {ignorados, ignorados \cup {i}} /\ i' \in {i, i + 1}
            /\ quem' = quem
        BY <2>5 DEF ComparaCandidato, Ignora
      <4>2. i \in Nat \ {0} /\ ignorados \subseteq Nat /\ quem \in Nat
        BY DEF TypeOK
      <4>3. QED
        BY <4>1, <4>2
    <3>3. QED
      BY <2>5, <3>1, <3>2 DEF ComparaCandidato, TypeOK, Fases
  <2>6. CASE LeVeredito
    <3>1. CASE Retorna("leVeredito", "leitura")
      BY <1>3, <3>1 DEF Fins
    <3>2. CASE /\ pc' \in {"sai", "candidato"} /\ fim' \in {fim, "ok"} /\ quem' \in {quem, i}
               /\ i' \in {i, i + 1}
               /\ UNCHANGED <<pedido, inst, recursos, mao, adiados, celula, ignorados, perdidos>>
      <4>1. i' \in Nat \ {0} /\ quem' \in Nat
        BY <3>2 DEF TypeOK
      <4>2. QED
        BY <3>2, <4>1 DEF TypeOK, Fins
    <3>3. QED
      BY <2>6, <3>1, <3>2 DEF LeVeredito
  <2>7. QED
    BY <1>9, <2>1, <2>2, <2>3, <2>4, <2>5, <2>6 DEF Identifica
<1>10. CASE Libera
  <2>1. Tail(adiados) \in Seq(Recursos)
    BY <1>10, Desempilha DEF Libera, TypeOK
  <2>2. QED
    BY <1>10, <1>m, <2>1 DEF Libera, TypeOK
<1>11. CASE Volta
  BY <1>11 DEF Volta, Primeiro, TypeOK
<1>12. CASE Atende
  BY <1>12, <1>m DEF Atende, TypeOK, Operacoes
<1>13. CASE UNCHANGED vars
  BY <1>13 DEF vars, TypeOK
<1>14. QED
  BY <1>2, <1>4, <1>5, <1>6, <1>8, <1>9, <1>10, <1>11, <1>12, <1>13 DEF Next, Passo

\* The worker starts with no instance and nothing held.
LEMMA Inicio == Init => TypeOK /\ Posse
<1> SUFFICES ASSUME Init PROVE TypeOK /\ Posse
  OBVIOUS
<1>1. TypeOK
  BY DEF Init, TypeOK, Operacoes, Fins
<1>2. Posse
  BY Vazia DEF Init, Posse, PilhaDaFase, MaoDaFase, Contado
<1>3. QED
  BY <1>1, <1>2

\* Type correctness, for every list of candidates (sdk.go, the native binding).
THEOREM TipoCorreto == Spec => []TypeOK
<1>1. Init => TypeOK
  BY Inicio
<1>2. QED
  BY <1>1, TipoPasso, PTL DEF Spec

\* Who owns each resource at each step of each operation: the deferred calls, the step itself,
\* the instance, or nobody, because a close or a read failed.
THEOREM Invariante == Spec => [](TypeOK /\ Posse)
  BY Inicio, TipoPasso, PosseDoPasso, PTL DEF Spec

\* Nothing owned by a deferred call or by a step is left between two requests.
LEMMA PosseNaoVaza == TypeOK /\ Posse => NadaVaza
<1> SUFFICES ASSUME TypeOK, Posse, pc = "parado"
             PROVE  recursos \subseteq perdidos \cup (IF inst = "viva" THEN {"instancia"} ELSE {})
  BY DEF NadaVaza
<1>1. Itens(adiados) = {} /\ mao = "nada" /\ "nada" \notin recursos
  BY Vazia DEF Posse, PilhaDaFase, MaoDaFase, TypeOK, Recursos, Memoria
<1>2. QED
  BY <1>1 DEF Posse, Contado

\* What is on the stack of releases is held.
LEMMA PosseLiberaVivo == TypeOK /\ Posse => LiberaVivo
  BY DesempilhaOrdenada DEF LiberaVivo, Posse, TypeOK

\* Whatever fails, nothing is held between two requests that could have been released.
THEOREM NadaFica == Spec => []NadaVaza
  BY PosseNaoVaza, Invariante, PTL

\* No deferred call releases what is not held.
THEOREM LiberaOQueTem == Spec => []LiberaVivo
  BY PosseLiberaVivo, Invariante, PTL

----------------------------------------------------------------------------
(* The verdicts.                                                            *)

\* Until the search begins nothing has been searched.
NadaBuscado ==
  \/ pc \in {"alocaInit", "init", "leInit", "alocaLida", "alocaCelula", "temLida"}
  \/ pc = "sai" /\ fim = "nenhum"
  => i = 1 /\ ignorados = {} /\ quem = 0

\* Up to candidate i none matched, and the bad ones are noted.
Buscando ==
  pc \in {"candidato", "zera", "compara", "leVeredito"} =>
    /\ i \in 1..(Len(lista) + 1) /\ quem = 0
    /\ \A k \in 1..(i - 1) : lista[k] # "confere"
    /\ ignorados = Ruins(i - 1)
    /\ pc # "candidato" => i <= Len(lista) /\ lista[i] # "ilegivel"
    /\ pc = "compara" => celula = 0
    /\ pc = "leVeredito" =>
         lista[i] \in {"difere", "confere"} /\ (celula = 1 <=> lista[i] = "confere")

\* Only an identification is in the phases of one.
FasesDaBusca ==
  /\ op = "identifica" => pc \in {"parado", "alocaInit", "init", "leInit", "alocaLida",
                                   "alocaCelula", "temLida", "candidato", "zera", "compara",
                                   "leVeredito", "sai", "atende"}
  /\ pc = "parado" => op # "identifica"

Busca == NadaBuscado /\ Buscando /\ FasesDaBusca /\ VereditoCerto

\* The bad candidates up to n, from those up to n - 1.
LEMMA RuinsAumenta ==
  ASSUME lista \in Seq(Classes), NEW n \in Nat \ {0}, n <= Len(lista)
  PROVE  Ruins(n) = IF lista[n] \in {"ilegivel", "adulterado"} THEN Ruins(n - 1) \cup {n}
                                                                 ELSE Ruins(n - 1)
<1>1. 1..n = (1..(n - 1)) \cup {n} /\ n \in DOMAIN lista
  OBVIOUS
<1>2. QED
  BY <1>1 DEF Ruins

\* No candidate, no bad one.
LEMMA RuinsDeNada == Ruins(0) = {}
  BY DEF Ruins

\* A step outside the search that keeps the request and what was found.
LEMMA ForaDaBusca ==
  ASSUME Busca, UNCHANGED <<op, lista, i, ignorados, quem>>,
         pc \notin {"candidato", "zera", "compara", "leVeredito"},
         pc' \notin {"candidato", "zera", "compara", "leVeredito", "parado"},
         NadaBuscado', FasesDaBusca', op = "identifica" /\ pc' \in {"sai", "atende"} =>
           fim' \notin {"ok", "checksum"} \/ (fim' = fim /\ pc \in {"sai", "atende"})
  PROVE  Busca'
<1>1. Buscando'
  BY DEF Buscando
<1>2. Ruins(Len(lista))' = Ruins(Len(lista)) /\ Ruins(quem)' = Ruins(quem)
  BY DEF Ruins
<1>3. VereditoCerto'
  BY <1>2 DEF Busca, VereditoCerto
<1>4. QED
  BY <1>1, <1>3 DEF Busca

\* The steps of the other operations find and leave out nothing.
LEMMA BuscaDosOutros ==
  ASSUME TypeOK, Busca, NovoSDK \/ ContaDispositivos \/ CapturaTexto \/ ComparaTextos
  PROVE  Busca'
<1> USE DEF pedido, busca
<1>1. CASE NovoSDK
  <2>1. NadaBuscado' /\ FasesDaBusca'
    BY <1>1 DEF NovoSDK, Aloca, Passa, Retorna, Busca, NadaBuscado, FasesDaBusca
  <2>2. QED
    BY <1>1, <2>1, ForaDaBusca DEF NovoSDK, Aloca, Passa, Retorna, Busca, FasesDaBusca
<1>2. CASE ContaDispositivos
  <2>1. NadaBuscado' /\ FasesDaBusca'
    BY <1>2 DEF ContaDispositivos, Chama, Aloca, Passa, Retorna, ErrosDLL, Busca, NadaBuscado, FasesDaBusca
  <2>2. QED
    BY <1>2, <2>1, ForaDaBusca
    DEF ContaDispositivos, Chama, Aloca, Passa, Retorna, Busca, FasesDaBusca
<1>3. CASE CapturaTexto
  <2>1. NadaBuscado' /\ FasesDaBusca'
    BY <1>3 DEF CapturaTexto, Abre, Entrega, Recolhe, Aloca, Passa, Retorna, ErrosDLL, Busca, NadaBuscado, FasesDaBusca
  <2>2. QED
    BY <1>3, <2>1, ForaDaBusca
    DEF CapturaTexto, Abre, Entrega, Recolhe, Aloca, Passa, Retorna, Busca, FasesDaBusca
<1>4. CASE ComparaTextos
  <2>1. NadaBuscado' /\ FasesDaBusca' /\ op # "identifica"
    BY <1>4 DEF ComparaTextos, Tenta, Confere, Passa, Retorna, ErrosDLL, Busca, NadaBuscado, FasesDaBusca
  <2>2. Buscando'
    BY <1>4 DEF ComparaTextos, Tenta, Confere, Passa, Retorna, Buscando
  <2>3. VereditoCerto'
    BY <1>4, <2>1 DEF ComparaTextos, Tenta, Confere, Passa, Retorna, VereditoCerto
  <2>4. QED
    BY <2>1, <2>2, <2>3 DEF Busca
<1>5. QED
  BY <1>1, <1>2, <1>3, <1>4

\* The next request starts a search anew.
LEMMA BuscaDoPedido == ASSUME NEW o, NEW l, Pede(o, l) PROVE Busca'
<1>1. pc' \in {"alocaInit", "alocaConta", "abre", "alocaPar", "alocaLida"}
  BY DEF Pede, Primeiro
<1>2. FasesDaBusca'
  BY <1>1 DEF Pede, Primeiro, FasesDaBusca
<1>3. QED
  BY <1>1, <1>2 DEF Pede, Busca, NadaBuscado, Buscando, VereditoCerto

\* The way out.
LEMMA BuscaDaSaida ==
  ASSUME TypeOK, Busca, Libera \/ Volta \/ Atende \/ PedeAlgo
  PROVE  Busca'
<1> USE DEF pedido, busca
<1>1. CASE Libera
  <2>1. NadaBuscado' /\ FasesDaBusca'
    BY <1>1 DEF Libera, Busca, NadaBuscado, FasesDaBusca
  <2>2. QED
    BY <1>1, <2>1, ForaDaBusca DEF Libera
<1>2. CASE Volta
  <2>1. pc' \in {"atende", "alocaConta", "abre", "alocaPar", "alocaLida"}
    BY <1>2 DEF Volta, Primeiro
  <2>2. NadaBuscado' /\ FasesDaBusca'
    BY <1>2, <2>1 DEF Volta, Primeiro, Busca, NadaBuscado, FasesDaBusca
  <2>3. QED
    BY <1>2, <2>1, <2>2, ForaDaBusca DEF Volta
<1>3. CASE Atende
  BY <1>3 DEF Atende, Busca, NadaBuscado, Buscando, FasesDaBusca, VereditoCerto
<1>4. QED
  BY <1>1, <1>2, <1>3, BuscaDoPedido DEF PedeAlgo

\* The search: one candidate at a time, in order, each with a verdict of its own.
LEMMA BuscaDaIdentifica ==
  ASSUME TypeOK, Busca, Identifica
  PROVE  Busca'
<1> USE DEF pedido, busca
<1>l. lista \in Seq(Classes) /\ Len(lista) \in Nat
  BY DEF TypeOK
<1>r. \A n : lista' = lista => Ruins(n)' = Ruins(n)
  BY DEF Ruins
<1>1. CASE Tenta("alocaLida", "alocaCelula", "inA") \/ Tenta("alocaCelula", "temLida", "saida")
  <2>1. NadaBuscado' /\ FasesDaBusca'
    BY <1>1 DEF Tenta, Passa, Busca, NadaBuscado, FasesDaBusca
  <2>2. QED
    BY <1>1, <2>1, ForaDaBusca DEF Tenta, Passa
<1>2. CASE Confere("temLida", "candidato", {"inA", "saida"})
  <2>1. CASE Retorna("temLida", "memoria")
    <3>1. NadaBuscado' /\ FasesDaBusca'
      BY <2>1 DEF Retorna, Busca, NadaBuscado, FasesDaBusca
    <3>2. QED
      BY <2>1, <3>1, ForaDaBusca DEF Retorna
  <2>2. CASE Passa("temLida", "candidato", {}, <<>>)
    <3>1. i' = 1 /\ ignorados' = {} /\ quem' = 0 /\ lista' = lista /\ op' = op /\ pc' = "candidato"
      BY <2>2 DEF Passa, Busca, NadaBuscado
    <3>2. Buscando'
      BY <1>l, <1>r, <3>1, RuinsDeNada DEF Buscando
    <3>3. NadaBuscado' /\ FasesDaBusca' /\ VereditoCerto'
      BY <2>2, <3>1 DEF Passa, Busca, NadaBuscado, FasesDaBusca, VereditoCerto
    <3>4. QED
      BY <3>2, <3>3 DEF Busca
  <2>3. QED
    BY <1>2, <2>1, <2>2 DEF Confere
\* A bad record: noted, and the next one is up.
<1>3. CASE /\ pc \in {"candidato", "compara"} /\ i <= Len(lista)
           /\ lista[i] \in {"ilegivel", "adulterado"} /\ Ignora /\ UNCHANGED pedido
  <2>1. i \in Nat \ {0} /\ i \in 1..Len(lista) /\ ignorados = Ruins(i - 1)
    BY <1>3, <1>l DEF TypeOK, Busca, Buscando
  <2>2. Ruins(i) = Ruins(i - 1) \cup {i}
    BY <1>3, <1>l, <2>1, RuinsAumenta
  <2>a. i' = i + 1 /\ i' - 1 = i /\ i' \in 1..(Len(lista) + 1)
    BY <1>3, <1>l, <2>1 DEF Ignora
  <2>3. i' \in 1..(Len(lista) + 1) /\ i' - 1 = i /\ ignorados' = Ruins(i - 1)'
    BY <1>3, <2>1, <2>2, <2>a DEF Ignora, Ruins
  <2>4. \A k \in 1..i : lista[k] # "confere"
    BY <1>3, <2>1 DEF Busca, Buscando
  <2>5. Buscando'
    BY <1>3, <1>r, <2>1, <2>2, <2>3, <2>4 DEF Ignora, Busca, Buscando
  <2>6. NadaBuscado' /\ FasesDaBusca' /\ VereditoCerto'
    BY <1>3 DEF Ignora, Busca, NadaBuscado, FasesDaBusca, VereditoCerto
  <2>7. QED
    BY <2>5, <2>6 DEF Busca
\* A failure ends the search.
<1>4. CASE /\ pc \in {"candidato", "zera", "compara", "leVeredito"} /\ pc' = "sai"
           /\ fim' \in {"memoria", "leitura"} \cup ErrosDLL /\ UNCHANGED <<pedido, busca>>
  BY <1>4 DEF ErrosDLL, Busca, NadaBuscado, Buscando, FasesDaBusca, VereditoCerto
\* The list is over.
<1>5. CASE i > Len(lista) /\ Retorna("candidato", "ok")
  <2>1. i = Len(lista) + 1 /\ i - 1 = Len(lista) /\ DOMAIN lista = 1..(i - 1)
    BY <1>5, <1>l DEF Retorna, Busca, Buscando
  <2>2. /\ quem = 0 /\ ignorados = Ruins(Len(lista))
        /\ \A k \in DOMAIN lista : lista[k] # "confere"
    BY <1>5, <2>1 DEF Retorna, Busca, Buscando
  <2>3. VereditoCerto'
    BY <1>5, <1>r, <2>2 DEF Retorna, VereditoCerto
  <2>4. QED
    BY <1>5, <2>3 DEF Retorna, Busca, NadaBuscado, Buscando, FasesDaBusca
\* A step of the comparison of candidate i.
<1>6. CASE /\ \/ pc = "candidato" /\ pc' = "zera" /\ i <= Len(lista) /\ lista[i] # "ilegivel"
                                  /\ UNCHANGED celula
              \/ pc = "zera" /\ pc' = "compara" /\ celula' = 0
              \/ /\ pc = "compara" /\ pc' = "leVeredito" /\ celula' \in Veredito(lista[i])
                 /\ lista[i] \in {"difere", "confere"}
           /\ UNCHANGED <<pedido, busca>>
  <2>1. Buscando'
    BY <1>6, <1>r DEF Busca, Buscando, Veredito
  <2>2. QED
    BY <1>6, <2>1 DEF Busca, NadaBuscado, FasesDaBusca, VereditoCerto
\* The verdict is read.
<1>7. CASE /\ pc = "leVeredito" /\ celula # 0 /\ pc' = "sai" /\ fim' = "ok" /\ quem' = i
           /\ UNCHANGED <<pedido, i, ignorados>>
  <2>1. i \in 1..Len(lista) /\ i \in DOMAIN lista /\ lista[i] = "confere" /\ ignorados = Ruins(i - 1)
    BY <1>7, <1>l DEF TypeOK, Busca, Buscando
  <2>2. Ruins(i) = Ruins(i - 1) /\ i # 0
    BY <1>l, <2>1, RuinsAumenta
  <2>3. \A k \in 1..(i - 1) : lista[k] # "confere"
    BY <1>7 DEF Busca, Buscando
  <2>4. VereditoCerto'
    BY <1>7, <1>r, <2>1, <2>2, <2>3 DEF VereditoCerto
  <2>5. QED
    BY <1>7, <2>4 DEF Busca, NadaBuscado, Buscando, FasesDaBusca
<1>8. CASE /\ pc = "leVeredito" /\ celula = 0 /\ pc' = "candidato" /\ i' = i + 1
           /\ UNCHANGED <<pedido, ignorados, quem>>
  <2>1. i \in 1..Len(lista) /\ lista[i] \notin {"confere", "ilegivel", "adulterado"}
    BY <1>8, <1>l DEF Busca, Buscando
  <2>2. Ruins(i) = Ruins(i - 1) /\ i' - 1 = i
    BY <1>8, <1>l, <2>1, RuinsAumenta
  <2>3. \A k \in 1..i : lista[k] # "confere"
    BY <1>8, <2>1 DEF Busca, Buscando
  <2>4. i' \in 1..(Len(lista) + 1)
    BY <1>8, <1>l, <2>1
  <2>5. Buscando'
    BY <1>8, <1>r, <2>2, <2>3, <2>4 DEF Busca, Buscando
  <2>6. QED
    BY <1>8, <2>5 DEF Busca, NadaBuscado, FasesDaBusca, VereditoCerto
<1>9. CASE Candidato
  BY <1>3, <1>4, <1>5, <1>6, <1>9 DEF Candidato, Passa, Retorna, TypeOK
<1>10. CASE Zera
  BY <1>4, <1>6, <1>10 DEF Zera
<1>11. CASE ComparaCandidato
  <2>1. pc = "compara" => i <= Len(lista)
    BY DEF Busca, Buscando
  <2>2. QED
    BY <1>3, <1>4, <1>6, <1>11, <2>1 DEF ComparaCandidato
<1>12. CASE LeVeredito
  BY <1>4, <1>7, <1>8, <1>12 DEF LeVeredito, Retorna
<1>13. QED
  BY <1>1, <1>2, <1>9, <1>10, <1>11, <1>12 DEF Identifica

\* Nothing has been searched yet.
LEMMA InicioDaBusca == Init => Busca
  BY DEF Init, Busca, NadaBuscado, Buscando, FasesDaBusca, VereditoCerto

\* Every step keeps what the search knows.
LEMMA BuscaDoPasso == TypeOK /\ Busca /\ [Next]_vars => Busca'
<1>1. ASSUME TypeOK, Busca, UNCHANGED vars PROVE Busca'
  BY <1>1 DEF vars, pedido, busca, Busca, NadaBuscado, Buscando, FasesDaBusca, VereditoCerto, Ruins
<1>2. QED
  BY <1>1, BuscaDosOutros, BuscaDaSaida, BuscaDaIdentifica DEF Next, Passo

\* A search that ends well names the first candidate that matches, and leaves out the bad ones
\* it met and no other.
THEOREM VereditoDaLista == Spec => []VereditoCerto
<1>1. Init => Busca
  BY InicioDaBusca
<1>2. TypeOK /\ Busca /\ [Next]_vars => Busca'
  BY BuscaDoPasso
<1>3. Busca => VereditoCerto
  BY DEF Busca
<1>4. QED
  BY <1>1, <1>2, <1>3, TipoCorreto, PTL DEF Spec

----------------------------------------------------------------------------
(* The request of the handler.                                              *)

\* Between the request and atendePedido's end the worker keeps to what it was asked.
LEMMA PassoMantemPedido ==
  ASSUME Passo
  PROVE  /\ pc # "parado"
         /\ Atende \/ (pc' # "parado" /\ UNCHANGED pedido)
<1> USE DEF Passa, Retorna
<1>1. CASE NovoSDK
  BY <1>1 DEF NovoSDK, Aloca
<1>2. CASE ContaDispositivos
  BY <1>2 DEF ContaDispositivos, Aloca, Chama
<1>3. CASE CapturaTexto
  BY <1>3 DEF CapturaTexto, Abre, Aloca, Entrega, Recolhe
<1>4. CASE ComparaTextos
  BY <1>4 DEF ComparaTextos, Tenta, Confere
<1>5. CASE Identifica
  BY <1>5 DEF Identifica, Tenta, Confere, Candidato, Ignora, Zera, ComparaCandidato, LeVeredito
<1>6. CASE Libera
  BY <1>6 DEF Libera
<1>7. CASE Volta
  BY <1>7 DEF Volta, Primeiro
<1>8. CASE Atende
  BY <1>8 DEF Atende
<1>9. QED
  BY <1>1, <1>2, <1>3, <1>4, <1>5, <1>6, <1>7, <1>8 DEF Passo

\* A set of numbers that is not empty has a least one, and induction follows: the library's
\* induction rule takes an operator, this one a set.
LEMMA Minimo ==
  ASSUME NEW T, T \subseteq Nat, T # {}
  PROVE  \E x \in T : \A y \in T : x <= y
<1> DEFINE R == OpToRel(<, Nat)
<1>1. IsWellFoundedOn(R, Nat)
  BY NatLessThanWellFounded
<1>2. ASSUME NEW x \in T, NEW y \in T, <<y, x>> \notin R
      PROVE  x <= y
  <2>1. ~ (y < x)
    BY <1>2 DEF OpToRel
  <2> HIDE DEF R
  <2>2. QED
    BY <2>1
<1> HIDE DEF R
<1>3. PICK x \in T : \A y \in T : <<y, x>> \notin R
  BY WFMin, <1>1
<1>4. QED
  BY <1>2, <1>3

LEMMA Inducao ==
  ASSUME NEW T, 0 \in T, \A n \in Nat : n \in T => n + 1 \in T
  PROVE  \A n \in Nat : n \in T
<1> SUFFICES ASSUME Nat \ T # {} PROVE FALSE
  OBVIOUS
<1>1. PICK x \in Nat \ T : \A y \in Nat \ T : x <= y
  BY Minimo
<1>2. x # 0 /\ x - 1 \in Nat /\ ~ (x <= x - 1)
  BY <1>1
<1>3. x - 1 \in T
  BY <1>1, <1>2
<1>4. QED
  BY <1>2, <1>3

\* What one turn of the handler's loop leaves in validos.
Turno(c, v, n) == IF n = 0 THEN <<>> ELSE IF c[n].classe = "ilegivel" THEN v[n - 1] ELSE Append(v[n - 1], c[n])

\* f is validos after each of the first n turns.
Turnos(c, f, n) == f = [k \in 0..n |-> Turno(c, f, k)]

LEMMA TurnosExistem ==
  ASSUME NEW c
  PROVE  \A n \in Nat : \E f : Turnos(c, f, n)
<1> DEFINE T == {n \in Nat : \E f : Turnos(c, f, n)}
<1>1. 0 \in T
  <2> DEFINE g == [k \in 0..0 |-> <<>>]
  <2>1. g = [k \in 0..0 |-> Turno(c, g, k)]
    BY DEF Turno
  <2>2. QED
    BY <2>1 DEF Turnos
<1>2. ASSUME NEW n \in Nat, n \in T PROVE n + 1 \in T
  <2>1. PICK f : Turnos(c, f, n)
    BY <1>2
  <2> DEFINE g == [k \in 0..(n + 1) |-> IF k = n + 1 THEN Turno(c, f, n + 1) ELSE f[k]]
  <2>2. \A k \in 0..(n + 1) : k # 0 => k - 1 \in 0..n /\ k - 1 \in 0..(n + 1) /\ k - 1 # n + 1
    OBVIOUS
  <2>3. \A k \in 0..n : g[k] = f[k]
    OBVIOUS
  <2>4. \A k \in 0..(n + 1) : Turno(c, g, k) = Turno(c, f, k)
    BY <2>2, <2>3 DEF Turno
  <2>5. \A k \in 0..n : f[k] = Turno(c, f, k)
    BY <2>1 DEF Turnos
  <2>6. \A k \in 0..(n + 1) : g[k] = Turno(c, g, k)
    BY <2>4, <2>5
  <2>7. g = [k \in 0..(n + 1) |-> g[k]]
    OBVIOUS
  <2> HIDE DEF g
  <2>8. Turnos(c, g, n + 1)
    BY <2>6, <2>7 DEF Turnos
  <2>9. QED
    BY <2>8
<1> HIDE DEF T
<1>3. \A n \in Nat : n \in T
  BY <1>1, <1>2, Inducao
<1>4. QED
  BY <1>3 DEF T

\* What the recursive definition of ValidosAte reads as.
LEMMA ValidosAteVolta ==
  ASSUME NEW c \in Seq(Candidatos)
  PROVE  /\ ValidosAte(c)[0] = <<>>
         /\ \A n \in 1..Len(c) :
              ValidosAte(c)[n] = IF c[n].classe = "ilegivel" THEN ValidosAte(c)[n - 1]
                                 ELSE Append(ValidosAte(c)[n - 1], c[n])
<1>1. \E f : Turnos(c, f, Len(c))
  BY TurnosExistem
<1>2. Turnos(c, ValidosAte(c), Len(c))
  BY <1>1 DEF Turnos, Turno, ValidosAte
<1>3. \A k \in 0..Len(c) : ValidosAte(c)[k] = Turno(c, ValidosAte(c), k)
  BY <1>2 DEF Turnos
<1>4. QED
  BY <1>3 DEF Turno

\* v is what is left of the first n of c without the unreadable, and pos is where it was.
Filtrado(c, v, pos, n) ==
  /\ v \in Seq(Candidatos)
  /\ pos \in [1..Len(v) -> 1..n]
  /\ \A j \in 1..Len(v) : v[j] = c[pos[j]] /\ v[j].classe # "ilegivel"
  /\ \A j, k \in 1..Len(v) : j < k => pos[j] < pos[k]
  /\ \A m \in 1..n : c[m].classe # "ilegivel" => \E j \in 1..Len(v) : pos[j] = m

\* One more turn keeps that.
LEMMA FiltraMais ==
  ASSUME NEW c \in Seq(Candidatos), NEW n \in Nat, n + 1 <= Len(c), NEW v, NEW pos,
         Filtrado(c, v, pos, n)
  PROVE  \E q : Filtrado(c, IF c[n + 1].classe = "ilegivel" THEN v ELSE Append(v, c[n + 1]), q, n + 1)
<1>1. v \in Seq(Candidatos) /\ Len(v) \in Nat /\ pos \in [1..Len(v) -> 1..n] /\ c[n + 1] \in Candidatos
  BY DEF Filtrado
<1>2. \A m \in 1..(n + 1) : m = n + 1 \/ m \in 1..n
  OBVIOUS
<1>3. CASE c[n + 1].classe = "ilegivel"
  <2>1. pos \in [1..Len(v) -> 1..(n + 1)]
    BY <1>1
  <2>2. Filtrado(c, v, pos, n + 1)
    BY <1>2, <1>3, <2>1 DEF Filtrado
  <2>3. QED
    BY <1>3, <2>2
<1>4. CASE c[n + 1].classe # "ilegivel"
  <2> DEFINE w == Append(v, c[n + 1])
             q == [j \in 1..(Len(v) + 1) |-> IF j = Len(v) + 1 THEN n + 1 ELSE pos[j]]
  <2>1. /\ w \in Seq(Candidatos) /\ Len(w) = Len(v) + 1 /\ w[Len(v) + 1] = c[n + 1]
        /\ \A j \in 1..Len(v) : w[j] = v[j]
    BY <1>1
  <2>2. /\ q \in [1..Len(w) -> 1..(n + 1)] /\ q[Len(v) + 1] = n + 1
        /\ \A j \in 1..Len(v) : q[j] = pos[j]
    BY <1>1, <2>1
  <2> HIDE DEF w, q
  <2>3. \A j \in 1..Len(w) : j = Len(v) + 1 \/ j \in 1..Len(v)
    BY <1>1, <2>1
  <2>4. \A j \in 1..Len(w) : w[j] = c[q[j]] /\ w[j].classe # "ilegivel"
    BY <1>4, <2>1, <2>2, <2>3 DEF Filtrado
  <2>5. ASSUME NEW j \in 1..Len(w), NEW k \in 1..Len(w), j < k PROVE q[j] < q[k]
    <3>1. j \in 1..Len(v) /\ q[j] = pos[j] /\ pos[j] \in 1..n
      BY <1>1, <2>1, <2>2, <2>3, <2>5
    <3>2. CASE k = Len(v) + 1
      BY <2>2, <3>1, <3>2
    <3>3. CASE k \in 1..Len(v)
      BY <2>2, <2>5, <3>1, <3>3 DEF Filtrado
    <3>4. QED
      BY <2>3, <3>2, <3>3
  <2>6. ASSUME NEW m \in 1..(n + 1), c[m].classe # "ilegivel" PROVE \E j \in 1..Len(w) : q[j] = m
    <3>1. CASE m = n + 1
      BY <1>1, <2>1, <2>2, <3>1
    <3>2. CASE m \in 1..n
      <4>1. PICK j \in 1..Len(v) : pos[j] = m
        BY <2>6, <3>2 DEF Filtrado
      <4>2. j \in 1..Len(w)
        BY <1>1, <2>1
      <4>3. QED
        BY <2>2, <4>1, <4>2
    <3>3. QED
      BY <1>2, <3>1, <3>2
  <2>7. Filtrado(c, w, q, n + 1)
    BY <2>1, <2>2, <2>4, <2>5, <2>6 DEF Filtrado
  <2>8. QED
    BY <1>4, <2>7 DEF w
<1>5. QED
  BY <1>3, <1>4

\* validos is the body without the unreadable, in order.
LEMMA ValidosFiltrados ==
  ASSUME NEW c \in Seq(Candidatos)
  PROVE  \E pos : Filtrado(c, Validos(c), pos, Len(c))
<1> DEFINE V == ValidosAte(c)
           T == {n \in Nat : n <= Len(c) => \E pos : Filtrado(c, V[n], pos, n)}
<1>1. V[0] = <<>>
  BY ValidosAteVolta
<1>2. \A n \in Nat : n + 1 <= Len(c) =>
        V[n + 1] = IF c[n + 1].classe = "ilegivel" THEN V[n] ELSE Append(V[n], c[n + 1])
  <2> TAKE n \in Nat
  <2> HAVE n + 1 <= Len(c)
  <2>1. n + 1 \in 1..Len(c) /\ (n + 1) - 1 = n
    OBVIOUS
  <2> HIDE DEF V
  <2>2. V[n + 1] = IF c[n + 1].classe = "ilegivel" THEN V[(n + 1) - 1] ELSE Append(V[(n + 1) - 1], c[n + 1])
    BY <2>1, ValidosAteVolta DEF V
  <2>3. QED
    BY <2>1, <2>2
<1> HIDE DEF V
<1>3. 0 \in T
  <2>1. Filtrado(c, <<>>, [j \in 1..0 |-> 1], 0)
    BY DEF Filtrado
  <2>2. QED
    BY <1>1, <2>1
<1>4. ASSUME NEW n \in Nat, n \in T PROVE n + 1 \in T
  <2> SUFFICES ASSUME n + 1 <= Len(c) PROVE \E pos : Filtrado(c, V[n + 1], pos, n + 1)
    OBVIOUS
  <2>1. PICK pos : Filtrado(c, V[n], pos, n)
    BY <1>4
  <2>2. QED
    BY <1>2, <2>1, FiltraMais
<1> HIDE DEF T
<1>5. \A n \in Nat : n \in T
  BY <1>3, <1>4, Inducao
<1>6. Len(c) \in Nat /\ Validos(c) = V[Len(c)]
  BY DEF Validos, V
<1>7. QED
  BY <1>5, <1>6 DEF T

\* What the search says of the list it went through.
LEMMA Encontrado ==
  ASSUME TypeOK, VereditoCerto, op = "identifica", pc = "atende", fim = "ok"
  PROVE  Achou(lista)
<1>1. DOMAIN lista = 1..Len(lista) /\ Len(lista) \in Nat
  BY DEF TypeOK
<1>2. CASE quem = 0
  <2>1. ignorados = Ruins(Len(lista)) /\ \A k \in DOMAIN lista : lista[k] # "confere"
    BY <1>2 DEF VereditoCerto
  <2>2. QED
    BY <1>1, <1>2, <2>1 DEF Achou, Ruins
<1>3. CASE quem # 0
  <2>1. /\ quem \in DOMAIN lista /\ lista[quem] = "confere" /\ ignorados = Ruins(quem)
        /\ \A k \in 1..(quem - 1) : lista[k] # "confere"
    BY <1>3 DEF VereditoCerto
  <2>2. \A k \in 1..quem : k \in DOMAIN lista
    BY <1>1, <2>1
  <2>3. QED
    BY <1>3, <2>1, <2>2 DEF Achou, Ruins
<1>4. QED
  BY <1>2, <1>3

\* The first candidate of the body that matches is the one PrimeiroQueConfere names.
LEMMA PrimeiroUnico ==
  ASSUME corpo \in Seq(Candidatos), NEW p \in DOMAIN corpo, corpo[p].classe = "confere",
         \A m \in 1..(p - 1) : corpo[m].classe # "confere"
  PROVE  PrimeiroQueConfere = p
<1> DEFINE certos == {k \in DOMAIN corpo : corpo[k].classe = "confere"}
<1>1. DOMAIN corpo = 1..Len(corpo) /\ Len(corpo) \in Nat
  OBVIOUS
<1>2. \A m \in certos : p <= m
  BY <1>1
<1>3. p \in certos
  OBVIOUS
<1>4. \A k \in certos : (\A m \in certos : k <= m) => k = p
  BY <1>1, <1>2, <1>3
<1>5. PrimeiroQueConfere = CHOOSE k \in certos : \A m \in certos : k <= m
  BY <1>3 DEF PrimeiroQueConfere
<1> HIDE DEF certos
<1>6. QED
  BY <1>2, <1>3, <1>4, <1>5

\* The positions of the search, read back in the body: the one found, and the ones left out.
LEMMA PosicoesDoCorpo ==
  ASSUME corpo \in Seq(Candidatos), Achou(ClassesDe(corpo))
  PROVE  LET p == PrimeiroQueConfere
             ate == IF p = 0 THEN Len(corpo) ELSE p
         IN  /\ (quem = 0) <=> (p = 0)
             /\ quem # 0 => quem \in DOMAIN Validos(corpo) /\ Validos(corpo)[quem] = corpo[p]
             /\ {Validos(corpo)[k].id : k \in ignorados} =
                  {corpo[k].id : k \in {m \in 1..ate : corpo[m].classe = "adulterado"}}
             /\ ignorados \subseteq DOMAIN Validos(corpo)
<1> DEFINE v == Validos(corpo)
           l == ClassesDe(corpo)
           n == Len(corpo)
<1>1. PICK pos : Filtrado(corpo, v, pos, n)
  BY ValidosFiltrados
<1>2. v \in Seq(Candidatos) /\ Len(v) \in Nat /\ DOMAIN v = 1..Len(v) /\ n \in Nat /\ DOMAIN corpo = 1..n
  BY <1>1 DEF Filtrado
<1>3. DOMAIN l = 1..Len(v) /\ \A j \in 1..Len(v) : l[j] = v[j].classe
  BY <1>2 DEF ClassesDe
<1> HIDE DEF v, l, n
<1>4. \A j \in 1..Len(v) : pos[j] \in 1..n /\ v[j] = corpo[pos[j]] /\ l[j] = corpo[pos[j]].classe
                           /\ l[j] # "ilegivel"
  BY <1>1, <1>3 DEF Filtrado
<1>5. \A m \in 1..n : corpo[m].classe # "ilegivel" => \E j \in 1..Len(v) : pos[j] = m
  BY <1>1 DEF Filtrado
<1>6. \A j, k \in 1..Len(v) : j < k => pos[j] < pos[k]
  BY <1>1 DEF Filtrado
<1>7. CASE quem = 0
  <2>1. /\ \A k \in 1..Len(v) : l[k] # "confere"
        /\ ignorados = {k \in 1..Len(v) : l[k] \in {"ilegivel", "adulterado"}}
    BY <1>3, <1>7 DEF Achou, l
  <2>2. \A m \in 1..n : corpo[m].classe # "confere"
    BY <1>4, <1>5, <2>1
  <2>3. PrimeiroQueConfere = 0
    BY <1>2, <2>2 DEF PrimeiroQueConfere
  <2>4. {v[k].id : k \in ignorados} =
          {corpo[k].id : k \in {m \in 1..n : corpo[m].classe = "adulterado"}}
    <3>1. ASSUME NEW k \in ignorados
          PROVE  \E m \in {x \in 1..n : corpo[x].classe = "adulterado"} : v[k].id = corpo[m].id
      BY <1>4, <2>1
    <3>2. ASSUME NEW m \in 1..n, corpo[m].classe = "adulterado"
          PROVE  \E k \in ignorados : corpo[m].id = v[k].id
      BY <1>4, <1>5, <2>1, <3>2
    <3>3. QED
      BY <3>1, <3>2
  <2>5. QED
    BY <1>2, <1>7, <2>1, <2>3, <2>4 DEF n, v
<1>8. CASE quem # 0
  <2>1. /\ quem \in 1..Len(v) /\ l[quem] = "confere"
        /\ \A k \in 1..(quem - 1) : l[k] # "confere"
        /\ ignorados = {k \in 1..quem : l[k] \in {"ilegivel", "adulterado"}}
    BY <1>3, <1>8 DEF Achou, l
  <2> DEFINE p == pos[quem]
  <2>2. p \in 1..n /\ p # 0 /\ corpo[p].classe = "confere" /\ v[quem] = corpo[p]
    BY <1>4, <2>1
  <2> HIDE DEF p
  <2>3. ASSUME NEW j \in 1..Len(v) PROVE j <= quem <=> pos[j] <= p
    <3>1. j < quem \/ j = quem \/ quem < j
      BY <1>2, <2>1
    <3>2. pos[j] \in Nat /\ p \in Nat /\ quem \in Nat /\ j \in Nat
      BY <1>2, <1>4, <2>1, <2>2
    <3>3. CASE j < quem
      BY <1>6, <2>1, <3>2, <3>3 DEF p
    <3>4. CASE j = quem
      BY <3>2, <3>4 DEF p
    <3>5. CASE quem < j
      BY <1>6, <2>1, <3>2, <3>5 DEF p
    <3>6. QED
      BY <3>1, <3>3, <3>4, <3>5
  <2>4. ASSUME NEW m \in 1..(p - 1) PROVE corpo[m].classe # "confere"
    <3> SUFFICES ASSUME corpo[m].classe = "confere" PROVE FALSE
      OBVIOUS
    <3>1. m \in 1..n /\ m < p
      BY <1>2, <2>2
    <3>2. PICK j \in 1..Len(v) : pos[j] = m
      BY <1>5, <3>1
    <3>3. j <= quem /\ j # quem
      BY <2>2, <2>3, <3>1, <3>2 DEF p
    <3>4. j \in 1..(quem - 1)
      BY <1>2, <2>1, <3>3
    <3>5. QED
      BY <1>4, <2>1, <3>2, <3>4
  <2>5. PrimeiroQueConfere = p
    BY <1>2, <2>2, <2>4, PrimeiroUnico
  <2>6. \A k \in 1..quem : k \in 1..Len(v)
    BY <1>2, <2>1
  <2>7. ASSUME NEW k \in ignorados
        PROVE  \E m \in {x \in 1..p : corpo[x].classe = "adulterado"} : v[k].id = corpo[m].id
    <3>1. k \in 1..Len(v) /\ k <= quem /\ corpo[pos[k]].classe = "adulterado"
      BY <1>4, <2>1, <2>6
    <3>2. pos[k] \in 1..p
      BY <1>4, <2>2, <2>3, <3>1
    <3>3. QED
      BY <1>4, <3>1, <3>2
  <2>8. ASSUME NEW m \in 1..p, corpo[m].classe = "adulterado"
        PROVE  \E k \in ignorados : corpo[m].id = v[k].id
    <3>1. m \in 1..n /\ m <= p
      BY <1>2, <2>2
    <3>2. PICK j \in 1..Len(v) : pos[j] = m
      BY <1>5, <2>8, <3>1
    <3>3. j \in 1..quem
      BY <1>2, <2>1, <2>3, <3>1, <3>2
    <3>4. QED
      BY <1>4, <2>1, <2>8, <3>2, <3>3
  <2>9. {v[k].id : k \in ignorados} =
          {corpo[k].id : k \in {m \in 1..p : corpo[m].classe = "adulterado"}}
    BY <2>7, <2>8
  <2>10. ignorados \subseteq DOMAIN v
    BY <1>2, <2>1, <2>6
  <2>11. QED
    BY <1>2, <1>8, <2>1, <2>2, <2>5, <2>9, <2>10 DEF v
<1>9. QED
  BY <1>7, <1>8

\* The invariant of a request: the worker's, its request and its answer.
IInv == TypeOKIdentificacao /\ Posse /\ Busca /\ PedidoDoCorpo /\ RespostaDoCorpo

\* What the worker is asked for a body.
LEMMA ClassesDoCorpo ==
  ASSUME NEW c \in Seq(Candidatos)
  PROVE  ClassesDe(c) \in Seq(Classes)
<1>1. Validos(c) \in Seq(Candidatos)
  BY ValidosFiltrados DEF Filtrado
<1>2. \A k \in 1..Len(Validos(c)) : Validos(c)[k].classe \in Classes
  <2>1. \A k \in 1..Len(Validos(c)) : Validos(c)[k] \in Candidatos
    BY <1>1
  <2>2. QED
    BY <2>1 DEF Candidatos
<1>3. Len(Validos(c)) \in Nat /\ DOMAIN Validos(c) = 1..Len(Validos(c))
  BY <1>1
<1>4. QED
  BY <1>2, <1>3 DEF ClassesDe

\* The checks of the body, and the request to the worker.
LEMMA RecebeMantem == ASSUME IInv, Recusa \/ \E c \in Aceitos : Recebe(c) PROVE IInv'
<1>1. <<>> \in Seq(Candidatos) /\ \A c \in Aceitos : c \in Seq(Candidatos)
  BY CorposAssumption DEF Aceitos
<1>2. ASSUME NEW s \in {"nenhuma", "400", "422", "502"} PROVE SemCorpo(s) \in Resposta
  BY DEF SemCorpo, Resposta
<1>3. CASE etapa = "livre" /\ UNCHANGED <<etapa, vars>> /\ corpo' = <<>> /\ resposta' \in {SemCorpo("400"), SemCorpo("422"), SemCorpo("502")}
  <2>1. TypeOKIdentificacao'
    BY <1>1, <1>2, <1>3, TipoPasso DEF IInv, TypeOKIdentificacao
  <2>2. Posse' /\ Busca'
    BY <1>3, PosseDoPasso, BuscaDoPasso DEF IInv, TypeOKIdentificacao
  <2>3. PedidoDoCorpo' /\ RespostaDoCorpo'
    BY <1>3 DEF PedidoDoCorpo, RespostaDoCorpo, SemCorpo
  <2>4. QED
    BY <2>1, <2>2, <2>3 DEF IInv
<1>4. ASSUME NEW c \in Aceitos, Pede("identifica", ClassesDe(c)),
             etapa' = "worker", corpo' = c, resposta' = SemCorpo("nenhuma")
      PROVE  IInv'
  <2>1. TypeOK'
    BY <1>1, <1>4, ClassesDoCorpo, TipoPede DEF IInv, TypeOKIdentificacao, Operacoes
  <2>2. TypeOKIdentificacao'
    BY <1>1, <1>2, <1>4, <2>1 DEF TypeOKIdentificacao
  <2>3. Posse' /\ Busca'
    BY <1>4, PosseDoPedido, BuscaDoPedido DEF IInv, TypeOKIdentificacao
  <2>4. PedidoDoCorpo' /\ RespostaDoCorpo'
    <3>1. pc' # "parado" /\ op' = "identifica" /\ lista' = ClassesDe(c)
      BY <1>4 DEF Pede, Primeiro
    <3>2. QED
      BY <1>4, <3>1 DEF PedidoDoCorpo, RespostaDoCorpo
  <2>5. QED
    BY <2>2, <2>3, <2>4 DEF IInv
<1>5. QED
  BY <1>3, <1>4 DEF Recusa, Recebe

\* The other requests, made while no identification is being served.
LEMMA OutroPedidoMantem ==
  ASSUME IInv, etapa = "livre", PedeAlgo, corpo' = <<>>, resposta' = SemCorpo("nenhuma"), UNCHANGED etapa
  PROVE  IInv'
<1>1. TypeOK' /\ Posse' /\ Busca'
  BY TipoPasso, PosseDoPasso, BuscaDoPasso DEF IInv, TypeOKIdentificacao, Next
<1>2. TypeOKIdentificacao'
  BY <1>1 DEF IInv, TypeOKIdentificacao, SemCorpo, Resposta
<1>3. PedidoDoCorpo' /\ RespostaDoCorpo'
  BY DEF PedidoDoCorpo, RespostaDoCorpo, SemCorpo
<1>4. QED
  BY <1>1, <1>2, <1>3 DEF IInv

\* An answer stands until the next request.
LEMMA MesmaResposta ==
  ASSUME RespostaDoCorpo, UNCHANGED handler
  PROVE  RespostaDoCorpo'
<1>1. PrimeiroQueConfere' = PrimeiroQueConfere /\ Ilegiveis(corpo)' = Ilegiveis(corpo)
  BY DEF PrimeiroQueConfere, Ilegiveis, handler
<1>2. QED
  BY <1>1 DEF RespostaDoCorpo, handler

\* The worker at work.
LEMMA WorkerMantem == ASSUME IInv, Passo, UNCHANGED handler PROVE IInv'
<1>1. TypeOK' /\ Posse' /\ Busca'
  BY TipoPasso, PosseDoPasso, BuscaDoPasso DEF IInv, TypeOKIdentificacao, Next
<1>2. TypeOKIdentificacao'
  BY <1>1 DEF IInv, TypeOKIdentificacao, handler
<1>3. RespostaDoCorpo'
  BY MesmaResposta DEF IInv, handler
<1>4. ASSUME etapa = "worker" PROVE PedidoDoCorpo'
  <2>1. pc # "parado" /\ op = "identifica" /\ lista = ClassesDe(corpo) /\ corpo' = corpo
    BY <1>4, PassoMantemPedido DEF IInv, PedidoDoCorpo, handler
  <2>2. CASE pc' # "parado" /\ UNCHANGED pedido
    BY <2>1, <2>2 DEF PedidoDoCorpo, pedido
  <2>3. CASE Atende
    <3>1. pc' = "parado" /\ pc = "atende" /\ UNCHANGED <<fim, quem, ignorados>>
      BY <2>3 DEF Atende
    <3>2. fim = "ok" => Achou(lista)
      BY <2>1, <3>1, Encontrado DEF IInv, TypeOKIdentificacao, Busca
    <3>3. fim' = "ok" => Achou(ClassesDe(corpo))'
      BY <2>1, <3>1, <3>2 DEF Achou
    <3>4. QED
      BY <3>1, <3>3 DEF PedidoDoCorpo
  <2>4. QED
    BY <2>2, <2>3, PassoMantemPedido
<1>5. etapa # "worker" => PedidoDoCorpo'
  BY DEF PedidoDoCorpo, handler
<1>6. QED
  BY <1>1, <1>2, <1>3, <1>4, <1>5 DEF IInv

\* The answer.
LEMMA RespondeMantem == ASSUME IInv, Responde PROVE IInv'
<1>1. TypeOK' /\ Posse' /\ Busca'
  BY TipoPasso, PosseDoPasso, BuscaDoPasso DEF IInv, TypeOKIdentificacao, Responde
<1>2. corpo \in Seq(Candidatos) /\ corpo' = corpo /\ etapa' = "livre"
  BY DEF IInv, TypeOKIdentificacao, Responde
<1>3. CASE fim # "ok"
  BY <1>1, <1>2, <1>3 DEF IInv, Responde, SemCorpo, TypeOKIdentificacao, Resposta, PedidoDoCorpo, RespostaDoCorpo
<1>4. CASE fim = "ok"
  <2> DEFINE p == PrimeiroQueConfere
             ate == IF p = 0 THEN Len(corpo) ELSE p
             achado == IF quem = 0 THEN 0 ELSE Validos(corpo)[quem].id
             fora == Ilegiveis(corpo) \cup {Validos(corpo)[k].id : k \in ignorados}
  <2>1. Achou(ClassesDe(corpo))
    BY <1>4 DEF IInv, PedidoDoCorpo, Responde
  <2>2. /\ (quem = 0) <=> (p = 0)
        /\ quem # 0 => quem \in DOMAIN Validos(corpo) /\ Validos(corpo)[quem] = corpo[p]
        /\ {Validos(corpo)[k].id : k \in ignorados} =
             {corpo[k].id : k \in {m \in 1..ate : corpo[m].classe = "adulterado"}}
        /\ ignorados \subseteq DOMAIN Validos(corpo)
    BY <1>2, <2>1, PosicoesDoCorpo
  <2>3. resposta' = [status |-> "200", id |-> achado, ignorados |-> fora]
    BY <1>4 DEF Responde
  <2>4. \A k \in DOMAIN Validos(corpo) : Validos(corpo)[k].id \in Id
    <3>1. Validos(corpo) \in Seq(Candidatos)
      BY <1>2, ValidosFiltrados DEF Filtrado
    <3>2. \A k \in DOMAIN Validos(corpo) : Validos(corpo)[k] \in Candidatos
      BY <3>1
    <3>3. QED
      BY <3>2 DEF Candidatos
  <2>5. achado \in Id \cup {0}
    BY <2>2, <2>4
  <2>6. \A k \in DOMAIN corpo : corpo[k].id \in Id
    <3>1. \A k \in DOMAIN corpo : corpo[k] \in Candidatos
      BY <1>2
    <3>2. QED
      BY <3>1 DEF Candidatos
  <2>7. fora \subseteq Id
    BY <2>2, <2>4, <2>6 DEF Ilegiveis
  <2>8. TypeOKIdentificacao'
    BY <1>1, <1>2, <2>3, <2>5, <2>7 DEF TypeOKIdentificacao, Resposta
  <2>9. PrimeiroQueConfere' = p /\ Ilegiveis(corpo)' = Ilegiveis(corpo)
    BY <1>2 DEF PrimeiroQueConfere, Ilegiveis
  <2>10. /\ achado = IF p = 0 THEN 0 ELSE corpo[p].id
         /\ fora = Ilegiveis(corpo) \cup
                     {corpo[k].id : k \in {m \in 1..ate : corpo[m].classe = "adulterado"}}
    BY <2>2
  <2>11. resposta'.id = achado /\ resposta'.ignorados = fora
    BY <2>3
  <2> HIDE DEF p, achado, fora
  <2>12. RespostaDoCorpo'
    BY <1>2, <2>9, <2>10, <2>11 DEF RespostaDoCorpo
  <2>13. PedidoDoCorpo'
    BY <1>2 DEF PedidoDoCorpo
  <2>14. QED
    BY <1>1, <2>8, <2>12, <2>13 DEF IInv
<1>5. QED
  BY <1>3, <1>4

\* A request given up while the worker searches.
LEMMA DesisteMantem == ASSUME IInv, Desiste PROVE IInv'
<1>1. TypeOK' /\ Posse' /\ Busca'
  BY TipoPasso, PosseDoPasso, BuscaDoPasso DEF IInv, TypeOKIdentificacao, Desiste
<1>2. TypeOKIdentificacao' /\ PedidoDoCorpo' /\ RespostaDoCorpo'
  BY <1>1 DEF IInv, Desiste, SemCorpo, TypeOKIdentificacao, Resposta, PedidoDoCorpo, RespostaDoCorpo
<1>3. QED
  BY <1>1, <1>2 DEF IInv

\* Every step of the handler and of the worker, and nothing at all.
LEMMA PassoDaIdentificacao == IInv /\ [NextIdentificacao]_<<vars, handler>> => IInv'
<1>1. ASSUME IInv, UNCHANGED <<vars, handler>> PROVE IInv'
  <2>1. TypeOK' /\ Posse' /\ Busca'
    BY <1>1, TipoPasso, PosseDoPasso, BuscaDoPasso DEF IInv, TypeOKIdentificacao
  <2>2. TypeOKIdentificacao'
    BY <1>1, <2>1 DEF IInv, TypeOKIdentificacao, handler
  <2>3. PedidoDoCorpo'
    <3>1. UNCHANGED <<pc, op, lista, fim, quem, ignorados, corpo, etapa>>
      BY <1>1 DEF handler, vars, pedido, busca
    <3>2. Achou(ClassesDe(corpo))' <=> Achou(ClassesDe(corpo))
      BY <3>1 DEF Achou
    <3>3. QED
      BY <1>1, <3>1, <3>2 DEF IInv, PedidoDoCorpo
  <2>4. RespostaDoCorpo'
    BY <1>1, MesmaResposta DEF IInv
  <2>5. QED
    BY <2>1, <2>2, <2>3, <2>4 DEF IInv
<1>2. QED
  BY <1>1, RecebeMantem, OutroPedidoMantem, WorkerMantem, RespondeMantem, DesisteMantem
  DEF NextIdentificacao

\* A handler and the worker agree, at every step of both, on the list that is searched and on what
\* its outcome is about (handleIdentificar, main.go:517-583).
THEOREM InvarianteDaIdentificacao == SpecIdentificacao => []IInv
<1>1. InitIdentificacao => IInv
  BY Inicio, InicioDaBusca
  DEF InitIdentificacao, IInv, TypeOKIdentificacao, PedidoDoCorpo, RespostaDoCorpo, SemCorpo, Resposta
<1>2. QED
  BY <1>1, PassoDaIdentificacao, PTL DEF SpecIdentificacao

\* Types of the request and of its answer.
THEOREM TipoDaIdentificacao == SpecIdentificacao => []TypeOKIdentificacao
  BY InvarianteDaIdentificacao, PTL DEF IInv

\* For every body, whatever it holds and in whatever order, the answer names its first candidate
\* that matches and the ids of every record left out, on either side (handleIdentificar).
THEOREM RespostaFiel == SpecIdentificacao => []RespostaDoCorpo
  BY InvarianteDaIdentificacao, PTL DEF IInv

\* What the worker promises holds while a handler and other callers ask: nothing leaks, nothing is
\* released twice or too late, and each search has its verdict.
THEOREM WorkerNaIdentificacao == SpecIdentificacao => [](NadaVaza /\ LiberaVivo /\ VereditoCerto)
<1>1. IInv => NadaVaza /\ LiberaVivo /\ VereditoCerto
  BY PosseNaoVaza, PosseLiberaVivo DEF IInv, TypeOKIdentificacao, Busca
<1>2. QED
  BY <1>1, InvarianteDaIdentificacao, PTL
=============================================================================
