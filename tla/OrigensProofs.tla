--------------------------- MODULE OrigensProofs ---------------------------
(* Theorems about Origens, for every set of origins, of predefined ones    *)
(* and of requests, and for every capacity.                                *)
EXTENDS Origens, TLAPS

IInv == /\ TypeOK /\ RevogacaoVale /\ MemoriaNoArquivo /\ PendenteTemAviso
        /\ RevogacaoCoerente

\* A new agent, with whatever the file holds, has nothing pending and an empty menu.
LEMMA Inicio == Init => IInv
<1> SUFFICES ASSUME Init PROVE IInv
  OBVIOUS
<1>1. TypeOK
  BY OrigensAssumption, LimitesAssumption DEF Init, TypeOK
<1>2. RevogacaoVale /\ MemoriaNoArquivo /\ PendenteTemAviso /\ RevogacaoCoerente
  BY DEF Init, RevogacaoVale, MemoriaNoArquivo, PendenteTemAviso, RevogacaoCoerente
<1>3. QED
  BY <1>1, <1>2 DEF IInv

\* What a receive takes out of a channel: everything else stays in it, and the channel
\* gets no longer.
LEMMA Retira ==
  ASSUME NEW S, NEW s \in Seq(S), s # <<>>
  PROVE  /\ Head(s) \in S /\ Tail(s) \in Seq(S) /\ Len(Tail(s)) <= Len(s)
         /\ \A i \in DOMAIN s : s[i] = Head(s) \/ \E j \in DOMAIN Tail(s) : Tail(s)[j] = s[i]
<1>1. Head(s) \in S /\ Tail(s) \in Seq(S) /\ Len(Tail(s)) = Len(s) - 1
  OBVIOUS
<1>2. ASSUME NEW i \in DOMAIN s
      PROVE  s[i] = Head(s) \/ \E j \in DOMAIN Tail(s) : Tail(s)[j] = s[i]
  <2>1. CASE i = 1
    BY <2>1
  <2>2. CASE i # 1
    <3>1. i - 1 \in DOMAIN Tail(s) /\ Tail(s)[i - 1] = s[i]
      BY <1>1, <2>2
    <3>2. QED
      BY <3>1
  <2>3. QED
    BY <2>1, <2>2
<1>3. QED
  BY <1>1, <1>2

\* What a send adds to a channel: itself, and nothing leaves.
LEMMA Poe ==
  ASSUME NEW S, NEW s \in Seq(S), NEW x \in S
  PROVE  /\ Append(s, x) \in Seq(S) /\ Len(Append(s, x)) = Len(s) + 1
         /\ \E j \in DOMAIN Append(s, x) : Append(s, x)[j] = x
         /\ \A i \in DOMAIN s : \E j \in DOMAIN Append(s, x) : Append(s, x)[j] = s[i]
<1>1. Append(s, x) \in Seq(S) /\ Len(Append(s, x)) = Len(s) + 1
  OBVIOUS
<1>2. Append(s, x)[Len(s) + 1] = x /\ Len(s) + 1 \in DOMAIN Append(s, x)
  OBVIOUS
<1>3. \A i \in DOMAIN s : Append(s, x)[i] = s[i] /\ i \in DOMAIN Append(s, x)
  OBVIOUS
<1>4. QED
  BY <1>1, <1>2, <1>3

\* A request to /hello.
LEMMA PassoSolicita ==
  ASSUME IInv, NEW h \in Hello, NEW o \in Origem, Solicita(h, o)
  PROVE  IInv'
<1>1. TypeOK'
  BY DEF IInv, TypeOK, Solicita, Vivas, bandeja
<1>2. RevogacaoVale' /\ MemoriaNoArquivo'
  BY DEF IInv, RevogacaoVale, MemoriaNoArquivo, Livre, Solicita, bandeja
<1>3. ASSUME NEW p \in Vivas, Avisado(p)
      PROVE  Avisado(p)'
  <2>1. CASE EmCanal(p)
    BY <2>1 DEF Avisado, EmCanal, Solicita
  <2>2. CASE p \in perdidas
    BY <1>3, <2>2 DEF Avisado, Solicita
  <2>3. CASE \E k \in Hello : envia[k] = p
    <3>1. PICK k \in Hello : envia[k] = p
      BY <2>3
    <3>2. k # h
      BY <3>1, OrigensAssumption DEF Solicita, Vivas, IInv, TypeOK
    <3>3. envia'[k] = p
      BY <3>1, <3>2 DEF Solicita, IInv, TypeOK
    <3>4. QED
      BY <3>3 DEF Avisado
  <2>4. QED
    BY <1>3, <2>1, <2>2, <2>3 DEF Avisado
<1>4. ASSUME Nova(o)
      PROVE  Avisado(o)'
  <2>1. envia'[h] = o
    BY <1>4 DEF Solicita, IInv, TypeOK
  <2>2. QED
    BY <2>1 DEF Avisado
<1>5. PendenteTemAviso'
  BY <1>3, <1>4 DEF IInv, PendenteTemAviso, Solicita, Vivas, bandeja
<1>6. RevogacaoCoerente'
  <2>1. \A p \in Origem : decisoes'[p] > 0 => p \in clicadas'
    BY DEF IInv, RevogacaoCoerente, Solicita, bandeja
  <2>2. menu' # "revoga"
    BY DEF Solicita, Livre, bandeja
  <2>3. menu' = "limpa" => \A p \in pendentes' : Avisado(p)'
    BY <1>3, <1>4 DEF IInv, RevogacaoCoerente, Solicita, Vivas, bandeja
  <2>4. QED
    BY <2>1, <2>2, <2>3 DEF RevogacaoCoerente
<1>7. QED
  BY <1>1, <1>2, <1>5, <1>6 DEF IInv

\* Its message to the menu.
LEMMA PassoAvisa ==
  ASSUME IInv, NEW h \in Hello, Avisa(h)
  PROVE  IInv'
<1>o. PICK o \in Origem : o = envia[h]
  BY DEF IInv, TypeOK, Avisa
<1>0. novas \in Seq(Origem)
  BY DEF IInv, TypeOK
<1>p. /\ Append(novas, o) \in Seq(Origem) /\ Len(Append(novas, o)) = Len(novas) + 1
      /\ \E j \in DOMAIN Append(novas, o) : Append(novas, o)[j] = o
      /\ \A i \in DOMAIN novas :
           \E j \in DOMAIN Append(novas, o) : Append(novas, o)[j] = novas[i]
  BY <1>0, Poe
<1>1. TypeOK'
  <2>0. Len(novas) \in Nat /\ MaxPendentes \in Nat
    BY <1>0, LimitesAssumption
  <2>1. novas' \in Seq(Origem) /\ Len(novas') <= MaxPendentes
    <3>1. CASE Len(novas) < MaxPendentes
      <4>1. novas' = Append(novas, o)
        BY <1>o, <3>1 DEF Avisa
      <4>2. QED
        BY <1>p, <2>0, <3>1, <4>1
    <3>2. CASE ~(Len(novas) < MaxPendentes)
      BY <1>0, <3>2 DEF IInv, TypeOK, Avisa
    <3>3. QED
      BY <3>1, <3>2
  <2>2. QED
    BY <1>o, <2>1 DEF IInv, TypeOK, Avisa, memoria, bandeja
<1>2. RevogacaoVale' /\ MemoriaNoArquivo'
  BY DEF IInv, RevogacaoVale, MemoriaNoArquivo, Livre, Avisa, memoria, bandeja
<1>3. ASSUME NEW p, EmCanal(p)
      PROVE  EmCanal(p)'
  <2>1. novas' = novas \/ novas' = Append(novas, o)
    BY <1>o DEF Avisa
  <2>2. QED
    BY <1>p, <1>3, <2>1 DEF EmCanal
<1>4. Avisado(o)'
  <2>1. CASE Len(novas) < MaxPendentes
    <3>1. novas' = Append(novas, o)
      BY <1>o, <2>1 DEF Avisa
    <3>2. \E j \in DOMAIN novas' : novas'[j] = o
      BY <1>p, <3>1
    <3>3. QED
      BY <3>2 DEF Avisado, EmCanal
  <2>2. CASE ~(Len(novas) < MaxPendentes)
    <3>1. perdidas' = perdidas \cup {o}
      BY <1>o, <2>2 DEF Avisa
    <3>2. QED
      BY <3>1 DEF Avisado
  <2>3. QED
    BY <2>1, <2>2
<1>5. ASSUME NEW p, Avisado(p)
      PROVE  Avisado(p)'
  <2>1. CASE p = o
    BY <2>1, <1>4
  <2>2. CASE p # o /\ EmCanal(p)
    BY <2>2, <1>3 DEF Avisado
  <2>3. CASE p # o /\ p \in perdidas
    BY <1>o, <2>3 DEF Avisado, Avisa
  <2>4. CASE p # o /\ \E k \in Hello : envia[k] = p
    <3>1. PICK k \in Hello : envia[k] = p
      BY <2>4
    <3>2. envia'[k] = p
      BY <1>o, <3>1, <2>4 DEF Avisa, IInv, TypeOK
    <3>3. QED
      BY <3>2 DEF Avisado
  <2>5. QED
    BY <1>5, <2>1, <2>2, <2>3, <2>4 DEF Avisado
<1>6. PendenteTemAviso'
  BY <1>5 DEF IInv, PendenteTemAviso, Avisa, memoria, bandeja
<1>7. RevogacaoCoerente'
  <2>1. UNCHANGED <<decisoes, clicadas, menu, aprovadas, pendentes>>
    BY DEF Avisa, memoria, bandeja
  <2>2. QED
    BY <1>5, <2>1 DEF IInv, RevogacaoCoerente
<1>8. QED
  BY <1>1, <1>2, <1>6, <1>7 DEF IInv

\* A new item.
LEMMA PassoRecebeNova ==
  ASSUME IInv, RecebeNova
  PROVE  IInv'
<1>0. /\ Head(novas) \in Origem /\ Tail(novas) \in Seq(Origem)
      /\ Len(Tail(novas)) <= Len(novas) /\ Len(novas) \in Nat
  BY Retira DEF IInv, TypeOK, RecebeNova
<1>1. TypeOK'
  BY <1>0, LimitesAssumption DEF IInv, TypeOK, RecebeNova, memoria, historia
<1>2. RevogacaoVale' /\ MemoriaNoArquivo'
  BY DEF IInv, RevogacaoVale, MemoriaNoArquivo, Livre, RecebeNova, memoria, historia
<1>3. PendenteTemAviso'
  <2> SUFFICES ASSUME NEW o \in pendentes
               PROVE  itens'[o] # "sem" \/ Avisado(o)'
    BY DEF PendenteTemAviso, RecebeNova, memoria
  <2>1. CASE o = Head(novas)
    BY <2>1, <1>0 DEF RecebeNova, IInv, TypeOK
  <2>2. CASE o # Head(novas) /\ EmCanal(o)
    <3>1. EmCanal(o)'
      BY <2>2, Retira DEF EmCanal, RecebeNova, IInv, TypeOK
    <3>2. QED
      BY <3>1 DEF Avisado
  <2>3. CASE o # Head(novas) /\ itens[o] # "sem"
    BY <2>3 DEF RecebeNova, IInv, TypeOK
  <2>4. CASE o \in perdidas \/ \E h \in Hello : envia[h] = o
    BY <2>4 DEF Avisado, RecebeNova, historia
  <2>5. QED
    BY <2>1, <2>2, <2>3, <2>4 DEF IInv, PendenteTemAviso, Avisado
<1>4. RevogacaoCoerente'
  BY DEF IInv, RevogacaoCoerente, RecebeNova, memoria, historia
<1>5. QED
  BY <1>1, <1>2, <1>3, <1>4 DEF IInv

\* The steps of the menu, of the user and of time that leave what was announced as it was.
LEMMA PassoMenu ==
  ASSUME IInv,
         \/ BandejaPronta \/ Grava \/ GravaFalha \/ Limpa \/ Revoga \/ Reinicia
         \/ \E s \in SUBSET (Origem \ Predefinidas) : OutraSessao(s)
         \/ \E o \in Origem : Clica(o) \/ Envelhece(o) \/ Decide(o)
  PROVE  IInv'
<1>1. TypeOK'
  <2>1. CASE BandejaPronta \/ Grava \/ GravaFalha \/ Revoga \/ Limpa
    BY <2>1 DEF IInv, TypeOK, BandejaPronta, Grava, GravaFalha, Limpa, Revoga,
                memoria, historia
  <2>2. CASE Reinicia
    BY <2>2, LimitesAssumption DEF IInv, TypeOK, Reinicia
  <2>3. CASE \E o \in Origem : Clica(o)
    BY <2>3 DEF IInv, TypeOK, Clica, memoria
  <2>4. CASE \E o \in Origem : Envelhece(o)
    BY <2>4 DEF IInv, TypeOK, Envelhece, Vivas, bandeja, historia
  <2>5. CASE \E o \in Origem : Decide(o)
    BY <2>5 DEF IInv, TypeOK, Decide, historia
  <2>6. CASE \E s \in SUBSET (Origem \ Predefinidas) : OutraSessao(s)
    BY <2>6 DEF IInv, TypeOK, OutraSessao, memoria, bandeja
  <2>7. QED
    BY <2>1, <2>2, <2>3, <2>4, <2>5, <2>6
<1>2. RevogacaoVale'
  BY DEF IInv, TypeOK, RevogacaoVale, RevogacaoCoerente, BandejaPronta, Grava, GravaFalha,
         Limpa, Revoga, Reinicia, OutraSessao, Clica, Envelhece, Decide, memoria, historia, bandeja
<1>3. MemoriaNoArquivo'
  BY DEF IInv, MemoriaNoArquivo, Livre, BandejaPronta, Grava, GravaFalha,
         Limpa, Revoga, Reinicia, OutraSessao, Clica, Envelhece, Decide, memoria, historia, bandeja
<1>4. PendenteTemAviso'
  <2>1. CASE Limpa
    BY <2>1 DEF IInv, PendenteTemAviso, RevogacaoCoerente, Avisado, EmCanal, Limpa,
                memoria, historia
  <2>2. CASE Revoga \/ Reinicia
    BY <2>2 DEF PendenteTemAviso, Revoga, Reinicia
  <2>3. CASE \/ BandejaPronta \/ Grava \/ GravaFalha
             \/ \E s \in SUBSET (Origem \ Predefinidas) : OutraSessao(s)
    BY <2>3 DEF IInv, PendenteTemAviso, Avisado, EmCanal, BandejaPronta, Grava, GravaFalha,
                OutraSessao, memoria, historia, bandeja
  <2>4. CASE \E o \in Origem : Clica(o) \/ Envelhece(o) \/ Decide(o)
    BY <2>4 DEF IInv, TypeOK, PendenteTemAviso, Avisado, EmCanal, Clica, Envelhece, Decide,
                memoria, historia, bandeja
  <2>5. QED
    BY <2>1, <2>2, <2>3, <2>4
<1>5. RevogacaoCoerente'
  <2>1. \A o \in Origem : decisoes'[o] > 0 => o \in clicadas'
    BY DEF IInv, TypeOK, RevogacaoCoerente, BandejaPronta, Grava, GravaFalha,
           Limpa, Revoga, Reinicia, OutraSessao, Clica, Envelhece, Decide, memoria, historia, bandeja
  <2>2. menu' = "revoga" => aprovadas' = {} /\ pendentes' = {}
    BY DEF IInv, TypeOK, RevogacaoCoerente, BandejaPronta, Grava, GravaFalha, Vivas,
           Limpa, Revoga, Reinicia, OutraSessao, Clica, Envelhece, Decide, memoria, historia, bandeja
  <2>3. menu' = "limpa" => \A o \in pendentes' : Avisado(o)'
    BY DEF IInv, TypeOK, RevogacaoCoerente, BandejaPronta, Grava, GravaFalha, Livre,
           Limpa, Revoga, Reinicia, OutraSessao, Clica, Envelhece, Decide, memoria, historia, bandeja,
           Avisado, EmCanal
  <2>4. QED
    BY <2>1, <2>2, <2>3 DEF RevogacaoCoerente
<1>6. QED
  BY <1>1, <1>2, <1>3, <1>4, <1>5 DEF IInv

\* The invariant holds of every behaviour.
THEOREM Invariante == Spec => []IInv
<1>1. ASSUME IInv, UNCHANGED vars
      PROVE  IInv'
  BY <1>1 DEF vars, memoria, bandeja, historia, IInv, TypeOK, RevogacaoVale,
              MemoriaNoArquivo, Livre, PendenteTemAviso, RevogacaoCoerente, Avisado, EmCanal
<1>2. IInv /\ [Next]_vars => IInv'
  BY <1>1, PassoSolicita, PassoAvisa, PassoRecebeNova, PassoMenu DEF Next, Menu
<1>3. QED
  BY Inicio, <1>2, PTL DEF Spec

\* Type correctness: in particular the channel never holds more than its capacity.
THEOREM TipoCorreto == Spec => []TypeOK
<1>1. IInv => TypeOK
  BY DEF IInv
<1>2. QED
  BY <1>1, Invariante, PTL

\* A revocation the file knows is undone by the user's clicks only.
THEOREM RevogacaoFica == Spec => []RevogacaoVale
<1>1. IInv => RevogacaoVale
  BY DEF IInv
<1>2. QED
  BY <1>1, Invariante, PTL

\* Memory and file agree whenever the mutex is free, unless a write or the read of the start
\* failed, or another session saved, after the last save that worked.
THEOREM ArquivoConcorda == Spec => []MemoriaNoArquivo
<1>1. IInv => MemoriaNoArquivo
  BY DEF IInv
<1>2. QED
  BY <1>1, Invariante, PTL

\* Nothing pending is invisible unless the channel was full.
THEOREM NadaPendenteEscondido == Spec => []PendenteTemAviso
<1>1. IInv => PendenteTemAviso
  BY DEF IInv
<1>2. QED
  BY <1>1, Invariante, PTL

=============================================================================
