-------------------------- MODULE ComparadorProofs --------------------------
(* Theorems about Comparador, for every set of comparators and of agents   *)
(* and every bound on secrets and certificates.                            *)
EXTENDS Comparador, TLAPS

IInv ==
  /\ TypeOK /\ ArquivosGerados /\ PortaUnica /\ Sozinho
  /\ AnuncioDeQuemServe /\ AnuncioMortoSoPorQueda /\ SegredoUnico
  /\ ParInstalado /\ RaizDoArquivo

\* A write to the pair, and what its fields are.
Par == [cert : 0..MaxCerts, chave : 0..MaxCerts]

LEMMA CamposDoPar ==
  ASSUME arquivos \in Par
  PROVE  /\ arquivos.cert \in 0..MaxCerts /\ arquivos.chave \in 0..MaxCerts
         /\ \A x \in 0..MaxCerts :
              /\ [arquivos EXCEPT !.chave = x] \in Par /\ [arquivos EXCEPT !.cert = x] \in Par
              /\ [arquivos EXCEPT !.chave = x].chave = x
              /\ [arquivos EXCEPT !.chave = x].cert = arquivos.cert
              /\ [arquivos EXCEPT !.cert = x].cert = x
              /\ [arquivos EXCEPT !.cert = x].chave = arquivos.chave
BY DEF Par

LEMMA ParVazio ==
  LET v == [cert |-> Nada, chave |-> Nada] IN v \in Par /\ v.cert = Nada /\ v.chave = Nada
BY LimitesAssumption DEF Par, Nada

LEMMA PassoTipo == TypeOK /\ ArquivosGerados /\ [Next]_vars => TypeOK' /\ ArquivosGerados'
<1> SUFFICES ASSUME TypeOK, ArquivosGerados, [Next]_vars
             PROVE  TypeOK' /\ ArquivosGerados'
  OBVIOUS
<1>0. /\ arquivos \in Par /\ arquivos.cert \in 0..MaxCerts /\ arquivos.chave \in 0..MaxCerts
      /\ MaxTokens \in Nat \ {0} /\ MaxCerts \in Nat \ {0}
  BY CamposDoPar, LimitesAssumption DEF TypeOK, Par
<1> USE <1>0 DEF TypeOK, ArquivosGerados, Fases, Eventos, Nada, Vai, Acontece, Em, daqui
<1>1. ASSUME NEW c \in Comparadores, Inicia(c) PROVE TypeOK' /\ ArquivosGerados'
  <2>1. /\ tokens' \in 0..MaxTokens /\ segredo' \in [Comparadores -> 0..MaxTokens]
        /\ pc' \in [Comparadores -> Fases]
    BY <1>1 DEF Inicia
  <2>2. eventos' \subseteq Eventos
    BY <1>1 DEF Inicia, Junto
  <2>3. UNCHANGED <<cert, anuncio, arquivos, vencidos, certs, loja, agente, delega, tls>>
    BY <1>1 DEF Inicia
  <2>4. QED
    BY <2>1, <2>2, <2>3
<1>2. ASSUME NEW c \in Comparadores, CertificadoServe(c) PROVE TypeOK' /\ ArquivosGerados'
  BY <1>2 DEF CertificadoServe
<1>3. ASSUME NEW c \in Comparadores, GravaChave(c) PROVE TypeOK' /\ ArquivosGerados'
  <2>1. certs' = certs + 1 /\ certs' \in 0..MaxCerts /\ cert' \in [Comparadores -> 0..MaxCerts]
    BY <1>3 DEF GravaChave
  <2>2. vencidos' \subseteq 1..certs' /\ loja' \subseteq 1..certs'
    BY <1>3, <2>1 DEF GravaChave
  <2>3. arquivos' \in Par /\ arquivos'.cert = arquivos.cert /\ arquivos'.chave = certs'
    BY <1>3, <2>1, CamposDoPar DEF GravaChave
  <2>4. ArquivosGerados'
    BY <1>3, <2>1, <2>3 DEF GravaChave
  <2>5. QED
    BY <1>3, <2>1, <2>2, <2>3, <2>4 DEF GravaChave, Par
<1>4. ASSUME NEW c \in Comparadores, GravaCert(c) PROVE TypeOK' /\ ArquivosGerados'
  <2>1. arquivos' \in Par /\ arquivos'.chave = arquivos.chave /\ arquivos'.cert = cert[c]
    BY <1>4, CamposDoPar DEF GravaCert
  <2>2. QED
    BY <1>4, <2>1 DEF GravaCert, Par
<1>5. ASSUME NEW c \in Comparadores, InstalaCert(c) PROVE TypeOK' /\ ArquivosGerados'
  <2>1. arquivos.cert \in 1..certs
    BY <1>5 DEF InstalaCert, CertificadoValido
  <2>2. loja' \subseteq 1..certs
    BY <1>5, <2>1 DEF InstalaCert
  <2>3. QED
    BY <1>5, <2>2 DEF InstalaCert
<1>6. ASSUME NEW c \in Comparadores, CertificadoFalha(c) PROVE TypeOK' /\ ArquivosGerados'
  BY <1>6 DEF CertificadoFalha
<1>7. ASSUME NEW c \in Comparadores,
             Abre(c) \/ Fecha(c) \/ Publica(c) \/ PublicaFalha(c) \/ Cai(c) \/ Retorna(c)
      PROVE  TypeOK' /\ ArquivosGerados'
  <2>1. (pc' \in [Comparadores -> Fases] /\ UNCHANGED daqui) \/ Acaba(c)
    BY <1>7 DEF Abre, Fecha, Publica, PublicaFalha, Cai, Retorna
  <2>2. /\ pc' \in [Comparadores -> Fases] /\ segredo' \in [Comparadores -> 0..MaxTokens]
        /\ cert' \in [Comparadores -> 0..MaxCerts]
        /\ \A d \in Comparadores : cert'[d] \in {Nada, cert[d]}
    BY <2>1, LimitesAssumption DEF Acaba
  <2>3. eventos' \subseteq Eventos
    BY <1>7 DEF Abre, Fecha, Publica, PublicaFalha, Cai, Retorna
  <2>4. anuncio' \in 0..MaxTokens
    BY <1>7 DEF Abre, Fecha, Publica, PublicaFalha, Cai, Retorna
  <2>5. UNCHANGED <<tokens, arquivos, vencidos, certs, loja, agente, delega, tls>>
    BY <1>7 DEF Abre, Fecha, Publica, PublicaFalha, Cai, Retorna
  <2>6. TypeOK'
    BY <2>2, <2>3, <2>4, <2>5
  <2>7. ArquivosGerados'
    BY <2>2, <2>5
  <2>8. QED
    BY <2>6, <2>7
<1>9. CASE Vence
  <2>1. arquivos.cert \in 1..certs
    BY <1>9 DEF Vence
  <2>2. vencidos' \subseteq 1..certs
    BY <1>9, <2>1 DEF Vence
  <2>3. QED
    BY <1>9, <2>2 DEF Vence
<1>10. CASE Desinstala
  <2>1. /\ arquivos' \in Par
        /\ arquivos'.cert \in {0, arquivos.cert} /\ arquivos'.chave \in {0, arquivos.chave}
    BY <1>10 DEF Desinstala, Par
  <2>2. loja' \subseteq 1..certs /\ eventos' \subseteq Eventos
    BY <1>10 DEF Desinstala
  <2>3. QED
    BY <1>10, <2>1, <2>2 DEF Desinstala, Par
<1>11. ASSUME NEW a \in Agentes, Configura(a) PROVE TypeOK' /\ ArquivosGerados'
  BY <1>11 DEF Configura
<1>12. ASSUME NEW a \in Agentes, CarregaTLS(a) PROVE TypeOK' /\ ArquivosGerados'
  BY <1>12 DEF CarregaTLS
<1>13. ASSUME NEW a \in Agentes, SaiAgente(a) PROVE TypeOK' /\ ArquivosGerados'
  BY <1>13 DEF SaiAgente
<1>14. CASE UNCHANGED vars
  BY <1>14 DEF vars
<1>15. QED
  BY <1>1, <1>2, <1>3, <1>4, <1>5, <1>6, <1>7, <1>9, <1>10, <1>11, <1>12, <1>13, <1>14
  DEF Next
\* What a comparator's step does to where the comparators are.
Passo(c) ==
  \/ Inicia(c) \/ CertificadoServe(c) \/ GravaChave(c) \/ GravaCert(c) \/ InstalaCert(c)
  \/ CertificadoFalha(c) \/ Abre(c) \/ Publica(c) \/ PublicaFalha(c)
  \/ Fecha(c) \/ Retorna(c) \/ Cai(c)

\* A step of one comparator leaves the others where they are, and its secret changes as it
\* starts or ends only; every other step leaves all of them.
LEMMA PassoDeUm ==
  ASSUME TypeOK, NEW c \in Comparadores, Passo(c)
  PROVE  /\ \A d \in Comparadores \ {c} : pc'[d] = pc[d] /\ segredo'[d] = segredo[d]
         /\ pc[c] = "parado" \/ segredo'[c] = segredo[c] \/ pc'[c] = "parado"
         /\ eventos \subseteq eventos'
         /\ UNCHANGED delega
BY DEF TypeOK, Passo, Inicia, CertificadoServe, GravaChave, GravaCert, InstalaCert, CertificadoFalha,
  Abre, Acaba, Publica, PublicaFalha, Fecha, Retorna, Cai, Vai, Acontece, Em, daqui

LEMMA PassoDoResto ==
  ASSUME Vence \/ Desinstala \/ (\E a \in Agentes : Configura(a) \/ CarregaTLS(a) \/ SaiAgente(a))
         \/ UNCHANGED vars
  PROVE  UNCHANGED <<pc, segredo, cert, anuncio>> /\ eventos \subseteq eventos'
BY DEF Vence, Desinstala, Configura, CarregaTLS, SaiAgente, vars, daqui, Acontece

\* The port: only Abre takes it, when nobody has it.
LEMMA PassoPorta == TypeOK /\ PortaUnica /\ [Next]_vars => PortaUnica'
<1> SUFFICES ASSUME TypeOK, PortaUnica, [Next]_vars PROVE PortaUnica'
  OBVIOUS
<1>1. ASSUME NEW c \in Comparadores, Passo(c) PROVE PortaUnica'
  <2>1. ASSUME NEW d \in Comparadores \ {c} PROVE Escutando(d)' <=> Escutando(d)
    BY <1>1, PassoDeUm DEF Escutando, Em
  <2>2. Escutando(c)' => Escutando(c) \/ \A d \in Comparadores : ~Escutando(d)
    BY <1>1 DEF TypeOK, Passo, Inicia, CertificadoServe, GravaChave, GravaCert, InstalaCert,
      CertificadoFalha, Abre, Acaba, Publica, PublicaFalha, Fecha, Retorna, Cai, Vai, Em, Escutando
  <2>3. QED
    BY <2>1, <2>2 DEF PortaUnica
<1>2. CASE \/ Vence \/ Desinstala \/ UNCHANGED vars
           \/ \E a \in Agentes : Configura(a) \/ CarregaTLS(a) \/ SaiAgente(a)
  BY <1>2, PassoDoResto DEF PortaUnica, Escutando, Em
<1>3. QED
  BY <1>1, <1>2 DEF Next, Passo

\* A comparator that starts beside another is noted; nothing else makes a second one.
LEMMA PassoSozinho == TypeOK /\ Sozinho /\ [Next]_vars => Sozinho'
<1> SUFFICES ASSUME TypeOK, Sozinho, [Next]_vars PROVE Sozinho'
  OBVIOUS
<1>1. ASSUME NEW c \in Comparadores, Passo(c) PROVE Sozinho'
  <2>1. ASSUME NEW d \in Comparadores \ {c} PROVE Vivo(d)' <=> Vivo(d)
    BY <1>1, PassoDeUm DEF Vivo, Em
  <2>2. CASE Vivo(c)
    BY <1>1, <2>1, <2>2, PassoDeUm DEF Sozinho, SemEvento
  <2>3. CASE ~Vivo(c)
    <3>1. Inicia(c)
      BY <1>1, <2>3 DEF Vivo, Passo, CertificadoServe, GravaChave, GravaCert, InstalaCert,
        CertificadoFalha, Abre, Acaba, Publica, PublicaFalha, Fecha, Retorna, Cai, Em
    <3>2. "junto" \in eventos' \/ \A d \in Comparadores \ {c} : ~Vivo(d)
      BY <3>1 DEF Inicia, Junto, Acontece, Vivo
    <3>3. QED
      BY <2>1, <3>2 DEF Sozinho, SemEvento
  <2>4. QED
    BY <2>2, <2>3
<1>2. CASE \/ Vence \/ Desinstala \/ UNCHANGED vars
           \/ \E a \in Agentes : Configura(a) \/ CarregaTLS(a) \/ SaiAgente(a)
  BY <1>2, PassoDoResto DEF Sozinho, SemEvento, Vivo, Em
<1>3. QED
  BY <1>1, <1>2 DEF Next, Passo

\* The announcement is written by whoever has the port, and removed by anyone.
LEMMA QuemEscreveAnuncio ==
  ASSUME TypeOK, NEW c \in Comparadores, Passo(c)
  PROVE  \/ UNCHANGED anuncio /\ (Em(c, {"servindo"})' => Em(c, {"servindo"}))
         \/ Publica(c) \/ Retorna(c)
BY DEF TypeOK, Passo, Inicia, CertificadoServe, GravaChave, GravaCert, InstalaCert, CertificadoFalha,
  Abre, Acaba, PublicaFalha, Fecha, Cai, Vai, Em

LEMMA PassoAnuncio ==
  TypeOK /\ PortaUnica /\ AnuncioDeQuemServe /\ [Next]_vars => AnuncioDeQuemServe'
<1> SUFFICES ASSUME TypeOK, PortaUnica, AnuncioDeQuemServe, [Next]_vars
             PROVE  AnuncioDeQuemServe'
  OBVIOUS
<1>1. ASSUME NEW c \in Comparadores, Passo(c) PROVE AnuncioDeQuemServe'
  <2>1. CASE UNCHANGED anuncio /\ (Em(c, {"servindo"})' => Em(c, {"servindo"}))
    BY <1>1, <2>1, PassoDeUm DEF AnuncioDeQuemServe, Em
  <2>2. CASE Publica(c)
    <3>1. \A d \in Comparadores \ {c} : ~Em(d, {"servindo"})
      BY <2>2 DEF Publica, PortaUnica, Escutando, Em
    <3>2. anuncio' = segredo'[c]
      BY <2>2 DEF Publica, daqui
    <3>3. QED
      BY <1>1, <3>1, <3>2, PassoDeUm DEF AnuncioDeQuemServe, Em
  <2>3. CASE Retorna(c)
    <3>1. anuncio' = Nada \/ (UNCHANGED anuncio /\ ~Em(c, {"servindo"})')
      BY <2>3 DEF Retorna, Acaba, TypeOK, Vai, Em
    <3>2. QED
      BY <1>1, <3>1, PassoDeUm DEF AnuncioDeQuemServe, Em
  <2>4. QED
    BY <1>1, <2>1, <2>2, <2>3, QuemEscreveAnuncio
<1>2. CASE \/ Vence \/ Desinstala \/ UNCHANGED vars
           \/ \E a \in Agentes : Configura(a) \/ CarregaTLS(a) \/ SaiAgente(a)
  BY <1>2, PassoDoResto DEF AnuncioDeQuemServe, Em
<1>3. QED
  BY <1>1, <1>2 DEF Next, Passo

\* Who announced stays until it removed the announcement, unless it crashes.
LEMMA PassoMorto == TypeOK /\ AnuncioMortoSoPorQueda /\ [Next]_vars => AnuncioMortoSoPorQueda'
<1> SUFFICES ASSUME TypeOK, AnuncioMortoSoPorQueda, [Next]_vars PROVE AnuncioMortoSoPorQueda'
  OBVIOUS
<1> DEFINE Dono(d) == Em(d, {"servindo", "mudo", "fechando"})
<1>1. ASSUME NEW c \in Comparadores, Passo(c) PROVE AnuncioMortoSoPorQueda'
  <2>1. ASSUME NEW d \in Comparadores \ {c} PROVE Dono(d)' <=> Dono(d)
    BY <1>1, PassoDeUm DEF Em
  <2>2. \/ Publica(c) /\ Dono(c)'
        \/ Retorna(c) /\ anuncio' = Nada
        \/ eventos' \cap {"queda", "presa"} # {}
        \/ UNCHANGED anuncio /\ (Dono(c) => Dono(c)')
    BY <1>1 DEF TypeOK, Passo, Inicia, CertificadoServe, GravaChave, GravaCert, InstalaCert,
      CertificadoFalha, Abre, Acaba, Publica, PublicaFalha, Fecha, Retorna, Cai, Vai, Em, Acontece
  <2>3. eventos \subseteq eventos'
    BY <1>1, PassoDeUm
  <2>4. QED
    BY <2>1, <2>2, <2>3 DEF AnuncioMortoSoPorQueda
<1>2. CASE \/ Vence \/ Desinstala \/ UNCHANGED vars
           \/ \E a \in Agentes : Configura(a) \/ CarregaTLS(a) \/ SaiAgente(a)
  BY <1>2, PassoDoResto DEF AnuncioMortoSoPorQueda, Em
<1>3. QED
  BY <1>1, <1>2 DEF Next, Passo

\* Until an orderly stop, and while it can be read, nothing removes the announcement, and what
\* is published over it is the same secret.
LEMMA PassoSegredo ==
  TypeOK /\ Sozinho' /\ SegredoUnico /\ [Next]_vars => SegredoUnico'
<1> SUFFICES ASSUME TypeOK, Sozinho', SegredoUnico, [Next]_vars,
                    SemEvento({"parada", "junto", "ilegivel"})'
             PROVE  SegredoUnico'
  BY DEF SegredoUnico, SemEvento
<1>1. ASSUME NEW c \in Comparadores, Passo(c) PROVE SegredoUnico'
  <2>1. /\ SemEvento({"parada", "junto", "ilegivel"}) /\ ~Retorna(c)
        /\ \A d \in Comparadores : Vivo(d)' /\ Vivo(c)' => d = c
    BY <1>1, PassoDeUm DEF SemEvento, Retorna, Acontece, Sozinho
  <2>2. ASSUME NEW d \in Comparadores \ {c} PROVE Vivo(d)' <=> Vivo(d)
    BY <1>1, PassoDeUm DEF Vivo, Em
  <2>3. CASE Publica(c)
    <3>1. Vivo(c) /\ Vivo(c)' /\ anuncio' = segredo[c] /\ segredo' = segredo /\ delega' = delega
      BY <2>3 DEF Publica, Vivo, Vai, Em, TypeOK, daqui
    <3>2. anuncio # Nada => anuncio' = anuncio
      BY <2>1, <3>1 DEF SegredoUnico
    <3>3. QED
      BY <2>1, <3>1, <3>2 DEF SegredoUnico
  <2>4. CASE Inicia(c)
    <3>1. anuncio' = anuncio /\ delega' = delega /\ (anuncio # Nada => segredo'[c] = anuncio)
      BY <2>4 DEF Inicia, TypeOK, SemEvento, Acontece
    <3>2. QED
      BY <1>1, <2>1, <2>2, <3>1, PassoDeUm DEF SegredoUnico
  <2>5. CASE ~Inicia(c) /\ ~Publica(c)
    <3>1. anuncio' = anuncio /\ delega' = delega /\ Vivo(c)
      BY <1>1, <2>1, <2>5 DEF Passo, CertificadoServe, GravaChave, GravaCert, InstalaCert,
        CertificadoFalha, Abre, PublicaFalha, Fecha, Cai, Vivo, Em
    <3>2. \A d \in Comparadores : Vivo(d)' => Vivo(d) /\ segredo'[d] = segredo[d]
      BY <1>1, <2>2, <3>1, PassoDeUm DEF Vivo, Em
    <3>3. QED
      BY <2>1, <3>1, <3>2 DEF SegredoUnico
  <2>6. QED
    BY <2>3, <2>4, <2>5
<1>2. CASE Vence \/ Desinstala \/ UNCHANGED vars
  BY <1>2, PassoDoResto DEF SegredoUnico, SemEvento, Vivo, Em, Vence, Desinstala, vars
<1>3. ASSUME NEW a \in Agentes, Configura(a) \/ CarregaTLS(a) \/ SaiAgente(a) PROVE SegredoUnico'
  <2>1. /\ UNCHANGED <<pc, segredo, anuncio, eventos>>
        /\ \A b \in Agentes : delega'[b] \in {Nada, anuncio, delega[b]}
    BY <1>3 DEF Configura, CarregaTLS, SaiAgente, daqui, TypeOK
  <2>2. QED
    BY <2>1 DEF SegredoUnico, SemEvento, Vivo, Em
<1>4. QED
  BY <1>1, <1>2, <1>3 DEF Next, Passo

\* Without company the others are stopped, before and after.
LEMMA OutrosParados ==
  ASSUME TypeOK, Sozinho, Sozinho', NEW c \in Comparadores, Passo(c), SemEvento({"junto"})'
  PROVE  \A d \in Comparadores \ {c} : pc[d] = "parado" /\ pc'[d] = "parado"
<1>1. SemEvento({"junto"}) /\ \A d \in Comparadores \ {c} : pc'[d] = pc[d]
  BY PassoDeUm DEF SemEvento
<1>2. Vivo(c) \/ Vivo(c)'
  BY DEF Vivo, TypeOK, Passo, Inicia, CertificadoServe, GravaChave, GravaCert, InstalaCert,
    CertificadoFalha, Abre, Acaba, Publica, PublicaFalha, Fecha, Retorna, Cai, Em, Vai
<1>3. QED
  BY <1>1, <1>2 DEF Sozinho, Vivo, Em

\* The pair as the only comparator that is up writes it, reads it back and installs it.
LEMMA PassoPar ==
  TypeOK /\ ArquivosGerados /\ Sozinho /\ Sozinho' /\ ParInstalado /\ [Next]_vars => ParInstalado'
<1> DEFINE Ruim == {"falha", "queda", "junto", "remocao"}
<1> SUFFICES ASSUME TypeOK, ArquivosGerados, Sozinho, Sozinho', ParInstalado, [Next]_vars,
                    SemEvento(Ruim)'
             PROVE  ParInstalado'
  BY DEF ParInstalado, SemEvento
<1>1. ASSUME NEW c \in Comparadores, Passo(c) PROVE ParInstalado'
  <2>1. SemEvento(Ruim) /\ SemEvento({"junto"})'
    BY <1>1, PassoDeUm DEF SemEvento
  <2>2. \A d \in Comparadores \ {c} : pc[d] = "parado" /\ pc'[d] = "parado"
    BY <1>1, <2>1, OutrosParados
  <2>3. CASE GravaChave(c)
    <3>1. /\ arquivos'.cert = arquivos.cert /\ arquivos'.chave = certs + 1 /\ cert'[c] = certs + 1
          /\ pc'[c] = "gravando" /\ pc[c] = "segredo" /\ loja' = loja /\ tls' = tls
      <4>1. arquivos \in Par /\ certs + 1 \in 0..MaxCerts
        BY <2>3, LimitesAssumption DEF GravaChave, TypeOK, Par
      <4>2. QED
        BY <2>3, <4>1, CamposDoPar DEF GravaChave, TypeOK, Em, Vai
    <3>2. arquivos.cert \in Nat /\ certs \in Nat /\ arquivos.cert # certs + 1
      BY CamposDoPar, LimitesAssumption DEF TypeOK, ArquivosGerados, Par
    <3>3. QED
      BY <2>1, <2>2, <3>1, <3>2 DEF ParInstalado, Em
  <2>4. CASE GravaCert(c)
    <3>1. /\ arquivos'.cert = cert[c] /\ arquivos'.chave = arquivos.chave /\ cert' = cert
          /\ pc'[c] = "instalando" /\ pc[c] = "gravando" /\ loja' = loja /\ tls' = tls
      <4>1. arquivos \in Par /\ cert[c] \in 0..MaxCerts
        BY DEF TypeOK, Par
      <4>2. QED
        BY <2>4, <4>1, CamposDoPar DEF GravaCert, TypeOK, Em, Vai, daqui
    <3>2. QED
      BY <2>1, <2>2, <3>1 DEF ParInstalado, Em
  <2>5. CASE InstalaCert(c)
    <3>1. /\ loja' = loja \cup {arquivos.cert} /\ arquivos' = arquivos /\ cert' = cert
          /\ pc'[c] = "abrindo" /\ pc[c] = "instalando" /\ tls' = tls
      BY <2>5 DEF InstalaCert, TypeOK, Em, Vai, daqui
    <3>2. QED
      BY <2>1, <2>2, <3>1 DEF ParInstalado, Em
  <2>6. CASE ~(GravaChave(c) \/ GravaCert(c) \/ InstalaCert(c))
    <3>1. /\ UNCHANGED <<arquivos, loja, tls>>
          /\ pc[c] \notin {"gravando", "instalando"} /\ pc'[c] \notin {"gravando", "instalando"}
      BY <1>1, <2>6 DEF Passo, TypeOK, Inicia, CertificadoServe, CertificadoFalha, Abre, Acaba,
        Publica, PublicaFalha, Fecha, Retorna, Cai, Em, Vai, daqui, SemEvento, Acontece
    <3>2. QED
      BY <2>1, <2>2, <3>1 DEF ParInstalado, Em
  <2>7. QED
    BY <2>3, <2>4, <2>5, <2>6
<1>2. CASE Vence \/ Desinstala \/ UNCHANGED vars
  <2>1. SemEvento(Ruim) /\ UNCHANGED <<pc, arquivos, loja, tls, cert>>
    BY <1>2 DEF Vence, Desinstala, vars, daqui, SemEvento, Acontece
  <2>2. QED
    BY <2>1 DEF ParInstalado, Em
<1>3. ASSUME NEW a \in Agentes, Configura(a) \/ CarregaTLS(a) \/ SaiAgente(a) PROVE ParInstalado'
  <2>1. /\ SemEvento(Ruim) /\ UNCHANGED <<pc, arquivos, loja, cert>>
        /\ \A b \in Agentes : tls'[b] \in {Nada, tls[b], arquivos.cert}
    BY <1>3 DEF Configura, CarregaTLS, SaiAgente, daqui, TypeOK, SemEvento
  <2>2. QED
    BY <2>1 DEF ParInstalado, Em
<1>4. QED
  BY <1>1, <1>2, <1>3 DEF Next, Passo

\* Without renewals a generation is written only where there is none.
LEMMA PassoRaiz ==
  TypeOK /\ ArquivosGerados /\ Sozinho /\ Sozinho' /\ RaizDoArquivo /\ [Next]_vars => RaizDoArquivo'
<1> DEFINE Ruim == {"falha", "renovacao", "junto"}
<1> SUFFICES ASSUME TypeOK, ArquivosGerados, Sozinho, Sozinho', RaizDoArquivo, [Next]_vars,
                    SemEvento(Ruim)'
             PROVE  RaizDoArquivo'
  BY DEF RaizDoArquivo, SemEvento
<1>0. Nada \notin loja
  BY DEF TypeOK, Nada
<1>1. ASSUME NEW c \in Comparadores, Passo(c) PROVE RaizDoArquivo'
  <2>1. SemEvento(Ruim) /\ SemEvento({"junto"})'
    BY <1>1, PassoDeUm DEF SemEvento
  <2>2. \A d \in Comparadores \ {c} : pc[d] = "parado" /\ pc'[d] = "parado"
    BY <1>1, <2>1, OutrosParados
  <2>3. CASE GravaChave(c)
    <3>1. arquivos.cert = Nada /\ arquivos'.cert = arquivos.cert /\ loja' = loja
      <4>1. arquivos \in Par /\ certs + 1 \in 0..MaxCerts
        BY <2>3, LimitesAssumption DEF GravaChave, TypeOK, Par
      <4>2. QED
        BY <2>3, <4>1, CamposDoPar DEF GravaChave, SemEvento, Acontece
    <3>2. QED
      BY <2>1, <3>1 DEF RaizDoArquivo
  <2>4. CASE GravaCert(c)
    <3>1. loja = {} /\ loja' = {} /\ pc'[c] = "instalando"
      BY <1>0, <2>1, <2>4 DEF GravaCert, RaizDoArquivo, TypeOK, Em, Vai
    <3>2. QED
      BY <2>2, <3>1 DEF RaizDoArquivo, Em
  <2>5. CASE InstalaCert(c)
    BY <2>1, <2>2, <2>5 DEF InstalaCert, RaizDoArquivo, TypeOK, Em, Vai
  <2>6. CASE ~(GravaChave(c) \/ GravaCert(c) \/ InstalaCert(c))
    <3>1. UNCHANGED <<arquivos, loja>> /\ pc'[c] # "gravando"
      BY <1>1, <2>6 DEF Passo, TypeOK, Inicia, CertificadoServe, CertificadoFalha, Abre, Acaba,
        Publica, PublicaFalha, Fecha, Retorna, Cai, Em, Vai, SemEvento, Acontece
    <3>2. QED
      BY <2>1, <2>2, <3>1 DEF RaizDoArquivo, Em
  <2>7. QED
    BY <2>3, <2>4, <2>5, <2>6
<1>2. CASE Desinstala
  <2>1. arquivos'.cert = Nada /\ loja' = loja \ {arquivos.cert} /\ SemEvento(Ruim)
    BY <1>2, ParVazio DEF Desinstala, SemEvento, Acontece
  <2>2. QED
    BY <2>1 DEF RaizDoArquivo
<1>3. CASE \/ Vence \/ UNCHANGED vars
           \/ \E a \in Agentes : Configura(a) \/ CarregaTLS(a) \/ SaiAgente(a)
  <2>1. UNCHANGED <<pc, arquivos, loja, eventos>>
    BY <1>3 DEF Vence, vars, Configura, CarregaTLS, SaiAgente
  <2>2. QED
    BY <2>1 DEF RaizDoArquivo, SemEvento, Em
<1>4. QED
  BY <1>1, <1>2, <1>3 DEF Next, Passo

----------------------------------------------------------------------------
LEMMA Inicio == Init => IInv
<1> SUFFICES ASSUME Init PROVE IInv
  OBVIOUS
<1>1. TypeOK /\ ArquivosGerados
  BY LimitesAssumption DEF Init, TypeOK, ArquivosGerados, Fases, Nada
<1>2. PortaUnica /\ Sozinho /\ AnuncioDeQuemServe /\ AnuncioMortoSoPorQueda /\ SegredoUnico
  BY DEF Init, PortaUnica, Sozinho, AnuncioDeQuemServe, AnuncioMortoSoPorQueda, SegredoUnico,
    Escutando, Vivo, Em, Nada
<1>3. ParInstalado /\ RaizDoArquivo
  BY DEF Init, ParInstalado, RaizDoArquivo, Em, Nada
<1>4. QED
  BY <1>1, <1>2, <1>3 DEF IInv

LEMMA Indutivo == IInv /\ [Next]_vars => IInv'
BY PassoTipo, PassoPorta, PassoSozinho, PassoAnuncio, PassoMorto, PassoSegredo, PassoPar, PassoRaiz
DEF IInv

LEMMA SempreIInv == Spec => []IInv
BY Inicio, Indutivo, PTL DEF Spec

\* The files and the processes hold what they can hold, in every behaviour.
THEOREM TipoCorreto == Spec => []TypeOK
BY SempreIInv, PTL DEF IInv

\* Whoever reads the announcement of a comparator that serves finds its secret or nothing
\* (comparador.go:106), however many comparators come and go beside it.
THEOREM AnuncioConfere == Spec => []AnuncioDeQuemServe
BY SempreIInv, PTL DEF IInv

\* Until an orderly stop, company or an announcement that cannot be read, crashes and
\* restarts of the service refuse no agent (tokenDoComparador).
THEOREM QuedaMantemSegredo == Spec => []QuedaNaoInvalida
<1>1. ASSUME IInv PROVE QuedaNaoInvalida
  <2> SUFFICES ASSUME eventos \cap {"parada", "junto", "ilegivel"} = {},
                      NEW c \in Comparadores, NEW a \in Agentes, Recusa(c, a)
               PROVE  FALSE
    BY DEF QuedaNaoInvalida
  <2>1. Vivo(c) /\ delega[a] # Nada /\ delega[a] # segredo[c]
    BY DEF Recusa, Vivo, Em
  <2>2. QED
    BY <1>1, <2>1 DEF IInv, SegredoUnico, SemEvento
<1>2. QED
  BY <1>1, SempreIInv, PTL

\* An announcement nobody serves is left by a crash or a removal that failed (removeAnuncio).
THEOREM ParadaLimpa == Spec => []AnuncioMortoSoPorQueda
BY SempreIInv, PTL DEF IInv

\* Without failures, crashes, company and removals an agent serves what is in the machine's
\* store (garanteCertificadoMaquina, carregaTLS).
THEOREM ServeOQueConfiam == Spec => []ServidoEConfiavelSemFalha
<1>1. ASSUME IInv PROVE ServidoEConfiavelSemFalha
  BY <1>1 DEF IInv, ParInstalado, SemEvento, ServidoEConfiavelSemFalha, Em
<1>2. QED
  BY <1>1, SempreIInv, PTL

\* Installing and removing cleanly leaves no root behind (cert.go:223-228).
THEOREM SemRaizOrfa == Spec => []OrfaSoPorRenovacao
<1>1. ASSUME IInv PROVE OrfaSoPorRenovacao
  BY <1>1 DEF IInv, TypeOK, RaizDoArquivo, SemEvento, OrfaSoPorRenovacao, Nada
<1>2. QED
  BY <1>1, SempreIInv, PTL
=============================================================================
