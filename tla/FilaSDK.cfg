SPECIFICATION SpecJusta
CONSTANTS
  conta = conta
  captura = captura
  ident1 = ident1
  ident2 = ident2
  Desliga = Desliga
  Ninguem = Ninguem
  Req <- MCReq
  Op <- MCOp
  PrazoCtx <- MCPrazoCtx
  Duracao <- MCDuracao
  PrazoDesliga = 1
  Capacidade = 1
  MaxRequisicoes = 2
  MaxIdentificacoes = 1
CHECK_DEADLOCK FALSE
INVARIANTS
  NadaDepoisDeEncerrar
PROPERTIES
  SemEncerrarSoNoPrazo
  TodaRequisicaoResponde
  ImplementaServico
