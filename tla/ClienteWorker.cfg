SPECIFICATION SpecJusta
CONSTANTS
  p1 = p1
  p2 = p2
  Nenhum = Nenhum
  Encerrar = Encerrar
  Pedidos <- MCPedidos
  Limites <- MCLimites
  Esperas <- MCEsperas
  PrazoOciosidade = 5
  PrazoEncerrar = 1
  PrazoDespedida = 1
  FalhasParaEsfriar = 3
  MaxOrfaos = 1
INVARIANTS
  RespostaDoProprioPedido
  DuracaoLimitada
PROPERTIES
  IntervaloEntreSubidas
  SoOPrazoMata
  EncerraNaoDeixaNada
  TodaChamadaRetorna
  OciosoESolto
  ImplementaChamada
