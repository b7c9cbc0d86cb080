SPECIFICATION SpecJusta
CONSTANTS
  o1 = o1
  o2 = o2
  fixa = fixa
  h1 = h1
  h2 = h2
  Nenhuma = Nenhuma
  Origem <- MCOrigem
  Predefinidas <- MCPredefinidas
  Hello <- MCHello
  MaxPendentes = 1
  MaxCliques = 1
INVARIANTS
  RevogacaoVale
  MemoriaNoArquivo
  PendenteTemAviso
PROPERTIES
  PedidoAparece
  CliqueDecide
