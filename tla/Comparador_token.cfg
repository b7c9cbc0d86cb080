SPECIFICATION Spec
CONSTANTS
  servico = servico
  terminal = terminal
  g1 = g1
  Comparadores <- MCServico
  Agentes <- MCAgentes
  MaxTokens = 2
  MaxCerts = 1
CHECK_DEADLOCK FALSE
INVARIANTS
  ReinicioNaoInvalida
