SPECIFICATION Spec
CONSTANTS
  servico = servico
  terminal = terminal
  g1 = g1
  Comparadores <- MCComparadores
  Agentes <- MCAgentes
  MaxTokens = 2
  MaxCerts = 2
CHECK_DEADLOCK FALSE
SYMMETRY Simetria
INVARIANTS
  AnuncioDeQuemServe
  QuedaNaoInvalida
  AnuncioMortoSoPorQueda
  ServidoEConfiavelSemFalha
  OrfaSoPorRenovacao
