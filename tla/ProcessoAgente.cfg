SPECIFICATION Spec
CONSTANTS
  c1 = c1
  c2 = c2
  c3 = c3
  Con <- MCCon
  Vagas = 2
  Canal = 1
  Base = 2
  Minuto = 60
  Vidas <- MCVidas
INVARIANTS
  RajadaLimitada
PROPERTIES
  TodaConexaoSai
  FimChega
  SoParaSeSaiu
