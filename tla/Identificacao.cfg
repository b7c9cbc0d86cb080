SPECIFICATION SpecIdentificacao
CONSTANTS
  i1 = i1
  i2 = i2
  i3 = i3
  invalido = invalido
  Id <- MCId
  SemId = invalido
  Listas <- MCListas
  Corpos <- MCCorpos
INVARIANTS
  NadaVaza
  LiberaVivo
  VereditoCerto
  RespostaDoCorpo
