SPECIFICATION Spec
CONSTANTS
  o1 = o1
  o2 = o2
  v1 = v1
  v2 = v2
  Op <- MCOp
  Tipos <- MCTipos
  Agente <- MCAgente
  Portas = 2
INVARIANTS
  RepeteSoSePerdeu
  SemRuidoResponde
PROPERTIES
  OperacaoTermina
