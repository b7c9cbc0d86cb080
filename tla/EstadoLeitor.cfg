SPECIFICATION SpecJusta
CONSTANTS
  a1 = a1
  a2 = a2
  Arranque = Arranque
  Pedidos <- MCPedidos
INVARIANTS
  IconeCertoSemCorrida
PROPERTIES
  SoAusenciaApaga
  RecuperaLeitor
