SPECIFICATION SpecPasta
CONSTANTS
  s1 = s1
  s2 = s2
  o1 = o1
  o2 = o2
  lixo = lixo
  Escritor <- MCSessoes
  Processo <- MCSessoes
  Origem <- MCOrigem
  Conteudo <- MCConteudo
  Inicial <- MCInicial
  Rasgado <- MCRasgado
  Limite = 2
  MaxTam = 3
SYMMETRY Simetria
INVARIANTS
  TetoSemEstorvo
PROPERTIES
  ImplementaRegistro
  SalvaSoOPedido
