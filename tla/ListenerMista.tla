---------------------------- MODULE ListenerMista ----------------------------
(***************************************************************************)
(* listenerMista (cert.go): the goroutine that accepts, the ones that wait  *)
(* for the first byte of a connection to tell HTTP from TLS, and the        *)
(* channel the HTTP server takes connections from.  Which protocol it is    *)
(* does not matter here.                                                    *)
(*                                                                          *)
(* External: net.Listener.  An error is for the moment or for good, and is  *)
(* for good once the listener is closed.                                    *)
(***************************************************************************)
EXTENDS Naturals, FiniteSets

CONSTANTS
  Con,
  Vagas, \* cap(sem)
  Canal  \* cap(conns)

ASSUME ListenerAssumption == Vagas \in Nat \ {0} /\ Canal \in Nat \ {0}

VARIABLES
  con,    \* each connection: "fora" (not accepted, or closed), "espia" (Peek), "envia" (its
          \* goroutine in the select), "fila" (in conns), "servida"
  aceita, \* the accepting goroutine: "pronta", "dorme" (between two tries) or "fim"
  bruto,  \* the listener underneath: "aberto" or "fechado"
  done    \* "aberto" or "fechado"

listener == <<con, aceita, bruto, done>>

InitListener ==
  /\ con = [c \in Con |-> "fora"]
  /\ aceita = "pronta" /\ bruto = "aberto" /\ done = "aberto"

Em(e) == Cardinality({c \in Con : con[c] = e})

Vai(c, e) == con' = [con EXCEPT ![c] = e]

\* sem: one slot for each goroutine of espia.
Espiando == Em("espia") + Em("envia")

\* Accept, and espia while there is a slot.
Aceita(c) ==
  /\ aceita = "pronta" /\ bruto = "aberto" /\ con[c] = "fora"
  /\ IF Espiando < Vagas THEN Vai(c, "espia") ELSE UNCHANGED con
  /\ UNCHANGED <<aceita, bruto, done>>

AceitaDepois ==
  /\ \/ aceita = "pronta" /\ bruto = "aberto" /\ aceita' = "dorme"
     \/ aceita = "dorme" /\ aceita' = "pronta"
  /\ UNCHANGED <<con, bruto, done>>

\* The goroutine ends and leaves the server waiting.
AceitaFalha_defeito ==
  /\ aceita = "pronta" /\ aceita' = "fim"
  /\ UNCHANGED <<con, bruto, done>>

\* An error for good: falha.
AceitaFalha ==
  /\ aceita = "pronta" /\ aceita' = "fim"
  /\ done' = "fechado"
  /\ UNCHANGED <<con, bruto>>

\* The first byte came in time; the deadline is lifted.
Espia(c) == con[c] = "espia" /\ Vai(c, "envia") /\ UNCHANGED <<aceita, bruto, done>>

\* Without the deadline only the client ends the wait.
Cala_defeito(c) == con[c] = "espia" /\ aceita = "fim" /\ Vai(c, "fora") /\ UNCHANGED <<aceita, bruto, done>>

\* Ten seconds of silence, or a client that left.
Cala(c) == con[c] = "espia" /\ Vai(c, "fora") /\ UNCHANGED <<aceita, bruto, done>>

\* The select at the end of espia.
Envia(c) ==
  /\ con[c] = "envia"
  /\ \/ Em("fila") < Canal /\ Vai(c, "fila")
     \/ done = "fechado" /\ Vai(c, "fora")
  /\ UNCHANGED <<aceita, bruto, done>>

\* Accept, when it takes a connection.
Entrega(c) == con[c] = "fila" /\ Vai(c, "servida") /\ UNCHANGED <<aceita, bruto, done>>

\* The server is done with it.
Atendida(c) == con[c] = "servida" /\ Vai(c, "fora") /\ UNCHANGED <<aceita, bruto, done>>

\* Close.
FechaListener == bruto' = "fechado" /\ done' = "fechado" /\ UNCHANGED <<con, aceita>>

TypeOKListener ==
  /\ con \in [Con -> {"fora", "espia", "envia", "fila", "servida"}]
  /\ aceita \in {"pronta", "dorme", "fim"}
  /\ bruto \in {"aberto", "fechado"} /\ done \in {"aberto", "fechado"}
  /\ Espiando <= Vagas /\ Em("fila") <= Canal
=============================================================================
