----------------------------- MODULE Supervisor -----------------------------
(***************************************************************************)
(* supervisor (supervisor.go): the process that starts the agent again when *)
(* it ends badly.  Times are seconds; of a child only how long it lived     *)
(* matters.                                                                 *)
(***************************************************************************)
EXTENDS Naturals

CONSTANTS
  Base, Minuto, \* the first wait, and the longest
  Vidas         \* bound: how long a child may live, a minute standing for more

ASSUME SupervisorAssumption == Base \in Nat \ {0} /\ Minuto \in Nat /\ Vidas \subseteq Nat

VARIABLES
  sup,     \* "fora", "vigia" (cmd.Wait), "dorme" (Sleep)
  espera,
  vida,    \* how long the child that ended had lived
  rajada,  \* history: starts in a row, each less than a minute after the one before it
  saiu     \* history: "sim" once the user left the child that runs

espaco == <<espera, vida, rajada>>
supervisao == <<sup, espaco, saiu>>

InitSupervisor == sup = "fora" /\ espera = Base /\ vida = 0 /\ rajada = 0 /\ saiu = "nao"

\* instanciaUnica, nobody else in the session holding the mutex, and the first Start.  One that
\* fails ends the supervisor at once (supervisor.go:46-48), and nothing changes here.
Sobe ==
  /\ sup = "fora" /\ sup' = "vigia"
  /\ espera' = Base /\ rajada' = 0
  /\ UNCHANGED <<vida, saiu>>

\* cmd.Wait returned.
FilhoSai(codigo) ==
  /\ sup = "vigia"
  /\ IF codigo = 0 THEN sup' = "fora" /\ UNCHANGED vida
                   ELSE sup' = "dorme" /\ vida' \in Vidas
  /\ saiu' = "nao"
  /\ UNCHANGED <<espera, rajada>>

\* time.Since(inicio), after the Sleep.
Desde == vida + espera

Menor(a, b) == IF a < b THEN a ELSE b

\* The wait of a child that did not last is not doubled.
Proxima_defeito == IF Desde >= Minuto THEN Base ELSE espera

\* The wait for the next time.
Proxima == IF Desde >= Minuto THEN Base ELSE Menor(2 * espera, Minuto)

\* The Sleep ends and the child is started again.
Acorda ==
  /\ sup = "dorme" /\ sup' = "vigia"
  /\ espera' = Proxima
  /\ rajada' = IF Desde >= Minuto THEN 0 ELSE rajada + 1
  /\ vida' = 0
  /\ UNCHANGED saiu

\* Start failed: the supervisor ends too, and the session is left without agent until the next
\* logon.
NaoAcorda ==
  /\ sup = "dorme" /\ sup' = "fora"
  /\ espera' = Base /\ rajada' = 0 /\ vida' = 0
  /\ UNCHANGED saiu

TypeOKSupervisor ==
  /\ sup \in {"fora", "vigia", "dorme"}
  /\ espera \in Nat /\ vida \in Nat /\ rajada \in Nat /\ saiu \in {"sim", "nao"}

\* The first wait doubled n times.
Dobrado[n \in Nat] == IF n = 0 THEN Base ELSE 2 * Dobrado[n - 1]

\* However short each child lives, the starts that follow one another in less than a minute are
\* as many as the doublings from Base to Minuto, and then the supervisor leaves the reader
\* alone for a minute (supervisor.go:39-61).
RajadaLimitada == rajada > 0 => Dobrado[rajada - 1] < Minuto

\* The end of a process ends the supervisor only when the user left it: a listener that failed,
\* before or after the tray came up or while it closes, a crash or a shutdown that went wrong is
\* followed by an attempt to start another process (main.go:1049-1079, supervisor.go:49-51).
\* What else ends the supervisor is an attempt that fails (NaoAcorda, supervisor.go:46-48).
SoParaSeSaiu == [][sup = "vigia" /\ sup' = "fora" => saiu = "sim"]_supervisao

\* What it rests on: until a start comes a minute after the one before it, the wait is the
\* first one doubled once for each, up to a minute.
EsperaDaRajada ==
  IF rajada = 0 THEN espera = Base ELSE espera = Menor(Dobrado[rajada], Minuto)
=============================================================================
