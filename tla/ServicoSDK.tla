---------------------------- MODULE ServicoSDK ----------------------------
(***************************************************************************)
(* What the agent promises of its only SDK, whoever calls: a call asks     *)
(* once, is executed at most once and only while it waits, one at a time,  *)
(* and nothing is executed after the SDK was ended.  A caller may leave at *)
(* any moment; what is being executed for it goes on, and it does not ask  *)
(* again before that ends.  How a call waits is left open.                 *)
(***************************************************************************)
CONSTANTS Tarefas, Desliga, Ninguem

VARIABLES
  pedido,   \* of each call: "fora", "espera", "executando", "atendido"
  executa,  \* the call being executed
  encerrou  \* the SDK was ended ("sim", "nao")

vars == <<pedido, executa, encerrou>>

Init ==
  /\ pedido = [t \in Tarefas |-> "fora"]
  /\ executa = Ninguem
  /\ encerrou = "nao"

Pede(t) ==
  /\ pedido[t] = "fora" /\ executa # t
  /\ pedido' = [pedido EXCEPT ![t] = "espera"]
  /\ UNCHANGED <<executa, encerrou>>

Comeca(t) ==
  /\ executa = Ninguem /\ pedido[t] = "espera" /\ encerrou = "nao"
  /\ executa' = t
  /\ pedido' = [pedido EXCEPT ![t] = "executando"]
  /\ UNCHANGED encerrou

Termina(t) ==
  /\ executa = t
  /\ executa' = Ninguem
  /\ pedido' = [pedido EXCEPT ![t] = IF @ = "executando" THEN "atendido" ELSE @]
  /\ encerrou' = IF t = Desliga THEN "sim" ELSE encerrou

\* Answered, refused or given up.
Sai(t) ==
  /\ pedido[t] # "fora"
  /\ pedido' = [pedido EXCEPT ![t] = "fora"]
  /\ UNCHANGED <<executa, encerrou>>

Next == \E t \in Tarefas : Pede(t) \/ Comeca(t) \/ Termina(t) \/ Sai(t)

Spec == Init /\ [][Next]_vars
=============================================================================
