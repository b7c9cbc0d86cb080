----------------------------- MODULE MCFilaSDK -----------------------------
(* Small values for FilaSDK: a status, a capture and two identifications   *)
(* (a comparison has the body of these and the time limit of the capture). *)
(* One unit is about ten seconds.  The queue holds one task, the           *)
(* identifications have one slot and the middleware two, so all fill up.   *)
EXTENDS FilaSDK, TLC

CONSTANTS conta, captura, ident1, ident2

MCReq == {conta, captura, ident1, ident2}
OpDe == conta :> "contar" @@ captura :> "capturar" @@ ident1 :> "identificar"
        @@ ident2 :> "identificar" @@ Desliga :> "encerrar"
MCOp == [t \in Tarefas |-> OpDe[t]]

MCPrazoCtx == [capturar |-> 2, comparar |-> 2, identificar |-> 3]
MCDuracao == [contar |-> 1, capturar |-> 1, comparar |-> 1, identificar |-> 2, encerrar |-> 1]
=============================================================================
