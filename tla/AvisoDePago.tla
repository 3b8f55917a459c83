---------------------------- MODULE AvisoDePago ------------------------------
(***************************************************************************)
(* What the two services promise about a payment, whatever fails between   *)
(* them: it is received, decided once, and its owner is told of that very  *)
(* decision, if at all.                                                    *)
(***************************************************************************)
CONSTANT Pagos

VARIABLES estado, dicho

Decisiones == {"AUTORIZADO", "FALLIDO"}

Init ==
  /\ estado = [i \in Pagos |-> "NINGUNO"]
  /\ dicho = [i \in Pagos |-> {}]

Recibir(i) ==
  /\ estado[i] = "NINGUNO"
  /\ estado' = [estado EXCEPT ![i] = "PENDIENTE"]
  /\ UNCHANGED dicho

Decidir(i, d) ==
  /\ estado[i] = "PENDIENTE"
  /\ estado' = [estado EXCEPT ![i] = d]
  /\ UNCHANGED dicho

Decir(i) ==
  /\ estado[i] \in Decisiones
  /\ dicho[i] = {}
  /\ dicho' = [dicho EXCEPT ![i] = {estado[i]}]
  /\ UNCHANGED estado

Next ==
  \E i \in Pagos :
    \/ Recibir(i)
    \/ \E d \in Decisiones : Decidir(i, d)
    \/ Decir(i)

Spec == Init /\ [][Next]_<<estado, dicho>>
=============================================================================
