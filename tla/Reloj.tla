------------------------------- MODULE Reloj --------------------------------
(***************************************************************************)
(* The clock and the threads of one server process.  The modules that read *)
(* time.time() or expire cache entries compare with reloj.                 *)
(***************************************************************************)
EXTENDS Integers, FiniteSets

CONSTANTS
  Hilos,     \* the threads that serve requests
  MaxReloj   \* bound on the clock

ASSUME ConstantesReloj ==
  /\ IsFiniteSet(Hilos)
  /\ Hilos # {}
  /\ MaxReloj \in Nat

VARIABLE reloj

PasaElTiempo ==
  /\ reloj < MaxReloj
  /\ reloj' = reloj + 1
=============================================================================
