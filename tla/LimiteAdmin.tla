---------------------------- MODULE LimiteAdmin -----------------------------
(***************************************************************************)
(* AdminLoginRateLimitMiddleware: the attempts of one address are counted  *)
(* in the shared cache, read in one call and written in another, by the    *)
(* threads of all the worker processes.  Each write restarts the minute.   *)
(***************************************************************************)
EXTENDS Reloj

CONSTANTS
  LimiteIntentos, \* ADMIN_LOGIN_RATE_LIMIT
  VentanaAdmin,   \* ADMIN_LOGIN_RATE_WINDOW_SECONDS
  MaxPisados      \* bound on the writes that lose an attempt

ASSUME ConstantesAdmin == LimiteIntentos \in Nat \ {0} /\ VentanaAdmin \in Nat /\ MaxPisados \in Nat

VARIABLES
  contador,  \* the entry of the cache: attempts and when it expires
  intento,   \* what each thread read: {} or the attempts
  pasados,   \* attempts let through since the entry last expired
  pisados    \* writes over a count that was not the one read, since then

varsAdmin == <<reloj, contador, intento, pasados, pisados>>

------------------------------------------------------------------------------

\* cache.get(key, 0)
Valor == IF reloj <= contador.expira THEN contador.attempts ELSE 0

\* A POST to the login page of the admin: refused, or about to be counted.
LeerIntentos(h) ==
  /\ intento[h] = {}
  /\ Valor < LimiteIntentos
  /\ intento' = [intento EXCEPT ![h] = {Valor}]
  /\ UNCHANGED <<reloj, contador, pasados, pisados>>

\* Mutant: the attempts are counted when the password was wrong, that is to say
\* not before the request goes on.
ContarNada(h) ==
  /\ intento[h] # {}
  /\ intento' = [intento EXCEPT ![h] = {}]
  /\ pasados' = pasados + 1
  /\ UNCHANGED <<reloj, contador, pisados>>

\* cache.set(key, attempts + 1, timeout): the request goes on to the login.
ContarIntento(h) ==
  /\ intento[h] # {}
  /\ \A attempts \in intento[h] :
       /\ attempts # Valor => pisados < MaxPisados
       /\ contador' = [attempts |-> attempts + 1, expira |-> reloj + VentanaAdmin]
       /\ pisados' = IF attempts # Valor THEN pisados + 1 ELSE pisados
  /\ intento' = [intento EXCEPT ![h] = {}]
  /\ pasados' = pasados + 1
  /\ UNCHANGED reloj

\* When the entry expires with the minute, counting starts again.
TiempoAdmin ==
  /\ PasaElTiempo
  /\ IF Valor > 0 /\ reloj' > contador.expira
       THEN pasados' = 0 /\ pisados' = 0
       ELSE UNCHANGED <<pasados, pisados>>
  /\ UNCHANGED <<contador, intento>>

------------------------------------------------------------------------------

InitAdmin ==
  /\ reloj = 0
  /\ contador = [attempts |-> 0, expira |-> 0]
  /\ intento = [h \in Hilos |-> {}]
  /\ pasados = 0
  /\ pisados = 0

NextAdmin ==
  \/ \E h \in Hilos : LeerIntentos(h) \/ ContarIntento(h)
  \/ TiempoAdmin

SpecAdmin == InitAdmin /\ [][NextAdmin]_varsAdmin

------------------------------------------------------------------------------
(* Properties *)

TypeOKAdmin ==
  /\ reloj \in Nat
  /\ contador \in [attempts : 0 .. LimiteIntentos, expira : Nat]
  /\ intento \in [Hilos -> {{}} \cup {{n} : n \in 0 .. LimiteIntentos - 1}]
  /\ pasados \in Nat
  /\ pisados \in Nat

\* No more attempts go on than the limit, but for those whose count was written
\* over: each such write loses at most as many as the limit.  Nothing lets an
\* address go on for ever within one run of minutes.
IntentosContados == pasados <= Valor + LimiteIntentos * pisados
=============================================================================
