--------------------------- MODULE Cuentas_proofs ----------------------------
(***************************************************************************)
(* Theorems about the accounts, for any users, orders, threads and bounds: *)
(* what the deletion of an account takes with it and how often a link      *)
(* changes a password (Cuentas), how many default addresses an account may *)
(* have (Direcciones), how many requests of the auth service a window lets *)
(* through and how many names that differ only in case it stores           *)
(* (AuthServicio), how many attempts at the admin login are let through    *)
(* (LimiteAdmin), and the push notices owed to every subscribed browser    *)
(* (AvisosPush).  At the end, the composition that runs one component at   *)
(* a time (MCPlataforma) is shown to run each of them by its own rules, so *)
(* that the theorems of the three modules hold in it.                      *)
(***************************************************************************)
EXTENDS MCPlataforma, Catalogo_proofs, Geo_proofs

USE ConstantesCuentas

------------------------------------------------------------------------------
(* The inductive invariant *)

\* What is open and was to be found by a query that is past came after it.
PedidosPasados ==
  \A h \in HilosCta : \A p \in Compras :
    /\ compra[p] = "abierta" /\ Pasada(h, Comprador[p], "compras") => <<h, p>> \in tarde
    /\ compra[p] = "abierta" /\ Pasada(h, Vendedor[p], "ventas") => <<h, p>> \in tarde
    /\ entrega[p] = "abierta" /\ Pasada(h, Repartidor[p], "entregas") => <<h, p>> \in tardeEntrega

\* The threads about to change the password of u with a link made with password v.
Cambian(u, v) ==
  {h \in HilosCta : operacion[h].fase = "cambiar" /\ operacion[h].correo = u /\ operacion[h].con = v}

\* A link made with the password that the account has was not used, and one made
\* with an earlier password is of no use but to those who had checked it.
EnlacesGastados ==
  \A u \in Correos : \A v \in 1 .. MaxClave :
    /\ v >= clave[u] => usos[u][v] = 0
    /\ v > clave[u] => Cambian(u, v) = {}
    /\ usos[u][v] + Cardinality(Cambian(u, v)) <= Cardinality(HilosCta)

\* Only an order that is there has a delivery, and one that is ENTREGADO with its
\* delivery under way is put down as such.
EntregasDePedidos ==
  \A p \in Compras :
    /\ compra[p] \in {"no hay", "borrada"} => entrega[p] = "no hay"
    /\ compra[p] = "cerrada" /\ entrega[p] = "abierta" => p \in adelantadas

IInvCuentas ==
  TypeOKCuentas /\ PedidosPasados /\ EntregasDePedidos /\ BajaSinPedidosVivos /\ EnlacesGastados

------------------------------------------------------------------------------
(* Operations *)

LEMMA Operaciones ==
  /\ Desocupado \in Operacion
  /\ \A u \in Correos, f \in FasesBaja \cup {"registrar"} : [fase |-> f, correo |-> u] \in Operacion
  /\ \A u \in Correos, v \in 1 .. MaxClave : [fase |-> "cambiar", correo |-> u, con |-> v] \in Operacion
BY DEF Desocupado, Operacion

LEMMA DeQuien ==
  ASSUME NEW o \in Operacion
  PROVE  /\ o.fase \in FasesBaja \cup {"registrar"} =>
              o.correo \in Correos /\ o = [fase |-> o.fase, correo |-> o.correo]
         /\ o.fase = "cambiar" => o.correo \in Correos /\ o.con \in 1 .. MaxClave
BY DEF Operacion, FasesBaja

LEMMA Enteros ==
  ASSUME TypeOKCuentas, NEW u \in Correos
  PROVE  /\ clave[u] \in 1 .. MaxClave + 1
         /\ clave[u] \in Nat
         /\ \A v \in 1 .. MaxClave : usos[u][v] \in Nat
<1>1. clave \in [Correos -> 1 .. MaxClave + 1] /\ usos \in [Correos -> [1 .. MaxClave -> Nat]]
  BY DEF TypeOKCuentas
<1>2. \A n \in 1 .. MaxClave + 1 : n \in Nat
  OBVIOUS
<1> QED BY <1>1, <1>2

\* One password more for one account.
LEMMA UnaMas ==
  ASSUME TypeOKCuentas, NEW u \in Correos, clave[u] < MaxClave,
         clave' = [clave EXCEPT ![u] = @ + 1]
  PROVE  /\ clave' \in [Correos -> 1 .. MaxClave + 1]
         /\ \A w \in Correos : clave'[w] >= clave[w]
<1>1. clave \in [Correos -> 1 .. MaxClave + 1]
  BY DEF TypeOKCuentas
<1>2. clave[u] + 1 \in 1 .. MaxClave + 1 /\ clave[u] + 1 >= clave[u]
  BY Enteros
<1>3. \A w \in Correos : clave[w] >= clave[w]
  BY Enteros
<1> QED BY <1>1, <1>2, <1>3

\* Cambian is a finite set, no larger than the threads.
LEMMA CambianFinito ==
  ASSUME NEW u, NEW v
  PROVE  /\ IsFiniteSet(Cambian(u, v))
         /\ Cardinality(Cambian(u, v)) \in Nat
         /\ Cardinality(HilosCta) \in Nat
         /\ Cardinality(Cambian(u, v)) <= Cardinality(HilosCta)
<1>1. Cambian(u, v) \subseteq HilosCta
  BY DEF Cambian
<1> QED BY <1>1, FS_Subset, FS_CardinalityType

------------------------------------------------------------------------------
(* What a step does to the parts of the invariant that it does not aim at *)

\* Nothing opens and no thread goes past a query.
LEMMA PasadosQuedan ==
  ASSUME PedidosPasados, BajaSinPedidosVivos,
         \A h \in HilosCta, u \in Correos, f \in {"compras", "ventas", "entregas"} :
           Pasada(h, u, f)' => Pasada(h, u, f),
         \A p \in Compras : /\ compra'[p] = "abierta" => compra[p] = "abierta"
                            /\ entrega'[p] = "abierta" => entrega[p] = "abierta",
         UNCHANGED <<tarde, tardeEntrega>>
  PROVE  PedidosPasados'
<1> SUFFICES ASSUME NEW h \in HilosCta, NEW p \in Compras
             PROVE  /\ compra'[p] = "abierta" /\ Pasada(h, Comprador[p], "compras")' => <<h, p>> \in tarde
                    /\ compra'[p] = "abierta" /\ Pasada(h, Vendedor[p], "ventas")' => <<h, p>> \in tarde
                    /\ entrega'[p] = "abierta" /\ Pasada(h, Repartidor[p], "entregas")' => <<h, p>> \in tardeEntrega
  BY DEF PedidosPasados
<1>1. Comprador[p] \in Correos /\ Vendedor[p] \in Correos /\ Repartidor[p] \in Correos
  OBVIOUS
<1> QED BY <1>1 DEF PedidosPasados

\* A thread of which operacion' is neither past a query nor about to change a password.
LEMMA SinPasar ==
  ASSUME TypeOKCuentas, NEW h \in HilosCta, NEW o \in Operacion, Opera(h, o),
         o.fase \notin {"ventas", "entregas", "borrar"}
  PROVE  \A g \in HilosCta, u \in Correos, f \in {"compras", "ventas", "entregas"} :
           Pasada(g, u, f)' => Pasada(g, u, f)
<1> SUFFICES ASSUME NEW g \in HilosCta, NEW u \in Correos, NEW f \in {"compras", "ventas", "entregas"},
                    Pasada(g, u, f)'
             PROVE  Pasada(g, u, f)
  OBVIOUS
<1>1. operacion'[h] = o /\ (g # h => operacion'[g] = operacion[g])
  BY DEF Opera, TypeOKCuentas
<1>2. g # h
  BY <1>1 DEF Pasada, EnCuenta
<1> QED BY <1>1, <1>2 DEF Pasada, EnCuenta

\* The links, when no password changes and no thread gets ready to change one.
LEMMA EnlacesQuedan ==
  ASSUME IInvCuentas,
         clave' \in [Correos -> 1 .. MaxClave + 1],
         \A u \in Correos : clave'[u] >= clave[u],
         \A u \in Correos, v \in 1 .. MaxClave : Cambian(u, v)' \subseteq Cambian(u, v),
         usos' = usos
  PROVE  EnlacesGastados'
<1> SUFFICES ASSUME NEW u \in Correos, NEW v \in 1 .. MaxClave
             PROVE  /\ v >= clave'[u] => usos'[u][v] = 0
                    /\ v > clave'[u] => Cambian(u, v)' = {}
                    /\ usos'[u][v] + Cardinality(Cambian(u, v)') <= Cardinality(HilosCta)
  BY DEF EnlacesGastados
<1>1. clave[u] \in Nat /\ clave'[u] \in Nat /\ clave'[u] >= clave[u] /\ usos[u][v] \in Nat
  <2>1. \A n \in 1 .. MaxClave + 1 : n \in Nat
    OBVIOUS
  <2> QED BY <2>1, Enteros DEF IInvCuentas
<1>2. Cardinality(Cambian(u, v)') <= Cardinality(Cambian(u, v)) /\ Cardinality(Cambian(u, v)') \in Nat
  BY CambianFinito, FS_Subset, FS_CardinalityType
<1>3. /\ v >= clave[u] => usos[u][v] = 0
      /\ v > clave[u] => Cambian(u, v) = {}
      /\ usos[u][v] + Cardinality(Cambian(u, v)) <= Cardinality(HilosCta)
  BY DEF IInvCuentas, EnlacesGastados
<1> QED BY <1>1, <1>2, <1>3, CambianFinito

LEMMA SinCambiar ==
  ASSUME TypeOKCuentas, NEW h \in HilosCta, NEW o \in Operacion, Opera(h, o), o.fase # "cambiar"
  PROVE  \A u \in Correos, v \in 1 .. MaxClave : Cambian(u, v)' \subseteq Cambian(u, v)
<1>1. operacion' = [operacion EXCEPT ![h] = o] /\ operacion \in [HilosCta -> Operacion]
  BY DEF Opera, TypeOKCuentas
<1> QED BY <1>1 DEF Cambian

------------------------------------------------------------------------------
(* Every step preserves the invariant *)

\* Registrar and PedirBaja, and the thread's part of CrearCuenta.
LEMMA PasoTranquilo ==
  ASSUME IInvCuentas, NEW h \in HilosCta, NEW o \in Operacion, Opera(h, o),
         o.fase \in {"desocupado", "registrar", "compras"},
         cuentas' \subseteq Correos,
         clave' \in [Correos -> 1 .. MaxClave + 1],
         \A u \in Correos : clave'[u] >= clave[u],
         UNCHANGED <<enlaces, usos, Filas3>>
  PROVE  IInvCuentas'
<1>1. TypeOKCuentas'
  BY DEF IInvCuentas, TypeOKCuentas, Opera, Filas3
<1>2. PedidosPasados'
  BY SinPasar, PasadosQuedan DEF IInvCuentas, Filas3
<1>3. BajaSinPedidosVivos' /\ EntregasDePedidos'
  BY DEF IInvCuentas, BajaSinPedidosVivos, EntregasDePedidos, Filas3
<1>4. EnlacesGastados'
  BY SinCambiar, EnlacesQuedan DEF IInvCuentas
<1> QED BY <1>1, <1>2, <1>3, <1>4 DEF IInvCuentas

LEMMA PasoCrearCuenta ==
  ASSUME IInvCuentas, NEW h \in HilosCta, CrearCuenta(h)
  PROVE  IInvCuentas'
<1>1. PICK u \in Correos : u = operacion[h].correo
  BY DeQuien DEF IInvCuentas, TypeOKCuentas, CrearCuenta
<1>2. /\ \/ cuentas' = cuentas /\ clave' = clave
         \/ clave[u] < MaxClave /\ cuentas' = cuentas \cup {u} /\ clave' = [clave EXCEPT ![u] = @ + 1]
      /\ Opera(h, Desocupado)
      /\ UNCHANGED <<enlaces, usos, Filas3>>
  BY <1>1 DEF CrearCuenta
<1>3. clave \in [Correos -> 1 .. MaxClave + 1] /\ cuentas \subseteq Correos
  BY DEF IInvCuentas, TypeOKCuentas
<1>4. /\ cuentas' \subseteq Correos
      /\ clave' \in [Correos -> 1 .. MaxClave + 1]
      /\ \A w \in Correos : clave'[w] >= clave[w]
  BY <1>2, <1>3, UnaMas, Enteros DEF IInvCuentas
<1>5. Desocupado.fase \in {"desocupado", "registrar", "compras"}
  BY DEF Desocupado
<1> QED BY <1>2, <1>4, <1>5, PasoTranquilo, Operaciones

LEMMA PasoAbrirEnlace ==
  ASSUME IInvCuentas, NEW h \in HilosCta, NEW u \in Correos, NEW v \in 1 .. MaxClave,
         AbrirEnlace(h, u, v)
  PROVE  IInvCuentas'
<1> DEFINE o == [fase |-> "cambiar", correo |-> u, con |-> v]
<1>1. /\ Opera(h, o) /\ o \in Operacion /\ v = clave[u] /\ operacion[h] = Desocupado
      /\ UNCHANGED <<Cuentas3, Filas3>>
  BY Operaciones DEF AbrirEnlace
<1>2. TypeOKCuentas'
  BY <1>1 DEF IInvCuentas, TypeOKCuentas, Opera, Filas3, Cuentas3
<1>3. PedidosPasados'
  BY <1>1, SinPasar, PasadosQuedan DEF IInvCuentas, Filas3
<1>4. BajaSinPedidosVivos' /\ EntregasDePedidos'
  BY <1>1 DEF IInvCuentas, BajaSinPedidosVivos, EntregasDePedidos, Filas3
<1>5. EnlacesGastados'
  <2> SUFFICES ASSUME NEW w \in Correos, NEW x \in 1 .. MaxClave
               PROVE  /\ x >= clave[w] => usos[w][x] = 0
                      /\ x > clave[w] => Cambian(w, x)' = {}
                      /\ usos[w][x] + Cardinality(Cambian(w, x)') <= Cardinality(HilosCta)
    BY <1>1 DEF EnlacesGastados, Cuentas3
  <2>1. /\ x >= clave[w] => usos[w][x] = 0
        /\ x > clave[w] => Cambian(w, x) = {}
        /\ usos[w][x] + Cardinality(Cambian(w, x)) <= Cardinality(HilosCta)
    BY DEF IInvCuentas, EnlacesGastados
  <2>2. operacion' = [operacion EXCEPT ![h] = o] /\ operacion \in [HilosCta -> Operacion]
    BY <1>1 DEF Opera, IInvCuentas, TypeOKCuentas
  <2>3. CASE w = u /\ x = v
    <3>1. usos[w][x] = 0 /\ ~(x > clave[w])
      BY <1>1, <2>1, <2>3, Enteros DEF IInvCuentas
    <3>2. Cambian(w, x)' \subseteq HilosCta
      BY DEF Cambian
    <3>3. Cardinality(Cambian(w, x)') <= Cardinality(HilosCta) /\ Cardinality(Cambian(w, x)') \in Nat
      BY <3>2, FS_Subset, FS_CardinalityType
    <3> QED BY <3>1, <3>3, CambianFinito
  <2>4. CASE ~(w = u /\ x = v)
    <3>1. Cambian(w, x)' = Cambian(w, x)
      BY <1>1, <2>2, <2>4 DEF Cambian, Desocupado
    <3> QED BY <2>1, <3>1
  <2> QED BY <2>3, <2>4
<1> QED BY <1>2, <1>3, <1>4, <1>5 DEF IInvCuentas

LEMMA PasoCambiarClave ==
  ASSUME IInvCuentas, NEW h \in HilosCta, CambiarClave(h)
  PROVE  IInvCuentas'
<1>1. PICK u \in Correos, v \in 1 .. MaxClave :
        u = operacion[h].correo /\ v = operacion[h].con /\ operacion[h].fase = "cambiar"
  BY DeQuien DEF IInvCuentas, TypeOKCuentas, CambiarClave
<1>2. /\ Opera(h, Desocupado) /\ UNCHANGED <<cuentas, enlaces, Filas3>>
      /\ \/ clave' = clave /\ usos' = usos
         \/ /\ clave[u] < MaxClave
            /\ clave' = [clave EXCEPT ![u] = @ + 1]
            /\ usos' = [usos EXCEPT ![u][v] = @ + 1]
  BY <1>1 DEF CambiarClave
<1>3. /\ clave \in [Correos -> 1 .. MaxClave + 1]
      /\ usos \in [Correos -> [1 .. MaxClave -> Nat]]
      /\ operacion \in [HilosCta -> Operacion]
  BY DEF IInvCuentas, TypeOKCuentas
<1>4. operacion' = [operacion EXCEPT ![h] = Desocupado]
  BY <1>2 DEF Opera
<1>5. /\ clave' \in [Correos -> 1 .. MaxClave + 1]
      /\ usos' \in [Correos -> [1 .. MaxClave -> Nat]]
      /\ \A w \in Correos : clave'[w] >= clave[w]
  <2>1. CASE clave' = clave /\ usos' = usos
    BY <1>3, <2>1, Enteros DEF IInvCuentas
  <2>2. CASE /\ clave[u] < MaxClave
             /\ clave' = [clave EXCEPT ![u] = @ + 1]
             /\ usos' = [usos EXCEPT ![u][v] = @ + 1]
    <3>1. usos' \in [Correos -> [1 .. MaxClave -> Nat]]
      BY <1>3, <2>2
    <3> QED BY <2>2, <3>1, UnaMas DEF IInvCuentas
  <2> QED BY <1>2, <2>1, <2>2
<1>6. TypeOKCuentas'
  BY <1>2, <1>4, <1>5, Operaciones DEF IInvCuentas, TypeOKCuentas, Filas3
<1>7. Desocupado.fase = "desocupado"
  BY DEF Desocupado
<1>8. PedidosPasados'
  BY <1>2, <1>7, Operaciones, SinPasar, PasadosQuedan DEF IInvCuentas, Filas3
<1>9. BajaSinPedidosVivos' /\ EntregasDePedidos'
  BY <1>2 DEF IInvCuentas, BajaSinPedidosVivos, EntregasDePedidos, Filas3
<1>10. EnlacesGastados'
  <2>1. CASE usos' = usos
    BY <1>2, <1>5, <1>7, <2>1, Operaciones, SinCambiar, EnlacesQuedan DEF IInvCuentas
  <2>2. CASE usos' = [usos EXCEPT ![u][v] = @ + 1] /\ clave' = [clave EXCEPT ![u] = @ + 1]
    <3> SUFFICES ASSUME NEW w \in Correos, NEW x \in 1 .. MaxClave
                 PROVE  /\ x >= clave'[w] => usos'[w][x] = 0
                        /\ x > clave'[w] => Cambian(w, x)' = {}
                        /\ usos'[w][x] + Cardinality(Cambian(w, x)') <= Cardinality(HilosCta)
      BY DEF EnlacesGastados
    <3>1. /\ x >= clave[w] => usos[w][x] = 0
          /\ x > clave[w] => Cambian(w, x) = {}
          /\ usos[w][x] + Cardinality(Cambian(w, x)) <= Cardinality(HilosCta)
      BY DEF IInvCuentas, EnlacesGastados
    <3>2. Cambian(w, x)' = Cambian(w, x) \ {h}
      BY <1>3, <1>4, <1>7 DEF Cambian
    <3>3. /\ Cardinality(Cambian(w, x) \ {h}) \in Nat
          /\ Cardinality(Cambian(w, x) \ {h}) <= Cardinality(Cambian(w, x))
          /\ h \in Cambian(w, x) =>
               Cardinality(Cambian(w, x) \ {h}) = Cardinality(Cambian(w, x)) - 1
      BY CambianFinito, FS_RemoveElement, FS_Subset, FS_CardinalityType
    <3>4. clave[w] \in Nat /\ clave'[w] \in Nat /\ clave'[w] >= clave[w] /\ usos[w][x] \in Nat
      BY <1>3, <1>5, SMTT(30)
    <3>5. CASE w = u /\ x = v
      <4>1. h \in Cambian(w, x)
        BY <1>1, <3>5 DEF Cambian
      <4>2. x <= clave[w]
        BY <3>1, <3>4, <4>1
      <4>3. clave'[w] = clave[w] + 1 /\ usos'[w][x] = usos[w][x] + 1
        BY <1>3, <2>2, <3>5
      <4> QED BY <3>1, <3>2, <3>3, <3>4, <4>1, <4>2, <4>3, CambianFinito
    <3>6. CASE ~(w = u /\ x = v)
      <4>1. usos'[w][x] = usos[w][x]
        BY <1>3, <2>2, <3>6
      <4> QED BY <3>1, <3>2, <3>3, <3>4, <4>1, CambianFinito
    <3> QED BY <3>5, <3>6
  <2> QED BY <1>2, <2>1, <2>2
<1> QED BY <1>6, <1>8, <1>9, <1>10 DEF IInvCuentas

LEMMA PasoBuscarBloqueo ==
  ASSUME IInvCuentas, NEW h \in HilosCta, BuscarBloqueo(h)
  PROVE  IInvCuentas'
<1>1. /\ operacion \in [HilosCta -> Operacion]
      /\ operacion[h].fase \in {"compras", "ventas", "entregas"}
      /\ UNCHANGED <<Cuentas3, Filas3>>
  BY DEF IInvCuentas, TypeOKCuentas, BuscarBloqueo
<1>2. PICK u \in Correos : operacion[h] = [fase |-> operacion[h].fase, correo |-> u]
  BY <1>1, DeQuien DEF FasesBaja
<1>3. CASE Opera(h, Desocupado)
  <2>1. Desocupado.fase = "desocupado"
    BY DEF Desocupado
  <2>2. clave \in [Correos -> 1 .. MaxClave + 1] /\ cuentas \subseteq Correos
    BY DEF IInvCuentas, TypeOKCuentas
  <2> QED BY <1>1, <1>3, <2>1, <2>2, Operaciones, PasoTranquilo DEF Cuentas3
<1>4. CASE /\ Bloqueos(u, operacion[h].fase) = {}
           /\ Opera(h, [fase |-> Siguiente[operacion[h].fase], correo |-> u])
  <2> DEFINE f == Siguiente[operacion[h].fase]
  <2>1. /\ f \in FasesBaja /\ f # "cambiar"
        /\ operacion[h].fase = "compras" => f = "ventas"
        /\ operacion[h].fase = "ventas" => f = "entregas"
        /\ operacion[h].fase = "entregas" => f = "borrar"
    BY <1>1 DEF Siguiente, FasesBaja
  <2> HIDE DEF f
  <2>2. operacion' = [operacion EXCEPT ![h] = [fase |-> f, correo |-> u]]
    BY <1>4 DEF Opera, f
  <2>3. [fase |-> f, correo |-> u] \in Operacion
    BY <2>1, Operaciones
  <2>4. TypeOKCuentas'
    BY <1>1, <2>2, <2>3 DEF IInvCuentas, TypeOKCuentas, Filas3, Cuentas3
  <2>5. PedidosPasados'
    <3> SUFFICES ASSUME NEW g \in HilosCta, NEW p \in Compras
                 PROVE  /\ compra[p] = "abierta" /\ Pasada(g, Comprador[p], "compras")' => <<g, p>> \in tarde
                        /\ compra[p] = "abierta" /\ Pasada(g, Vendedor[p], "ventas")' => <<g, p>> \in tarde
                        /\ entrega[p] = "abierta" /\ Pasada(g, Repartidor[p], "entregas")' => <<g, p>> \in tardeEntrega
      BY <1>1 DEF PedidosPasados, Filas3
    <3>1. /\ compra[p] = "abierta" /\ Pasada(g, Comprador[p], "compras") => <<g, p>> \in tarde
          /\ compra[p] = "abierta" /\ Pasada(g, Vendedor[p], "ventas") => <<g, p>> \in tarde
          /\ entrega[p] = "abierta" /\ Pasada(g, Repartidor[p], "entregas") => <<g, p>> \in tardeEntrega
      BY DEF IInvCuentas, PedidosPasados
    <3>2. CASE g # h
      <4>1. operacion'[g] = operacion[g]
        BY <1>1, <2>2, <3>2
      <4> QED BY <3>1, <4>1 DEF Pasada, EnCuenta
    <3>3. CASE g = h
      <4>1. operacion'[g].fase = f /\ operacion'[g].correo = u
        BY <1>1, <2>2, <3>3
      <4>2. operacion[g].correo = u
        BY <1>2, <3>3
      <4>3. compra[p] = "abierta" /\ Pasada(g, Comprador[p], "compras")' => <<g, p>> \in tarde
        BY <1>1, <1>4, <2>1, <3>1, <3>3, <4>1, <4>2 DEF Pasada, EnCuenta, Bloqueos
      <4>4. compra[p] = "abierta" /\ Pasada(g, Vendedor[p], "ventas")' => <<g, p>> \in tarde
        BY <1>1, <1>4, <2>1, <3>1, <3>3, <4>1, <4>2 DEF Pasada, EnCuenta, Bloqueos
      <4>5. entrega[p] = "abierta" /\ Pasada(g, Repartidor[p], "entregas")' => <<g, p>> \in tardeEntrega
        BY <1>1, <1>4, <2>1, <3>1, <3>3, <4>1, <4>2 DEF Pasada, EnCuenta, Bloqueos
      <4> QED BY <4>3, <4>4, <4>5
    <3> QED BY <3>2, <3>3
  <2>6. BajaSinPedidosVivos' /\ EntregasDePedidos'
    BY <1>1 DEF IInvCuentas, BajaSinPedidosVivos, EntregasDePedidos, Filas3
  <2>7. EnlacesGastados'
    <3>1. \A w \in Correos : clave[w] >= clave[w]
      BY Enteros DEF IInvCuentas
    <3>2. [fase |-> f, correo |-> u].fase # "cambiar" /\ Opera(h, [fase |-> f, correo |-> u])
      BY <2>1, <2>2 DEF Opera
    <3> QED BY <1>1, <2>3, <3>1, <3>2, SinCambiar, EnlacesQuedan DEF IInvCuentas, TypeOKCuentas, Cuentas3
  <2> QED BY <2>4, <2>5, <2>6, <2>7 DEF IInvCuentas
<1>5. operacion[h].correo = u
  BY <1>2
<1>6. [operacion[h] EXCEPT !.fase = Siguiente[@]] = [fase |-> Siguiente[operacion[h].fase], correo |-> u]
  BY <1>2
<1> QED BY <1>3, <1>4, <1>5, <1>6 DEF BuscarBloqueo

LEMMA PasoBorrarCuenta ==
  ASSUME IInvCuentas, NEW h \in HilosCta, BorrarCuenta(h)
  PROVE  IInvCuentas'
<1>1. PICK u \in Correos : u = operacion[h].correo /\ operacion[h].fase = "borrar"
  BY DeQuien DEF IInvCuentas, TypeOKCuentas, BorrarCuenta, FasesBaja
<1> DEFINE suyas == {p \in Compras : u \in {Comprador[p], Vendedor[p]} /\ compra[p] # "no hay"}
           llevadas == {p \in Compras : Repartidor[p] = u /\ entrega[p] # "no hay"}
<1>2. /\ cuentas' = cuentas \ {u}
      /\ compra' = [p \in Compras |-> IF p \in suyas THEN "borrada" ELSE compra[p]]
      /\ platos' = [p \in Compras |-> IF p \in suyas THEN {} ELSE platos[p] \ {u}]
      /\ entrega' = [p \in Compras |-> IF p \in suyas \cup llevadas THEN "no hay" ELSE entrega[p]]
      /\ arrastradas' = arrastradas
           \cup {<<h, p, "compra">> : p \in {q \in suyas : compra[q] = "abierta"}}
           \cup {<<h, p, "entrega">> : p \in {q \in llevadas : entrega[q] = "abierta"}}
           \cup {<<h, p, "reparto">> : p \in {q \in suyas \ llevadas : entrega[q] = "abierta"}}
           \cup {<<h, p, "plato">> : p \in {q \in Compras \ suyas : u \in platos[q] /\ compra[q] = "abierta"}}
      /\ Opera(h, Desocupado)
      /\ UNCHANGED <<clave, enlaces, usos, tarde, tardeEntrega, adelantadas>>
  BY <1>1 DEF BorrarCuenta
<1>3. Desocupado.fase = "desocupado" /\ Desocupado \in Operacion
  BY Operaciones DEF Desocupado
<1>4. TypeOKCuentas'
  <2>1. operacion' \in [HilosCta -> Operacion]
    BY <1>2, <1>3 DEF Opera, IInvCuentas, TypeOKCuentas
  <2>2. /\ compra' \in [Compras -> {"no hay", "abierta", "cerrada", "borrada"}]
        /\ platos' \in [Compras -> SUBSET Correos]
        /\ entrega' \in [Compras -> {"no hay", "abierta", "cerrada"}]
    BY <1>2 DEF IInvCuentas, TypeOKCuentas
  <2>3. arrastradas' \subseteq HilosCta \X Compras \X {"compra", "entrega", "reparto", "plato"}
    <3>1. arrastradas \subseteq HilosCta \X Compras \X {"compra", "entrega", "reparto", "plato"}
      BY DEF IInvCuentas, TypeOKCuentas
    <3> SUFFICES ASSUME NEW x \in arrastradas'
                 PROVE  x \in HilosCta \X Compras \X {"compra", "entrega", "reparto", "plato"}
      OBVIOUS
    <3>2. \/ x \in arrastradas
          \/ \E p \in Compras : \/ x = <<h, p, "compra">> \/ x = <<h, p, "entrega">>
                                \/ x = <<h, p, "reparto">> \/ x = <<h, p, "plato">>
      BY <1>2
    <3> QED BY <3>1, <3>2
  <2> QED BY <1>2, <2>1, <2>2, <2>3 DEF IInvCuentas, TypeOKCuentas
<1>5. PedidosPasados'
  <2>1. \A p \in Compras : /\ compra'[p] = "abierta" => compra[p] = "abierta"
                           /\ entrega'[p] = "abierta" => entrega[p] = "abierta"
    BY <1>2
  <2> QED BY <1>2, <1>3, <2>1, SinPasar, PasadosQuedan DEF IInvCuentas
<1>6. BajaSinPedidosVivos'
  <2> SUFFICES ASSUME NEW g \in HilosCta, NEW p \in Compras
               PROVE  /\ <<g, p, "compra">> \in arrastradas' => <<g, p>> \in tarde
                      /\ <<g, p, "entrega">> \in arrastradas' => <<g, p>> \in tardeEntrega
                      /\ <<g, p, "reparto">> \in arrastradas' =>
                           <<g, p>> \in tarde \/ p \in adelantadas
    BY <1>2 DEF BajaSinPedidosVivos
  <2>1. /\ <<g, p, "compra">> \in arrastradas => <<g, p>> \in tarde
        /\ <<g, p, "entrega">> \in arrastradas => <<g, p>> \in tardeEntrega
        /\ <<g, p, "reparto">> \in arrastradas => <<g, p>> \in tarde \/ p \in adelantadas
    BY DEF IInvCuentas, BajaSinPedidosVivos
  <2>2. /\ Pasada(h, u, "compras") /\ Pasada(h, u, "ventas") /\ Pasada(h, u, "entregas")
    BY <1>1 DEF Pasada, EnCuenta
  <2>3. /\ <<g, p, "compra">> \in arrastradas' =>
             <<g, p, "compra">> \in arrastradas \/ (g = h /\ p \in suyas /\ compra[p] = "abierta")
        /\ <<g, p, "entrega">> \in arrastradas' =>
             <<g, p, "entrega">> \in arrastradas \/ (g = h /\ p \in llevadas /\ entrega[p] = "abierta")
        /\ <<g, p, "reparto">> \in arrastradas' =>
             <<g, p, "reparto">> \in arrastradas \/ (g = h /\ p \in suyas /\ entrega[p] = "abierta")
    BY <1>2
  <2>4. /\ g = h /\ p \in suyas /\ compra[p] = "abierta" => <<g, p>> \in tarde
        /\ g = h /\ p \in llevadas /\ entrega[p] = "abierta" => <<g, p>> \in tardeEntrega
    BY <2>2 DEF IInvCuentas, PedidosPasados
  <2>5. g = h /\ p \in suyas /\ entrega[p] = "abierta" => <<g, p>> \in tarde \/ p \in adelantadas
    <3>1. compra[p] \in {"no hay", "abierta", "cerrada", "borrada"}
      BY DEF IInvCuentas, TypeOKCuentas
    <3> QED BY <3>1, <2>4 DEF IInvCuentas, EntregasDePedidos
  <2> QED BY <2>1, <2>3, <2>4, <2>5
<1>7. EntregasDePedidos'
  <2> SUFFICES ASSUME NEW p \in Compras
               PROVE  /\ compra'[p] \in {"no hay", "borrada"} => entrega'[p] = "no hay"
                      /\ compra'[p] = "cerrada" /\ entrega'[p] = "abierta" => p \in adelantadas
    BY <1>2 DEF EntregasDePedidos
  <2>1. /\ compra[p] \in {"no hay", "borrada"} => entrega[p] = "no hay"
        /\ compra[p] = "cerrada" /\ entrega[p] = "abierta" => p \in adelantadas
    BY DEF IInvCuentas, EntregasDePedidos
  <2>2. CASE p \in suyas
    BY <1>2, <2>2
  <2>3. CASE p \notin suyas
    BY <1>2, <2>1, <2>3
  <2> QED BY <2>2, <2>3
<1>8. EnlacesGastados'
  <2>1. clave' = clave /\ usos' = usos
    BY <1>2
  <2>2. \A w \in Correos : clave'[w] >= clave[w]
    BY <2>1, Enteros DEF IInvCuentas
  <2> QED BY <1>2, <1>3, <2>1, <2>2, SinCambiar, EnlacesQuedan DEF IInvCuentas, TypeOKCuentas
<1> QED BY <1>4, <1>5, <1>6, <1>7, <1>8 DEF IInvCuentas

\* Links and threads stay as they are.
LEMMA EnlacesAjenos ==
  ASSUME IInvCuentas, UNCHANGED <<clave, usos, operacion>>
  PROVE  EnlacesGastados'
<1>1. \A u \in Correos : clave'[u] >= clave[u]
  BY Enteros DEF IInvCuentas
<1>2. \A u \in Correos, v \in 1 .. MaxClave : Cambian(u, v)' \subseteq Cambian(u, v)
  BY DEF Cambian
<1> QED BY <1>1, <1>2, EnlacesQuedan DEF IInvCuentas, TypeOKCuentas

LEMMA PasoPedirEnlace ==
  ASSUME IInvCuentas, NEW u \in Correos, PedirEnlace(u)
  PROVE  IInvCuentas'
<1>1. /\ enlaces' = enlaces \cup {<<u, clave[u]>>}
      /\ UNCHANGED <<cuentas, clave, usos, operacion, Filas3>>
  BY DEF PedirEnlace
<1>2. clave[u] \in 1 .. MaxClave + 1
  BY Enteros DEF IInvCuentas
<1>3. TypeOKCuentas'
  <2>1. {<<u, clave[u]>>} \subseteq Correos \X (1 .. MaxClave + 1)
    BY <1>2
  <2> QED BY <1>1, <2>1 DEF IInvCuentas, TypeOKCuentas, Filas3
<1>4. PedidosPasados' /\ BajaSinPedidosVivos' /\ EntregasDePedidos'
  BY <1>1 DEF IInvCuentas, PedidosPasados, BajaSinPedidosVivos, EntregasDePedidos, Pasada,
     EnCuenta, Filas3
<1> QED BY <1>1, <1>3, <1>4, EnlacesAjenos DEF IInvCuentas

LEMMA TardesDeHilos ==
  ASSUME NEW p \in Compras
  PROVE  /\ TardePara(p) \subseteq HilosCta \X Compras
         /\ TardeParaEntrega(p) \subseteq HilosCta \X Compras
BY DEF TardePara, TardeParaEntrega

\* The orders and the deliveries keep their part of the invariant when what opens
\* is put down for the deletions that asked before.
LEMMA PedidosSiguen ==
  ASSUME IInvCuentas, NEW p \in Compras,
         compra' \in [Compras -> {"no hay", "abierta", "cerrada", "borrada"}],
         entrega' \in [Compras -> {"no hay", "abierta", "cerrada"}],
         platos' \in [Compras -> SUBSET Correos],
         \A q \in Compras : q # p => compra'[q] = compra[q] /\ entrega'[q] = entrega[q],
         \/ compra'[p] = compra[p] /\ tarde' = tarde
         \/ compra'[p] = "cerrada" /\ tarde' = tarde
         \/ compra'[p] = "abierta" /\ tarde' = tarde \cup TardePara(p),
         \/ entrega'[p] # "abierta" /\ tardeEntrega' = tardeEntrega
         \/ entrega'[p] = entrega[p] /\ tardeEntrega' = tardeEntrega
         \/ entrega'[p] = "abierta" /\ tardeEntrega' = tardeEntrega \cup TardeParaEntrega(p),
         compra'[p] \in {"no hay", "borrada"} => entrega'[p] = "no hay",
         compra'[p] = "cerrada" /\ entrega'[p] = "abierta" => p \in adelantadas',
         adelantadas' \in {adelantadas, adelantadas \cup {p}},
         UNCHANGED <<arrastradas, Cuentas3, operacion>>
  PROVE  IInvCuentas'
<1>1. /\ TardePara(p) \subseteq HilosCta \X Compras
      /\ TardeParaEntrega(p) \subseteq HilosCta \X Compras
  BY TardesDeHilos
<1>2. tarde \subseteq tarde' /\ tardeEntrega \subseteq tardeEntrega' /\ adelantadas \subseteq adelantadas'
  OBVIOUS
<1>3. TypeOKCuentas'
  <2>1. /\ tarde' \subseteq HilosCta \X Compras
        /\ tardeEntrega' \subseteq HilosCta \X Compras
        /\ adelantadas' \subseteq Compras
    BY <1>1 DEF IInvCuentas, TypeOKCuentas
  <2> QED BY <2>1 DEF IInvCuentas, TypeOKCuentas, Cuentas3
<1>4. PedidosPasados'
  <2> SUFFICES ASSUME NEW h \in HilosCta, NEW q \in Compras
               PROVE  /\ compra'[q] = "abierta" /\ Pasada(h, Comprador[q], "compras") => <<h, q>> \in tarde'
                      /\ compra'[q] = "abierta" /\ Pasada(h, Vendedor[q], "ventas") => <<h, q>> \in tarde'
                      /\ entrega'[q] = "abierta" /\ Pasada(h, Repartidor[q], "entregas") => <<h, q>> \in tardeEntrega'
    BY DEF PedidosPasados, Pasada, EnCuenta
  <2>1. /\ compra[q] = "abierta" /\ Pasada(h, Comprador[q], "compras") => <<h, q>> \in tarde
        /\ compra[q] = "abierta" /\ Pasada(h, Vendedor[q], "ventas") => <<h, q>> \in tarde
        /\ entrega[q] = "abierta" /\ Pasada(h, Repartidor[q], "entregas") => <<h, q>> \in tardeEntrega
    BY DEF IInvCuentas, PedidosPasados
  <2>2. CASE q # p
    BY <1>2, <2>1, <2>2
  <2>3. CASE q = p
    <3>1. Vendedor[p] \in Vendedores[p]
      OBVIOUS
    <3>2. /\ Pasada(h, Comprador[p], "compras") => <<h, p>> \in TardePara(p)
          /\ Pasada(h, Vendedor[p], "ventas") => <<h, p>> \in TardePara(p)
          /\ Pasada(h, Repartidor[p], "entregas") => <<h, p>> \in TardeParaEntrega(p)
      BY <3>1 DEF TardePara, TardeParaEntrega
    <3>3. /\ compra'[q] = "abierta" => compra[q] = "abierta" \/ TardePara(p) \subseteq tarde'
          /\ entrega'[q] = "abierta" => entrega[q] = "abierta" \/ TardeParaEntrega(p) \subseteq tardeEntrega'
      BY <2>3
    <3> QED BY <1>2, <2>1, <2>3, <3>2, <3>3
  <2> QED BY <2>2, <2>3
<1>5. EntregasDePedidos'
  <2> SUFFICES ASSUME NEW q \in Compras
               PROVE  /\ compra'[q] \in {"no hay", "borrada"} => entrega'[q] = "no hay"
                      /\ compra'[q] = "cerrada" /\ entrega'[q] = "abierta" => q \in adelantadas'
    BY DEF EntregasDePedidos
  <2> QED BY <1>2 DEF IInvCuentas, EntregasDePedidos
<1>6. BajaSinPedidosVivos'
  BY <1>2 DEF IInvCuentas, BajaSinPedidosVivos
<1> QED BY <1>3, <1>4, <1>5, <1>6, EnlacesAjenos DEF IInvCuentas, Cuentas3

LEMMA PasoCompra ==
  ASSUME IInvCuentas, NEW p \in Compras, AbrirCompra(p) \/ ReabrirCompra(p) \/ CerrarCompra(p)
  PROVE  IInvCuentas'
<1>1. /\ compra \in [Compras -> {"no hay", "abierta", "cerrada", "borrada"}]
      /\ entrega \in [Compras -> {"no hay", "abierta", "cerrada"}]
      /\ platos \in [Compras -> SUBSET Correos]
      /\ Vendedores[p] \in SUBSET Correos
  BY DEF IInvCuentas, TypeOKCuentas
<1>2. /\ \/ compra' = [compra EXCEPT ![p] = "abierta"] /\ tarde' = tarde \cup TardePara(p)
         \/ compra' = [compra EXCEPT ![p] = "cerrada"] /\ tarde' = tarde
      /\ platos' \in {platos, [platos EXCEPT ![p] = Vendedores[p]]}
      /\ UNCHANGED <<entrega, tardeEntrega, arrastradas, Cuentas3, operacion>>
  BY DEF AbrirCompra, ReabrirCompra, CerrarCompra
<1>3. /\ compra' \in [Compras -> {"no hay", "abierta", "cerrada", "borrada"}]
      /\ platos' \in [Compras -> SUBSET Correos]
      /\ entrega' \in [Compras -> {"no hay", "abierta", "cerrada"}]
      /\ \A q \in Compras : q # p => compra'[q] = compra[q] /\ entrega'[q] = entrega[q]
  BY <1>1, <1>2
<1>4. /\ adelantadas' \in {adelantadas, adelantadas \cup {p}}
      /\ compra'[p] = "cerrada" /\ entrega'[p] = "abierta" => p \in adelantadas'
  BY <1>1, <1>2 DEF AbrirCompra, ReabrirCompra, CerrarCompra, SeAdelanta
<1>5. /\ entrega'[p] = entrega[p] /\ tardeEntrega' = tardeEntrega
      /\ compra'[p] \in {"abierta", "cerrada"}
      /\ \/ compra'[p] = "cerrada" /\ tarde' = tarde
         \/ compra'[p] = "abierta" /\ tarde' = tarde \cup TardePara(p)
  BY <1>1, <1>2
<1> QED BY <1>2, <1>3, <1>4, <1>5, PedidosSiguen

LEMMA PasoReparto ==
  ASSUME IInvCuentas, NEW p \in Compras, AsignarCompra(p) \/ ReabrirEntrega(p) \/ CerrarEntrega(p)
  PROVE  IInvCuentas'
<1>1. /\ compra \in [Compras -> {"no hay", "abierta", "cerrada", "borrada"}]
      /\ entrega \in [Compras -> {"no hay", "abierta", "cerrada"}]
      /\ platos \in [Compras -> SUBSET Correos]
  BY DEF IInvCuentas, TypeOKCuentas
<1>2. /\ \/ /\ entrega' = [entrega EXCEPT ![p] = "abierta"]
            /\ tardeEntrega' = tardeEntrega \cup TardeParaEntrega(p)
         \/ entrega' = [entrega EXCEPT ![p] = "cerrada"] /\ tardeEntrega' = tardeEntrega
      /\ UNCHANGED <<platos, compra, tarde, arrastradas, Cuentas3, operacion>>
  BY DEF AsignarCompra, ReabrirEntrega, CerrarEntrega
<1>3. compra[p] \notin {"no hay", "borrada"}
  BY DEF AsignarCompra, ReabrirEntrega, CerrarEntrega, IInvCuentas, EntregasDePedidos
<1>4. /\ entrega' \in [Compras -> {"no hay", "abierta", "cerrada"}]
      /\ compra' \in [Compras -> {"no hay", "abierta", "cerrada", "borrada"}]
      /\ platos' \in [Compras -> SUBSET Correos]
      /\ \A q \in Compras : q # p => compra'[q] = compra[q] /\ entrega'[q] = entrega[q]
  BY <1>1, <1>2
<1>5. /\ adelantadas' \in {adelantadas, adelantadas \cup {p}}
      /\ compra'[p] = "cerrada" /\ entrega'[p] = "abierta" => p \in adelantadas'
  BY <1>1, <1>2 DEF AsignarCompra, ReabrirEntrega, CerrarEntrega, SeAdelanta
<1>6. /\ compra'[p] = compra[p] /\ tarde' = tarde
      /\ \/ entrega'[p] # "abierta" /\ tardeEntrega' = tardeEntrega
         \/ entrega'[p] = "abierta" /\ tardeEntrega' = tardeEntrega \cup TardeParaEntrega(p)
  BY <1>1, <1>2
<1> QED BY <1>2, <1>3, <1>4, <1>5, <1>6, PedidosSiguen

------------------------------------------------------------------------------
(* Theorems *)

LEMMA InicioCuentas == InitCuentas => IInvCuentas
<1> SUFFICES ASSUME InitCuentas PROVE IInvCuentas
  OBVIOUS
<1>1. TypeOKCuentas
  <2>1. 1 \in 1 .. MaxClave + 1
    OBVIOUS
  <2>2. /\ clave \in [Correos -> 1 .. MaxClave + 1]
        /\ usos \in [Correos -> [1 .. MaxClave -> Nat]]
    BY <2>1 DEF InitCuentas
  <2>3. operacion \in [HilosCta -> Operacion]
    BY Operaciones DEF InitCuentas
  <2> QED BY <2>2, <2>3 DEF InitCuentas, TypeOKCuentas
<1>2. PedidosPasados /\ BajaSinPedidosVivos /\ EntregasDePedidos
  BY DEF InitCuentas, PedidosPasados, BajaSinPedidosVivos, EntregasDePedidos
<1>3. \A u \in Correos, v \in 1 .. MaxClave : Cambian(u, v) = {} /\ usos[u][v] = 0
  BY DEF InitCuentas, Cambian, Desocupado
<1>4. EnlacesGastados
  BY <1>3, CambianFinito, FS_EmptySet DEF EnlacesGastados
<1> QED BY <1>1, <1>2, <1>4 DEF IInvCuentas

LEMMA PasoCuentasTodo == IInvCuentas /\ [NextCuentas]_varsCuentas => IInvCuentas'
<1> SUFFICES ASSUME IInvCuentas, [NextCuentas]_varsCuentas PROVE IInvCuentas'
  OBVIOUS
<1>1. ASSUME NEW h \in HilosCta, PasoCuentas(h) PROVE IInvCuentas'
  <2>1. clave \in [Correos -> 1 .. MaxClave + 1] /\ cuentas \subseteq Correos
    BY DEF IInvCuentas, TypeOKCuentas
  <2>4. \A u \in Correos : clave[u] >= clave[u]
    BY Enteros DEF IInvCuentas
  <2>2. ASSUME NEW u \in Correos, Registrar(h, u) PROVE IInvCuentas'
    BY <2>1, <2>2, <2>4, Operaciones, PasoTranquilo DEF Registrar, Cuentas3
  <2>3. ASSUME NEW u \in Correos, PedirBaja(h, u) PROVE IInvCuentas'
    BY <2>1, <2>3, <2>4, Operaciones, PasoTranquilo DEF PedirBaja, Cuentas3, FasesBaja
  <2> QED BY <1>1, <2>2, <2>3, PasoAbrirEnlace, PasoCrearCuenta, PasoCambiarClave,
             PasoBuscarBloqueo, PasoBorrarCuenta DEF PasoCuentas
<1>2. ASSUME NEW u \in Correos, PedirEnlace(u) PROVE IInvCuentas'
  BY <1>2, PasoPedirEnlace
<1>3. ASSUME NEW p \in Compras, PasoCompras(p) PROVE IInvCuentas'
  BY <1>3, PasoCompra, PasoReparto DEF PasoCompras
<1>4. CASE UNCHANGED varsCuentas
  BY <1>4, EnlacesAjenos DEF varsCuentas, IInvCuentas, TypeOKCuentas, PedidosPasados,
     EntregasDePedidos, BajaSinPedidosVivos, Pasada, EnCuenta
<1> QED BY <1>1, <1>2, <1>3, <1>4 DEF NextCuentas

\* The inductive invariant holds in every behaviour.
THEOREM InvarianteCuentas == SpecCuentas => []IInvCuentas
BY InicioCuentas, PasoCuentasTodo, PTL DEF SpecCuentas

\* Accounts, links, orders and the requests under way keep their types.
THEOREM TiposCuentas == SpecCuentas => []TypeOKCuentas
<1>1. IInvCuentas => TypeOKCuentas
  BY DEF IInvCuentas
<1> QED BY <1>1, InvarianteCuentas, PTL

\* The open order or the courier's open delivery that delete_user takes along was
\* opened after the query of find_deletion_blocker that would have found it; the
\* open delivery that goes with an order, which no query looks for, goes with an
\* order opened late or with one that was ENTREGADO before its courier was done.
THEOREM BajaLimpia == SpecCuentas => []BajaSinPedidosVivos
<1>1. IInvCuentas => BajaSinPedidosVivos
  BY DEF IInvCuentas
<1> QED BY <1>1, InvarianteCuentas, PTL

\* The links that ResetPasswordUseCase accepts for one password change it no more
\* often than there are threads.
THEOREM Enlaces == SpecCuentas => []EnlaceAcotado
<1>1. IInvCuentas => EnlaceAcotado
  <2> SUFFICES ASSUME IInvCuentas, NEW u \in Correos, NEW v \in 1 .. MaxClave
               PROVE  usos[u][v] <= Cardinality(HilosCta)
    BY DEF EnlaceAcotado
  <2>1. usos[u][v] + Cardinality(Cambian(u, v)) <= Cardinality(HilosCta) /\ usos[u][v] \in Nat
    BY Enteros DEF IInvCuentas, EnlacesGastados
  <2> QED BY <2>1, CambianFinito
<1> QED BY <1>1, InvarianteCuentas, PTL

HIDE ConstantesCuentas

------------------------------------------------------------------------------
(* The default addresses *)

USE ConstantesDirecciones

(* The inductive invariant *)

\* Until another request stores a default address, the one that cleared the
\* others finds no default but its own row,
Limpio(h) ==
  edicion[h].fase = "guardar" /\ edicion[h].pide /\ h \notin cruzada
    => predeterminadas \subseteq {edicion[h].fila}

\* and the one that read a default row adds none when it writes it back.
Releido(h) ==
  edicion[h].fase = "guardar" /\ edicion[h].era /\ ~edicion[h].pide /\ h \notin cruzada
    => Cardinality(predeterminadas \cup {edicion[h].fila}) <= 1 + cruces

LimpiaSiPide(h) == edicion[h].fase = "limpiar" => edicion[h].pide

IInvDirecciones ==
  /\ TypeOKDirecciones
  /\ \A h \in HilosDir : Limpio(h) /\ Releido(h) /\ LimpiaSiPide(h)
  /\ PredeterminadaUnica

------------------------------------------------------------------------------
(* Lemmas *)

LEMMA EsEdicion ==
  ASSUME NEW e \in Edicion, e.fase # "no hay"
  PROVE  /\ e.fase \in {"limpiar", "guardar"} /\ e.fila \in Filas \cup {0} /\ e.pide \in BOOLEAN /\ e.era \in BOOLEAN
         /\ LET f == [e EXCEPT !.fase = "guardar"]
            IN f \in Edicion /\ f.fase = "guardar" /\ f.fila = e.fila /\ (f.pide <=> e.pide)
<1>1. e \in [fase : {"limpiar", "guardar"}, fila : Filas \cup {0}, pide : BOOLEAN, era : BOOLEAN]
  BY DEF Edicion
<1>2. [e EXCEPT !.fase = "guardar"] \in Edicion
  BY <1>1 DEF Edicion
<1> QED BY <1>1, <1>2

LEMMA Ediciones ==
  /\ SinEdicion \in Edicion /\ SinEdicion.fase = "no hay"
  /\ \A f \in {"limpiar", "guardar"}, x \in Filas \cup {0}, p, e \in BOOLEAN :
       [fase |-> f, fila |-> x, pide |-> p, era |-> e] \in Edicion
BY DEF SinEdicion, Edicion

\* Sets of addresses are finite, and fewer addresses are not more.
LEMMA Contar ==
  ASSUME NEW S \in SUBSET (Filas \cup {0}), NEW T \in SUBSET S
  PROVE  Cardinality(S) \in Nat /\ Cardinality(T) \in Nat /\ Cardinality(T) <= Cardinality(S)
<1>1. IsFiniteSet(Filas \cup {0})
  BY FS_AddElement
<1>2. IsFiniteSet(S)
  BY <1>1, FS_Subset
<1> QED BY <1>2, FS_Subset, FS_CardinalityType

LEMMA ContarUna ==
  ASSUME NEW x, NEW T \in SUBSET {x}
  PROVE  Cardinality(T) <= 1
<1>1. IsFiniteSet({x}) /\ Cardinality({x}) = 1
  BY FS_Singleton
<1>2. IsFiniteSet(T) /\ Cardinality(T) <= Cardinality({x})
  BY <1>1, FS_Subset
<1> QED BY <1>1, <1>2

LEMMA ContarConOtra ==
  ASSUME NEW S \in SUBSET Filas, NEW f \in Filas
  PROVE  Cardinality(S \cup {f}) <= Cardinality(S) + 1
<1>1. IsFiniteSet(S)
  BY FS_Subset
<1>2. Cardinality(S) \in Nat
  BY <1>1, FS_CardinalityType
<1>3. Cardinality(S \cup {f}) = IF f \in S THEN Cardinality(S) ELSE Cardinality(S) + 1
  BY <1>1, FS_AddElement
<1> QED BY <1>2, <1>3

------------------------------------------------------------------------------
(* The steps *)

\* A request stays as it is while no default address is added.
LEMMA SigueLimpio ==
  ASSUME IInvDirecciones, NEW g \in HilosDir, edicion'[g] = edicion[g],
         predeterminadas' \subseteq predeterminadas, g \in cruzada => g \in cruzada',
         UNCHANGED cruces
  PROVE  Limpio(g)' /\ Releido(g)' /\ LimpiaSiPide(g)'
<1>1. Limpio(g)' /\ LimpiaSiPide(g)'
  BY DEF IInvDirecciones, Limpio, LimpiaSiPide
<1>2. Releido(g)'
  <2> SUFFICES ASSUME edicion[g].fase = "guardar", edicion[g].era, ~edicion[g].pide, g \notin cruzada
               PROVE  Cardinality(predeterminadas' \cup {edicion[g].fila}) <= 1 + cruces
    BY DEF Releido
  <2> DEFINE x == edicion[g].fila
  <2>1. Cardinality(predeterminadas \cup {x}) <= 1 + cruces
    BY DEF IInvDirecciones, Releido
  <2>2. cruces \in Nat /\ predeterminadas \subseteq Filas /\ x \in Filas \cup {0}
    BY EsEdicion DEF IInvDirecciones, TypeOKDirecciones
  <2> HIDE DEF x
  <2>3. predeterminadas' \cup {x} \subseteq predeterminadas \cup {x}
        /\ predeterminadas \cup {x} \subseteq Filas \cup {0}
    BY <2>2
  <2>4. /\ Cardinality(predeterminadas \cup {x}) \in Nat /\ Cardinality(predeterminadas' \cup {x}) \in Nat
        /\ Cardinality(predeterminadas' \cup {x}) <= Cardinality(predeterminadas \cup {x})
    BY <2>3, Contar
  <2>5. Cardinality(predeterminadas' \cup {x}) <= 1 + cruces
    BY <2>1, <2>2, <2>4
  <2> QED BY <2>5 DEF x
<1> QED BY <1>1, <1>2

LEMMA SigueUnica ==
  ASSUME IInvDirecciones, predeterminadas' \subseteq predeterminadas, UNCHANGED cruces
  PROVE  PredeterminadaUnica'
<1>1. predeterminadas \subseteq Filas /\ cruces \in Nat /\ Cardinality(predeterminadas) <= 1 + cruces
  BY DEF IInvDirecciones, TypeOKDirecciones, PredeterminadaUnica
<1>2. /\ Cardinality(predeterminadas) \in Nat /\ Cardinality(predeterminadas') \in Nat
      /\ Cardinality(predeterminadas') <= Cardinality(predeterminadas)
  BY <1>1, Contar
<1> QED BY <1>1, <1>2 DEF PredeterminadaUnica

\* A step that stores no default address.
LEMMA SinGuardar ==
  ASSUME IInvDirecciones, NEW h \in HilosDir, NEW e \in Edicion, Edita(h, e),
         predeterminadas' \subseteq predeterminadas, cruzada' = cruzada \ {h},
         UNCHANGED cruces,
         e.fase = "limpiar" => e.pide,
         e.fase = "guardar" /\ e.pide => predeterminadas' \subseteq {e.fila},
         e.fase = "guardar" /\ e.era /\ ~e.pide => e.fila \in predeterminadas
  PROVE  /\ edicion' \in [HilosDir -> Edicion]
         /\ \A g \in HilosDir : Limpio(g)' /\ Releido(g)' /\ LimpiaSiPide(g)'
         /\ PredeterminadaUnica'
<1>1. TypeOKDirecciones /\ predeterminadas \subseteq Filas /\ cruces \in Nat
      /\ Cardinality(predeterminadas) <= 1 + cruces
  BY DEF IInvDirecciones, TypeOKDirecciones, PredeterminadaUnica
<1>2. edicion' \in [HilosDir -> Edicion] /\ edicion'[h] = e
      /\ \A g \in HilosDir \ {h} : edicion'[g] = edicion[g]
  BY <1>1 DEF Edita, TypeOKDirecciones
<1>3. PredeterminadaUnica'
  BY SigueUnica
<1>4. Limpio(h)' /\ LimpiaSiPide(h)'
  BY <1>2 DEF Limpio, LimpiaSiPide
<1>5. Releido(h)'
  <2> SUFFICES ASSUME e.fase = "guardar", e.era, ~e.pide
               PROVE  Cardinality(predeterminadas' \cup {e.fila}) <= 1 + cruces
    BY <1>2 DEF Releido
  <2>1. predeterminadas' \cup {e.fila} \subseteq predeterminadas
    OBVIOUS
  <2>2. /\ Cardinality(predeterminadas) \in Nat /\ Cardinality(predeterminadas' \cup {e.fila}) \in Nat
        /\ Cardinality(predeterminadas' \cup {e.fila}) <= Cardinality(predeterminadas)
    BY <1>1, <2>1, Contar
  <2> QED BY <1>1, <2>2
<1>6. ASSUME NEW g \in HilosDir \ {h} PROVE Limpio(g)' /\ Releido(g)' /\ LimpiaSiPide(g)'
  BY <1>2, SigueLimpio
<1> QED BY <1>2, <1>3, <1>4, <1>5, <1>6

LEMMA PasoCrearDireccion ==
  ASSUME IInvDirecciones, NEW h \in HilosDir, NEW pide \in BOOLEAN, CrearDireccion(h, pide)
  PROVE  IInvDirecciones'
<1> DEFINE e == [fase |-> IF pide THEN "limpiar" ELSE "guardar", fila |-> 0, pide |-> pide, era |-> FALSE]
<1>1. e \in Edicion /\ (e.fase = "guardar" => ~e.pide) /\ (e.fase = "limpiar" => e.pide) /\ ~e.era
  BY Ediciones
<1>2. Edita(h, e) /\ cruzada' = cruzada \ {h} /\ UNCHANGED <<filas, predeterminadas, usadas, cruces>>
  BY DEF CrearDireccion
<1> HIDE DEF e
<1>3. /\ edicion' \in [HilosDir -> Edicion]
      /\ \A g \in HilosDir : Limpio(g)' /\ Releido(g)' /\ LimpiaSiPide(g)'
      /\ PredeterminadaUnica'
  BY <1>1, <1>2, SinGuardar
<1>4. TypeOKDirecciones'
  BY <1>2, <1>3 DEF IInvDirecciones, TypeOKDirecciones
<1> QED BY <1>3, <1>4 DEF IInvDirecciones

LEMMA PasoLeerDireccion ==
  ASSUME IInvDirecciones, NEW h \in HilosDir, NEW f \in Filas, NEW pide \in BOOLEAN,
         LeerDireccion(h, f, pide)
  PROVE  IInvDirecciones'
<1> DEFINE e == [fase |-> IF pide THEN "limpiar" ELSE "guardar", fila |-> f, pide |-> pide,
                 era |-> f \in predeterminadas]
<1>1. e \in Edicion
  <2>1. (f \in predeterminadas) \in BOOLEAN /\ f \in Filas \cup {0}
    OBVIOUS
  <2> QED BY <2>1 DEF Edicion
<1>2. (e.fase = "guardar" => ~e.pide) /\ (e.fase = "limpiar" => e.pide) /\ (e.era => e.fila \in predeterminadas)
  OBVIOUS
<1>3. Edita(h, e) /\ cruzada' = cruzada \ {h} /\ UNCHANGED <<filas, predeterminadas, usadas, cruces>>
  BY DEF LeerDireccion
<1> HIDE DEF e
<1>4. /\ edicion' \in [HilosDir -> Edicion]
      /\ \A g \in HilosDir : Limpio(g)' /\ Releido(g)' /\ LimpiaSiPide(g)'
      /\ PredeterminadaUnica'
  BY <1>1, <1>2, <1>3, SinGuardar
<1>5. TypeOKDirecciones'
  BY <1>3, <1>4 DEF IInvDirecciones, TypeOKDirecciones
<1> QED BY <1>4, <1>5 DEF IInvDirecciones

LEMMA PasoLimpiar ==
  ASSUME IInvDirecciones, NEW h \in HilosDir, LimpiarOtras(h)
  PROVE  IInvDirecciones'
<1> DEFINE e == [edicion[h] EXCEPT !.fase = "guardar"]
<1>1. edicion[h] \in Edicion /\ edicion[h].fase = "limpiar" /\ Edita(h, e) /\ cruzada' = cruzada \ {h}
      /\ predeterminadas' = predeterminadas \cap {edicion[h].fila} /\ UNCHANGED <<filas, usadas, cruces>>
  BY DEF LimpiarOtras, IInvDirecciones, TypeOKDirecciones
<1>2. edicion[h].pide
  BY <1>1 DEF IInvDirecciones, LimpiaSiPide
<1>3. e \in Edicion /\ e.fase = "guardar" /\ e.pide /\ e.fila = edicion[h].fila
  BY <1>1, <1>2, EsEdicion
<1> HIDE DEF e
<1>4. /\ edicion' \in [HilosDir -> Edicion]
      /\ \A g \in HilosDir : Limpio(g)' /\ Releido(g)' /\ LimpiaSiPide(g)'
      /\ PredeterminadaUnica'
  BY <1>1, <1>3, SinGuardar
<1>5. TypeOKDirecciones'
  BY <1>1, <1>4 DEF IInvDirecciones, TypeOKDirecciones
<1> QED BY <1>4, <1>5 DEF IInvDirecciones

LEMMA PasoCaerEdicion ==
  ASSUME IInvDirecciones, NEW h \in HilosDir, CaeEdicion(h)
  PROVE  IInvDirecciones'
<1>1. Edita(h, SinEdicion) /\ cruzada' = cruzada \ {h} /\ UNCHANGED <<filas, predeterminadas, usadas, cruces>>
  BY DEF CaeEdicion
<1>2. /\ edicion' \in [HilosDir -> Edicion]
      /\ \A g \in HilosDir : Limpio(g)' /\ Releido(g)' /\ LimpiaSiPide(g)'
      /\ PredeterminadaUnica'
  BY <1>1, Ediciones, SinGuardar
<1>3. TypeOKDirecciones'
  BY <1>1, <1>2 DEF IInvDirecciones, TypeOKDirecciones
<1> QED BY <1>2, <1>3 DEF IInvDirecciones

LEMMA PasoBorrarDireccion ==
  ASSUME IInvDirecciones, NEW f \in Filas, BorrarDireccion(f)
  PROVE  IInvDirecciones'
<1>1. filas' = filas \ {f} /\ predeterminadas' = predeterminadas \ {f}
      /\ UNCHANGED <<usadas, edicion, cruzada, cruces>>
  BY DEF BorrarDireccion
<1>2. TypeOKDirecciones'
  BY <1>1 DEF IInvDirecciones, TypeOKDirecciones
<1>3. \A g \in HilosDir : Limpio(g)' /\ Releido(g)' /\ LimpiaSiPide(g)'
  BY <1>1, SigueLimpio
<1>4. PredeterminadaUnica'
  BY <1>1, SigueUnica
<1> QED BY <1>2, <1>3, <1>4 DEF IInvDirecciones

\* A request that stores its row: as the default one it is alone, or it was
\* already one, or its crossing is counted.
LEMMA PasoGuardarDireccion ==
  ASSUME IInvDirecciones, NEW h \in HilosDir, NEW f \in Filas, NEW pred \in BOOLEAN,
         edicion[h].fase = "guardar", edicion[h].fila \in {0, f},
         pred => edicion[h].pide \/ (edicion[h].era /\ edicion[h].fila = f),
         Guarda(h, f, pred)
  PROVE  IInvDirecciones'
<1>1. TypeOKDirecciones /\ predeterminadas \subseteq Filas /\ cruces \in Nat
      /\ Cardinality(predeterminadas) <= 1 + cruces
  BY DEF IInvDirecciones, TypeOKDirecciones, PredeterminadaUnica
<1>2. filas' = filas \cup {f} /\ usadas' = usadas \cup {f} /\ Edita(h, SinEdicion)
  BY DEF Guarda
<1>3. CASE ~pred
  <2>1. predeterminadas' = predeterminadas \ {f} /\ cruces' = cruces /\ cruzada' = cruzada \ {h}
    BY <1>3 DEF Guarda
  <2>2. /\ edicion' \in [HilosDir -> Edicion]
        /\ \A g \in HilosDir : Limpio(g)' /\ Releido(g)' /\ LimpiaSiPide(g)'
        /\ PredeterminadaUnica'
    BY <1>2, <2>1, Ediciones, SinGuardar
  <2>3. TypeOKDirecciones'
    BY <1>1, <1>2, <2>1, <2>2 DEF TypeOKDirecciones
  <2> QED BY <2>2, <2>3 DEF IInvDirecciones
<1>4. CASE pred
  <2>1. /\ predeterminadas' = predeterminadas \cup {f}
        /\ cruces' = IF h \in cruzada THEN cruces + 1 ELSE cruces
        /\ cruzada' = {g \in HilosDir \ {h} : edicion[g] # SinEdicion}
    BY <1>4 DEF Guarda
  <2>2. edicion' \in [HilosDir -> Edicion] /\ edicion'[h] = SinEdicion
        /\ \A g \in HilosDir \ {h} : edicion'[g] = edicion[g]
    BY <1>1, <1>2, Ediciones DEF Edita, TypeOKDirecciones
  <2>3. TypeOKDirecciones'
    BY <1>1, <1>2, <2>1, <2>2 DEF TypeOKDirecciones
  <2>4. ASSUME NEW g \in HilosDir PROVE Limpio(g)' /\ Releido(g)' /\ LimpiaSiPide(g)'
    <3>1. edicion'[g].fase = "guardar" => g \in cruzada'
      BY <2>1, <2>2, Ediciones
    <3>2. LimpiaSiPide(g)'
      BY <2>2, Ediciones DEF IInvDirecciones, LimpiaSiPide
    <3> QED BY <3>1, <3>2 DEF Limpio, Releido
  <2>5. Cardinality(predeterminadas \cup {f}) \in Nat /\ Cardinality(predeterminadas) \in Nat
    <3>1. predeterminadas \cup {f} \subseteq Filas \cup {0}
      BY <1>1
    <3> QED BY <3>1, Contar
  <2>6. CASE h \in cruzada
    <3>1. Cardinality(predeterminadas \cup {f}) <= Cardinality(predeterminadas) + 1
      BY <1>1, ContarConOtra
    <3>2. cruces' = cruces + 1
      BY <2>1, <2>6
    <3>3. Cardinality(predeterminadas \cup {f}) <= 1 + (cruces + 1)
      BY <1>1, <2>5, <3>1
    <3> QED BY <2>1, <2>3, <2>4, <3>2, <3>3 DEF PredeterminadaUnica, IInvDirecciones
  <2>7. CASE h \notin cruzada /\ edicion[h].pide
    <3>1. predeterminadas \subseteq {edicion[h].fila}
      BY <2>7 DEF IInvDirecciones, Limpio
    <3>2. predeterminadas \cup {f} \subseteq {f}
      BY <3>1, <1>1
    <3>3. Cardinality(predeterminadas \cup {f}) <= 1
      BY <3>2, ContarUna
    <3> QED BY <2>1, <2>5, <2>7, <3>3, <1>1, <2>4, <2>3 DEF PredeterminadaUnica, IInvDirecciones
  <2>8. CASE h \notin cruzada /\ ~edicion[h].pide
    <3>1. edicion[h].era /\ edicion[h].fila = f
      BY <1>4, <2>8
    <3>2. Cardinality(predeterminadas \cup {f}) <= 1 + cruces
      BY <2>8, <3>1 DEF IInvDirecciones, Releido
    <3> QED BY <2>1, <2>8, <3>2, <2>3, <2>4 DEF PredeterminadaUnica, IInvDirecciones
  <2>9. PredeterminadaUnica' => IInvDirecciones'
    BY <2>3, <2>4 DEF IInvDirecciones
  <2> QED BY <2>6, <2>7, <2>8, <2>9
<1> QED BY <1>3, <1>4

------------------------------------------------------------------------------
(* Theorems *)

\* The inductive invariant holds in every behaviour.
LEMMA InvarianteDirecciones == SpecDirecciones => []IInvDirecciones
<1>1. InitDirecciones => IInvDirecciones
  <2> SUFFICES ASSUME InitDirecciones PROVE IInvDirecciones
    OBVIOUS
  <2>1. \A h \in HilosDir : edicion[h] = SinEdicion /\ edicion[h].fase = "no hay"
    BY Ediciones DEF InitDirecciones
  <2>2. TypeOKDirecciones
    BY Ediciones DEF InitDirecciones, TypeOKDirecciones
  <2>3. \A h \in HilosDir : Limpio(h) /\ Releido(h) /\ LimpiaSiPide(h)
    BY <2>1 DEF Limpio, Releido, LimpiaSiPide
  <2>4. PredeterminadaUnica
    BY FS_EmptySet DEF InitDirecciones, PredeterminadaUnica
  <2> QED BY <2>2, <2>3, <2>4 DEF IInvDirecciones
<1>2. IInvDirecciones /\ [NextDirecciones]_varsDirecciones => IInvDirecciones'
  <2> SUFFICES ASSUME IInvDirecciones, [NextDirecciones]_varsDirecciones PROVE IInvDirecciones'
    OBVIOUS
  <2>1. ASSUME NEW h \in HilosDir, InsertarDireccion(h) PROVE IInvDirecciones'
    <3>1. PICK f \in Filas \ usadas : Guarda(h, f, edicion[h].pide)
      BY <2>1 DEF InsertarDireccion
    <3>2. edicion[h].fase = "guardar" /\ edicion[h].fila = 0
      BY <2>1 DEF InsertarDireccion
    <3>3. edicion[h].pide \in BOOLEAN
      BY <3>2, EsEdicion DEF IInvDirecciones, TypeOKDirecciones
    <3>4. PICK pred \in BOOLEAN : pred = edicion[h].pide
      BY <3>3
    <3>5. Guarda(h, f, pred) /\ (pred => edicion[h].pide)
      BY <3>1, <3>4, Zenon
    <3>6. f \in Filas /\ edicion[h].fila \in {0, f}
      BY <3>2
    <3>7. pred => edicion[h].pide \/ (edicion[h].era /\ edicion[h].fila = f)
      BY <3>5, Zenon
    <3> QED BY <3>2, <3>5, <3>6, <3>7, PasoGuardarDireccion, Zenon
  <2>2. ASSUME NEW h \in HilosDir, ActualizarDireccion(h) PROVE IInvDirecciones'
    <3>1. edicion[h].fase = "guardar" /\ edicion[h].fila # 0
      BY <2>2 DEF ActualizarDireccion
    <3>2. edicion[h].fila \in Filas /\ edicion[h].pide \in BOOLEAN /\ edicion[h].era \in BOOLEAN
      BY <3>1, EsEdicion DEF IInvDirecciones, TypeOKDirecciones
    <3>3. PICK pred \in BOOLEAN :
            Guarda(h, edicion[h].fila, pred) /\ (pred => edicion[h].pide \/ edicion[h].era)
      BY <2>2, <3>2 DEF ActualizarDireccion
    <3> QED BY <3>1, <3>2, <3>3, PasoGuardarDireccion
  <2>3. CASE \E h \in HilosDir : PasoDirecciones(h)
    BY <2>1, <2>2, <2>3, PasoCrearDireccion, PasoLeerDireccion, PasoLimpiar, PasoCaerEdicion
       DEF PasoDirecciones
  <2>4. CASE \E f \in Filas : BorrarDireccion(f)
    BY <2>4, PasoBorrarDireccion
  <2>5. CASE UNCHANGED varsDirecciones
    <3>1. UNCHANGED <<filas, predeterminadas, usadas, edicion, cruzada, cruces>>
      BY <2>5 DEF varsDirecciones
    <3>2. TypeOKDirecciones'
      BY <3>1 DEF IInvDirecciones, TypeOKDirecciones
    <3>3. \A g \in HilosDir : Limpio(g)' /\ Releido(g)' /\ LimpiaSiPide(g)'
      BY <3>1, SigueLimpio
    <3>4. PredeterminadaUnica'
      BY <3>1, SigueUnica
    <3> QED BY <3>2, <3>3, <3>4 DEF IInvDirecciones
  <2> QED BY <2>3, <2>4, <2>5 DEF NextDirecciones
<1> QED BY <1>1, <1>2, PTL DEF SpecDirecciones

\* The rows, the marks on them and the requests that edit them keep their types.
THEOREM TiposDirecciones == SpecDirecciones => []TypeOKDirecciones
<1>1. IInvDirecciones => TypeOKDirecciones
  BY DEF IInvDirecciones
<1> QED BY <1>1, InvarianteDirecciones, PTL

\* The second default address of an account, and each one more, is paid for by
\* a request that stored one after another had done so since it cleared them or
\* read its row: without such crossings there is one at most.
THEOREM Unica == SpecDirecciones => []PredeterminadaUnica
<1>1. IInvDirecciones => PredeterminadaUnica
  BY DEF IInvDirecciones
<1> QED BY <1>1, InvarianteDirecciones, PTL

HIDE ConstantesDirecciones

------------------------------------------------------------------------------
(* The limit and the names of the auth service *)

USE ConstantesReloj, ConstantesAuth

\* A thread about to take the lock read the clock no longer ago than Retraso.
RelojesRecientes ==
  \A h \in Hilos : llamada[h].fase = "limite" =>
    llamada[h].ahora <= reloj /\ reloj - llamada[h].ahora <= Retraso

\* The hits are the clocks of the last requests let through, and those that were
\* pruned passed more than a window less a delay ago.
Olvidadas == Len(pasadas) - Len(hits)
HitsDeLasUltimas ==
  /\ Len(hits) <= Len(pasadas) /\ Len(hits) <= MaxPeticiones
  /\ \A i \in DOMAIN pasadas : pasadas[i] <= reloj
  /\ \A i \in 1 .. Len(hits) : pasadas[Olvidadas + i] - hits[i] <= Retraso
  /\ \A i \in 1 .. Olvidadas : reloj - pasadas[i] > Ventana - Retraso

\* The users and the threads past the check of one folded name.
Tocayos(n) == {u \in usuarios : Plegado[u[1]] = Plegado[n]}
Aspirantes(n) ==
  {h \in Hilos : llamada[h].fase \in {"correo", "crear"} /\ Plegado[llamada[h].nombre] = Plegado[n]}
AspirantesAcotados ==
  \A n \in Nombres :
    IsFiniteSet(Tocayos(n)) /\ Cardinality(Tocayos(n)) + Cardinality(Aspirantes(n)) <= Cardinality(Hilos)

IInvAuth == TypeOKAuth /\ RelojesRecientes /\ HitsDeLasUltimas /\ VentanaRespetada /\ AspirantesAcotados

LEMMA Llamadas ==
  /\ Ociosa \in Llamada /\ [fase |-> "dentro"] \in Llamada
  /\ \A t \in Nat : [fase |-> "limite", ahora |-> t] \in Llamada
  /\ \A f \in {"correo", "crear"}, n \in Nombres, b \in Buzones :
       [fase |-> f, nombre |-> n, buzon |-> b] \in Llamada
BY DEF Llamada, Ociosa

LEMMA EsLlamada ==
  ASSUME NEW l \in Llamada
  PROVE  /\ l.fase \in {"ociosa", "dentro", "limite", "correo", "crear"}
         /\ l.fase = "limite" => l.ahora \in Nat
         /\ l.fase \in {"correo", "crear"} =>
              /\ l.nombre \in Nombres /\ l.buzon \in Buzones
              /\ l = [fase |-> l.fase, nombre |-> l.nombre, buzon |-> l.buzon]
BY DEF Llamada

LEMMA Segmento ==
  ASSUME NEW n \in Nat
  PROVE  IsFiniteSet(1 .. n) /\ Cardinality(1 .. n) = n
<1>1. /\ IsFiniteSet(1 .. n)
      /\ Cardinality(1 .. n) = IF 1 > n THEN 0 ELSE n - 1 + 1
  BY FS_Interval
<1> QED BY <1>1

\* Only what is older than the cutoff is pruned, and it stood first.
LEMMA PodaDelPrincipio ==
  ASSUME NEW s \in Seq(Nat), NEW c \in Int
  PROVE  \E k \in 0 .. Len(s) :
           /\ Recortado(s, c) = SubSeq(s, k + 1, Len(s))
           /\ \A i \in 1 .. k : s[i] < c
<1> DEFINE viejos == {i \in DOMAIN s : \A j \in 1 .. i : s[j] < c}
           k == Cardinality(viejos)
<1>0. Len(s) \in Nat /\ viejos \subseteq 1 .. Len(s)
  OBVIOUS
<1>1. IsFiniteSet(1 .. Len(s)) /\ Cardinality(1 .. Len(s)) = Len(s)
  BY <1>0, Segmento
<1>2. IsFiniteSet(viejos) /\ k \in 0 .. Len(s)
  BY <1>0, <1>1, FS_Subset, FS_CardinalityType
<1>3. ASSUME NEW i \in 1 .. k PROVE i \in viejos
  <2> SUFFICES ASSUME i \notin viejos PROVE FALSE
    OBVIOUS
  <2>1. viejos \subseteq 1 .. (i - 1)
    <3> SUFFICES ASSUME NEW m \in viejos, m >= i PROVE FALSE
      BY <1>0
    <3>1. \A j \in 1 .. i : s[j] < c
      BY <1>0, <1>2
    <3> QED BY <1>0, <1>2, <3>1
  <2>2. i - 1 \in Nat
    BY <1>2
  <2>4. IsFiniteSet(1 .. (i - 1)) /\ Cardinality(1 .. (i - 1)) = i - 1
    BY <2>2, Segmento
  <2>3. k <= i - 1
    BY <2>1, <2>2, <2>4, FS_Subset
  <2> QED BY <1>2, <2>3
<1>4. \A i \in 1 .. k : s[i] < c
  BY <1>2, <1>3
<1>5. Recortado(s, c) = SubSeq(s, k + 1, Len(s))
  BY DEF Recortado
<1> QED BY <1>2, <1>4, <1>5

LEMMA RestoDeLaPoda ==
  ASSUME NEW s \in Seq(Nat), NEW k \in 0 .. Len(s)
  PROVE  LET r == SubSeq(s, k + 1, Len(s))
         IN r \in Seq(Nat) /\ Len(r) = Len(s) - k /\ \A i \in 1 .. Len(r) : r[i] = s[k + i]
<1>1. k + 1 \in 1 .. Len(s) + 1
  OBVIOUS
<1> QED BY <1>1, SubSeqProperties

\* Pruning with the clock of a thread keeps the hits those of the last requests.
LEMMA PodaConserva ==
  ASSUME TypeOKAuth, HitsDeLasUltimas, NEW now \in Nat, now <= reloj, 
         NEW quedan, quedan = Recortado(hits, now - Ventana)
  PROVE  /\ quedan \in Seq(Nat) /\ Len(quedan) <= Len(hits)
         /\ \A i \in 1 .. Len(quedan) : pasadas[Len(pasadas) - Len(quedan) + i] - quedan[i] <= Retraso
         /\ \A i \in 1 .. Len(pasadas) - Len(quedan) : reloj - pasadas[i] > Ventana - Retraso
<1> DEFINE p == Len(pasadas)
           n == Len(hits)
<1>1. p \in Nat /\ n \in Nat /\ n <= p /\ Olvidadas = p - n
  BY DEF TypeOKAuth, HitsDeLasUltimas, Olvidadas
<1>2. now - Ventana \in Int /\ reloj \in Nat
  BY DEF TypeOKAuth
<1>3. PICK k \in 0 .. n :
           /\ quedan = SubSeq(hits, k + 1, n)
           /\ \A i \in 1 .. k : hits[i] < now - Ventana
  BY <1>2, PodaDelPrincipio DEF TypeOKAuth
<1>4. quedan \in Seq(Nat) /\ Len(quedan) = n - k /\ \A i \in 1 .. Len(quedan) : quedan[i] = hits[k + i]
  BY <1>3, RestoDeLaPoda, ZenonT(40) DEF TypeOKAuth
<1>5. k \in 0 .. n /\ Len(quedan) = n - k /\ Len(quedan) \in Nat
  BY <1>3, <1>4
<1>6. ASSUME NEW i \in 1 .. Len(quedan)
      PROVE  pasadas[p - Len(quedan) + i] - quedan[i] <= Retraso
  <2>1. k + i \in 1 .. n /\ p - Len(quedan) + i = Olvidadas + (k + i)
    BY <1>1, <1>5
  <2> QED BY <1>4, <2>1 DEF HitsDeLasUltimas
<1>7. ASSUME NEW i \in 1 .. p - Len(quedan)
      PROVE  reloj - pasadas[i] > Ventana - Retraso
  <2>1. i \in Int /\ i >= 1 /\ i <= Olvidadas + k
    BY <1>1, <1>5
  <2>2. CASE i <= Olvidadas
    BY <1>1, <2>1, <2>2 DEF HitsDeLasUltimas
  <2>3. CASE i > Olvidadas
    <3> DEFINE j == i - Olvidadas
    <3>1. j \in 1 .. k /\ j \in 1 .. n /\ i \in 1 .. p /\ Olvidadas + j = i
      BY <1>1, <1>5, <2>1, <2>3
    <3>2. hits[j] < now - Ventana
      BY <1>3, <3>1
    <3>3. hits[j] \in Nat /\ pasadas[i] \in Nat
      BY <3>1, SMTT(30) DEF TypeOKAuth
    <3>4. pasadas[i] - hits[j] <= Retraso
      BY <3>1 DEF HitsDeLasUltimas
    <3> HIDE DEF j
    <3> QED BY <1>2, <3>2, <3>3, <3>4
  <2> QED BY <1>1, <2>1, <2>2, <2>3
<1> QED BY <1>1, <1>4, <1>5, <1>6, <1>7

LEMMA InicioAuth == InitAuth => IInvAuth
<1> SUFFICES ASSUME InitAuth PROVE IInvAuth
  OBVIOUS
<1>1. TypeOKAuth
  BY Llamadas DEF InitAuth, TypeOKAuth
<1>2. RelojesRecientes
  BY DEF InitAuth, RelojesRecientes, Ociosa
<1>3. HitsDeLasUltimas /\ VentanaRespetada
  BY DEF InitAuth, HitsDeLasUltimas, VentanaRespetada, Olvidadas
<1>4. ASSUME NEW n \in Nombres
      PROVE  IsFiniteSet(Tocayos(n)) /\ Cardinality(Tocayos(n)) + Cardinality(Aspirantes(n)) <= Cardinality(Hilos)
  <2>1. Tocayos(n) = {} /\ Aspirantes(n) = {}
    BY DEF InitAuth, Tocayos, Aspirantes, Ociosa
  <2> QED BY <2>1, FS_EmptySet, FS_CardinalityType
<1>5. AspirantesAcotados
  BY <1>4 DEF AspirantesAcotados
<1> QED BY <1>1, <1>2, <1>3, <1>5 DEF IInvAuth

\* A step of a thread that leaves users alone and registers no new name.
LEMMA NadieAspira ==
  ASSUME AspirantesAcotados, usuarios' = usuarios,
         \A g \in Hilos : llamada'[g].fase \in {"correo", "crear"} =>
           llamada[g].fase \in {"correo", "crear"} /\ llamada'[g].nombre = llamada[g].nombre
  PROVE  AspirantesAcotados'
<1> SUFFICES ASSUME NEW n \in Nombres
             PROVE  /\ IsFiniteSet(Tocayos(n)')
                    /\ Cardinality(Tocayos(n)') + Cardinality(Aspirantes(n)') <= Cardinality(Hilos)
  BY DEF AspirantesAcotados
<1>1. Tocayos(n)' = Tocayos(n) /\ Aspirantes(n)' \subseteq Aspirantes(n) /\ Aspirantes(n) \subseteq Hilos
  BY DEF Tocayos, Aspirantes
<1>2. /\ IsFiniteSet(Aspirantes(n)) /\ Cardinality(Aspirantes(n)) \in Nat
      /\ Cardinality(Aspirantes(n)') \in Nat /\ Cardinality(Aspirantes(n)') <= Cardinality(Aspirantes(n))
  BY <1>1, FS_Subset, FS_CardinalityType
<1>3. /\ IsFiniteSet(Tocayos(n)) /\ Cardinality(Tocayos(n)) \in Nat /\ Cardinality(Hilos) \in Nat
      /\ Cardinality(Tocayos(n)) + Cardinality(Aspirantes(n)) <= Cardinality(Hilos)
  BY FS_CardinalityType DEF AspirantesAcotados
<1> QED BY <1>1, <1>2, <1>3

\* The steps that touch neither the hits nor the clock.
LEMMA SinTocarElLimite ==
  ASSUME IInvAuth, NEW h \in Hilos, NEW l \in Llamada, PoneLlamada(h, l), l.fase # "limite",
         UNCHANGED <<reloj, hits, pasadas>>
  PROVE  RelojesRecientes' /\ HitsDeLasUltimas' /\ VentanaRespetada' /\ llamada' \in [Hilos -> Llamada]
         /\ \A g \in Hilos : llamada'[g] = IF g = h THEN l ELSE llamada[g]
<1>1. llamada \in [Hilos -> Llamada] /\ llamada' = [llamada EXCEPT ![h] = l]
  BY DEF IInvAuth, TypeOKAuth, PoneLlamada
<1>2. llamada' \in [Hilos -> Llamada] /\ \A g \in Hilos : llamada'[g] = IF g = h THEN l ELSE llamada[g]
  BY <1>1
<1>3. RelojesRecientes'
  BY <1>2 DEF IInvAuth, RelojesRecientes
<1>4. HitsDeLasUltimas' /\ VentanaRespetada'
  BY DEF IInvAuth, HitsDeLasUltimas, Olvidadas, VentanaRespetada
<1> QED BY <1>2, <1>3, <1>4

LEMMA PasoLeerReloj ==
  ASSUME IInvAuth, NEW h \in Hilos, LeerReloj(h)
  PROVE  IInvAuth'
<1> DEFINE l == [fase |-> "limite", ahora |-> reloj]
<1>1. /\ llamada \in [Hilos -> Llamada] /\ reloj \in Nat
      /\ llamada' = [llamada EXCEPT ![h] = l]
      /\ UNCHANGED <<reloj, hits, pasadas, usuarios>>
  BY DEF IInvAuth, TypeOKAuth, LeerReloj, PoneLlamada
<1>2. l \in Llamada /\ l.fase = "limite" /\ l.ahora = reloj
  BY <1>1, Llamadas
<1>3. llamada' \in [Hilos -> Llamada] /\ \A g \in Hilos : llamada'[g] = IF g = h THEN l ELSE llamada[g]
  BY <1>1, <1>2
<1>4. TypeOKAuth'
  BY <1>1, <1>3 DEF IInvAuth, TypeOKAuth
<1> HIDE DEF l
<1>5. RelojesRecientes'
  BY <1>1, <1>2, <1>3 DEF IInvAuth, RelojesRecientes
<1>6. HitsDeLasUltimas' /\ VentanaRespetada'
  BY <1>1 DEF IInvAuth, HitsDeLasUltimas, Olvidadas, VentanaRespetada
<1>7. AspirantesAcotados'
  BY <1>1, <1>2, <1>3, NadieAspira DEF IInvAuth
<1> QED BY <1>4, <1>5, <1>6, <1>7 DEF IInvAuth

\* One request too many: the hits that are left are still of the last requests.
LEMMA PasoRechazar ==
  ASSUME IInvAuth, NEW h \in Hilos, llamada[h].fase = "limite",
         hits' = Recortado(hits, llamada[h].ahora - Ventana),
         PoneLlamada(h, Ociosa), UNCHANGED <<reloj, pasadas, usuarios>>
  PROVE  IInvAuth'
<1>1. /\ llamada \in [Hilos -> Llamada] /\ reloj \in Nat
      /\ llamada[h].ahora \in Nat /\ llamada[h].ahora <= reloj
  BY EsLlamada DEF IInvAuth, TypeOKAuth, RelojesRecientes
<1>2. /\ hits' \in Seq(Nat) /\ Len(hits') <= Len(hits)
      /\ \A i \in 1 .. Len(hits') : pasadas[Len(pasadas) - Len(hits') + i] - hits'[i] <= Retraso
      /\ \A i \in 1 .. Len(pasadas) - Len(hits') : reloj - pasadas[i] > Ventana - Retraso
  BY <1>1, PodaConserva DEF IInvAuth
<1>3. /\ llamada' \in [Hilos -> Llamada]
      /\ \A g \in Hilos : llamada'[g] = IF g = h THEN Ociosa ELSE llamada[g]
  BY <1>1, Llamadas DEF PoneLlamada
<1>4. TypeOKAuth'
  BY <1>2, <1>3 DEF IInvAuth, TypeOKAuth
<1>5. RelojesRecientes'
  BY <1>3 DEF IInvAuth, RelojesRecientes, Ociosa
<1>6. Len(hits) <= Len(pasadas) /\ Len(hits) <= MaxPeticiones
      /\ hits \in Seq(Nat) /\ pasadas \in Seq(Nat)
      /\ \A i \in DOMAIN pasadas : pasadas[i] <= reloj
  BY DEF IInvAuth, TypeOKAuth, HitsDeLasUltimas
<1>7. HitsDeLasUltimas'
  BY <1>2, <1>6 DEF HitsDeLasUltimas, Olvidadas
<1>8. VentanaRespetada'
  BY DEF IInvAuth, VentanaRespetada
<1>9. AspirantesAcotados'
  BY <1>3, NadieAspira DEF IInvAuth, Ociosa
<1> QED BY <1>4, <1>5, <1>7, <1>8, <1>9 DEF IInvAuth

\* One request more: the MaxPeticiones-th before it is no longer among the hits.
LEMMA PasoDejarPasar ==
  ASSUME IInvAuth, NEW h \in Hilos, llamada[h].fase = "limite",
         NEW quedan, quedan = Recortado(hits, llamada[h].ahora - Ventana),
         Len(quedan) < MaxPeticiones, hits' = Append(quedan, llamada[h].ahora),
         pasadas' = Append(pasadas, reloj),
         PoneLlamada(h, [fase |-> "dentro"]), UNCHANGED <<reloj, usuarios>>
  PROVE  IInvAuth'
<1> DEFINE l == [fase |-> "dentro"]
           now == llamada[h].ahora
           p == Len(pasadas)
           q == Len(quedan)
<1>1. /\ llamada \in [Hilos -> Llamada] /\ reloj \in Nat /\ pasadas \in Seq(Nat)
      /\ now \in Nat /\ now <= reloj /\ reloj - now <= Retraso
  BY EsLlamada DEF IInvAuth, TypeOKAuth, RelojesRecientes
<1>2. /\ quedan \in Seq(Nat) /\ q <= Len(hits)
      /\ \A i \in 1 .. q : pasadas[p - q + i] - quedan[i] <= Retraso
      /\ \A i \in 1 .. p - q : reloj - pasadas[i] > Ventana - Retraso
  BY <1>1, PodaConserva DEF IInvAuth
<1>3. p \in Nat /\ q \in Nat /\ q <= p /\ q < MaxPeticiones
  BY <1>1, <1>2 DEF IInvAuth, TypeOKAuth, HitsDeLasUltimas
<1>4. /\ hits' \in Seq(Nat) /\ Len(hits') = q + 1 /\ hits'[q + 1] = now
      /\ \A i \in 1 .. q : hits'[i] = quedan[i]
  BY <1>1, <1>2
<1>5. /\ pasadas' \in Seq(Nat) /\ Len(pasadas') = p + 1 /\ pasadas'[p + 1] = reloj
      /\ \A i \in 1 .. p : pasadas'[i] = pasadas[i] /\ pasadas[i] \in Nat
  BY <1>1, SMTT(30)
<1>6. llamada' \in [Hilos -> Llamada] /\ \A g \in Hilos : llamada'[g] = IF g = h THEN l ELSE llamada[g]
  BY <1>1, Llamadas DEF PoneLlamada
<1>7. TypeOKAuth'
  BY <1>4, <1>5, <1>6 DEF IInvAuth, TypeOKAuth
<1>8. RelojesRecientes'
  BY <1>6 DEF IInvAuth, RelojesRecientes
<1>9. /\ DOMAIN pasadas = 1 .. p /\ DOMAIN pasadas' = 1 .. p + 1 /\ Olvidadas' = p - q
      /\ \A i \in 1 .. p : pasadas[i] <= reloj
  BY <1>1, <1>3, <1>4, <1>5, SMTT(30) DEF IInvAuth, HitsDeLasUltimas, Olvidadas
<1> HIDE DEF p, q, now, l
<1>10. HitsDeLasUltimas'
  <2>1. Len(hits') <= Len(pasadas') /\ Len(hits') <= MaxPeticiones
    BY <1>3, <1>4, <1>5
  <2>2. \A i \in DOMAIN pasadas' : pasadas'[i] <= reloj'
    BY <1>1, <1>3, <1>5, <1>9
  <2>3. ASSUME NEW i \in 1 .. Len(hits')
        PROVE  pasadas'[Olvidadas' + i] - hits'[i] <= Retraso
    <3>1. CASE i = q + 1
      BY <1>1, <1>3, <1>4, <1>5, <1>9, <3>1, SMTT(30)
    <3>2. CASE i # q + 1
      <4>1. i \in 1 .. q /\ p - q + i \in 1 .. p
        BY <1>3, <1>4, <3>2, SMTT(30)
      <4> QED BY <1>2, <1>4, <1>5, <1>9, <4>1
    <3> QED BY <3>1, <3>2
  <2>4. ASSUME NEW i \in 1 .. Olvidadas'
        PROVE  reloj' - pasadas'[i] > Ventana - Retraso
    <3>1. i \in 1 .. p - q /\ i \in 1 .. p
      BY <1>3, <1>9
    <3> QED BY <1>2, <1>5, <3>1
  <2> QED BY <2>1, <2>2, <2>3, <2>4 DEF HitsDeLasUltimas
<1>11. VentanaRespetada'
  <2> SUFFICES ASSUME NEW i \in 1 .. p + 1, NEW j \in 1 .. p + 1, j - i >= MaxPeticiones
               PROVE  pasadas'[j] - pasadas'[i] > Ventana - Retraso
    BY <1>9 DEF VentanaRespetada
  <2>1. CASE j = p + 1
    <3>1. i \in 1 .. p - q /\ i \in 1 .. p
      BY <1>3, <2>1
    <3> QED BY <1>2, <1>5, <2>1, <3>1
  <2>2. CASE j # p + 1
    <3>1. j \in 1 .. p /\ i \in 1 .. p
      BY <1>3, <2>2
    <3> QED BY <1>5, <1>9, <3>1 DEF IInvAuth, VentanaRespetada
  <2> QED BY <2>1, <2>2
<1>12. AspirantesAcotados'
  BY <1>6, NadieAspira DEF IInvAuth, l
<1> QED BY <1>7, <1>8, <1>10, <1>11, <1>12 DEF IInvAuth

LEMMA PasoRegistro ==
  ASSUME IInvAuth, NEW h \in Hilos, NEW l \in Llamada, PoneLlamada(h, l), l.fase # "limite",
         usuarios' \subseteq Nombres \X Buzones, UNCHANGED <<reloj, hits, pasadas>>, AspirantesAcotados'
  PROVE  IInvAuth'
<1>1. RelojesRecientes' /\ HitsDeLasUltimas' /\ VentanaRespetada' /\ llamada' \in [Hilos -> Llamada]
  BY SinTocarElLimite
<1>2. TypeOKAuth'
  BY <1>1 DEF IInvAuth, TypeOKAuth
<1> QED BY <1>1, <1>2 DEF IInvAuth

\* What the checks of a name say of those who aspire to it and of those who have it.
LEMMA Contados ==
  ASSUME IInvAuth, NEW n \in Nombres
  PROVE  /\ IsFiniteSet(Tocayos(n)) /\ Cardinality(Tocayos(n)) \in Nat
         /\ Aspirantes(n) \subseteq Hilos /\ IsFiniteSet(Aspirantes(n)) /\ Cardinality(Aspirantes(n)) \in Nat
         /\ Cardinality(Hilos) \in Nat
         /\ Cardinality(Tocayos(n)) + Cardinality(Aspirantes(n)) <= Cardinality(Hilos)
<1>1. Aspirantes(n) \subseteq Hilos
  BY DEF Aspirantes
<1> QED BY <1>1, FS_Subset, FS_CardinalityType DEF IInvAuth, AspirantesAcotados

LEMMA PasoBuscarNombre ==
  ASSUME IInvAuth, NEW h \in Hilos, NEW n \in Nombres, NEW b \in Buzones, BuscarNombre(h, n, b)
  PROVE  IInvAuth'
<1> DEFINE l == [fase |-> "correo", nombre |-> n, buzon |-> b]
<1>1. llamada \in [Hilos -> Llamada] /\ UNCHANGED <<reloj, hits, pasadas, usuarios>>
      /\ usuarios \subseteq Nombres \X Buzones
  BY DEF IInvAuth, TypeOKAuth, BuscarNombre
<1>2. CASE \E u \in usuarios : Plegado[u[1]] = Plegado[n]
  <2>1. llamada' = [llamada EXCEPT ![h] = Ociosa]
    BY <1>2 DEF BuscarNombre, PoneLlamada
  <2>2. AspirantesAcotados'
    BY <1>1, <2>1, NadieAspira DEF IInvAuth, Ociosa
  <2> QED BY <1>1, <2>1, <2>2, Llamadas, PasoRegistro DEF PoneLlamada, Ociosa
<1>3. CASE ~\E u \in usuarios : Plegado[u[1]] = Plegado[n]
  <2>1. llamada' = [llamada EXCEPT ![h] = l]
    BY <1>3 DEF BuscarNombre, PoneLlamada
  <2>2. l \in Llamada /\ l.fase = "correo" /\ l.nombre = n
    BY Llamadas
  <2> HIDE DEF l
  <2>3. \A g \in Hilos : llamada'[g] = IF g = h THEN l ELSE llamada[g]
    BY <1>1, <2>1
  <2>4. ASSUME NEW m \in Nombres
        PROVE  /\ IsFiniteSet(Tocayos(m)')
               /\ Cardinality(Tocayos(m)') + Cardinality(Aspirantes(m)') <= Cardinality(Hilos)
    <3>1. Tocayos(m)' = Tocayos(m) /\ Aspirantes(m)' \subseteq Hilos
      BY <1>1 DEF Tocayos, Aspirantes
    <3>2. CASE Plegado[m] = Plegado[n]
      <4>1. Tocayos(m) = {}
        BY <1>3, <3>2 DEF Tocayos
      <4>2. Cardinality(Aspirantes(m)') <= Cardinality(Hilos) /\ Cardinality(Aspirantes(m)') \in Nat
        BY <3>1, FS_Subset, FS_CardinalityType
      <4> QED BY <3>1, <4>1, <4>2, FS_EmptySet
    <3>3. CASE Plegado[m] # Plegado[n]
      <4>1. Aspirantes(m)' \subseteq Aspirantes(m)
        BY <2>2, <2>3, <3>3 DEF Aspirantes
      <4>2. Cardinality(Aspirantes(m)') <= Cardinality(Aspirantes(m)) /\ Cardinality(Aspirantes(m)') \in Nat
        BY <4>1, Contados, FS_Subset, FS_CardinalityType
      <4> QED BY <3>1, <4>2, Contados
    <3> QED BY <3>2, <3>3
  <2>5. AspirantesAcotados'
    BY <2>4 DEF AspirantesAcotados
  <2> QED BY <1>1, <2>1, <2>2, <2>5, PasoRegistro DEF PoneLlamada
<1> QED BY <1>2, <1>3

LEMMA PasoBuscarCorreo ==
  ASSUME IInvAuth, NEW h \in Hilos, BuscarCorreo(h)
  PROVE  IInvAuth'
<1> DEFINE l == [llamada[h] EXCEPT !.fase = "crear"]
<1>1. /\ llamada \in [Hilos -> Llamada] /\ UNCHANGED <<reloj, hits, pasadas, usuarios>>
      /\ usuarios \subseteq Nombres \X Buzones /\ llamada[h].fase = "correo"
  BY DEF IInvAuth, TypeOKAuth, BuscarCorreo
<1>2. l \in Llamada /\ l.fase = "crear" /\ l.nombre = llamada[h].nombre
  <2>1. /\ llamada[h] = [fase |-> "correo", nombre |-> llamada[h].nombre, buzon |-> llamada[h].buzon]
        /\ llamada[h].nombre \in Nombres /\ llamada[h].buzon \in Buzones
    BY <1>1, EsLlamada
  <2>2. l = [fase |-> "crear", nombre |-> llamada[h].nombre, buzon |-> llamada[h].buzon]
    BY <2>1
  <2> QED BY <2>1, <2>2, Llamadas
<1> HIDE DEF l
<1>3. PICK x \in {Ociosa, l} : PoneLlamada(h, x)
  BY DEF BuscarCorreo, l
<1>4. x \in Llamada /\ x.fase # "limite"
      /\ (x.fase \in {"correo", "crear"} => x.nombre = llamada[h].nombre)
  BY <1>2, Llamadas DEF Ociosa
<1>5. \A g \in Hilos : llamada'[g] = IF g = h THEN x ELSE llamada[g]
  BY <1>1, <1>3 DEF PoneLlamada
<1>6. AspirantesAcotados'
  BY <1>1, <1>4, <1>5, NadieAspira DEF IInvAuth
<1> QED BY <1>1, <1>3, <1>4, <1>6, PasoRegistro

\* The thread that creates a user aspires no longer.
LEMMA PasoCrearUsuario ==
  ASSUME IInvAuth, NEW h \in Hilos, CrearUsuario(h)
  PROVE  IInvAuth'
<1> DEFINE x == <<llamada[h].nombre, llamada[h].buzon>>
<1>1. /\ llamada \in [Hilos -> Llamada] /\ UNCHANGED <<reloj, hits, pasadas>>
      /\ usuarios \subseteq Nombres \X Buzones /\ llamada[h].fase = "crear"
      /\ PoneLlamada(h, Ociosa)
  BY DEF IInvAuth, TypeOKAuth, CrearUsuario
<1>2. llamada[h].nombre \in Nombres /\ x \in Nombres \X Buzones /\ x[1] = llamada[h].nombre
  BY <1>1, EsLlamada
<1>3. \A g \in Hilos : llamada'[g] = IF g = h THEN Ociosa ELSE llamada[g]
  BY <1>1 DEF PoneLlamada
<1>4. usuarios' = usuarios \/ usuarios' = usuarios \cup {x}
  BY DEF CrearUsuario
<1> HIDE DEF x
<1>5. usuarios' \subseteq Nombres \X Buzones
  BY <1>1, <1>2, <1>4
<1>6. ASSUME NEW m \in Nombres
      PROVE  /\ IsFiniteSet(Tocayos(m)')
             /\ Cardinality(Tocayos(m)') + Cardinality(Aspirantes(m)') <= Cardinality(Hilos)
  <2>1. CASE Plegado[llamada[h].nombre] = Plegado[m]
    <3>1. h \in Aspirantes(m) /\ Aspirantes(m)' = Aspirantes(m) \ {h}
      BY <1>1, <1>3, <2>1 DEF Aspirantes, Ociosa
    <3>2. Cardinality(Aspirantes(m)') = Cardinality(Aspirantes(m)) - 1
      BY <3>1, Contados, FS_RemoveElement
    <3>3. Tocayos(m)' = Tocayos(m) \/ Tocayos(m)' = Tocayos(m) \cup {x}
      BY <1>2, <1>4, <2>1 DEF Tocayos
    <3>4. /\ IsFiniteSet(Tocayos(m)') /\ Cardinality(Tocayos(m)') \in Nat
          /\ Cardinality(Tocayos(m)') <= Cardinality(Tocayos(m)) + 1
      <4>1. IsFiniteSet(Tocayos(m)) /\ Cardinality(Tocayos(m)) \in Nat
        BY Contados
      <4>2. /\ IsFiniteSet(Tocayos(m) \cup {x})
            /\ Cardinality(Tocayos(m) \cup {x}) \in Nat
            /\ Cardinality(Tocayos(m) \cup {x}) <= Cardinality(Tocayos(m)) + 1
        BY <4>1, ConUnoMas
      <4>3. CASE Tocayos(m)' = Tocayos(m)
        BY <4>1, <4>3
      <4>4. CASE Tocayos(m)' = Tocayos(m) \cup {x}
        BY <4>2, <4>4
      <4> QED BY <3>3, <4>3, <4>4
    <3> QED BY <3>2, <3>4, Contados
  <2>2. CASE Plegado[llamada[h].nombre] # Plegado[m]
    <3>1. Aspirantes(m)' = Aspirantes(m)
      BY <1>1, <1>3, <2>2 DEF Aspirantes, Ociosa
    <3>2. Tocayos(m)' = Tocayos(m)
      BY <1>2, <1>4, <2>2 DEF Tocayos
    <3> QED BY <3>1, <3>2, Contados
  <2> QED BY <2>1, <2>2
<1>7. AspirantesAcotados'
  BY <1>6 DEF AspirantesAcotados
<1> QED BY <1>1, <1>5, <1>7, Llamadas, PasoRegistro DEF Ociosa

LEMMA PasoTiempoAuth ==
  ASSUME IInvAuth, TiempoAuth
  PROVE  IInvAuth'
<1>1. /\ reloj \in Nat /\ reloj' = reloj + 1 /\ reloj' \in 0 .. MaxReloj
      /\ UNCHANGED <<hits, llamada, pasadas, usuarios>>
  BY DEF IInvAuth, TypeOKAuth, TiempoAuth, PasaElTiempo
<1>2. TypeOKAuth'
  BY <1>1 DEF IInvAuth, TypeOKAuth
<1>3. RelojesRecientes'
  <2> SUFFICES ASSUME NEW h \in Hilos, llamada[h].fase = "limite"
               PROVE  llamada[h].ahora <= reloj' /\ reloj' - llamada[h].ahora <= Retraso
    BY <1>1 DEF RelojesRecientes
  <2>1. llamada[h].ahora \in Nat /\ llamada[h].ahora <= reloj /\ reloj - llamada[h].ahora < Retraso
    BY EsLlamada DEF IInvAuth, TypeOKAuth, RelojesRecientes, TiempoAuth
  <2> QED BY <1>1, <2>1
<1>4. /\ pasadas \in Seq(Nat) /\ Olvidadas' = Olvidadas /\ Olvidadas \in Nat
      /\ Olvidadas <= Len(pasadas)
  BY <1>1 DEF IInvAuth, TypeOKAuth, HitsDeLasUltimas, Olvidadas
<1>5. \A i \in DOMAIN pasadas : pasadas[i] \in Nat /\ pasadas[i] <= reloj
  BY <1>4 DEF IInvAuth, HitsDeLasUltimas
<1>6. \A i \in DOMAIN pasadas : pasadas[i] <= reloj'
  BY <1>1, <1>5
<1>7. ASSUME NEW i \in 1 .. Olvidadas PROVE reloj' - pasadas[i] > Ventana - Retraso
  <2>1. pasadas[i] \in Nat
    BY <1>4, <1>5
  <2>2. reloj - pasadas[i] > Ventana - Retraso
    BY DEF IInvAuth, HitsDeLasUltimas
  <2> QED BY <1>1, <2>1, <2>2
<1>8. HitsDeLasUltimas'
  BY <1>1, <1>4, <1>6, <1>7 DEF IInvAuth, HitsDeLasUltimas
<1>9. VentanaRespetada' /\ AspirantesAcotados'
  BY <1>1, NadieAspira DEF IInvAuth, VentanaRespetada
<1> QED BY <1>2, <1>3, <1>8, <1>9 DEF IInvAuth

LEMMA PasoAuthTodo == IInvAuth /\ [NextAuth]_varsAuth => IInvAuth'
<1> SUFFICES ASSUME IInvAuth, [NextAuth]_varsAuth PROVE IInvAuth'
  OBVIOUS
<1>1. ASSUME NEW h \in Hilos, Limitar(h) PROVE IInvAuth'
  <2> DEFINE quedan == Recortado(hits, llamada[h].ahora - Ventana)
  <2>1. llamada[h].fase = "limite" /\ UNCHANGED <<reloj, usuarios>>
    BY <1>1 DEF Limitar
  <2>2. CASE Len(quedan) >= MaxPeticiones
    <3>1. hits' = quedan /\ PoneLlamada(h, Ociosa) /\ UNCHANGED pasadas
      BY <1>1, <2>2 DEF Limitar
    <3> QED BY <2>1, <3>1, PasoRechazar
  <2>3. CASE ~(Len(quedan) >= MaxPeticiones)
    <3>1. /\ hits' = Append(quedan, llamada[h].ahora) /\ pasadas' = Append(pasadas, reloj)
          /\ PoneLlamada(h, [fase |-> "dentro"])
      BY <1>1, <2>3 DEF Limitar
    <3>2. Len(quedan) < MaxPeticiones
      <4>1. llamada[h].ahora \in Nat /\ llamada[h].ahora <= reloj
        BY <2>1, EsLlamada DEF IInvAuth, TypeOKAuth, RelojesRecientes
      <4>2. quedan \in Seq(Nat)
        BY <4>1, PodaConserva DEF IInvAuth
      <4>3. Len(quedan) \in Nat
        BY <4>2
      <4> HIDE DEF quedan
      <4> QED BY <2>3, <4>3
    <3> QED BY <2>1, <3>1, <3>2, PasoDejarPasar
  <2> QED BY <2>2, <2>3
<1>2. ASSUME NEW h \in Hilos, Atender(h) PROVE IInvAuth'
  <2>1. /\ PoneLlamada(h, Ociosa) /\ UNCHANGED <<reloj, hits, pasadas, usuarios>>
        /\ usuarios \subseteq Nombres \X Buzones /\ llamada \in [Hilos -> Llamada]
    BY <1>2 DEF Atender, IInvAuth, TypeOKAuth
  <2>2. AspirantesAcotados'
    BY <2>1, NadieAspira DEF IInvAuth, PoneLlamada, Ociosa
  <2> QED BY <2>1, <2>2, Llamadas, PasoRegistro DEF Ociosa
<1>3. ASSUME NEW h \in Hilos, PasoAuth(h) PROVE IInvAuth'
  BY <1>1, <1>2, <1>3, PasoLeerReloj, PasoBuscarNombre, PasoBuscarCorreo, PasoCrearUsuario DEF PasoAuth
<1>4. CASE UNCHANGED varsAuth
  <2>1. UNCHANGED <<reloj, hits, llamada, pasadas, usuarios>>
    BY <1>4 DEF varsAuth
  <2>2. AspirantesAcotados'
    BY <2>1, NadieAspira DEF IInvAuth
  <2> QED BY <2>1, <2>2 DEF IInvAuth, TypeOKAuth, RelojesRecientes, HitsDeLasUltimas, Olvidadas,
                            VentanaRespetada
<1> QED BY <1>3, <1>4, PasoTiempoAuth DEF NextAuth

\* The inductive invariant holds in every behaviour.
THEOREM InvarianteAuth == SpecAuth => []IInvAuth
BY InicioAuth, PasoAuthTodo, PTL DEF SpecAuth

\* The list of hits, the calls under way and the stored users keep their types.
THEOREM TiposAuth == SpecAuth => []TypeOKAuth
<1>1. IInvAuth => TypeOKAuth
  BY DEF IInvAuth
<1> QED BY <1>1, InvarianteAuth, PTL

\* SlidingWindowRateLimiter lets at most MaxPeticiones pass in a window less the
\* wait for its lock, in whatever order the threads that read the clock take it.
THEOREM Ventanas == SpecAuth => []VentanaRespetada
<1>1. IInvAuth => VentanaRespetada
  BY DEF IInvAuth
<1> QED BY <1>1, InvarianteAuth, PTL

\* The names that register stores and that differ only in case are no more than
\* the threads that may have looked for them at once.
THEOREM NombresAcotados == SpecAuth => []TocayosAcotados
<1>1. IInvAuth => TocayosAcotados
  <2> SUFFICES ASSUME IInvAuth, NEW n \in Nombres PROVE Cardinality(Tocayos(n)) <= Cardinality(Hilos)
    BY DEF TocayosAcotados, Tocayos
  <2> QED BY Contados
<1> QED BY <1>1, InvarianteAuth, PTL

HIDE ConstantesAuth

------------------------------------------------------------------------------
(* The attempts at the admin login *)

USE ConstantesAdmin

IInvAdmin == TypeOKAdmin /\ IntentosContados

\* A write that loses an attempt adds one limit to the bound.
LEMMA UnLimiteMas ==
  ASSUME NEW L \in Nat, NEW n \in Nat
  PROVE  L * n \in Nat /\ L * (n + 1) = L * n + L
OBVIOUS

LEMMA ValorAcotado == TypeOKAdmin => Valor \in 0 .. LimiteIntentos
BY DEF TypeOKAdmin, Valor

LEMMA InicioAdmin == InitAdmin => IInvAdmin
<1> SUFFICES ASSUME InitAdmin PROVE IInvAdmin
  OBVIOUS
<1>1. TypeOKAdmin
  BY DEF InitAdmin, TypeOKAdmin
<1>2. Valor = 0
  BY DEF InitAdmin, Valor
<1>3. IntentosContados
  BY <1>2 DEF InitAdmin, IntentosContados
<1> QED BY <1>1, <1>3 DEF IInvAdmin

LEMMA PasoLeerIntentos ==
  ASSUME IInvAdmin, NEW h \in Hilos, LeerIntentos(h)
  PROVE  IInvAdmin'
<1>1. Valor \in 0 .. LimiteIntentos - 1
  BY ValorAcotado DEF IInvAdmin, LeerIntentos
<1>2. TypeOKAdmin'
  BY <1>1 DEF IInvAdmin, TypeOKAdmin, LeerIntentos
<1>3. IntentosContados'
  BY DEF IInvAdmin, IntentosContados, LeerIntentos, Valor
<1> QED BY <1>2, <1>3 DEF IInvAdmin

LEMMA PasoContarIntento ==
  ASSUME IInvAdmin, NEW h \in Hilos, ContarIntento(h)
  PROVE  IInvAdmin'
<1> DEFINE L == LimiteIntentos
<1>1. PICK n \in 0 .. LimiteIntentos - 1 : intento[h] = {n}
  BY DEF IInvAdmin, TypeOKAdmin, ContarIntento
<1>2. /\ contador' = [attempts |-> n + 1, expira |-> reloj + VentanaAdmin]
      /\ pisados' = IF n # Valor THEN pisados + 1 ELSE pisados
      /\ intento' = [intento EXCEPT ![h] = {}]
      /\ pasados' = pasados + 1
      /\ reloj' = reloj
  BY <1>1 DEF ContarIntento
<1>3. /\ reloj \in Nat /\ pasados \in Nat /\ pisados \in Nat
      /\ Valor \in 0 .. LimiteIntentos
      /\ pasados <= Valor + LimiteIntentos * pisados
  BY ValorAcotado DEF IInvAdmin, TypeOKAdmin, IntentosContados
<1>4. TypeOKAdmin'
  BY <1>2, <1>3 DEF IInvAdmin, TypeOKAdmin
<1>5. Valor' = n + 1
  BY <1>2, <1>3 DEF Valor
<1>6. /\ LimiteIntentos * pisados \in Nat
      /\ LimiteIntentos * (pisados + 1) = LimiteIntentos * pisados + LimiteIntentos
  BY <1>3, UnLimiteMas
<1>7. pasados + 1 <= n + 1 + LimiteIntentos * pisados'
  <2>1. CASE n = Valor
    <3>1. pisados' = pisados
      BY <1>2, <2>1
    <3> QED BY <1>3, <1>6, <2>1, <3>1
  <2>2. CASE n # Valor
    <3>1. LimiteIntentos * pisados' = LimiteIntentos * pisados + LimiteIntentos
      BY <1>2, <1>6, <2>2
    <3> QED BY <1>3, <1>6, <3>1
  <2> QED BY <2>1, <2>2
<1>8. IntentosContados'
  BY <1>2, <1>5, <1>7 DEF IntentosContados
<1> QED BY <1>4, <1>8 DEF IInvAdmin

\* The count expires at once or stays, and with it the attempts it stands for.
LEMMA PasoTiempoAdmin ==
  ASSUME IInvAdmin, TiempoAdmin
  PROVE  IInvAdmin'
<1>1. /\ reloj \in Nat /\ pasados \in Nat /\ pisados \in Nat
      /\ contador.attempts \in Nat /\ contador.expira \in Nat
      /\ pasados <= Valor + LimiteIntentos * pisados
  BY DEF IInvAdmin, TypeOKAdmin, IntentosContados
<1>2. reloj' = reloj + 1 /\ contador' = contador /\ intento' = intento
  BY DEF TiempoAdmin, PasaElTiempo
<1>3. CASE Valor > 0 /\ reloj' > contador.expira
  <2>1. pasados' = 0 /\ pisados' = 0
    BY <1>3 DEF TiempoAdmin
  <2>2. Valor' = 0 /\ LimiteIntentos * pisados' = 0
    BY <1>1, <1>2, <1>3, <2>1 DEF Valor
  <2>3. IntentosContados'
    BY <2>1, <2>2 DEF IntentosContados
  <2>4. TypeOKAdmin'
    BY <1>1, <1>2, <2>1 DEF IInvAdmin, TypeOKAdmin
  <2> QED BY <2>3, <2>4 DEF IInvAdmin
<1>4. CASE ~(Valor > 0 /\ reloj' > contador.expira)
  <2>1. pasados' = pasados /\ pisados' = pisados
    BY <1>4 DEF TiempoAdmin
  <2>2. Valor' = Valor
    BY <1>1, <1>2, <1>4 DEF Valor
  <2>3. IntentosContados'
    BY <1>1, <2>1, <2>2 DEF IntentosContados
  <2>4. TypeOKAdmin'
    BY <1>1, <1>2, <2>1 DEF IInvAdmin, TypeOKAdmin
  <2> QED BY <2>3, <2>4 DEF IInvAdmin
<1> QED BY <1>3, <1>4

LEMMA PasoAdmin == IInvAdmin /\ [NextAdmin]_varsAdmin => IInvAdmin'
<1> SUFFICES ASSUME IInvAdmin, [NextAdmin]_varsAdmin PROVE IInvAdmin'
  OBVIOUS
<1>1. ASSUME NEW h \in Hilos, LeerIntentos(h) \/ ContarIntento(h) PROVE IInvAdmin'
  BY <1>1, PasoLeerIntentos, PasoContarIntento
<1>2. ASSUME TiempoAdmin PROVE IInvAdmin'
  BY <1>2, PasoTiempoAdmin
<1>3. CASE UNCHANGED varsAdmin
  BY <1>3 DEF varsAdmin, IInvAdmin, TypeOKAdmin, IntentosContados, Valor
<1> QED BY <1>1, <1>2, <1>3 DEF NextAdmin

\* Types of the counter of AdminLoginRateLimitMiddleware and of what threads read.
THEOREM TiposAdmin == SpecAdmin => []TypeOKAdmin
<1>1. SpecAdmin => []IInvAdmin
  BY InicioAdmin, PasoAdmin, PTL DEF SpecAdmin
<1>2. IInvAdmin => TypeOKAdmin
  BY DEF IInvAdmin
<1> QED BY <1>1, <1>2, PTL

\* The attempts that the middleware lets through are counted, but for at most one
\* limit for each write over a count that had changed since it was read.
THEOREM Intentos == SpecAdmin => []IntentosContados
<1>1. SpecAdmin => []IInvAdmin
  BY InicioAdmin, PasoAdmin, PTL DEF SpecAdmin
<1>2. IInvAdmin => IntentosContados
  BY DEF IInvAdmin
<1> QED BY <1>1, <1>2, PTL

HIDE ConstantesAdmin

------------------------------------------------------------------------------
(* The push notices: the inductive invariant *)

USE ConstantesPush

\* The notices that a thread is still to push: those of the loop it is in, or
\* will read.
Pendiente(h, x) ==
  LET t == empuje[h]
  IN \/ t.fase = "listar" /\ t.aviso = x[1]
     \/ t.fase \in {"empujar", "borrar"} /\ t.aviso = x[1] /\ x[2] \in t.faltan

\* The ones that no thread will push any more.
Perdidos == {x \in debidos : ~\E h \in HilosPush : Pendiente(h, x)}

PerdidosAcotados ==
  IsFiniteSet(Perdidos) /\ Cardinality(Perdidos) <= fallosPush + caidasPush * Cardinality(Extremos)

\* A row is that of the browser until its endpoint expires.
FilasAlDia == \A e \in Extremos : e \notin vencidos => suscripcion[e] = abonado[e]

DebidosVivos == \A x \in debidos : x[2] \notin vencidos /\ notificacion[x[1]] # "no hay"

\* A thread about to read the subscriptions of an account is owed by its browsers.
ListadosDebidos ==
  \A h \in HilosPush :
    /\ empuje[h].fase = "listar"
       => /\ notificacion[empuje[h].aviso] # "no hay"
          /\ \A x \in debidos : x[1] = empuje[h].aviso => abonado[x[2]] = {empuje[h].usuario}
    /\ empuje[h].fase = "borrar" => empuje[h].extremo \in vencidos

IInvPush ==
  /\ TypeOKPush
  /\ FilasAlDia
  /\ DebidosVivos
  /\ ListadosDebidos
  /\ PerdidosAcotados

LEMMA Empujes ==
  /\ SinEmpuje \in Empujando /\ SinEmpuje.fase = "quieto"
  /\ \A n \in Notificaciones, u \in Suscriptores :
       LET t == [fase |-> "listar", aviso |-> n, usuario |-> u]
       IN t \in Empujando /\ t.fase = "listar" /\ t.aviso = n /\ t.usuario = u
  /\ \A n \in Notificaciones, f \in SUBSET Extremos :
       LET t == [fase |-> "empujar", aviso |-> n, faltan |-> f]
       IN t \in Empujando /\ t.fase = "empujar" /\ t.aviso = n /\ t.faltan = f
  /\ \A n \in Notificaciones, f \in SUBSET Extremos, e \in Extremos :
       LET t == [fase |-> "borrar", aviso |-> n, faltan |-> f, extremo |-> e]
       IN t \in Empujando /\ t.fase = "borrar" /\ t.aviso = n /\ t.faltan = f /\ t.extremo = e
  /\ \A n \in Notificaciones :
       LET t == [fase |-> "leer", aviso |-> n] IN t \in Empujando /\ t.fase = "leer" /\ t.aviso = n
BY DEF SinEmpuje, Empujando

LEMMA EsEmpuje ==
  ASSUME NEW t \in Empujando
  PROVE  /\ t.fase \in {"quieto", "listar", "empujar", "borrar", "leer"}
         /\ t.fase # "quieto" => t.aviso \in Notificaciones
         /\ t.fase = "listar" => t.usuario \in Suscriptores
         /\ t.fase \in {"empujar", "borrar"} => t.faltan \in SUBSET Extremos
         /\ t.fase = "borrar" => t.extremo \in Extremos
         /\ t.fase = "quieto" => t = SinEmpuje
BY DEF SinEmpuje, Empujando

\* The rest of a loop is pending, all of it.
LEMMA UnPar ==
  ASSUME TypeOKPush, NEW x \in debidos
  PROVE  x = <<x[1], x[2]>> /\ x[1] \in Notificaciones /\ x[2] \in Extremos
<1>1. x \in Notificaciones \X Extremos
  BY DEF TypeOKPush
<1> QED BY <1>1

LEMMA ElResto ==
  ASSUME NEW n \in Notificaciones, NEW f \in SUBSET Extremos
  PROVE  /\ Resto(n, f) \in Empujando /\ Resto(n, f).fase \in {"quieto", "empujar"}
         /\ f # {} => Resto(n, f).fase = "empujar" /\ Resto(n, f).aviso = n /\ Resto(n, f).faltan = f
BY Empujes DEF Resto

LEMMA TrasEmpujar ==
  ASSUME TypeOKPush, NEW h \in HilosPush, NEW t \in Empujando, Empuja(h, t)
  PROVE  /\ empuje' \in [HilosPush -> Empujando] /\ empuje'[h] = t
         /\ \A g \in HilosPush : g # h => empuje'[g] = empuje[g]
BY DEF TypeOKPush, Empuja

\* What no thread drops is not lost.
LEMMA NadaSePierde ==
  ASSUME IInvPush, Perdidos' \subseteq Perdidos, fallosPush' = fallosPush, caidasPush' = caidasPush
  PROVE  PerdidosAcotados'
<1>1. IsFiniteSet(Perdidos) /\ Cardinality(Perdidos) <= fallosPush + caidasPush * Cardinality(Extremos)
  BY DEF IInvPush, PerdidosAcotados
<1>2. IsFiniteSet(Perdidos') /\ Cardinality(Perdidos') \in Nat /\ Cardinality(Perdidos) \in Nat
      /\ Cardinality(Perdidos') <= Cardinality(Perdidos)
  BY <1>1, Parte
<1>3. fallosPush + caidasPush * Cardinality(Extremos) \in Nat
  <2>1. fallosPush \in Nat /\ caidasPush \in Nat /\ Cardinality(Extremos) \in Nat
    BY FS_CardinalityType DEF IInvPush, TypeOKPush
  <2> QED BY <2>1
<1>4. Cardinality(Perdidos') <= fallosPush' + caidasPush' * Cardinality(Extremos)
  BY <1>1, <1>2, <1>3
<1> QED BY <1>2, <1>4 DEF PerdidosAcotados

LEMMA PasoCrearNotificacion ==
  ASSUME IInvPush, NEW h \in HilosPush, NEW n \in Notificaciones, NEW u \in Suscriptores, CrearNotificacion(h, n, u)
  PROVE  IInvPush'
<1> DEFINE t == [fase |-> "listar", aviso |-> n, usuario |-> u]
           nuevos == {<<n, e>> : e \in {e \in Extremos \ vencidos : abonado[e] = {u}}}
<1>1. /\ empuje[h] = SinEmpuje /\ notificacion[n] = "no hay"
      /\ notificacion' = [notificacion EXCEPT ![n] = "nueva"]
      /\ Empuja(h, t) /\ debidos' = debidos \cup nuevos
      /\ UNCHANGED <<suscripcion, vencidos, abonado, fallosPush, caidasPush>>
  BY DEF CrearNotificacion
<1>2. t \in Empujando /\ t.fase = "listar" /\ t.aviso = n /\ t.usuario = u
  BY Empujes
<1>3. \A x \in nuevos : x[1] = n /\ x \in Notificaciones \X Extremos /\ x[2] \notin vencidos /\ abonado[x[2]] = {u}
  OBVIOUS
<1> HIDE DEF t, nuevos
<1>4. TypeOKPush
  BY DEF IInvPush
<1>5. /\ empuje' \in [HilosPush -> Empujando] /\ empuje'[h] = t
      /\ \A g \in HilosPush : g # h => empuje'[g] = empuje[g]
  BY <1>1, <1>2, <1>4, TrasEmpujar
<1>6. TypeOKPush'
  BY <1>1, <1>3, <1>4, <1>5 DEF TypeOKPush
<1>7. FilasAlDia'
  BY <1>1 DEF IInvPush, FilasAlDia
<1>8. /\ notificacion'[n] = "nueva"
      /\ \A m \in Notificaciones : m # n => notificacion'[m] = notificacion[m]
      /\ \A x \in debidos : x \in Notificaciones \X Extremos /\ x[1] # n
  BY <1>1, <1>4 DEF IInvPush, DebidosVivos, TypeOKPush
<1>9. DebidosVivos'
  BY <1>1, <1>3, <1>8 DEF IInvPush, DebidosVivos
<1>10. ListadosDebidos'
  <2>1. ASSUME NEW g \in HilosPush
        PROVE  /\ empuje'[g].fase = "listar"
                  => /\ notificacion'[empuje'[g].aviso] # "no hay"
                     /\ \A x \in debidos' : x[1] = empuje'[g].aviso => abonado'[x[2]] = {empuje'[g].usuario}
               /\ empuje'[g].fase = "borrar" => empuje'[g].extremo \in vencidos'
    <3>1. CASE g = h
      BY <1>1, <1>2, <1>3, <1>5, <1>8, <3>1
    <3>2. CASE g # h
      <4>1. empuje'[g] = empuje[g] /\ empuje[g] \in Empujando
        BY <1>4, <1>5, <3>2 DEF TypeOKPush
      <4>2. empuje[g].fase = "listar" => empuje[g].aviso \in Notificaciones /\ empuje[g].aviso # n
        BY <1>1, <4>1, EsEmpuje DEF IInvPush, ListadosDebidos
      <4>3. /\ empuje[g].fase = "listar"
               => /\ notificacion[empuje[g].aviso] # "no hay"
                  /\ \A x \in debidos : x[1] = empuje[g].aviso => abonado[x[2]] = {empuje[g].usuario}
            /\ empuje[g].fase = "borrar" => empuje[g].extremo \in vencidos
        BY DEF IInvPush, ListadosDebidos
      <4>4. ASSUME empuje[g].fase = "listar", NEW x \in debidos', x[1] = empuje[g].aviso
            PROVE  abonado'[x[2]] = {empuje[g].usuario}
        <5>1. x \in debidos
          BY <1>1, <1>3, <4>2, <4>4
        <5> QED BY <1>1, <4>3, <4>4, <5>1
      <4>5. empuje[g].fase = "listar" => notificacion'[empuje[g].aviso] # "no hay"
        BY <1>8, <4>2, <4>3
      <4>6. empuje[g].fase = "borrar" => empuje[g].extremo \in vencidos'
        BY <1>1, <4>3
      <4> QED BY <4>1, <4>4, <4>5, <4>6
    <3> QED BY <3>1, <3>2
  <2> QED BY <2>1 DEF ListadosDebidos
<1>11. Perdidos' \subseteq Perdidos
  <2>1. ASSUME NEW x \in Perdidos' PROVE x \in Perdidos
    <3>1. x \in debidos' /\ \A g \in HilosPush : ~Pendiente(g, x)'
      BY <2>1 DEF Perdidos
    <3>2. x[1] # n
      BY <1>2, <1>5, <3>1 DEF Pendiente
    <3>3. x \in debidos
      BY <1>1, <1>3, <3>1, <3>2
    <3>4. \A g \in HilosPush : ~Pendiente(g, x)
      <4>1. \A g \in HilosPush : g # h => (Pendiente(g, x)' <=> Pendiente(g, x))
        BY <1>5 DEF Pendiente
      <4>2. ~Pendiente(h, x)
        BY <1>1, Empujes DEF Pendiente
      <4> QED BY <3>1, <4>1, <4>2
    <3> QED BY <3>3, <3>4 DEF Perdidos
  <2> QED BY <2>1
<1> QED BY <1>1, <1>6, <1>7, <1>9, <1>10, <1>11, NadaSePierde DEF IInvPush

\* A step of a loop: it changes the thread alone, and what it owes.
LEMMA PasoDeBucle ==
  ASSUME IInvPush, NEW h \in HilosPush, NEW t \in Empujando, Empuja(h, t),
         t.fase # "listar", t.fase = "borrar" => t.extremo \in vencidos,
         debidos' \subseteq debidos,
         UNCHANGED <<notificacion, suscripcion, vencidos, abonado>>,
         fallosPush' \in Nat, caidasPush' \in Nat
  PROVE  /\ TypeOKPush' /\ FilasAlDia' /\ DebidosVivos' /\ ListadosDebidos'
         /\ empuje'[h] = t /\ \A g \in HilosPush : g # h => empuje'[g] = empuje[g]
<1>1. TypeOKPush
  BY DEF IInvPush
<1>2. /\ empuje' \in [HilosPush -> Empujando] /\ empuje'[h] = t
      /\ \A g \in HilosPush : g # h => empuje'[g] = empuje[g]
  BY <1>1, TrasEmpujar
<1>3. TypeOKPush'
  BY <1>1, <1>2 DEF TypeOKPush
<1>4. FilasAlDia' /\ DebidosVivos'
  BY DEF IInvPush, FilasAlDia, DebidosVivos
<1>5. ListadosDebidos'
  <2>1. ASSUME NEW g \in HilosPush
        PROVE  /\ empuje'[g].fase = "listar"
                  => /\ notificacion'[empuje'[g].aviso] # "no hay"
                     /\ \A x \in debidos' : x[1] = empuje'[g].aviso => abonado'[x[2]] = {empuje'[g].usuario}
               /\ empuje'[g].fase = "borrar" => empuje'[g].extremo \in vencidos'
    <3>1. CASE g = h
      BY <1>2, <3>1
    <3>2. CASE g # h
      <4>1. /\ empuje[g].fase = "listar"
               => /\ notificacion[empuje[g].aviso] # "no hay"
                  /\ \A x \in debidos : x[1] = empuje[g].aviso => abonado[x[2]] = {empuje[g].usuario}
            /\ empuje[g].fase = "borrar" => empuje[g].extremo \in vencidos
        BY DEF IInvPush, ListadosDebidos
      <4>2. empuje'[g] = empuje[g] /\ notificacion' = notificacion /\ abonado' = abonado /\ vencidos' = vencidos
        BY <1>2, <3>2
      <4> HIDE DEF ListadosDebidos
      <4> QED BY <4>1, <4>2
    <3> QED BY <3>1, <3>2
  <2> QED BY <2>1 DEF ListadosDebidos
<1> QED BY <1>2, <1>3, <1>4, <1>5

\* If what the thread leaves out of its loop is not owed, nothing is lost.
LEMMA PasoSinPerder ==
  ASSUME IInvPush, NEW h \in HilosPush, NEW t \in Empujando, Empuja(h, t),
         t.fase # "listar", t.fase = "borrar" => t.extremo \in vencidos,
         debidos' \subseteq debidos,
         UNCHANGED <<notificacion, suscripcion, vencidos, abonado, fallosPush, caidasPush>>,
         \A x \in debidos' : Pendiente(h, x) => t.fase \in {"empujar", "borrar"} /\ t.aviso = x[1] /\ x[2] \in t.faltan
  PROVE  IInvPush'
<1>1. fallosPush' \in Nat /\ caidasPush' \in Nat
  BY DEF IInvPush, TypeOKPush
<1>2. /\ TypeOKPush' /\ FilasAlDia' /\ DebidosVivos' /\ ListadosDebidos'
      /\ empuje'[h] = t /\ \A g \in HilosPush : g # h => empuje'[g] = empuje[g]
  BY <1>1, PasoDeBucle
<1>3. Perdidos' \subseteq Perdidos
  <2>1. ASSUME NEW x \in debidos', NEW g \in HilosPush, Pendiente(g, x) PROVE Pendiente(g, x)'
    <3>1. CASE g = h
      BY <1>2, <2>1, <3>1 DEF Pendiente
    <3>2. CASE g # h
      BY <1>2, <2>1, <3>2 DEF Pendiente
    <3> QED BY <3>1, <3>2
  <2> QED BY <2>1 DEF Perdidos
<1> QED BY <1>2, <1>3, NadaSePierde DEF IInvPush

LEMMA PasoListar ==
  ASSUME IInvPush, NEW h \in HilosPush, ListarSuscripciones(h)
  PROVE  IInvPush'
<1> DEFINE n == empuje[h].aviso
           u == empuje[h].usuario
           f == {e \in Extremos : u \in suscripcion[e]}
           t == Resto(n, f)
<1>1. /\ empuje[h].fase = "listar" /\ Empuja(h, t)
      /\ UNCHANGED <<notificacion, suscripcion, vencidos, abonado, debidos, fallosPush, caidasPush>>
  BY DEF ListarSuscripciones
<1>2. n \in Notificaciones
  BY <1>1, EsEmpuje DEF IInvPush, TypeOKPush
<1>3. /\ t \in Empujando /\ t.fase \in {"quieto", "empujar"}
      /\ f # {} => t.fase = "empujar" /\ t.aviso = n /\ t.faltan = f
  <2> HIDE DEF n, f
  <2>1. f \in SUBSET Extremos
    BY DEF f
  <2> QED BY <1>2, <2>1, ElResto
<1>4. ASSUME NEW x \in debidos, Pendiente(h, x) PROVE x[1] = n /\ x[2] \in f
  <2>1. x[1] = n /\ x[2] \in Extremos
    BY <1>1, <1>4 DEF Pendiente, IInvPush, TypeOKPush
  <2>2. abonado[x[2]] = {u} /\ x[2] \notin vencidos
    BY <1>1, <2>1 DEF IInvPush, ListadosDebidos, DebidosVivos
  <2>3. suscripcion[x[2]] = {u}
    BY <2>1, <2>2 DEF IInvPush, FilasAlDia
  <2> QED BY <2>1, <2>3
<1> HIDE DEF t, f
<1>5. \A x \in debidos' : Pendiente(h, x) => t.fase \in {"empujar", "borrar"} /\ t.aviso = x[1] /\ x[2] \in t.faltan
  BY <1>1, <1>3, <1>4
<1> QED BY <1>1, <1>3, <1>5, PasoSinPerder

LEMMA PasoEnviarPush ==
  ASSUME IInvPush, NEW h \in HilosPush, NEW e \in Extremos, EnviarPush(h, e)
  PROVE  IInvPush'
<1>0. PICK n, f : n = empuje[h].aviso /\ f = empuje[h].faltan
  OBVIOUS
<1>1. /\ empuje[h].fase = "empujar" /\ e \in f
      /\ UNCHANGED <<notificacion, suscripcion, vencidos, abonado, fallosPush, caidasPush>>
  BY <1>0 DEF EnviarPush
<1>2. n \in Notificaciones /\ f \in SUBSET Extremos
  BY <1>0, <1>1, EsEmpuje DEF IInvPush, TypeOKPush
<1>3. \A x : Pendiente(h, x) <=> n = x[1] /\ x[2] \in f
  BY <1>0, <1>1 DEF Pendiente
<1>4. CASE e \in vencidos
  <2> DEFINE t == [fase |-> "borrar", aviso |-> n, faltan |-> f \ {e}, extremo |-> e]
  <2>1. Empuja(h, t) /\ debidos' = debidos
    BY <1>0, <1>4 DEF EnviarPush
  <2>2. t \in Empujando /\ t.fase = "borrar" /\ t.aviso = n /\ t.faltan = f \ {e} /\ t.extremo = e
    BY <1>2, Empujes
  <2> HIDE DEF t
  <2>3. \A x \in debidos : x[2] # e
    BY <1>4 DEF IInvPush, DebidosVivos
  <2>4. \A x \in debidos' : Pendiente(h, x) => t.fase \in {"empujar", "borrar"} /\ t.aviso = x[1] /\ x[2] \in t.faltan
    BY <1>3, <2>1, <2>2, <2>3
  <2> QED BY <1>1, <1>4, <2>1, <2>2, <2>4, PasoSinPerder
<1>5. CASE e \notin vencidos
  <2> DEFINE t == Resto(n, f \ {e})
  <2>1. Empuja(h, t) /\ debidos' = debidos \ {<<n, e>>}
    BY <1>0, <1>5 DEF EnviarPush
  <2>2. /\ t \in Empujando /\ t.fase \in {"quieto", "empujar"}
        /\ f \ {e} # {} => t.fase = "empujar" /\ t.aviso = n /\ t.faltan = f \ {e}
    BY <1>2, ElResto
  <2> HIDE DEF t
  <2>3. \A x \in debidos' : Pendiente(h, x) => x[2] # e
    <3>1. \A x \in debidos : x = <<x[1], x[2]>>
      BY UnPar DEF IInvPush
    <3> QED BY <1>3, <2>1, <3>1
  <2>4. \A x \in debidos' : Pendiente(h, x) => t.fase \in {"empujar", "borrar"} /\ t.aviso = x[1] /\ x[2] \in t.faltan
    BY <1>3, <2>2, <2>3
  <2> QED BY <1>1, <2>1, <2>2, <2>4, PasoSinPerder
<1> QED BY <1>4, <1>5

LEMMA PasoFallarPush ==
  ASSUME IInvPush, NEW h \in HilosPush, NEW e \in Extremos, FallarPush(h, e)
  PROVE  IInvPush'
<1>0. PICK n, f : n = empuje[h].aviso /\ f = empuje[h].faltan
  OBVIOUS
<1> DEFINE t == Resto(n, f \ {e})
<1>1. /\ empuje[h].fase = "empujar" /\ e \in f /\ Empuja(h, t) /\ fallosPush' = fallosPush + 1
      /\ UNCHANGED <<notificacion, suscripcion, vencidos, abonado, debidos, caidasPush>>
  BY <1>0 DEF FallarPush
<1>2. n \in Notificaciones /\ f \in SUBSET Extremos
  BY <1>0, <1>1, EsEmpuje DEF IInvPush, TypeOKPush
<1>3. \A x : Pendiente(h, x) <=> n = x[1] /\ x[2] \in f
  BY <1>0, <1>1 DEF Pendiente
<1>4. /\ t \in Empujando /\ t.fase \in {"quieto", "empujar"}
      /\ f \ {e} # {} => t.fase = "empujar" /\ t.aviso = n /\ t.faltan = f \ {e}
  BY <1>2, ElResto
<1> HIDE DEF t
<1>5. fallosPush \in Nat /\ caidasPush \in Nat /\ Cardinality(Extremos) \in Nat
  BY FS_CardinalityType DEF IInvPush, TypeOKPush
<1>6. fallosPush' \in Nat /\ caidasPush' \in Nat
  BY <1>1, <1>5
<1>7. /\ TypeOKPush' /\ FilasAlDia' /\ DebidosVivos' /\ ListadosDebidos'
      /\ empuje'[h] = t /\ \A g \in HilosPush : g # h => empuje'[g] = empuje[g]
  BY <1>1, <1>4, <1>6, PasoDeBucle
<1>8. Perdidos' \in SUBSET (Perdidos \cup {<<n, e>>})
  <2>1. ASSUME NEW x \in Perdidos', x \notin Perdidos PROVE x = <<n, e>>
    <3>1. x \in debidos /\ \A g \in HilosPush : ~Pendiente(g, x)'
      BY <1>1, <2>1 DEF Perdidos
    <3>2. PICK g \in HilosPush : Pendiente(g, x)
      BY <2>1, <3>1 DEF Perdidos
    <3>3. g = h
      BY <1>7, <3>1, <3>2 DEF Pendiente
    <3>4. n = x[1] /\ x[2] \in f
      BY <1>3, <3>2, <3>3
    <3>5. x[2] = e
      BY <1>4, <1>7, <3>1, <3>4 DEF Pendiente
    <3>6. x = <<x[1], x[2]>>
      BY <3>1, UnPar DEF IInvPush
    <3> QED BY <3>4, <3>5, <3>6
  <2> QED BY <2>1
<1>9. PerdidosAcotados'
  <2>1. IsFiniteSet(Perdidos) /\ Cardinality(Perdidos) <= fallosPush + caidasPush * Cardinality(Extremos)
    BY DEF IInvPush, PerdidosAcotados
  <2>2. IsFiniteSet(Perdidos') /\ Cardinality(Perdidos') \in Nat /\ Cardinality(Perdidos) \in Nat
        /\ Cardinality(Perdidos') <= Cardinality(Perdidos) + 1
    BY <1>8, <2>1, ConUnaMas
  <2>3. caidasPush * Cardinality(Extremos) \in Nat
    BY <1>5
  <2>4. Cardinality(Perdidos') <= fallosPush' + caidasPush' * Cardinality(Extremos)
    BY <1>1, <1>5, <2>1, <2>2, <2>3
  <2> QED BY <2>2, <2>4 DEF PerdidosAcotados
<1> QED BY <1>7, <1>9 DEF IInvPush

LEMMA PasoBorrarVencida ==
  ASSUME IInvPush, NEW h \in HilosPush, BorrarVencida(h)
  PROVE  IInvPush'
<1>0. PICK n, f, e : n = empuje[h].aviso /\ f = empuje[h].faltan /\ e = empuje[h].extremo
  OBVIOUS
<1> DEFINE t == Resto(n, f)
<1>1. /\ empuje[h].fase = "borrar" /\ Empuja(h, t) /\ suscripcion' = [suscripcion EXCEPT ![e] = {}]
      /\ UNCHANGED <<notificacion, vencidos, abonado, debidos, fallosPush, caidasPush>>
  BY <1>0 DEF BorrarVencida
<1>2. n \in Notificaciones /\ f \in SUBSET Extremos /\ e \in Extremos /\ e \in vencidos
  BY <1>0, <1>1, EsEmpuje DEF IInvPush, TypeOKPush, ListadosDebidos
<1>3. \A x : Pendiente(h, x) <=> n = x[1] /\ x[2] \in f
  BY <1>0, <1>1 DEF Pendiente
<1>4. /\ t \in Empujando /\ t.fase \in {"quieto", "empujar"}
      /\ f # {} => t.fase = "empujar" /\ t.aviso = n /\ t.faltan = f
  BY <1>2, ElResto
<1> HIDE DEF t
<1>5. TypeOKPush
  BY DEF IInvPush
<1>6. /\ empuje' \in [HilosPush -> Empujando] /\ empuje'[h] = t
      /\ \A g \in HilosPush : g # h => empuje'[g] = empuje[g]
  BY <1>1, <1>4, <1>5, TrasEmpujar
<1>7. TypeOKPush'
  BY <1>1, <1>5, <1>6 DEF TypeOKPush
<1>8. FilasAlDia'
  BY <1>1, <1>2, <1>5 DEF IInvPush, FilasAlDia, TypeOKPush
<1>9. DebidosVivos'
  BY <1>1 DEF IInvPush, DebidosVivos
<1>10. ListadosDebidos'
  <2>1. ASSUME NEW g \in HilosPush
        PROVE  /\ empuje'[g].fase = "listar"
                  => /\ notificacion'[empuje'[g].aviso] # "no hay"
                     /\ \A x \in debidos' : x[1] = empuje'[g].aviso => abonado'[x[2]] = {empuje'[g].usuario}
               /\ empuje'[g].fase = "borrar" => empuje'[g].extremo \in vencidos'
    <3>1. CASE g = h
      BY <1>4, <1>6, <3>1
    <3>2. CASE g # h
      <4>1. /\ empuje[g].fase = "listar"
               => /\ notificacion[empuje[g].aviso] # "no hay"
                  /\ \A x \in debidos : x[1] = empuje[g].aviso => abonado[x[2]] = {empuje[g].usuario}
            /\ empuje[g].fase = "borrar" => empuje[g].extremo \in vencidos
        BY DEF IInvPush, ListadosDebidos
      <4>2. empuje'[g] = empuje[g] /\ notificacion' = notificacion /\ abonado' = abonado /\ vencidos' = vencidos
            /\ debidos' = debidos
        BY <1>1, <1>6, <3>2
      <4> QED BY <4>1, <4>2
    <3> QED BY <3>1, <3>2
  <2> QED BY <2>1 DEF ListadosDebidos
<1>11. Perdidos' \subseteq Perdidos
  <2>1. ASSUME NEW x \in debidos, NEW g \in HilosPush, Pendiente(g, x) PROVE Pendiente(g, x)'
    <3>1. CASE g = h
      BY <1>3, <1>4, <1>6, <2>1, <3>1 DEF Pendiente
    <3>2. CASE g # h
      BY <1>6, <2>1, <3>2 DEF Pendiente
    <3> QED BY <3>1, <3>2
  <2> QED BY <1>1, <2>1 DEF Perdidos
<1> QED BY <1>1, <1>7, <1>8, <1>9, <1>10, <1>11, NadaSePierde DEF IInvPush

LEMMA PasoCaerPush ==
  ASSUME IInvPush, NEW h \in HilosPush, CaerPush(h)
  PROVE  IInvPush'
<1>0. PICK n : n = empuje[h].aviso
  OBVIOUS
<1>1. /\ Empuja(h, SinEmpuje) /\ caidasPush' = caidasPush + 1
      /\ UNCHANGED <<notificacion, suscripcion, vencidos, abonado, debidos, fallosPush>>
  BY DEF CaerPush
<1>2. fallosPush \in Nat /\ caidasPush \in Nat /\ Cardinality(Extremos) \in Nat
  BY FS_CardinalityType DEF IInvPush, TypeOKPush
<1>3. fallosPush' \in Nat /\ caidasPush' \in Nat
  BY <1>1, <1>2
<1>4. /\ TypeOKPush' /\ FilasAlDia' /\ DebidosVivos' /\ ListadosDebidos'
      /\ empuje'[h] = SinEmpuje /\ \A g \in HilosPush : g # h => empuje'[g] = empuje[g]
  BY <1>1, <1>3, Empujes, PasoDeBucle
<1> DEFINE T == {n} \X Extremos
<1>5. Perdidos' \in SUBSET (Perdidos \cup T)
  <2>1. ASSUME NEW x \in Perdidos', x \notin Perdidos PROVE x \in T
    <3>1. x \in debidos /\ \A g \in HilosPush : ~Pendiente(g, x)'
      BY <1>1, <2>1 DEF Perdidos
    <3>2. PICK g \in HilosPush : Pendiente(g, x)
      BY <2>1, <3>1 DEF Perdidos
    <3>3. g = h
      BY <1>4, <3>1, <3>2 DEF Pendiente
    <3>4. n = x[1]
      BY <1>0, <3>2, <3>3 DEF Pendiente
    <3>5. x = <<x[1], x[2]>> /\ x[2] \in Extremos
      BY <3>1, UnPar DEF IInvPush
    <3> QED BY <3>4, <3>5
  <2> QED BY <2>1
<1>6. IsFiniteSet(T) /\ Cardinality(T) = Cardinality(Extremos)
  <2>1. IsFiniteSet({n}) /\ Cardinality({n}) = 1
    BY FS_Singleton
  <2>2. IsFiniteSet(T) /\ Cardinality(T) = Cardinality({n}) * Cardinality(Extremos)
    BY <2>1, FS_Product
  <2> QED BY <1>2, <2>1, <2>2
<1> HIDE DEF T
<1>7. PerdidosAcotados'
  <2>1. IsFiniteSet(Perdidos) /\ Cardinality(Perdidos) <= fallosPush + caidasPush * Cardinality(Extremos)
    BY DEF IInvPush, PerdidosAcotados
  <2>2. /\ IsFiniteSet(Perdidos \cup T) /\ Cardinality(Perdidos) \in Nat
        /\ Cardinality(Perdidos \cup T) \in Nat /\ Cardinality(Perdidos \cap T) \in Nat
        /\ Cardinality(Perdidos \cup T) = Cardinality(Perdidos) + Cardinality(T) - Cardinality(Perdidos \cap T)
    <3>1. IsFiniteSet(Perdidos \cap T)
      BY <1>6, FS_Subset
    <3> QED BY <1>6, <2>1, <3>1, FS_Union, FS_CardinalityType
  <2>3. Cardinality(Perdidos \cup T) <= Cardinality(Perdidos) + Cardinality(Extremos)
    BY <1>2, <1>6, <2>2
  <2>4. IsFiniteSet(Perdidos') /\ Cardinality(Perdidos') \in Nat /\ Cardinality(Perdidos') <= Cardinality(Perdidos \cup T)
    BY <1>5, <2>2, Parte
  <2>5. caidasPush * Cardinality(Extremos) \in Nat
        /\ (caidasPush + 1) * Cardinality(Extremos) = caidasPush * Cardinality(Extremos) + Cardinality(Extremos)
    BY <1>2
  <2>6. Cardinality(Perdidos') <= fallosPush' + caidasPush' * Cardinality(Extremos)
    BY <1>1, <1>2, <2>1, <2>2, <2>3, <2>4, <2>5
  <2> QED BY <2>4, <2>6 DEF PerdidosAcotados
<1> QED BY <1>4, <1>7 DEF IInvPush

LEMMA PasosDeLectura ==
  ASSUME IInvPush, NEW h \in HilosPush, GuardarLeida(h) \/ \E n \in Notificaciones : LeerNotificacion(h, n)
  PROVE  IInvPush'
<1>1. ASSUME NEW n \in Notificaciones, LeerNotificacion(h, n) PROVE IInvPush'
  <2> DEFINE t == [fase |-> "leer", aviso |-> n]
  <2>1. empuje[h] = SinEmpuje /\ Empuja(h, t)
        /\ UNCHANGED <<notificacion, suscripcion, vencidos, abonado, debidos, fallosPush, caidasPush>>
    BY <1>1 DEF LeerNotificacion
  <2>2. t \in Empujando /\ t.fase = "leer"
    BY Empujes
  <2>3. \A x : ~Pendiente(h, x)
    BY <2>1, Empujes DEF Pendiente
  <2> HIDE DEF t
  <2> QED BY <2>1, <2>2, <2>3, PasoSinPerder
<1>2. CASE GuardarLeida(h)
  <2>0. PICK n : n = empuje[h].aviso
    OBVIOUS
  <2>1. /\ empuje[h].fase = "leer" /\ Empuja(h, SinEmpuje)
        /\ notificacion' = [notificacion EXCEPT ![n] = "leida"]
        /\ UNCHANGED <<suscripcion, vencidos, abonado, debidos, fallosPush, caidasPush>>
    BY <1>2, <2>0 DEF GuardarLeida
  <2>2. TypeOKPush /\ n \in Notificaciones
    BY <2>0, <2>1, EsEmpuje DEF IInvPush, TypeOKPush
  <2>3. /\ empuje' \in [HilosPush -> Empujando] /\ empuje'[h] = SinEmpuje
        /\ \A g \in HilosPush : g # h => empuje'[g] = empuje[g]
    BY <2>1, <2>2, TrasEmpujar, Empujes
  <2>4. TypeOKPush'
    BY <2>1, <2>2, <2>3 DEF TypeOKPush
  <2>5. \A m \in Notificaciones : notificacion[m] # "no hay" => notificacion'[m] # "no hay"
    BY <2>1, <2>2 DEF TypeOKPush
  <2>6. FilasAlDia' /\ DebidosVivos'
    BY <2>1, <2>2, <2>5 DEF IInvPush, FilasAlDia, DebidosVivos, TypeOKPush
  <2>7. ListadosDebidos'
    <3>1. ASSUME NEW g \in HilosPush
          PROVE  /\ empuje'[g].fase = "listar"
                    => /\ notificacion'[empuje'[g].aviso] # "no hay"
                       /\ \A x \in debidos' : x[1] = empuje'[g].aviso => abonado'[x[2]] = {empuje'[g].usuario}
                 /\ empuje'[g].fase = "borrar" => empuje'[g].extremo \in vencidos'
      <4>1. CASE g = h
        BY <2>3, <4>1, Empujes
      <4>2. CASE g # h
        <5>1. /\ empuje[g].fase = "listar"
                 => /\ notificacion[empuje[g].aviso] # "no hay"
                    /\ \A x \in debidos : x[1] = empuje[g].aviso => abonado[x[2]] = {empuje[g].usuario}
              /\ empuje[g].fase = "borrar" => empuje[g].extremo \in vencidos
          BY DEF IInvPush, ListadosDebidos
        <5>2. empuje'[g] = empuje[g] /\ empuje[g].fase = "listar" => empuje[g].aviso \in Notificaciones
          BY <2>2, <2>3, <4>2, EsEmpuje DEF TypeOKPush
        <5>3. empuje'[g] = empuje[g] /\ abonado' = abonado /\ vencidos' = vencidos /\ debidos' = debidos
          BY <2>1, <2>3, <4>2
        <5> QED BY <2>5, <5>1, <5>2, <5>3
      <4> QED BY <4>1, <4>2
    <3> QED BY <3>1 DEF ListadosDebidos
  <2>8. Perdidos' \subseteq Perdidos
    <3>1. ASSUME NEW x \in debidos, NEW g \in HilosPush, Pendiente(g, x) PROVE Pendiente(g, x)'
      <4>1. g # h
        BY <2>1, <3>1 DEF Pendiente
      <4> QED BY <2>3, <3>1, <4>1 DEF Pendiente
    <3> QED BY <2>1, <3>1 DEF Perdidos
  <2> QED BY <2>1, <2>4, <2>6, <2>7, <2>8, NadaSePierde DEF IInvPush
<1> QED BY <1>1, <1>2

LEMMA PasosDelNavegador ==
  ASSUME IInvPush, NEW e \in Extremos, Desuscribir(e) \/ Vencer(e) \/ \E u \in Suscriptores : Suscribir(u, e)
  PROVE  IInvPush'
<1>1. /\ debidos' = {x \in debidos : x[2] # e}
      /\ UNCHANGED <<notificacion, empuje, fallosPush, caidasPush>>
      /\ vencidos \subseteq vencidos'
  BY DEF Desuscribir, Vencer, Suscribir
<1>2. TypeOKPush
  BY DEF IInvPush
<1>3. TypeOKPush'
  <2>1. suscripcion' \in [Extremos -> {{}} \cup {{u} : u \in Suscriptores}]
        /\ abonado' \in [Extremos -> {{}} \cup {{u} : u \in Suscriptores}] /\ vencidos' \subseteq Extremos
    <3>1. CASE Desuscribir(e)
      BY <1>2, <3>1 DEF Desuscribir, TypeOKPush
    <3>2. CASE Vencer(e)
      BY <1>2, <3>2 DEF Vencer, TypeOKPush
    <3>3. ASSUME NEW u \in Suscriptores, Suscribir(u, e)
          PROVE  suscripcion' \in [Extremos -> {{}} \cup {{v} : v \in Suscriptores}]
                 /\ abonado' \in [Extremos -> {{}} \cup {{v} : v \in Suscriptores}] /\ vencidos' \subseteq Extremos
      BY <1>2, <3>3, ZenonT(40) DEF Suscribir, TypeOKPush
    <3> QED BY <3>1, <3>2, <3>3
  <2> QED BY <1>1, <1>2, <2>1 DEF TypeOKPush
<1>4. FilasAlDia'
  BY <1>2 DEF Desuscribir, Vencer, Suscribir, TypeOKPush, IInvPush, FilasAlDia
<1>5. \A d \in Extremos : d # e => abonado'[d] = abonado[d] /\ (d \in vencidos' <=> d \in vencidos)
  BY <1>2 DEF Desuscribir, Vencer, Suscribir, TypeOKPush
<1>6. \A x \in debidos : x[2] \in Extremos
  BY <1>2 DEF TypeOKPush
<1>7. DebidosVivos'
  BY <1>1, <1>5, <1>6 DEF IInvPush, DebidosVivos
<1>8. ListadosDebidos'
  <2>1. ASSUME NEW g \in HilosPush
        PROVE  /\ empuje[g].fase = "listar"
                  => /\ notificacion[empuje[g].aviso] # "no hay"
                     /\ \A x \in debidos' : x[1] = empuje[g].aviso => abonado'[x[2]] = {empuje[g].usuario}
               /\ empuje[g].fase = "borrar" => empuje[g].extremo \in vencidos'
    <3>1. /\ empuje[g].fase = "listar"
             => /\ notificacion[empuje[g].aviso] # "no hay"
                /\ \A x \in debidos : x[1] = empuje[g].aviso => abonado[x[2]] = {empuje[g].usuario}
          /\ empuje[g].fase = "borrar" => empuje[g].extremo \in vencidos
      BY DEF IInvPush, ListadosDebidos
    <3> QED BY <1>1, <1>5, <1>6, <3>1
  <2> QED BY <1>1, <2>1 DEF ListadosDebidos
<1>9. Perdidos' \subseteq Perdidos
  BY <1>1 DEF Perdidos, Pendiente
<1> QED BY <1>1, <1>3, <1>4, <1>7, <1>8, <1>9, NadaSePierde DEF IInvPush

LEMMA InicioPush == InitPush => IInvPush
<1> SUFFICES ASSUME InitPush PROVE IInvPush
  OBVIOUS
<1>1. TypeOKPush /\ FilasAlDia /\ DebidosVivos
  BY Empujes DEF InitPush, TypeOKPush, FilasAlDia, DebidosVivos
<1>2. ListadosDebidos
  BY Empujes DEF InitPush, ListadosDebidos
<1>3. PerdidosAcotados
  <2>1. Perdidos = {} /\ fallosPush = 0 /\ caidasPush = 0
    BY DEF InitPush, Perdidos
  <2>2. IsFiniteSet(Perdidos) /\ Cardinality(Perdidos) = 0
    BY <2>1, FS_EmptySet
  <2>3. fallosPush + caidasPush * Cardinality(Extremos) = 0
    <3>1. Cardinality(Extremos) \in Nat
      BY FS_CardinalityType
    <3> QED BY <2>1, <3>1
  <2> QED BY <2>2, <2>3 DEF PerdidosAcotados
<1> QED BY <1>1, <1>2, <1>3 DEF IInvPush

LEMMA PasoPush == IInvPush /\ [NextPush]_varsPush => IInvPush'
<1> SUFFICES ASSUME IInvPush, [NextPush]_varsPush PROVE IInvPush'
  OBVIOUS
<1>1. CASE UNCHANGED varsPush
  BY <1>1, ZenonT(40) DEF varsPush, IInvPush, TypeOKPush, FilasAlDia, DebidosVivos, ListadosDebidos, PerdidosAcotados,
              Perdidos, Pendiente
<1>2. ASSUME NEW h \in HilosPush, Envia(h) PROVE IInvPush'
  BY <1>2, PasoCrearNotificacion, PasoListar, PasoEnviarPush, PasoFallarPush, PasoBorrarVencida, PasoCaerPush
  DEF Envia
<1>3. ASSUME NEW h \in HilosPush, GuardarLeida(h) \/ \E n \in Notificaciones : LeerNotificacion(h, n)
      PROVE  IInvPush'
  BY <1>3, PasosDeLectura
<1>4. ASSUME NEW e \in Extremos, Desuscribir(e) \/ Vencer(e) \/ \E u \in Suscriptores : Suscribir(u, e)
      PROVE  IInvPush'
  BY <1>4, PasosDelNavegador
<1> QED BY <1>1, <1>2, <1>3, <1>4 DEF NextPush

LEMMA SiempreCompletos == IInvPush => AvisosPushCompletos
<1> SUFFICES ASSUME IInvPush PROVE AvisosPushCompletos
  OBVIOUS
<1> DEFINE S == {x \in debidos : ~\E h \in HilosPush : Notifica(h, x[1])}
<1>1. S \in SUBSET Perdidos
  BY DEF Perdidos, Pendiente, Notifica
<1>2. IsFiniteSet(Perdidos) /\ Cardinality(Perdidos) <= fallosPush + caidasPush * Cardinality(Extremos)
  BY DEF IInvPush, PerdidosAcotados
<1> HIDE DEF S
<1>3. Cardinality(S) \in Nat /\ Cardinality(Perdidos) \in Nat /\ Cardinality(S) <= Cardinality(Perdidos)
  BY <1>1, <1>2, Parte
<1>4. fallosPush + caidasPush * Cardinality(Extremos) \in Nat
  <2>1. fallosPush \in Nat /\ caidasPush \in Nat /\ Cardinality(Extremos) \in Nat
    BY FS_CardinalityType DEF IInvPush, TypeOKPush
  <2> QED BY <2>1
<1>5. Cardinality(S) <= fallosPush + caidasPush * Cardinality(Extremos)
  BY <1>2, <1>3, <1>4
<1> QED BY <1>5 DEF AvisosPushCompletos, S

LEMMA InvariantePush == SpecPush => []IInvPush
BY InicioPush, PasoPush, PTL DEF SpecPush

\* The type invariant of the notices and of the push subscriptions.
THEOREM TiposPush == SpecPush => []TypeOKPush
<1>1. IInvPush => TypeOKPush
  BY DEF IInvPush
<1> QED BY <1>1, InvariantePush, PTL

\* A failed push or an expired endpoint costs no other browser its notice,
\* however many threads push, and browsers subscribe and leave.
THEOREM LleganATodos == SpecPush => []AvisosPushCompletos
BY InvariantePush, SiempreCompletos, PTL

------------------------------------------------------------------------------
(* The components side by side *)

\* The component that runs is chosen once, and each step is one of its own
\* module or a step of nobody.
LEMMA PasosDeLaParte ==
  [NextMC]_varsMC =>
    /\ parte' = parte
    /\ parte = "nominatim" => [NextGeo]_varsGeo
    /\ parte = "google" => [NextGoogle]_varsGoogle
    /\ parte = "rutas" => [NextRutas]_ruta
    /\ parte = "pagos" => [NextPagos]_varsPagos
    /\ parte = "catalogo" => [NextCatalogo]_varsCatalogo
    /\ parte = "direcciones" => [NextDirecciones]_varsDirecciones
    /\ parte = "cuentas" => [NextCuentas]_varsCuentas
    /\ parte = "auth" => [NextAuth]_varsAuth
    /\ parte = "admin" => [NextAdmin]_varsAdmin
    /\ parte = "push" => [NextPush]_varsPush
    /\ parte = "jornadas" => [NextJornadas]_varsJornadas
    /\ parte = "publicaciones" => [NextPub]_varsPub
<1> SUFFICES ASSUME [NextMC]_varsMC
             PROVE  /\ parte' = parte
                    /\ parte = "nominatim" => [NextGeo]_varsGeo
                    /\ parte = "google" => [NextGoogle]_varsGoogle
                    /\ parte = "rutas" => [NextRutas]_ruta
                    /\ parte = "pagos" => [NextPagos]_varsPagos
                    /\ parte = "catalogo" => [NextCatalogo]_varsCatalogo
                    /\ parte = "direcciones" => [NextDirecciones]_varsDirecciones
                    /\ parte = "cuentas" => [NextCuentas]_varsCuentas
                    /\ parte = "auth" => [NextAuth]_varsAuth
                    /\ parte = "admin" => [NextAdmin]_varsAdmin
                    /\ parte = "push" => [NextPush]_varsPush
                    /\ parte = "jornadas" => [NextJornadas]_varsJornadas
                    /\ parte = "publicaciones" => [NextPub]_varsPub
  OBVIOUS
<1>1. CASE NextMC
  BY <1>1 DEF NextMC
<1>2. CASE UNCHANGED varsMC
  <2>1. UNCHANGED <<parte, reloj, EstadoGeo, EstadoGoogle, EstadoRutas, EstadoPagos, EstadoCatalogo,
                    EstadoDirecciones, EstadoCuentas, EstadoAuth, EstadoAdmin, EstadoPush,
                    EstadoJornadas, EstadoPub>>
    BY <1>2 DEF varsMC
  <2>2. UNCHANGED <<varsGeo, varsGoogle, varsCatalogo, varsAuth, varsAdmin>>
    BY <2>1 DEF varsGeo, varsGoogle, varsCatalogo, varsAuth, varsAdmin,
                EstadoGeo, EstadoGoogle, EstadoCatalogo, EstadoAuth, EstadoAdmin
  <2>3. UNCHANGED <<ruta, varsPagos, varsDirecciones, varsCuentas, varsPush, varsJornadas, varsPub>>
    BY <2>1 DEF EstadoRutas, EstadoPagos, EstadoDirecciones, EstadoCuentas, EstadoPush,
                EstadoJornadas, EstadoPub
  <2> QED BY <2>1, <2>2, <2>3
<1> QED BY <1>1, <1>2

\* What plataforma checks is what the modules say: a behaviour of the composition
\* is one of the module that it runs, from its initial states on.
THEOREM CadaParte ==
  SpecMC =>
    /\ parte = "nominatim" => SpecGeo
    /\ parte = "google" => SpecGoogle
    /\ parte = "rutas" => SpecRutas
    /\ parte = "pagos" => SpecPagos
    /\ parte = "catalogo" => SpecCatalogo
    /\ parte = "direcciones" => SpecDirecciones
    /\ parte = "cuentas" => SpecCuentas
    /\ parte = "auth" => SpecAuth
    /\ parte = "admin" => SpecAdmin
    /\ parte = "push" => SpecPush
    /\ parte = "jornadas" => SpecJornadas
    /\ parte = "publicaciones" => SpecPub
<1>1. InitMC =>
        /\ InitGeo
        /\ InitGoogle
        /\ InitRutas
        /\ InitPagos
        /\ InitCatalogo
        /\ InitDirecciones
        /\ InitCuentas
        /\ InitAuth
        /\ InitAdmin
        /\ InitPush
        /\ InitJornadas
        /\ InitPub
  BY DEF InitMC
<1>2. SpecMC => (parte = "nominatim" => SpecGeo)
  <2>1. parte = "nominatim" /\ [NextMC]_varsMC => [NextGeo]_varsGeo /\ (parte = "nominatim")'
    BY PasosDeLaParte
  <2> QED BY <1>1, <2>1, PTL DEF SpecMC, SpecGeo
<1>3. SpecMC => (parte = "google" => SpecGoogle)
  <2>1. parte = "google" /\ [NextMC]_varsMC => [NextGoogle]_varsGoogle /\ (parte = "google")'
    BY PasosDeLaParte
  <2> QED BY <1>1, <2>1, PTL DEF SpecMC, SpecGoogle
<1>4. SpecMC => (parte = "rutas" => SpecRutas)
  <2>1. parte = "rutas" /\ [NextMC]_varsMC => [NextRutas]_ruta /\ (parte = "rutas")'
    BY PasosDeLaParte
  <2> QED BY <1>1, <2>1, PTL DEF SpecMC, SpecRutas
<1>5. SpecMC => (parte = "pagos" => SpecPagos)
  <2>1. parte = "pagos" /\ [NextMC]_varsMC => [NextPagos]_varsPagos /\ (parte = "pagos")'
    BY PasosDeLaParte
  <2> QED BY <1>1, <2>1, PTL DEF SpecMC, SpecPagos
<1>6. SpecMC => (parte = "catalogo" => SpecCatalogo)
  <2>1. parte = "catalogo" /\ [NextMC]_varsMC => [NextCatalogo]_varsCatalogo /\ (parte = "catalogo")'
    BY PasosDeLaParte
  <2> QED BY <1>1, <2>1, PTL DEF SpecMC, SpecCatalogo
<1>7. SpecMC => (parte = "direcciones" => SpecDirecciones)
  <2>1. parte = "direcciones" /\ [NextMC]_varsMC => [NextDirecciones]_varsDirecciones /\ (parte = "direcciones")'
    BY PasosDeLaParte
  <2> QED BY <1>1, <2>1, PTL DEF SpecMC, SpecDirecciones
<1>8. SpecMC => (parte = "cuentas" => SpecCuentas)
  <2>1. parte = "cuentas" /\ [NextMC]_varsMC => [NextCuentas]_varsCuentas /\ (parte = "cuentas")'
    BY PasosDeLaParte
  <2> QED BY <1>1, <2>1, PTL DEF SpecMC, SpecCuentas
<1>9. SpecMC => (parte = "auth" => SpecAuth)
  <2>1. parte = "auth" /\ [NextMC]_varsMC => [NextAuth]_varsAuth /\ (parte = "auth")'
    BY PasosDeLaParte
  <2> QED BY <1>1, <2>1, PTL DEF SpecMC, SpecAuth
<1>10. SpecMC => (parte = "admin" => SpecAdmin)
  <2>1. parte = "admin" /\ [NextMC]_varsMC => [NextAdmin]_varsAdmin /\ (parte = "admin")'
    BY PasosDeLaParte
  <2> QED BY <1>1, <2>1, PTL DEF SpecMC, SpecAdmin
<1>11. SpecMC => (parte = "push" => SpecPush)
  <2>1. parte = "push" /\ [NextMC]_varsMC => [NextPush]_varsPush /\ (parte = "push")'
    BY PasosDeLaParte
  <2> QED BY <1>1, <2>1, PTL DEF SpecMC, SpecPush
<1>12. SpecMC => (parte = "jornadas" => SpecJornadas)
  <2>1. parte = "jornadas" /\ [NextMC]_varsMC => [NextJornadas]_varsJornadas /\ (parte = "jornadas")'
    BY PasosDeLaParte
  <2> QED BY <1>1, <2>1, PTL DEF SpecMC, SpecJornadas
<1>13. SpecMC => (parte = "publicaciones" => SpecPub)
  <2>1. parte = "publicaciones" /\ [NextMC]_varsMC => [NextPub]_varsPub /\ (parte = "publicaciones")'
    BY PasosDeLaParte
  <2> QED BY <1>1, <2>1, PTL DEF SpecMC, SpecPub
<1> QED BY <1>2, <1>3, <1>4, <1>5, <1>6, <1>7, <1>8, <1>9, <1>10, <1>11, <1>12, <1>13

\* Whatever component a behaviour of the composition runs keeps its types.
THEOREM TiposDeCadaParte == SpecMC => []TiposPlataforma
<1>1. SpecMC => [](parte = "nominatim" => TypeOKGeo)
  <2>1. ~(parte = "nominatim") /\ [NextMC]_varsMC => ~(parte = "nominatim")'
    BY PasosDeLaParte
  <2> QED BY <2>1, CadaParte, TiposGeo, PTL DEF SpecMC
<1>2. SpecMC => [](parte = "google" => TypeOKGoogle)
  <2>1. ~(parte = "google") /\ [NextMC]_varsMC => ~(parte = "google")'
    BY PasosDeLaParte
  <2> QED BY <2>1, CadaParte, TiposGoogle, PTL DEF SpecMC
<1>3. SpecMC => [](parte = "pagos" => TypeOKPagos)
  <2>1. ~(parte = "pagos") /\ [NextMC]_varsMC => ~(parte = "pagos")'
    BY PasosDeLaParte
  <2> QED BY <2>1, CadaParte, TiposPagos, PTL DEF SpecMC
<1>4. SpecMC => [](parte = "catalogo" => TypeOKCatalogo)
  <2>1. ~(parte = "catalogo") /\ [NextMC]_varsMC => ~(parte = "catalogo")'
    BY PasosDeLaParte
  <2> QED BY <2>1, CadaParte, TiposCatalogo, PTL DEF SpecMC
<1>5. SpecMC => [](parte = "direcciones" => TypeOKDirecciones)
  <2>1. ~(parte = "direcciones") /\ [NextMC]_varsMC => ~(parte = "direcciones")'
    BY PasosDeLaParte
  <2> QED BY <2>1, CadaParte, TiposDirecciones, PTL DEF SpecMC
<1>6. SpecMC => [](parte = "cuentas" => TypeOKCuentas)
  <2>1. ~(parte = "cuentas") /\ [NextMC]_varsMC => ~(parte = "cuentas")'
    BY PasosDeLaParte
  <2> QED BY <2>1, CadaParte, TiposCuentas, PTL DEF SpecMC
<1>7. SpecMC => [](parte = "auth" => TypeOKAuth)
  <2>1. ~(parte = "auth") /\ [NextMC]_varsMC => ~(parte = "auth")'
    BY PasosDeLaParte
  <2> QED BY <2>1, CadaParte, TiposAuth, PTL DEF SpecMC
<1>8. SpecMC => [](parte = "admin" => TypeOKAdmin)
  <2>1. ~(parte = "admin") /\ [NextMC]_varsMC => ~(parte = "admin")'
    BY PasosDeLaParte
  <2> QED BY <2>1, CadaParte, TiposAdmin, PTL DEF SpecMC
<1>9. SpecMC => [](parte = "push" => TypeOKPush)
  <2>1. ~(parte = "push") /\ [NextMC]_varsMC => ~(parte = "push")'
    BY PasosDeLaParte
  <2> QED BY <2>1, CadaParte, TiposPush, PTL DEF SpecMC
<1>10. SpecMC => [](parte = "jornadas" => TypeOKJornadas)
  <2>1. ~(parte = "jornadas") /\ [NextMC]_varsMC => ~(parte = "jornadas")'
    BY PasosDeLaParte
  <2> QED BY <2>1, CadaParte, TiposJornadas, PTL DEF SpecMC
<1>11. SpecMC => [](parte = "publicaciones" => TypeOKPub)
  <2>1. ~(parte = "publicaciones") /\ [NextMC]_varsMC => ~(parte = "publicaciones")'
    BY PasosDeLaParte
  <2> QED BY <2>1, CadaParte, TiposPub, PTL DEF SpecMC
<1>12. /\ (parte = "nominatim" => TypeOKGeo)
      /\ (parte = "google" => TypeOKGoogle)
      /\ (parte = "pagos" => TypeOKPagos)
      /\ (parte = "catalogo" => TypeOKCatalogo)
      /\ (parte = "direcciones" => TypeOKDirecciones)
      /\ (parte = "cuentas" => TypeOKCuentas)
      /\ (parte = "auth" => TypeOKAuth)
      /\ (parte = "admin" => TypeOKAdmin)
      /\ (parte = "push" => TypeOKPush)
      /\ (parte = "jornadas" => TypeOKJornadas)
      /\ (parte = "publicaciones" => TypeOKPub)
      => TiposPlataforma
  BY DEF TiposPlataforma
<1> QED BY <1>1, <1>2, <1>3, <1>4, <1>5, <1>6, <1>7, <1>8, <1>9, <1>10, <1>11, <1>12, PTL
==============================================================================
