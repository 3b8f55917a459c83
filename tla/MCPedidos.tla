------------------------------ MODULE MCPedidos ------------------------------
EXTENDS Pedidos, TLC

CONSTANTS ana, beto, arepa, bandeja, o1, o2, h1, h2

\* beto sells; ana buys, and beto may buy from himself.
UnVendedor == [p \in Publicaciones |-> beto]

\* Two accounts that buy from each other.
DosVendedores == (arepa :> ana) @@ (bandeja :> beto)

Simetria == Permutations(Hilos) \cup Permutations(PedidoIds)
=============================================================================
