--------------------------- MODULE MCEventosPago -----------------------------
EXTENDS EventosPago

CONSTANTS p1, p2, p3, h1, h2
=============================================================================
