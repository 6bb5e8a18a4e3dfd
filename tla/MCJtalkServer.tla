--------------------------- MODULE MCJtalkServer ---------------------------
(* Small instances of JtalkServer for TLC. *)
EXTENDS JtalkServer, TLC

\* Connections are interchangeable: nothing compares or orders them.
Symmetry == Permutations(Conn)

NoFaults == {}
AllFaults == FaultKind
ZeroCid == {0}
=============================================================================
