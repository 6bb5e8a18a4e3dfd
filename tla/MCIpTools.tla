----------------------------- MODULE MCIpTools -----------------------------
(* Small instances of IpTools for TLC. *)
EXTENDS IpTools

a == <<97>>
b == <<98>>
ab == <<97, 98>>
aDotB == <<97, 46, 98>>
aDotBDotA == <<97, 46, 98, 46, 97>>
DotB == <<46, 98>>
Long == <<98, 97, 98, 97, 98, 97, 97>>

M(n, names) == [address |-> <<10, 0, 0, n>>, names |-> names]

SmallTables ==
    {<<>>, <<M(1, <<DotB>>)>>, <<M(1, <<Long, b>>), M(2, <<a>>)>>,
     <<M(1, <<a, aDotB>>), M(2, <<>>), M(3, <<ab>>)>>}
    \cup {<<M(1, x), M(2, y), M(3, z)>> :
             x \in {<<a>>, <<b, aDotB>>}, y \in {<<aDotBDotA>>, <<b>>, <<b, a>>},
             z \in {<<ab, a>>, <<aDotB>>}}

\* The last has no room in the buffer of the run.
SmallWords == {a, b, aDotB, Long \o a}
=============================================================================
