------------------------------- MODULE MeshMC -------------------------------
(***************************************************************************)
(* Topologies for the runs of Mesh.                                        *)
(***************************************************************************)
EXTENDS Mesh

CONSTANTS o, a, b, c

Both(L) == L \cup {<<l[2], l[1]>> : l \in L}

\* The origin moves from beside a and b to beside c, which was behind b and could
\* not hear a.
Moving == {Both({<<o, a>>, <<o, b>>, <<a, b>>, <<b, c>>}),
           Both({<<o, c>>, <<a, b>>, <<b, c>>, <<c, a>>})}
=============================================================================
