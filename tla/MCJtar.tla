------------------------------- MODULE MCJtar -------------------------------
(* Small instances of Jtar for TLC. *)
EXTENDS Jtar, TLC

\* A directory d with a file d/f and a directory d/s, which has a file and an
\* empty directory; and a file f next to d.
d == <<"d">>
f == <<"f">>
df == <<"d", "f">>
ds == <<"d", "s">>
dsf == <<"d", "s", "f">>
dst == <<"d", "s", "t">>
Universe == {d, f, df, ds, dsf, dst}

None == [type |-> "none"]
File(i) == [type |-> "file", ino |-> i]
Dir(m) == [type |-> "dir", mode |-> m]
Nodes ==
    {(d :> Dir("rwx")) @@ (f :> nf) @@ (df :> ndf)
        @@ (ds :> Dir(IF ndsf = None THEN "rwx" ELSE "r-x")) @@ (dsf :> ndsf) @@ (dst :> Dir("r-x")) :
        nf \in {None, File("A")}, ndf \in {None, File("A"), File("B")},
        ndsf \in {None, File("A"), [type |-> "symlink"]}}

\* Inode A varies; inode B is an ordinary file, there to be left alone.
Ordinary == [size |-> 1, mode |-> "rw-", outside |-> 0]
Odd == {[Ordinary EXCEPT !.size = 0], [Ordinary EXCEPT !.size = 2],
        [Ordinary EXCEPT !.mode = "r--"], [Ordinary EXCEPT !.outside = 1]}
Inodes == {[i \in {"A", "B"} |-> IF i = "A" THEN r ELSE Ordinary] :
              r \in {Ordinary} \cup Odd}

Trees == {[node |-> Restrict(n, {p \in Universe : n[p] # None}), inode |-> t] :
             n \in Nodes, t \in Inodes}

Lists == {<<d>>, <<f, d>>, <<d, ds>>, <<ds, d>>, <<df, df>>, <<dsf>>}
Lengths == [n \in {"d", "f", "s", "t"} |-> IF n = "s" THEN 2 ELSE 1]
=============================================================================
