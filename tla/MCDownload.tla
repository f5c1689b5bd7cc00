------------------------------- MODULE MCDownload -------------------------------
(* Instances of Download for TLC. *)
EXTENDS Download, TLC

CONSTANTS c1, c2, original, copy, a, b, n, l

TheTransfers == {c1, c2}
TheHandles == {original, copy}

\* Two documents whose names end in the same component, one with none, and one
\* whose name is a link in the directory.
TheNames == (a :> <<"x">>) @@ (b :> <<"dir", "x">>) @@ (n :> <<"dir", "..">>)
            @@ (l :> <<"link">>)
TheDocuments == {a, b, n, l}
TheLinks == {"link"}

TheOptions == {[max |-> 0, upload |-> Unset], [max |-> Unset, upload |-> 1]}

Symmetric == Permutations({c1, c2})
===============================================================================
