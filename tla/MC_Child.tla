------------------------------ MODULE MC_Child ------------------------------
(* Two children sharing the connection counter.                            *)
EXTENDS Child

MCChildren2 == {1, 2}

=============================================================================
