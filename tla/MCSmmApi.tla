------------------------------ MODULE MCSmmApi ------------------------------
EXTENDS SmmApi, TLC

(* Two threads of a program are interchangeable: nothing compares them. *)
Symmetry == Permutations(Callers)

(* No call depends on g_last_error. *)
View == <<g_pools, th, file, book, fileBook, outside>>
=============================================================================
