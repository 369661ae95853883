------------------------------- MODULE MCFile -------------------------------
(* File over two bytes, written and read in pieces of one or two bytes, with *)
(* interchangeable tasks and blocking threads.                               *)
EXTENDS File, TLC

MCOriginal == <<1, 2>>

MCBuffers == {<<3>>, <<4, 5>>}

MCSeeks == {<<"seekEnd", -1>>, <<"seekCurrent", -1>>, <<"seekCurrent", 0>>}

Symmetry == Permutations(Task) \cup Permutations(Thread)
=============================================================================
