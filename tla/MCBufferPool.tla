---------------------------- MODULE MCBufferPool ----------------------------
(***************************************************************************)
(* Small instances of BufferPool: page numbers are consecutive, so that a  *)
(* read that follows another one finds the next page.                      *)
(***************************************************************************)
EXTENDS BufferPool, TLC

TwoPages == 1..2
ThreePages == 1..3

\* Threads and contents are interchangeable, pages are not.
ThreadAndDataSymmetry == Permutations(Thread) \cup Permutations(Data)
=============================================================================
