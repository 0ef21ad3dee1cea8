--------------------------- MODULE MCDeadCodeElim ---------------------------
(***************************************************************************)
(* Instances of DeadCodeElim: one import and three defined functions with  *)
(* every choice of at most two references per body, and the modules without *)
(* functions, for every choice of escaping references, exports and start.  *)
(***************************************************************************)
EXTENDS DeadCodeElim

CONSTANTS nostart, dead

MCBodies == {<< >>} \cup {<<i>> : i \in 0 .. 3} \cup {<<2, 3>>, <<3, 0>>, <<1, 1>>}

(* Bodies of the first two functions range over MCBodies; the third calls  *)
(* nothing, the import or the first.                                       *)
MCPrograms ==
  [imports : {1}, bodies : {<<a, b, c>> : a, b \in MCBodies, c \in {<< >>, <<0>>, <<1>>}},
   refFunced : {{}, {2}}, exports : {{}, {3}, {1, 2}}, start : {1, 3, nostart}]
  \cup [imports : {2}, bodies : {<< >>}, refFunced : {{}, {1}}, exports : {{0}},
        start : {nostart}]
=============================================================================
