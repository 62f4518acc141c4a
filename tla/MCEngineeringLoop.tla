------------------------- MODULE MCEngineeringLoop --------------------------
(* Three tasks of EngineeringLoop: the second, which is listed before the third,
   depends on both others, the third on the first.  The third is verified with all
   tests there are, as TASK-016 is; the second only by an exit code. *)
EXTENDS EngineeringLoop, Sequences

MCDependsOn == <<{}, {1, 3}, {1}>>
MCRouted == <<2, 3, 3>>
MCSelects == <<{1}, {2}, {1, 2, 3}>>
MCMinTests == <<1, 0, 1>>
=============================================================================
