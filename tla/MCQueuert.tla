----------------------------- MODULE MCQueuert -----------------------------
(* Instances of Queuert for TLC.                                           *)
EXTENDS SqliteConformance, TLC

CONSTANTS k, w1, w2, s1, s2

OneSlotEach == s1 :> w1 @@ s2 :> w2

(* Workers are interchangeable together with their slots.                  *)
SameWorkers == w1 :> w1
SwapWorkers == w1 :> w2 @@ w2 :> w1 @@ s1 :> s2 @@ s2 :> s1

FullSymmetry ==
  {p @@ q : p \in Permutations(JobIds), q \in {SameWorkers, SwapWorkers}}

(* Nothing reads the schedule and the attempts of a job that is completed, *)
(* and what a slot remembers of a job that is completed or gone.           *)
WhatIsRead ==
  LET over(j) == j # NULL /\ jobs[j].status \in {"completed", "deleted"}
  IN  <<[j \in JobIds |-> IF over(j) THEN [jobs[j] EXCEPT !.due = TRUE, !.attempt = 0]
                          ELSE jobs[j]],
        [s \in Slots |-> IF over(slot[s].job) THEN [Idle EXCEPT !.job = slot[s].job]
                         ELSE slot[s]],
        blockers, inProgress, alive>>
=============================================================================
