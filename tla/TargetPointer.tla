---------------------------- MODULE TargetPointer ----------------------------
(* What a Target promises whoever asks which Release it runs: the pointer    *)
(* moves only to a Release that was found healthy, what it ran before stays  *)
(* in the history, a doubt about the provider changes neither, and a Target  *)
(* that recovers without moving still names the Release it named before.     *)
(* The Authority's Target (PromotionHandoff) and the coordinator's own       *)
(* (WorkerPromotions) are both shown to implement it.                        *)
EXTENDS Integers, Sequences

CONSTANTS Releases, None

VARIABLES current, history, state

pointerVars == <<current, history, state>>

Init == current = None /\ history = << >> /\ state = "configured"

\* The Release after a promotion that was found healthy.
Advance(r) ==
  /\ current' = r
  /\ history' = IF history # << >> /\ history[Len(history)] = r THEN history
                ELSE Append(history, r)
  /\ state' = "healthy"

Degrade == state' = "degraded" /\ UNCHANGED <<current, history>>

\* The Release the Target ran before is running again.
Recover == /\ current # None
           /\ state' = "healthy"
           /\ UNCHANGED <<current, history>>

Next == (\E r \in Releases : Advance(r)) \/ Degrade \/ Recover

Spec == Init /\ [][Next]_pointerVars
=============================================================================
