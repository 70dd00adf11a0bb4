------------------------------ MODULE AnswerSheet ------------------------------
(***************************************************************************)
(* What a quiz session promises whatever requests run on it: an answer     *)
(* sheet that is opened once, whose items are asked in order, each marked  *)
(* at most once and never re-marked, with a running score, and that is     *)
(* closed at most once.  Items may still be asked and marked after it was  *)
(* closed: the service does not promise otherwise (QuizPromises).          *)
(***************************************************************************)
EXTENDS Integers

CONSTANT MaxItems

VARIABLES phase,  \* "NONE", "IN_PROGRESS", "SUBMITTED" or "EXPIRED"
          sheet,  \* per item: "blank", "none" (asked), "right" or "wrong"
          score

sheetVars == <<phase, sheet, score>>

Init ==
    /\ phase = "NONE"
    /\ sheet = [i \in 0..(MaxItems - 1) |-> "blank"]
    /\ score = 0

Open ==
    /\ phase = "NONE"
    /\ phase' = "IN_PROGRESS"
    /\ UNCHANGED <<sheet, score>>

Ask(i) ==
    /\ phase # "NONE"
    /\ sheet[i] = "blank"
    /\ \A j \in 0..(i - 1) : sheet[j] # "blank"
    /\ sheet' = [sheet EXCEPT ![i] = "none"]
    /\ UNCHANGED <<phase, score>>

Mark(i, v) ==
    /\ sheet[i] = "none"
    /\ sheet' = [sheet EXCEPT ![i] = v]
    /\ score' = IF v = "right" THEN score + 1 ELSE score
    /\ UNCHANGED phase

Close(p) ==
    /\ phase = "IN_PROGRESS"
    /\ phase' = p
    /\ UNCHANGED <<sheet, score>>

Next ==
    \/ Open
    \/ \E i \in 0..(MaxItems - 1) :
         Ask(i) \/ \E v \in {"right", "wrong"} : Mark(i, v)
    \/ \E p \in {"SUBMITTED", "EXPIRED"} : Close(p)

Spec == Init /\ [][Next]_sheetVars

=============================================================================
