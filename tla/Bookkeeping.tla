----------------------------- MODULE Bookkeeping -----------------------------
(***************************************************************************)
(* What the archiver relies on when it keeps its books in one file, with   *)
(* none of the processes, copies and renames that keep them: whoever opens *)
(* the file finds each shot as it was last recorded.  A shot is captured,  *)
(* again and again until a parse finds it good; from then on only a parse  *)
(* may say otherwise.  What is let go was good, and stays let go.          *)
(***************************************************************************)
CONSTANT Shot

VARIABLE book  \* of each shot "none", "draft", "kept", "good", "bad" or "gone"

\* A sync records captures one by one, so that no more than the last is ever
\* lost; each is a record of its own, without a verdict.
Keep(shot) ==
  /\ book[shot] \in {"none", "draft", "bad"}
  /\ \E entry \in {"draft", "kept"} : book' = [book EXCEPT ![shot] = entry]

\* A parse records its verdicts of all verified captures at once, old ones too.
Judge ==
  LET verified == {shot \in Shot : book[shot] \in {"kept", "good", "bad"}}
  IN  \E good \in SUBSET verified :
        book' = [shot \in Shot |-> IF shot \in good THEN "good"
                                   ELSE IF shot \in verified THEN "bad" ELSE book[shot]]

\* A delete pass records its deletions at once, of shots that were good on record.
LetGo(shots) ==
  /\ \A shot \in shots : book[shot] = "good"
  /\ book' = [shot \in Shot |-> IF shot \in shots THEN "gone" ELSE book[shot]]

Empty == book = [shot \in Shot |-> "none"]

Recorded ==
  \/ Judge
  \/ \E shot \in Shot : Keep(shot)
  \/ \E shots \in SUBSET Shot : LetGo(shots)

Books == Empty /\ [][Recorded]_book
=============================================================================
