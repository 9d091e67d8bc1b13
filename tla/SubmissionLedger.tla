-------------------------- MODULE SubmissionLedger --------------------------
(***************************************************************************)
(* What the judging pipeline promises to a user, with no outbox, broker,   *)
(* worker or crash in sight: a submission has one current attempt, every   *)
(* attempt receives at most one verdict, and a rejudge opens a new attempt *)
(* only after the previous one has its verdict.  JudgePipeline implements  *)
(* this specification.                                                     *)
(***************************************************************************)

CONSTANTS Submissions, Attempts, Verdicts, NoAttempt

VARIABLES current,   \* the attempt a submission currently shows
          verdict    \* "NONE" (not created), "PENDING" or the verdict of an attempt

vars == <<current, verdict>>

Init ==
    /\ current = [s \in Submissions |-> NoAttempt]
    /\ verdict = [a \in Attempts |-> "NONE"]

Submit(s, a) ==
    /\ current[s] = NoAttempt
    /\ verdict[a] = "NONE"
    /\ current' = [current EXCEPT ![s] = a]
    /\ verdict' = [verdict EXCEPT ![a] = "PENDING"]

Judge(a, v) ==
    /\ verdict[a] = "PENDING"
    /\ \E s \in Submissions : current[s] = a
    /\ verdict' = [verdict EXCEPT ![a] = v]
    /\ UNCHANGED current

Rejudge(s, a) ==
    /\ current[s] \in Attempts
    /\ verdict[current[s]] \in Verdicts
    /\ verdict[a] = "NONE"
    /\ current' = [current EXCEPT ![s] = a]
    /\ verdict' = [verdict EXCEPT ![a] = "PENDING"]

Next ==
    \/ \E s \in Submissions, a \in Attempts : Submit(s, a) \/ Rejudge(s, a)
    \/ \E a \in Attempts, v \in Verdicts : Judge(a, v)

Spec == Init /\ [][Next]_vars

=============================================================================
