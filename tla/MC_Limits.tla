----------------------------- MODULE MC_Limits ------------------------------
\* Limits with small limits and windows, in ticks of a third of a second.
EXTENDS Limits

SmallLimit ==
    [p \in Purposes |->
        CASE p \in {"cooldown", "submission", "login:ip-identifier", "login:identifier"} -> 1
          [] p \in {"ip-day", "account-day"} -> 3
          [] OTHER -> 2]

SmallSpan ==
    [p \in Purposes |->
        CASE p = "cooldown" -> 2
          [] p \in {"ip-day", "account-day"} -> 6
          [] OTHER -> 5]

Starts == [s \in Services |-> IF s = "login" THEN 3 ELSE 4]

Symmetry == Permutations(Requests) \cup Permutations(Clients)

=============================================================================
