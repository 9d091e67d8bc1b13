--------------------------- MODULE Limits_proofs ----------------------------
(***************************************************************************)
(* The limits hold for every number of clients and of requests under way,  *)
(* every limit and every window.                                           *)
(***************************************************************************)
EXTENDS Limits, FiniteSetTheorems, TLAPS

-----------------------------------------------------------------------------
\* Types, and which request is at which step

LoginPcs == LoginPurposes \cup
            {"ttl", "delay", "compare", "record pair", "record identifier", "record ip",
             "reset pair", "reset identifier"}

Pcs == {"idle", "pttl"} \cup LoginPcs

Records == [pc : Pcs, client : Clients \cup {"none"}, count : Nat,
            ttl : LoginPurposes \cup {"none"}, retry : Nat, until : Nat]

\* The keys of mails, tokens and submissions.
AdmissionKeys == {k \in Keys : k[1] \notin LoginPurposes}

TypeInv ==
    /\ service \in Services /\ clock \in Nat /\ faults \in Nat
    /\ counter \in [Keys -> [n : Nat, until : Nat]]
    /\ req \in [Requests -> Records]
    /\ wrong \in [Clients -> Nat]
    /\ admitted \in Seq([keys : SUBSET AdmissionKeys, at : Nat])

\* A failure that is over a limit has seen the key for no less than it lives.
ReqInv(x) ==
    /\ x.pc \in LoginPcs => service = "login" /\ x.client \in Clients
    /\ x.pc = "pttl" => service = "submission"
    /\ x.pc = "ttl" => x.ttl \in LoginPurposes
    /\ x.retry # 0 => x.until - clock <= x.retry

\* Redis holds no key whose time has come.
KeyInv(k) ==
    /\ counter[k].n > 0 => clock < counter[k].until /\ counter[k].until <= clock + Span[k[1]]
    /\ counter[k].n = 0 => counter[k].until = 0

-----------------------------------------------------------------------------
\* Guesses

FirstLimit == Limit["login:ip-identifier"]

\* The password was wrong, and the client's counter does not say so yet.
IsPending(x, c) == x.client = c /\ x.pc = "record pair"

\* The first check was passed, or will be, and the password is not compared yet.
IsPassed(x, c) ==
    /\ x.client = c
    /\ \/ x.pc \in {"login:ip", "login:identifier", "delay", "compare"}
       \/ x.pc = "ttl" /\ (x.ttl = "login:ip-identifier" => x.count < FirstLimit)

Pending(c) == {r \in Requests : IsPending(req[r], c)}
Passed(c) == {r \in Requests : IsPassed(req[r], c)}

\* Wrong passwords are counted, will be, or could not be; and whoever passes the
\* first check has seen less than the limit.
GuessInv(c) ==
    /\ wrong[c] <= counter[<<"login:ip-identifier", c>>].n + Cardinality(Pending(c)) + faults
    /\ wrong[c] + Cardinality(Passed(c)) <= FirstLimit - 1 + Cardinality(Requests) + faults

-----------------------------------------------------------------------------
\* Windows

\* The admissions that counted for k, and when.
Counted(k) == {j \in DOMAIN admitted : k \in admitted[j].keys}
Times(k) == [j \in Counted(k) |-> admitted[j].at]

\* Of the admissions at the times t, those since a, and those from a up to b.
Since(t, a) == {j \in DOMAIN t : a <= t[j]}
Between(t, a, b) == {j \in DOMAIN t : a <= t[j] /\ t[j] < b}

\* A further admission, j.
Added(t, j, now) == [i \in DOMAIN t \cup {j} |-> IF i = j THEN now ELSE t[i]]

\* What the span of a window, wherever it begins, lets in.
Bounded(t, span, limit) ==
    \A i \in DOMAIN t : Cardinality(Between(t, t[i], t[i] + span)) < 2 * limit

\* Between two windows: what is left of the last one, without its first admission,
\* is less than the limit.
Closed(t, now, span, limit) ==
    \A i \in DOMAIN t :
        t[i] < now /\ (t[i] + span <= now \/ Cardinality(Since(t, t[i])) < limit)

\* In the window that began at b, in which the counter has come to n.
Open(t, n, b, span, limit) ==
    /\ Cardinality(Since(t, b)) <= n
    /\ Cardinality(Since(t, b)) <= limit
    /\ \E j \in DOMAIN t : t[j] = b
    /\ \A i \in DOMAIN t :
          t[i] < b => t[i] + span <= b \/ Cardinality(Between(t, t[i], b)) < limit

Windows(t, now, n, b, span, limit) ==
    /\ \A j \in DOMAIN t : t[j] <= now
    /\ n = 0 => Closed(t, now, span, limit)
    /\ n > 0 => Open(t, n, b, span, limit)
    /\ Bounded(t, span, limit)

WindowInv(k) ==
    Windows(Times(k), clock, counter[k].n, counter[k].until - Span[k[1]], Span[k[1]],
            Limit[k[1]])

Inv ==
    /\ TypeInv
    /\ \A r \in Requests : ReqInv(req[r])
    /\ \A k \in Keys : KeyInv(k)
    /\ \A c \in Clients : GuessInv(c)
    /\ \A k \in AdmissionKeys : WindowInv(k)

-----------------------------------------------------------------------------
\* The constants and the keys

\* Limits and windows are positive.
LEMMA Constants ==
    /\ \A p \in Purposes : Limit[p] \in Nat /\ 0 < Limit[p] /\ Span[p] \in Nat /\ 0 < Span[p]
    /\ FirstLimit \in Nat /\ 0 < FirstLimit
    /\ IsFiniteSet(Requests) /\ Cardinality(Requests) \in Nat
    /\ RiskDelay \in Nat /\ Second \in Nat /\ 0 < Second
  <1>1. /\ Limit \in [Purposes -> Nat \ {0}] /\ Span \in [Purposes -> Nat \ {0}]
        /\ IsFiniteSet(Requests) /\ RiskDelay \in Nat /\ Second \in Nat \ {0}
    BY Zenon, LimitsAssumption
  <1>2. \A p \in Purposes : Limit[p] \in Nat \ {0} /\ Span[p] \in Nat \ {0}
    BY Zenon, <1>1
  <1>3. \A n \in Nat \ {0} : n \in Nat /\ 0 < n
    OBVIOUS
  <1>4. "login:ip-identifier" \in Purposes
    BY Zenon DEF Purposes, LoginPurposes
  <1> QED
    BY Zenon, <1>1, <1>2, <1>3, <1>4, FS_CardinalityType DEF FirstLimit

\* What a key is about.
LEMMA KeyIs ==
    ASSUME NEW p \in Purposes, NEW c \in Clients
    PROVE  /\ Key(p, c) \in Keys /\ Key(p, c)[1] = p
           /\ p = "login:ip-identifier" => Key(p, c) = <<p, c>>
           /\ p \notin LoginPurposes => Key(p, c) \in AdmissionKeys
  <1>1. Key(p, c) \in {<<p, "account">>, <<p, c>>}
    BY Zenon DEF Key
  <1>2. p = "login:ip-identifier" =>
          p \notin AccountPurposes \cup {"login:identifier", "submission"}
    BY Zenon DEF AccountPurposes
  <1>3. Key(p, c) \in Keys /\ Key(p, c)[1] = p
    BY <1>1 DEF Keys
  <1> QED
    BY Zenon, <1>2, <1>3 DEF Key, AdmissionKeys

\* A key belongs to a purpose.
LEMMA PurposeOf ==
    ASSUME NEW k \in Keys
    PROVE  k[1] \in Purposes
  BY Zenon DEF Keys

\* Sets of requests that differ in one request only.
LEMMA OneMember ==
    ASSUME NEW R, IsFiniteSet(R), NEW S \in SUBSET R, NEW T \in SUBSET R, NEW r,
           T \ {r} = S \ {r}
    PROVE  /\ Cardinality(S) \in Nat /\ Cardinality(T) \in Nat
           /\ Cardinality(S) <= Cardinality(R) /\ Cardinality(T) <= Cardinality(R)
           /\ (r \in S <=> r \in T) => Cardinality(T) = Cardinality(S)
           /\ r \notin S /\ r \in T => Cardinality(T) = Cardinality(S) + 1
           /\ r \in S /\ r \notin T => Cardinality(S) = Cardinality(T) + 1
  <1>1. /\ IsFiniteSet(S) /\ IsFiniteSet(T)
        /\ Cardinality(S) <= Cardinality(R) /\ Cardinality(T) <= Cardinality(R)
    BY Zenon, FS_Subset
  <1>2. Cardinality(S) \in Nat /\ Cardinality(T) \in Nat
    BY Zenon, <1>1, FS_CardinalityType
  <1>3. (r \in S <=> r \in T) => T = S
    OBVIOUS
  <1>4. r \notin S /\ r \in T => T = S \cup {r}
    BY Zenon
  <1>5. r \in S /\ r \notin T => S = T \cup {r}
    BY Zenon
  <1>6. /\ r \notin S => Cardinality(S \cup {r}) = Cardinality(S) + 1
        /\ r \notin T => Cardinality(T \cup {r}) = Cardinality(T) + 1
    BY Zenon, <1>1, FS_AddElement
  <1> QED
    BY Zenon, <1>1, <1>2, <1>3, <1>4, <1>5, <1>6

-----------------------------------------------------------------------------
\* Init

\* The invariant holds when nothing was counted yet.
LEMMA InvInit ==
    ASSUME Init
    PROVE  Inv
  <1>1. /\ service \in Services /\ clock = 0 /\ faults = 0
        /\ counter = [k \in Keys |-> NoKey] /\ req = [r \in Requests |-> Idle]
        /\ admitted = <<>> /\ wrong = [c \in Clients |-> 0]
    BY Zenon DEF Init
  <1>2. /\ Idle \in Records /\ Idle.pc = "idle" /\ Idle.retry = 0
        /\ NoKey \in [n : Nat, until : Nat] /\ NoKey.n = 0
    BY Zenon DEF Idle, Records, Pcs, NoKey
  <1>3. TypeInv
    <2>1. clock \in Nat /\ faults \in Nat
      BY Zenon, <1>1
    <2>2. admitted \in Seq([keys : SUBSET AdmissionKeys, at : Nat])
      BY <1>1
    <2>3. wrong \in [Clients -> Nat]
      BY Zenon, <1>1
    <2> QED
      BY Zenon, <1>1, <1>2, <2>1, <2>2, <2>3 DEF TypeInv
  <1>4. \A r \in Requests : req[r] = Idle
    BY Zenon, <1>1
  <1>5. \A k \in Keys : counter[k].n = 0
    BY Zenon, <1>1, <1>2
  <1>6. ASSUME NEW r \in Requests
        PROVE  ReqInv(req[r])
    BY Zenon, <1>2, <1>4 DEF ReqInv, LoginPcs, LoginPurposes
  <1>7. \A k \in Keys : KeyInv(k)
    <2>1. \A k \in Keys : counter[k].until = 0
      BY Zenon, <1>1 DEF NoKey
    <2>2. ~(0 > 0)
      OBVIOUS
    <2> QED
      BY Zenon, <1>5, <2>1, <2>2 DEF KeyInv
  <1>8. ASSUME NEW c \in Clients
        PROVE  GuessInv(c)
    <2>1. Pending(c) = {} /\ Passed(c) = {}
      BY Zenon, <1>2, <1>4 DEF Pending, Passed, IsPending, IsPassed
    <2>2. Cardinality(Pending(c)) = 0 /\ Cardinality(Passed(c)) = 0
      BY Zenon, <2>1, FS_EmptySet
    <2>3. counter[<<"login:ip-identifier", c>>].n = 0 /\ wrong[c] = 0
      BY Zenon, <1>1, <1>5 DEF Keys, Purposes, LoginPurposes
    <2> QED
      BY <1>1, <2>2, <2>3, Constants DEF GuessInv
  <1>9. ASSUME NEW k \in AdmissionKeys
        PROVE  WindowInv(k)
    <2>1. DOMAIN Times(k) = {}
      BY <1>1 DEF Counted, Times
    <2>2. counter[k].n = 0
      BY Zenon, <1>5 DEF AdmissionKeys
    <2>3. ~(0 > 0)
      OBVIOUS
    <2> QED
      BY Zenon, <2>1, <2>2, <2>3 DEF WindowInv, Windows, Closed, Bounded
  <1> QED
    BY Zenon, <1>3, <1>6, <1>7, <1>8, <1>9 DEF Inv

-----------------------------------------------------------------------------
\* Guesses

\* Steps of one request move it from one set to another.
LEMMA GuessSets ==
    ASSUME NEW r \in Requests, NEW c,
           \A q \in Requests : q = r \/ req'[q] = req[q]
    PROVE  /\ Cardinality(Pending(c)) \in Nat /\ Cardinality(Pending(c))' \in Nat
           /\ Cardinality(Passed(c)) \in Nat /\ Cardinality(Passed(c))' \in Nat
           /\ Cardinality(Passed(c))' <= Cardinality(Requests)
           /\ (IsPending(req[r], c) <=> IsPending(req'[r], c)) =>
                 Cardinality(Pending(c))' = Cardinality(Pending(c))
           /\ ~IsPending(req[r], c) /\ IsPending(req'[r], c) =>
                 Cardinality(Pending(c))' = Cardinality(Pending(c)) + 1
           /\ IsPending(req[r], c) /\ ~IsPending(req'[r], c) =>
                 Cardinality(Pending(c)) = Cardinality(Pending(c))' + 1
           /\ (IsPassed(req'[r], c) => IsPassed(req[r], c)) =>
                 Cardinality(Passed(c))' <= Cardinality(Passed(c))
           /\ IsPassed(req[r], c) /\ ~IsPassed(req'[r], c) =>
                 Cardinality(Passed(c)) = Cardinality(Passed(c))' + 1
  <1>1. IsFiniteSet(Requests) /\ Cardinality(Requests) \in Nat
    BY Zenon, Constants
  <1>2. PICK P, P1, Q, Q1 : P = Pending(c) /\ P1 = Pending(c)' /\ Q = Passed(c) /\ Q1 = Passed(c)'
    BY Zenon
  <1>3. /\ P \in SUBSET Requests /\ P1 \in SUBSET Requests
        /\ Q \in SUBSET Requests /\ Q1 \in SUBSET Requests
    BY Zenon, <1>2 DEF Pending, Passed
  <1>4. /\ r \in P <=> IsPending(req[r], c)
        /\ r \in P1 <=> IsPending(req'[r], c)
        /\ r \in Q <=> IsPassed(req[r], c)
        /\ r \in Q1 <=> IsPassed(req'[r], c)
    BY Zenon, <1>2 DEF Pending, Passed, IsPending, IsPassed
  <1>5. P1 \ {r} = P \ {r} /\ Q1 \ {r} = Q \ {r}
    BY Zenon, <1>2 DEF Pending, Passed, IsPending, IsPassed
  <1>6. /\ Cardinality(P) \in Nat /\ Cardinality(P1) \in Nat
        /\ (r \in P <=> r \in P1) => Cardinality(P1) = Cardinality(P)
        /\ r \notin P /\ r \in P1 => Cardinality(P1) = Cardinality(P) + 1
        /\ r \in P /\ r \notin P1 => Cardinality(P) = Cardinality(P1) + 1
    BY <1>1, <1>3, <1>5, OneMember
  <1>7. /\ Cardinality(Q) \in Nat /\ Cardinality(Q1) \in Nat
        /\ Cardinality(Q1) <= Cardinality(Requests)
        /\ (r \in Q <=> r \in Q1) => Cardinality(Q1) = Cardinality(Q)
        /\ r \in Q /\ r \notin Q1 => Cardinality(Q) = Cardinality(Q1) + 1
    BY <1>1, <1>3, <1>5, OneMember
  <1>8. (r \in Q1 => r \in Q) => Cardinality(Q1) <= Cardinality(Q)
    BY <1>7
  <1>9. /\ Cardinality(P) = Cardinality(Pending(c)) /\ Cardinality(P1) = Cardinality(Pending(c))'
        /\ Cardinality(Q) = Cardinality(Passed(c)) /\ Cardinality(Q1) = Cardinality(Passed(c))'
    BY Zenon, <1>2
  <1> QED
    BY Zenon, <1>4, <1>6, <1>7, <1>8, <1>9

\* The failures that the counter of a client holds.
Failures(c) == counter[<<"login:ip-identifier", c>>].n

\* The numbers that bound the guesses are natural numbers.
LEMMA GuessTypes ==
    ASSUME TypeInv, NEW c \in Clients
    PROVE  /\ wrong[c] \in Nat /\ Failures(c) \in Nat /\ faults \in Nat
           /\ <<"login:ip-identifier", c>> \in Keys
  <1>1. <<"login:ip-identifier", c>> \in Keys
    BY Zenon DEF Keys, Purposes, LoginPurposes
  <1> QED
    BY Zenon, <1>1 DEF TypeInv, Failures

\* A step that lets nobody pass: a failure that leaves the set of those under way
\* is counted, or is a fault.
LEMMA GuessKept ==
    ASSUME Inv, TypeInv', NEW r \in Requests, NEW c \in Clients,
           \A q \in Requests : q = r \/ req'[q] = req[q],
           faults <= faults',
           IsPassed(req'[r], c) => IsPassed(req[r], c),
           \/ wrong'[c] = 0
           \/ /\ wrong'[c] = wrong[c] /\ Failures(c) <= Failures(c)'
              /\ IsPending(req[r], c) => \/ IsPending(req'[r], c)
                                         \/ Failures(c) < Failures(c)'
                                         \/ faults < faults'
    PROVE  GuessInv(c)'
  <1>1. /\ wrong[c] \in Nat /\ Failures(c) \in Nat /\ faults \in Nat
        /\ wrong'[c] \in Nat /\ Failures(c)' \in Nat /\ faults' \in Nat
    <2>1. TypeInv
      BY Zenon DEF Inv
    <2>2. (wrong[c] \in Nat /\ Failures(c) \in Nat /\ faults \in Nat)'
      BY GuessTypes, PTL
    <2> QED
      BY Zenon, <2>1, <2>2, GuessTypes
  <1>2. PICK w, w1, n, n1, f, f1, P, P1, Q, Q1, R :
           /\ w = wrong[c] /\ n = Failures(c) /\ f = faults
           /\ w1 = wrong'[c] /\ n1 = Failures(c)' /\ f1 = faults'
           /\ P = Cardinality(Pending(c)) /\ P1 = Cardinality(Pending(c))'
           /\ Q = Cardinality(Passed(c)) /\ Q1 = Cardinality(Passed(c))'
           /\ R = Cardinality(Requests)
    BY Zenon
  <1>3. /\ P \in Nat /\ P1 \in Nat /\ Q \in Nat /\ Q1 \in Nat /\ R \in Nat
        /\ Q1 <= R /\ Q1 <= Q
        /\ IsPending(req[r], c) /\ ~IsPending(req'[r], c) => P = P1 + 1
        /\ ~IsPending(req[r], c) \/ IsPending(req'[r], c) => P1 = P \/ P1 = P + 1
    BY Zenon, <1>2, GuessSets, Constants
  <1>4. w <= n + P + f /\ w + Q <= FirstLimit - 1 + R + f
    BY Zenon, <1>2 DEF Inv, GuessInv, Failures
  <1>5. f <= f1 /\ (w1 = 0 \/ (w1 = w /\ n <= n1 /\ (P = P1 + 1 => n < n1 \/ f < f1 \/ P1 >= P)
                                /\ (P1 >= P \/ P = P1 + 1)))
    <2>1. P1 = P \/ P1 = P + 1 => P1 >= P
      BY <1>3
    <2> QED
      BY Zenon, <1>2, <1>3, <2>1
  <1>6. w1 <= n1 + P1 + f1 /\ w1 + Q1 <= FirstLimit - 1 + R + f1
    <2>1. /\ FirstLimit \in Nat /\ 0 < FirstLimit
          /\ w \in Nat /\ n \in Nat /\ f \in Nat /\ w1 \in Nat /\ n1 \in Nat /\ f1 \in Nat
      BY Zenon, <1>1, <1>2, Constants
    <2>2. CASE w1 = 0
      BY <1>3, <1>5, <2>1, <2>2
    <2>3. CASE w1 = w /\ n <= n1 /\ P1 >= P
      BY <1>3, <1>4, <1>5, <2>1, <2>3
    <2>4. CASE w1 = w /\ n <= n1 /\ P = P1 + 1 /\ (n < n1 \/ f < f1)
      BY <1>3, <1>4, <1>5, <2>1, <2>4
    <2> QED
      BY Zenon, <1>5, <2>2, <2>3, <2>4
  <1> QED
    BY Zenon, <1>2, <1>6 DEF GuessInv, Failures

\* Nobody is in both sets.
LEMMA GuessDisjoint ==
    ASSUME NEW c
    PROVE  Cardinality(Pending(c)) + Cardinality(Passed(c)) <= Cardinality(Requests)
  <1>1. PICK P, Q : P = Pending(c) /\ Q = Passed(c)
    BY Zenon
  <1>2. P \in SUBSET Requests /\ Q \in SUBSET Requests /\ P \cap Q = {}
    BY Zenon, <1>1 DEF Pending, Passed, IsPending, IsPassed
  <1>3. /\ IsFiniteSet(P) /\ IsFiniteSet(Q) /\ P \cup Q \in SUBSET Requests
        /\ Cardinality(P) \in Nat /\ Cardinality(Q) \in Nat
    BY Zenon, <1>2, Constants, FS_Subset, FS_CardinalityType
  <1>4. Cardinality(P \cup Q) <= Cardinality(Requests)
    BY Zenon, <1>3, Constants, FS_Subset
  <1>5. Cardinality(P \cup Q) = Cardinality(P) + Cardinality(Q) - Cardinality(P \cap Q)
    BY Zenon, <1>3, FS_Union
  <1>6. Cardinality(P \cap Q) = 0
    BY Zenon, <1>2, FS_EmptySet
  <1>7. Cardinality(P) + Cardinality(Q) <= Cardinality(Requests)
    BY <1>3, <1>4, <1>5, <1>6
  <1> QED
    BY Zenon, <1>1, <1>7

\* A request passes the first check: the client's counter is below the limit.
LEMMA GuessPasses ==
    ASSUME Inv, NEW r \in Requests, NEW c \in Clients,
           \A q \in Requests : q = r \/ req'[q] = req[q],
           UNCHANGED <<counter, wrong, faults>>,
           IsPending(req[r], c) <=> IsPending(req'[r], c),
           Failures(c) < FirstLimit
    PROVE  GuessInv(c)'
  <1>1. wrong[c] \in Nat /\ Failures(c) \in Nat /\ faults \in Nat
    BY Zenon, GuessTypes DEF Inv
  <1>2. PICK w, n, f, P, P1, Q1, R :
           /\ w = wrong[c] /\ n = Failures(c) /\ f = faults
           /\ P = Cardinality(Pending(c)) /\ P1 = Cardinality(Pending(c))'
           /\ Q1 = Cardinality(Passed(c))' /\ R = Cardinality(Requests)
    BY Zenon
  <1>3. P \in Nat /\ P1 = P /\ Q1 \in Nat /\ R \in Nat
    BY Zenon, <1>2, GuessSets, Constants
  <1>4. P1 + Q1 <= R
    <2>1. (Cardinality(Pending(c)) + Cardinality(Passed(c)) <= Cardinality(Requests))'
      BY GuessDisjoint, PTL
    <2> QED
      BY Zenon, <1>2, <2>1
  <1>5. w <= n + P + f
    BY Zenon, <1>2 DEF Inv, GuessInv, Failures
  <1>6. /\ FirstLimit \in Nat /\ n < FirstLimit /\ w \in Nat /\ n \in Nat /\ f \in Nat
    BY Zenon, <1>1, <1>2, Constants
  <1>7. w + Q1 <= FirstLimit - 1 + R + f
    BY <1>3, <1>4, <1>5, <1>6
  <1>8. w <= n + P1 + f
    BY Zenon, <1>3, <1>5
  <1>9. Failures(c)' = n /\ wrong'[c] = w /\ faults' = f
    BY Zenon, <1>2 DEF Failures
  <1> QED
    BY Zenon, <1>2, <1>7, <1>8, <1>9 DEF GuessInv, Failures

\* A wrong password: the request leaves those that have passed.
LEMMA GuessWrong ==
    ASSUME Inv, NEW r \in Requests, NEW c \in Clients,
           \A q \in Requests : q = r \/ req'[q] = req[q],
           UNCHANGED <<counter, faults>>,
           wrong'[c] = wrong[c] + 1,
           ~IsPending(req[r], c), IsPending(req'[r], c),
           IsPassed(req[r], c), ~IsPassed(req'[r], c)
    PROVE  GuessInv(c)'
  <1>1. wrong[c] \in Nat /\ Failures(c) \in Nat /\ faults \in Nat
    BY Zenon, GuessTypes DEF Inv
  <1>2. PICK w, n, f, P, P1, Q, Q1, R :
           /\ w = wrong[c] /\ n = Failures(c) /\ f = faults
           /\ P = Cardinality(Pending(c)) /\ P1 = Cardinality(Pending(c))'
           /\ Q = Cardinality(Passed(c)) /\ Q1 = Cardinality(Passed(c))'
           /\ R = Cardinality(Requests)
    BY Zenon
  <1>3. P \in Nat /\ Q1 \in Nat /\ R \in Nat /\ P1 = P + 1 /\ Q = Q1 + 1
    BY Zenon, <1>2, GuessSets, Constants
  <1>4. w <= n + P + f /\ w + Q <= FirstLimit - 1 + R + f
    BY Zenon, <1>2 DEF Inv, GuessInv, Failures
  <1>5. FirstLimit \in Nat /\ w \in Nat /\ n \in Nat /\ f \in Nat
    BY Zenon, <1>1, <1>2, Constants
  <1>6. w + 1 <= n + P1 + f /\ (w + 1) + Q1 <= FirstLimit - 1 + R + f
    BY <1>3, <1>4, <1>5
  <1>7. Failures(c)' = n /\ wrong'[c] = w + 1 /\ faults' = f
    BY Zenon, <1>2 DEF Failures
  <1> QED
    BY Zenon, <1>2, <1>6, <1>7 DEF GuessInv, Failures

-----------------------------------------------------------------------------
\* Windows

\* Sets of admissions are finite.
LEMMA Sizes ==
    ASSUME NEW C, IsFiniteSet(C), NEW t \in [C -> Nat]
    PROVE  /\ \A a : /\ Since(t, a) \in SUBSET C /\ IsFiniteSet(Since(t, a))
                     /\ Cardinality(Since(t, a)) \in Nat
           /\ \A a, b : /\ Between(t, a, b) \in SUBSET C /\ IsFiniteSet(Between(t, a, b))
                        /\ Cardinality(Between(t, a, b)) \in Nat
  <1>1. DOMAIN t = C
    OBVIOUS
  <1>2. \A a : Since(t, a) \in SUBSET C
    BY Zenon, <1>1 DEF Since
  <1>3. \A a, b : Between(t, a, b) \in SUBSET C
    BY Zenon, <1>1 DEF Between
  <1> QED
    BY Zenon, <1>2, <1>3, FS_Subset, FS_CardinalityType

\* A part is no larger.
LEMMA Part ==
    ASSUME NEW T, IsFiniteSet(T), NEW S \in SUBSET T
    PROVE  Cardinality(S) \in Nat /\ Cardinality(T) \in Nat /\ Cardinality(S) <= Cardinality(T)
  BY Zenon, FS_Subset, FS_CardinalityType

\* A part that misses a member is smaller.
LEMMA ProperPart ==
    ASSUME NEW T, IsFiniteSet(T), NEW S \in SUBSET T, NEW j \in T, j \notin S
    PROVE  Cardinality(S) \in Nat /\ Cardinality(T) \in Nat /\ Cardinality(S) < Cardinality(T)
  <1>1. Cardinality(S) \in Nat /\ Cardinality(T) \in Nat /\ Cardinality(S) <= Cardinality(T)
    BY Zenon, Part
  <1>2. Cardinality(S) # Cardinality(T)
    BY Zenon, FS_Subset
  <1> QED
    BY <1>1, <1>2

\* Time goes by in a window, or between two.
LEMMA WindowLasts ==
    ASSUME NEW C, NEW t \in [C -> Nat], NEW now \in Nat, NEW n \in Nat, NEW b \in Int,
           NEW span \in Nat, NEW limit \in Nat,
           Windows(t, now, n, b, span, limit)
    PROVE  Windows(t, now + 1, n, b, span, limit)
  <1>1. \A j \in DOMAIN t : t[j] \in Nat
    OBVIOUS
  <1>2. \A a \in Nat : /\ a <= now => a <= now + 1
                       /\ a < now => a < now + 1
                       /\ a + span <= now => a + span <= now + 1
    OBVIOUS
  <1>3. Closed(t, now, span, limit) => Closed(t, now + 1, span, limit)
    BY Zenon, <1>1, <1>2 DEF Closed
  <1> QED
    BY Zenon, <1>1, <1>2, <1>3 DEF Windows

\* The key expires.  What came after the first admission of its window is less than
\* the limit.
LEMMA WindowEnds ==
    ASSUME NEW C, IsFiniteSet(C), NEW t \in [C -> Nat], NEW now \in Nat, NEW n \in Nat,
           NEW b \in Int, NEW b1, NEW span \in Nat, NEW limit \in Nat,
           Windows(t, now, n, b, span, limit), n > 0, b + span <= now + 1
    PROVE  Windows(t, now + 1, 0, b1, span, limit)
  <1>1. /\ \A j \in DOMAIN t : t[j] \in Nat /\ t[j] <= now
        /\ Open(t, n, b, span, limit) /\ Bounded(t, span, limit)
    BY Zenon DEF Windows
  <1>2. ASSUME NEW i \in DOMAIN t
        PROVE  t[i] < now + 1 /\ (t[i] + span <= now + 1 \/ Cardinality(Since(t, t[i])) < limit)
    <2>1. t[i] \in Nat /\ t[i] <= now
      BY Zenon, <1>1
    <2>2. t[i] < now + 1
      BY <2>1
    <2>3. t[i] <= b \/ t[i] > b
      BY <2>1
    <2>4. CASE t[i] <= b
      BY <2>1, <2>4
    <2>5. CASE t[i] > b
      <3>1. PICK j \in DOMAIN t : t[j] = b
        BY Zenon, <1>1 DEF Open
      <3>2. Since(t, t[i]) \in SUBSET Since(t, b)
        BY <1>1, <2>1, <2>5 DEF Since
      <3>3. j \in Since(t, b) /\ j \notin Since(t, t[i])
        BY <2>1, <2>5, <3>1 DEF Since
      <3>4. PICK S, T : S = Since(t, t[i]) /\ T = Since(t, b)
        BY Zenon
      <3>5. /\ Cardinality(S) \in Nat /\ Cardinality(T) \in Nat /\ Cardinality(S) < Cardinality(T)
            /\ Cardinality(T) <= limit
        BY Zenon, <1>1, <3>2, <3>3, <3>4, ProperPart, Sizes DEF Open
      <3>6. Cardinality(S) < limit
        BY <3>5
      <3> QED
        BY Zenon, <2>2, <3>4, <3>6
    <2> QED
      BY Zenon, <2>1, <2>4, <2>5, <2>3
  <1>3. \A j \in DOMAIN t : t[j] <= now + 1
    BY <1>1
  <1>4. ~(0 > 0)
    OBVIOUS
  <1> QED
    BY Zenon, <1>1, <1>2, <1>3, <1>4 DEF Windows, Closed

\* An admission j is added to the times.
LEMMA Admission ==
    ASSUME NEW C, IsFiniteSet(C), NEW t \in [C -> Nat], NEW j, j \notin C, NEW now \in Nat,
           NEW t1, t1 = [i \in C \cup {j} |-> IF i = j THEN now ELSE t[i]]
    PROVE  /\ t1 \in [C \cup {j} -> Nat] /\ IsFiniteSet(C \cup {j})
           /\ t1[j] = now /\ \A i \in C : t1[i] = t[i]
           /\ \A a, b \in Int : now >= b => Between(t1, a, b) = Between(t, a, b)
           /\ \A a \in Int : a <= now => Cardinality(Since(t1, a)) = Cardinality(Since(t, a)) + 1
           /\ \A a, b \in Int : Between(t1, a, b) \in SUBSET Since(t1, a)
  <1>1. t1 \in [C \cup {j} -> Nat] /\ DOMAIN t1 = C \cup {j} /\ DOMAIN t = C
    OBVIOUS
  <1>2. t1[j] = now /\ \A i \in C : t1[i] = t[i]
    BY Zenon
  <1>3. IsFiniteSet(C \cup {j})
    BY Zenon, FS_AddElement
  <1>4. ASSUME NEW a \in Int, NEW b \in Int, now >= b
        PROVE  Between(t1, a, b) = Between(t, a, b)
    <2>1. ~(t1[j] < b)
      BY <1>2, <1>4
    <2> QED
      BY Zenon, <1>1, <1>2, <2>1 DEF Between
  <1>5. ASSUME NEW a \in Int, a <= now
        PROVE  Cardinality(Since(t1, a)) = Cardinality(Since(t, a)) + 1
    <2>1. Since(t1, a) = Since(t, a) \cup {j}
      BY Zenon, <1>1, <1>2, <1>5 DEF Since
    <2>2. j \notin Since(t, a)
      BY Zenon, <1>1 DEF Since
    <2>3. IsFiniteSet(Since(t, a))
      BY Zenon, Sizes
    <2> QED
      BY Zenon, <2>1, <2>2, <2>3, FS_AddElement
  <1>6. \A a, b \in Int : Between(t1, a, b) \in SUBSET Since(t1, a)
    BY Zenon DEF Between, Since
  <1> QED
    BY Zenon, <1>1, <1>2, <1>3, <1>4, <1>5, <1>6

\* The first admission of a window: the key did not exist.
LEMMA WindowBegins ==
    ASSUME NEW t, IsFiniteSet(DOMAIN t), t \in [DOMAIN t -> Nat], NEW j, j \notin DOMAIN t,
           NEW now \in Nat,
           NEW b, NEW span \in Nat, NEW limit \in Nat, 0 < limit,
           Windows(t, now, 0, b, span, limit)
    PROVE  Windows(Added(t, j, now), now, 1, now, span, limit)
  <1>1. PICK C, t1 : C = DOMAIN t /\ t1 = Added(t, j, now)
    BY Zenon
  <1>2. /\ IsFiniteSet(C) /\ t \in [C -> Nat] /\ j \notin C
        /\ t1 = [i \in C \cup {j} |-> IF i = j THEN now ELSE t[i]]
    BY Zenon, <1>1 DEF Added
  <1>3. /\ t1 \in [C \cup {j} -> Nat] /\ IsFiniteSet(C \cup {j})
        /\ t1[j] = now /\ \A i \in C : t1[i] = t[i]
        /\ \A a, d \in Int : now >= d => Between(t1, a, d) = Between(t, a, d)
        /\ \A a \in Int : a <= now => Cardinality(Since(t1, a)) = Cardinality(Since(t, a)) + 1
        /\ \A a, d \in Int : Between(t1, a, d) \in SUBSET Since(t1, a)
    BY <1>2, Admission
  <1>4. DOMAIN t = C /\ DOMAIN t1 = C \cup {j} /\ \A i \in C : t[i] \in Nat /\ t[i] \in Int
    BY <1>2, <1>3
  <1>5. /\ \A i \in C : t[i] < now /\ (t[i] + span <= now \/ Cardinality(Since(t, t[i])) < limit)
        /\ \A i \in C : Cardinality(Between(t, t[i], t[i] + span)) < 2 * limit
    BY Zenon, <1>4 DEF Windows, Closed, Bounded
  <1>6. now \in Int /\ now <= now /\ now >= now
    OBVIOUS
  <1>7. Cardinality(Since(t1, now)) = 1
    <2>1. Since(t, now) = {}
      <3>1. \A i \in C : ~(now <= t[i])
        BY <1>4, <1>5
      <3> QED
        BY Zenon, <1>4, <3>1 DEF Since
    <2>2. Cardinality(Since(t, now)) = 0
      BY Zenon, <2>1, FS_EmptySet
    <2>3. Cardinality(Since(t1, now)) = Cardinality(Since(t, now)) + 1
      BY Zenon, <1>6, <1>3
    <2> QED
      BY <2>2, <2>3
  <1>8. ASSUME NEW i \in C
        PROVE  t[i] + span <= now \/ Cardinality(Between(t1, t[i], now)) < limit
    <2>1. Between(t1, t[i], now) = Since(t, t[i])
      <3>1. Between(t1, t[i], now) = Between(t, t[i], now)
        BY Zenon, <1>4, <1>6, <1>3
      <3>2. Between(t, t[i], now) = Since(t, t[i])
        BY Zenon, <1>4, <1>5 DEF Between, Since
      <3> QED
        BY Zenon, <3>1, <3>2
    <2> QED
      BY Zenon, <1>5, <2>1
  <1>9. Open(t1, 1, now, span, limit)
    <2>1. 1 <= 1 /\ 1 <= limit /\ ~(now < now)
      OBVIOUS
    <2> QED
      BY Zenon, <1>3, <1>4, <1>7, <1>8, <2>1 DEF Open
  <1>10. ASSUME NEW i \in C \cup {j}
        PROVE  Cardinality(Between(t1, t1[i], t1[i] + span)) < 2 * limit
    <2>1. t1[i] \in Int /\ t1[i] + span \in Int
      BY <1>3
    <2>2. PICK S, T : S = Between(t1, t1[i], t1[i] + span) /\ T = Since(t1, t1[i])
      BY Zenon
    <2>3. Cardinality(S) \in Nat /\ Cardinality(T) \in Nat /\ Cardinality(S) <= Cardinality(T)
      <3>1. IsFiniteSet(T)
        BY Zenon, <1>3, <2>2, <1>2, Sizes
      <3>2. S \in SUBSET T
        BY Zenon, <1>3, <2>1, <2>2
      <3> QED
        BY Zenon, <3>1, <3>2, Part
    <2>4. CASE i = j
      <3>1. Cardinality(T) = 1
        BY Zenon, <1>3, <1>7, <2>2, <2>4
      <3>2. Cardinality(S) < 2 * limit
        BY <2>3, <3>1
      <3> QED
        BY Zenon, <2>2, <3>2
    <2>5. CASE i # j /\ t[i] + span <= now
      <3>1. t1[i] = t[i] /\ now >= t[i] + span /\ i \in C
        BY Zenon, <1>3, <1>4, <2>1, <2>5
      <3>2. Between(t1, t[i], t[i] + span) = Between(t, t[i], t[i] + span)
        BY Zenon, <1>3, <2>1, <3>1
      <3> QED
        BY Zenon, <1>5, <3>1, <3>2
    <2>6. CASE i # j /\ ~(t[i] + span <= now)
      <3>1. i \in C /\ t1[i] = t[i]
        BY Zenon, <1>3, <2>6
      <3>2. t[i] <= now
        BY <1>4, <1>5, <3>1
      <3>3. Cardinality(T) = Cardinality(Since(t, t[i])) + 1
        BY Zenon, <1>3, <2>1, <2>2, <3>1, <3>2
      <3>4. Cardinality(Since(t, t[i])) < limit /\ Cardinality(Since(t, t[i])) \in Nat
        BY Zenon, <1>5, <2>6, <3>1, <1>2, Sizes
      <3>5. Cardinality(S) < 2 * limit
        BY <2>3, <3>3, <3>4
      <3> QED
        BY Zenon, <2>2, <3>5
    <2> QED
      BY Zenon, <2>4, <2>5, <2>6
  <1>11. ASSUME NEW i \in C \cup {j}
        PROVE  t1[i] <= now
    BY <1>3, <1>4, <1>5
  <1>12. 1 # 0
    OBVIOUS
  <1>13. Windows(t1, now, 1, now, span, limit)
    BY Zenon, <1>4, <1>9, <1>10, <1>11, <1>12 DEF Windows, Bounded
  <1> QED
    BY Zenon, <1>1, <1>13

\* A further admission of a window, whose counter is below the limit.
LEMMA WindowGoesOn ==
    ASSUME NEW t, IsFiniteSet(DOMAIN t), t \in [DOMAIN t -> Nat], NEW j, j \notin DOMAIN t,
           NEW now \in Nat,
           NEW n \in Nat, 0 < n, NEW b \in Int, NEW span \in Nat, NEW limit \in Nat, n < limit,
           Windows(t, now, n, b, span, limit)
    PROVE  Windows(Added(t, j, now), now, n + 1, b, span, limit)
  <1>1. PICK C, t1 : C = DOMAIN t /\ t1 = Added(t, j, now)
    BY Zenon
  <1>2. /\ IsFiniteSet(C) /\ t \in [C -> Nat] /\ j \notin C
        /\ t1 = [i \in C \cup {j} |-> IF i = j THEN now ELSE t[i]]
    BY Zenon, <1>1 DEF Added
  <1>3. /\ t1 \in [C \cup {j} -> Nat] /\ IsFiniteSet(C \cup {j})
        /\ t1[j] = now /\ \A i \in C : t1[i] = t[i]
        /\ \A a, d \in Int : now >= d => Between(t1, a, d) = Between(t, a, d)
        /\ \A a \in Int : a <= now => Cardinality(Since(t1, a)) = Cardinality(Since(t, a)) + 1
        /\ \A a, d \in Int : Between(t1, a, d) \in SUBSET Since(t1, a)
    BY <1>2, Admission
  <1>4. /\ DOMAIN t = C /\ DOMAIN t1 = C \cup {j} /\ now \in Int
        /\ \A i \in C : t[i] \in Nat /\ t[i] \in Int
    BY <1>2, <1>3
  <1>5. /\ \A i \in C : t[i] <= now
        /\ Cardinality(Since(t, b)) <= n
        /\ \E i \in C : t[i] = b
        /\ \A i \in C : t[i] < b => \/ t[i] + span <= b
                                    \/ Cardinality(Between(t, t[i], b)) < limit
        /\ \A i \in C : Cardinality(Between(t, t[i], t[i] + span)) < 2 * limit
    <2>1. n > 0
      OBVIOUS
    <2> QED
      BY Zenon, <1>4, <2>1 DEF Windows, Open, Bounded
  <1>6. b <= now /\ now >= b
    <2>1. b <= now
      BY Zenon, <1>5
    <2> QED
      BY Zenon, <2>1
  <1>7. Cardinality(Since(t1, b)) <= n + 1 /\ Cardinality(Since(t1, b)) <= limit
    <2>1. Cardinality(Since(t1, b)) = Cardinality(Since(t, b)) + 1
      BY Zenon, <1>3, <1>6
    <2>2. Cardinality(Since(t, b)) \in Nat
      BY Zenon, <1>2, Sizes
    <2> QED
      BY <1>5, <2>1, <2>2
  <1>8. Open(t1, n + 1, b, span, limit)
    <2>1. ~(now < b)
      BY <1>6
    <2>2. \E i \in C \cup {j} : t1[i] = b
      BY Zenon, <1>3, <1>5
    <2>3. \A i \in C : Between(t1, t[i], b) = Between(t, t[i], b)
      BY Zenon, <1>3, <1>4, <1>6
    <2>4. ASSUME NEW i \in C \cup {j}, t1[i] < b
          PROVE  t1[i] + span <= b \/ Cardinality(Between(t1, t1[i], b)) < limit
      BY Zenon, <1>3, <1>5, <2>1, <2>3, <2>4
    <2> QED
      BY Zenon, <1>4, <1>7, <2>2, <2>4 DEF Open
  <1>9. ASSUME NEW i \in C \cup {j}
        PROVE  Cardinality(Between(t1, t1[i], t1[i] + span)) < 2 * limit
    <2>1. t1[i] \in Int /\ t1[i] + span \in Int /\ limit < 2 * limit
      BY <1>3
    <2>2. PICK S, T, U : /\ S = Between(t1, t1[i], t1[i] + span)
                         /\ T = Since(t1, b) /\ U = Between(t1, t1[i], b)
      BY Zenon
    <2>3. IsFiniteSet(T) /\ Cardinality(T) \in Nat /\ IsFiniteSet(U) /\ Cardinality(U) \in Nat
      BY Zenon, <1>3, <2>2, <1>2, Sizes
    <2>4. CASE b <= t1[i]
      <3>1. S \in SUBSET T
        BY <1>3, <1>4, <2>1, <2>2, <2>4 DEF Between, Since
      <3>2. Cardinality(S) \in Nat /\ Cardinality(S) <= Cardinality(T)
        BY Zenon, <2>3, <3>1, Part
      <3>3. Cardinality(T) <= limit
        BY Zenon, <1>7, <2>2
      <3>4. Cardinality(S) < 2 * limit
        BY <2>3, <3>2, <3>3
      <3> QED
        BY Zenon, <2>2, <3>4
    <2>5. CASE t1[i] < b /\ t1[i] + span <= b
      <3>1. i \in C /\ t1[i] = t[i]
        <4>1. i # j
          BY <1>3, <1>6, <2>5
        <4> QED
          BY Zenon, <1>3, <4>1
      <3>2. now >= t1[i] + span
        BY <1>6, <2>1, <2>5
      <3>3. Between(t1, t1[i], t1[i] + span) = Between(t, t1[i], t1[i] + span)
        BY Zenon, <1>3, <2>1, <3>2
      <3> QED
        BY Zenon, <1>5, <3>1, <3>3
    <2>6. CASE t1[i] < b /\ ~(t1[i] + span <= b)
      <3>1. i \in C /\ t1[i] = t[i]
        <4>1. i # j
          BY <1>3, <1>6, <2>6
        <4> QED
          BY Zenon, <1>3, <4>1
      <3>2. Cardinality(U) < limit
        <4>1. Between(t1, t1[i], b) = Between(t, t1[i], b)
          BY Zenon, <1>3, <1>6, <2>1
        <4> QED
          BY Zenon, <1>5, <2>2, <2>6, <3>1, <4>1
      <3>3. S \in SUBSET (T \cup U)
        BY <1>3, <1>4, <2>2 DEF Between, Since
      <3>4. /\ IsFiniteSet(T \cup U)
            /\ Cardinality(T \cup U) = Cardinality(T) + Cardinality(U) - Cardinality(T \cap U)
        BY Zenon, <2>3, FS_Union
      <3>5. Cardinality(T \cap U) \in Nat
        <4>1. T \cap U \in SUBSET T
          BY Zenon
        <4> QED
          BY Zenon, <2>3, <4>1, Part
      <3>6. Cardinality(S) \in Nat /\ Cardinality(S) <= Cardinality(T \cup U)
        BY Zenon, <3>3, <3>4, Part
      <3>7. Cardinality(T) <= limit
        BY Zenon, <1>7, <2>2
      <3>8. Cardinality(S) < 2 * limit
        BY <2>3, <3>2, <3>4, <3>5, <3>6, <3>7
      <3> QED
        BY Zenon, <2>2, <3>8
    <2>7. b <= t1[i] \/ t1[i] < b
      BY <2>1
    <2> QED
      BY Zenon, <2>4, <2>5, <2>6, <2>7
  <1>10. ASSUME NEW i \in C \cup {j}
        PROVE  t1[i] <= now
    BY <1>3, <1>4, <1>5
  <1>11. n + 1 # 0
    OBVIOUS
  <1>12. Windows(t1, now, n + 1, b, span, limit)
    BY Zenon, <1>4, <1>8, <1>9, <1>10, <1>11 DEF Windows, Bounded
  <1> QED
    BY Zenon, <1>1, <1>12

\* A request that is denied and counted all the same, which a key over its limit is.
LEMMA WindowCounts ==
    ASSUME NEW C, IsFiniteSet(C), NEW t \in [C -> Nat], NEW now, NEW n \in Nat, 0 < n,
           NEW b, NEW span, NEW limit, Windows(t, now, n, b, span, limit)
    PROVE  Windows(t, now, n + 1, b, span, limit)
  <1>1. n > 0 /\ n + 1 # 0
    OBVIOUS
  <1>2. Open(t, n, b, span, limit)
    BY Zenon, <1>1 DEF Windows
  <1>3. Cardinality(Since(t, b)) <= n + 1
    <2>1. Cardinality(Since(t, b)) \in Nat /\ Cardinality(Since(t, b)) <= n
      BY Zenon, <1>2, Sizes DEF Open
    <2> QED
      BY <2>1
  <1>4. Open(t, n + 1, b, span, limit)
    BY Zenon, <1>2, <1>3 DEF Open
  <1> QED
    BY Zenon, <1>1, <1>4 DEF Windows

-----------------------------------------------------------------------------
\* What a step does to a key

\* The fields of a counter, and its window.
LEMMA KeyTypes ==
    ASSUME TypeInv, NEW k \in Keys
    PROVE  /\ counter[k].n \in Nat /\ counter[k].until \in Nat
           /\ counter[k] = [n |-> counter[k].n, until |-> counter[k].until]
           /\ clock \in Nat /\ k[1] \in Purposes
           /\ Span[k[1]] \in Nat /\ 0 < Span[k[1]] /\ Limit[k[1]] \in Nat /\ 0 < Limit[k[1]]
           /\ counter[k].until - Span[k[1]] \in Int
  <1>1. counter[k] \in [n : Nat, until : Nat] /\ clock \in Nat
    BY Zenon DEF TypeInv
  <1>2. /\ counter[k].n \in Nat /\ counter[k].until \in Nat
        /\ counter[k] = [n |-> counter[k].n, until |-> counter[k].until]
    BY Zenon, <1>1
  <1>3. k[1] \in Purposes
    BY Zenon, PurposeOf
  <1>4. Span[k[1]] \in Nat /\ 0 < Span[k[1]] /\ Limit[k[1]] \in Nat /\ 0 < Limit[k[1]]
    BY Zenon, <1>3, Constants
  <1>5. counter[k].until - Span[k[1]] \in Int
    BY <1>2, <1>4
  <1> QED
    BY Zenon, <1>1, <1>2, <1>3, <1>4, <1>5

\* The key after INCR.
LEMMA IncrementedIs ==
    ASSUME Inv, NEW k \in Keys
    PROVE  /\ Incremented(k) \in [n : Nat, until : Nat]
           /\ Incremented(k).n = counter[k].n + 1
           /\ counter[k].n = 0 => Incremented(k).until = clock + Span[k[1]]
           /\ counter[k].n # 0 => Incremented(k).until = counter[k].until
           /\ clock < Incremented(k).until
           /\ Incremented(k).until <= clock + Span[k[1]]
  <1>1. TypeInv /\ KeyInv(k)
    BY Zenon DEF Inv
  <1>2. PICK n, u, c, s : n = counter[k].n /\ u = counter[k].until /\ c = clock /\ s = Span[k[1]]
    BY Zenon
  <1>3. n \in Nat /\ u \in Nat /\ c \in Nat /\ s \in Nat /\ 0 < s
    BY Zenon, <1>1, <1>2, KeyTypes
  <1>4. n > 0 => c < u /\ u <= c + s
    BY Zenon, <1>1, <1>2 DEF KeyInv
  <1>5. PICK v : v = IF n = 0 THEN c + s ELSE u
    BY Zenon
  <1>6. v \in Nat /\ c < v /\ v <= c + s
    BY <1>3, <1>4, <1>5
  <1>7. Incremented(k) = [n |-> n + 1, until |-> v]
    BY Zenon, <1>2, <1>5 DEF Incremented
  <1>8. [n |-> n + 1, until |-> v] \in [n : Nat, until : Nat]
    BY <1>3, <1>6
  <1>9. Incremented(k).n = n + 1 /\ Incremented(k).until = v
    BY <1>7
  <1> QED
    BY Zenon, <1>2, <1>5, <1>6, <1>7, <1>8, <1>9

\* The admissions that count for a key are finitely many.
LEMMA TimesOf ==
    ASSUME TypeInv, NEW k
    PROVE  /\ IsFiniteSet(Counted(k)) /\ Times(k) \in [Counted(k) -> Nat]
           /\ DOMAIN Times(k) = Counted(k)
           /\ Len(admitted) \in Nat /\ Len(admitted) + 1 \notin Counted(k)
           /\ DOMAIN admitted = 1..Len(admitted)
  <1>1. admitted \in Seq([keys : SUBSET AdmissionKeys, at : Nat])
    BY Zenon DEF TypeInv
  <1>2. Len(admitted) \in Nat /\ DOMAIN admitted = 1..Len(admitted)
    BY <1>1
  <1>3. ASSUME NEW i \in DOMAIN admitted
        PROVE  admitted[i].at \in Nat
    <2>1. PICK R : R = [keys : SUBSET AdmissionKeys, at : Nat]
      BY Zenon
    <2>2. admitted \in Seq(R)
      BY Zenon, <1>1, <2>1
    <2>3. admitted[i] \in R
      BY <2>2
    <2>4. admitted[i] \in [keys : SUBSET AdmissionKeys, at : Nat]
      BY Zenon, <2>1, <2>3
    <2> QED
      BY Zenon, <2>4
  <1>4. IsFiniteSet(1..Len(admitted))
    BY <1>2, FS_Interval
  <1>5. Counted(k) \in SUBSET (1..Len(admitted))
    BY Zenon, <1>2 DEF Counted
  <1>6. IsFiniteSet(Counted(k))
    BY Zenon, <1>4, <1>5, FS_Subset
  <1>7. Times(k) \in [Counted(k) -> Nat]
    BY Zenon, <1>3 DEF Times, Counted
  <1>8. Len(admitted) + 1 \notin 1..Len(admitted)
    BY <1>2
  <1> QED
    BY Zenon, <1>2, <1>5, <1>6, <1>7, <1>8 DEF Times

\* An admission counts for its keys, and for no other.
LEMMA TimesAppended ==
    ASSUME TypeInv, NEW K \in SUBSET AdmissionKeys, NEW k,
           admitted' = Append(admitted, [keys |-> K, at |-> clock])
    PROVE  /\ k \notin K => Times(k)' = Times(k)
           /\ k \in K => Times(k)' = Added(Times(k), Len(admitted) + 1, clock)
  <1>1. PICK e, m : e = [keys |-> K, at |-> clock] /\ m = Len(admitted) + 1
    BY Zenon
  <1>2. /\ admitted \in Seq([keys : SUBSET AdmissionKeys, at : Nat])
        /\ e \in [keys : SUBSET AdmissionKeys, at : Nat] /\ e.keys = K /\ e.at = clock
    BY Zenon, <1>1 DEF TypeInv
  <1>3. /\ Len(admitted) \in Nat /\ m \notin Counted(k) /\ m \notin DOMAIN admitted
        /\ DOMAIN admitted = 1..Len(admitted)
    BY <1>1, TimesOf
  <1>4. /\ DOMAIN admitted' = DOMAIN admitted \cup {m}
        /\ \A i \in DOMAIN admitted : admitted'[i] = admitted[i]
        /\ admitted'[m] = e
    BY <1>1, <1>2, <1>3
  <1>5. Counted(k)' = {j \in DOMAIN admitted' : k \in admitted'[j].keys}
    BY Zenon DEF Counted
  <1>6. Counted(k)' = IF k \in K THEN Counted(k) \cup {m} ELSE Counted(k)
    BY Zenon, <1>2, <1>3, <1>4, <1>5 DEF Counted
  <1>7. \A i \in Counted(k) : admitted'[i].at = admitted[i].at /\ i # m
    BY Zenon, <1>3, <1>4 DEF Counted
  <1>8. Times(k)' = [j \in Counted(k)' |-> admitted'[j].at]
    BY Zenon DEF Times
  <1>9. ASSUME k \notin K
        PROVE  Times(k)' = Times(k)
    BY Zenon, <1>6, <1>7, <1>8, <1>9 DEF Times
  <1>10. ASSUME k \in K
         PROVE  Times(k)' = Added(Times(k), m, clock)
    <2>1. Times(k)' = [i \in Counted(k) \cup {m} |-> IF i = m THEN clock ELSE Times(k)[i]]
      BY Zenon, <1>2, <1>4, <1>6, <1>7, <1>8, <1>10 DEF Times
    <2>2. DOMAIN Times(k) = Counted(k)
      BY Zenon DEF Times
    <2> QED
      BY Zenon, <2>1, <2>2 DEF Added
  <1> QED
    BY Zenon, <1>1, <1>9, <1>10

\* Nothing happens to the key.
LEMMA WindowQuiet ==
    ASSUME Inv, NEW k \in AdmissionKeys,
           clock' = clock, counter'[k] = counter[k], Times(k)' = Times(k)
    PROVE  WindowInv(k)'
  <1>1. WindowInv(k)
    BY Zenon DEF Inv
  <1> QED
    BY Zenon, <1>1 DEF WindowInv

\* A request is let in, with the key below its limit.
LEMMA WindowAdmits ==
    ASSUME Inv, NEW k \in AdmissionKeys,
           clock' = clock, counter'[k] = Incremented(k), counter[k].n < Limit[k[1]],
           Times(k)' = Added(Times(k), Len(admitted) + 1, clock)
    PROVE  WindowInv(k)'
  <1>1. TypeInv /\ WindowInv(k) /\ k \in Keys
    BY Zenon DEF Inv, AdmissionKeys
  <1>2. PICK t, j, now, n, b, u, s, l :
           /\ t = Times(k) /\ j = Len(admitted) + 1
           /\ now = clock /\ n = counter[k].n /\ b = counter[k].until - Span[k[1]]
           /\ u = Incremented(k).until /\ s = Span[k[1]] /\ l = Limit[k[1]]
    BY Zenon
  <1>3. IsFiniteSet(DOMAIN t) /\ t \in [DOMAIN t -> Nat] /\ j \notin DOMAIN t
    BY Zenon, <1>1, <1>2, TimesOf
  <1>4. n \in Nat /\ now \in Nat /\ b \in Int /\ s \in Nat /\ l \in Nat /\ 0 < l /\ n < l
    BY Zenon, <1>1, <1>2, KeyTypes
  <1>5. Windows(t, now, n, b, s, l)
    BY Zenon, <1>1, <1>2 DEF WindowInv
  <1>6. Times(k)' = Added(t, j, now)
    BY Zenon, <1>2
  <1>7. /\ Incremented(k).n = n + 1
        /\ n = 0 => u = now + s
        /\ n # 0 => u - s = b
    BY Zenon, <1>1, <1>2, IncrementedIs
  <1>8. Windows(Added(t, j, now), now, n + 1, u - s, s, l)
    <2>1. CASE n = 0
      <3>1. Windows(Added(t, j, now), now, 1, now, s, l)
        <4>1. Windows(t, now, 0, b, s, l)
          BY Zenon, <1>5, <2>1
        <4> QED
          BY Zenon, <1>3, <1>4, <4>1, WindowBegins
      <3>2. n + 1 = 1 /\ u - s = now
        BY <1>4, <1>7, <2>1
      <3> QED
        BY Zenon, <3>1, <3>2
    <2>2. CASE n # 0
      <3>1. 0 < n
        BY <1>4, <2>2
      <3>2. Windows(Added(t, j, now), now, n + 1, b, s, l)
        BY Zenon, <1>3, <1>4, <1>5, <3>1, WindowGoesOn
      <3> QED
        BY Zenon, <1>7, <2>2, <3>2
    <2> QED
      BY Zenon, <2>1, <2>2
  <1> QED
    BY Zenon, <1>2, <1>6, <1>7, <1>8 DEF WindowInv

\* A request is denied, and counted.
LEMMA WindowDenies ==
    ASSUME Inv, NEW k \in AdmissionKeys,
           clock' = clock, counter'[k] = Incremented(k), counter[k].n # 0,
           Times(k)' = Times(k)
    PROVE  WindowInv(k)'
  <1>1. TypeInv /\ WindowInv(k) /\ k \in Keys
    BY Zenon DEF Inv, AdmissionKeys
  <1>2. PICK C, t, now, n, b, s, l :
           /\ C = Counted(k) /\ t = Times(k) /\ now = clock /\ n = counter[k].n
           /\ b = counter[k].until - Span[k[1]] /\ s = Span[k[1]] /\ l = Limit[k[1]]
    BY Zenon
  <1>3. IsFiniteSet(C) /\ t \in [C -> Nat] /\ n \in Nat /\ n # 0
    BY Zenon, <1>1, <1>2, TimesOf, KeyTypes
  <1>4. 0 < n
    BY <1>3
  <1>5. Windows(t, now, n, b, s, l)
    BY Zenon, <1>1, <1>2 DEF WindowInv
  <1>6. Windows(t, now, n + 1, b, s, l)
    BY Zenon, <1>3, <1>4, <1>5, WindowCounts
  <1>7. Incremented(k).n = n + 1 /\ Incremented(k).until - s = b
    BY Zenon, <1>1, <1>2, <1>3, IncrementedIs
  <1> QED
    BY Zenon, <1>2, <1>6, <1>7 DEF WindowInv

\* Time goes by, and the key may expire.
LEMMA WindowTicks ==
    ASSUME Inv, NEW k \in AdmissionKeys,
           clock' = clock + 1, Times(k)' = Times(k),
           counter'[k] = IF counter[k].until <= clock + 1 THEN NoKey ELSE counter[k]
    PROVE  WindowInv(k)'
  <1>1. TypeInv /\ WindowInv(k) /\ KeyInv(k) /\ k \in Keys
    BY Zenon DEF Inv, AdmissionKeys
  <1>2. PICK C, t, now, n, b, u, s, l :
           /\ C = Counted(k) /\ t = Times(k) /\ now = clock /\ n = counter[k].n
           /\ b = u - s /\ u = counter[k].until /\ s = Span[k[1]] /\ l = Limit[k[1]]
    BY Zenon
  <1>3. /\ IsFiniteSet(C) /\ t \in [C -> Nat]
        /\ n \in Nat /\ now \in Nat /\ b \in Int /\ u \in Nat /\ s \in Nat /\ l \in Nat
    BY Zenon, <1>1, <1>2, TimesOf, KeyTypes
  <1>4. Windows(t, now, n, b, s, l)
    BY Zenon, <1>1, <1>2 DEF WindowInv
  <1>5. Windows(t, now + 1, n, b, s, l)
    BY Zenon, <1>3, <1>4, WindowLasts
  <1>6. NoKey.n = 0
    BY Zenon DEF NoKey
  <1>7. CASE ~(u <= now + 1) \/ n = 0
    <2>1. CASE ~(u <= now + 1)
      BY Zenon, <1>2, <1>5, <2>1 DEF WindowInv
    <2>2. CASE n = 0
      <3>1. counter'[k].n = 0
        BY Zenon, <1>2, <1>6, <2>2
      <3>2. ~(0 > 0)
        OBVIOUS
      <3>3. \A d : Windows(t, now + 1, 0, d, s, l)
        BY Zenon, <1>5, <2>2, <3>2 DEF Windows
      <3> QED
        BY Zenon, <1>2, <3>1, <3>3 DEF WindowInv
    <2> QED
      BY Zenon, <1>7, <2>1, <2>2
  <1>8. CASE u <= now + 1 /\ n # 0
    <2>1. n > 0 /\ b + s <= now + 1
      BY <1>2, <1>3, <1>8
    <2>2. \A d : Windows(t, now + 1, 0, d, s, l)
      BY Zenon, <1>3, <1>4, <2>1, WindowEnds
    <2>3. counter'[k].n = 0
      BY Zenon, <1>2, <1>6, <1>8
    <2> QED
      BY Zenon, <1>2, <2>2, <2>3 DEF WindowInv
  <1> QED
    BY Zenon, <1>7, <1>8

-----------------------------------------------------------------------------
\* What a step does to all the keys

\* A counter is left as it is, increased or deleted.
LEMMA KeysKept ==
    ASSUME Inv, clock' = clock, counter' \in [Keys -> [n : Nat, until : Nat]],
           \A k \in Keys : counter'[k] \in {counter[k], Incremented(k), NoKey}
    PROVE  \A k \in Keys : KeyInv(k)'
  <1> SUFFICES ASSUME NEW k \in Keys
               PROVE  KeyInv(k)'
    BY Zenon
  <1>1. KeyInv(k)
    BY Zenon DEF Inv
  <1>2. NoKey.n = 0 /\ NoKey.until = 0 /\ ~(0 > 0)
    BY DEF NoKey
  <1>3. /\ Incremented(k).n # 0 /\ clock < Incremented(k).until
        /\ Incremented(k).until <= clock + Span[k[1]]
    <2>1. counter[k].n \in Nat
      BY Zenon, KeyTypes DEF Inv
    <2>2. counter[k].n + 1 # 0
      BY <2>1
    <2> QED
      BY Zenon, <2>2, IncrementedIs
  <1>4. counter'[k] = counter[k] \/ counter'[k] = Incremented(k) \/ counter'[k] = NoKey
    BY Zenon
  <1> QED
    BY Zenon, <1>1, <1>2, <1>3, <1>4 DEF KeyInv

\* Keys of mails, tokens and submissions are counted, for a request that is let in, or
\* for one that is denied.
LEMMA Counts ==
    ASSUME Inv, NEW K \in SUBSET AdmissionKeys, clock' = clock,
           counter' = [k \in Keys |-> IF k \in K THEN Incremented(k) ELSE counter[k]],
           \/ /\ admitted' = Append(admitted, [keys |-> K, at |-> clock])
              /\ \A k \in K : counter[k].n < Limit[k[1]]
           \/ /\ admitted' = admitted
              /\ \A k \in K : counter[k].n # 0
    PROVE  /\ counter' \in [Keys -> [n : Nat, until : Nat]]
           /\ admitted' \in Seq([keys : SUBSET AdmissionKeys, at : Nat])
           /\ \A k \in Keys : KeyInv(k)'
           /\ \A k \in AdmissionKeys : WindowInv(k)'
           /\ \A c \in Clients : Failures(c)' = Failures(c)
  <1>1. /\ TypeInv /\ clock \in Nat /\ counter \in [Keys -> [n : Nat, until : Nat]]
        /\ admitted \in Seq([keys : SUBSET AdmissionKeys, at : Nat])
    BY Zenon DEF Inv, TypeInv
  <1>2. \A k \in AdmissionKeys : k \in Keys
    BY Zenon DEF AdmissionKeys
  <1>3. counter' \in [Keys -> [n : Nat, until : Nat]]
    BY Zenon, <1>1, IncrementedIs
  <1>4. \A k \in Keys : counter'[k] = IF k \in K THEN Incremented(k) ELSE counter[k]
    BY Zenon
  <1>5. \A k \in Keys : KeyInv(k)'
    BY Zenon, <1>3, <1>4, KeysKept
  <1>6. admitted' \in Seq([keys : SUBSET AdmissionKeys, at : Nat])
    <2>1. PICK R, e : /\ R = [keys : SUBSET AdmissionKeys, at : Nat]
                      /\ e = [keys |-> K, at |-> clock]
      BY Zenon
    <2>2. e \in R
      BY Zenon, <1>1, <2>1
    <2>3. admitted \in Seq(R) => Append(admitted, e) \in Seq(R)
      BY <2>2
    <2> QED
      BY Zenon, <1>1, <2>1, <2>3
  <1>7. ASSUME NEW k \in AdmissionKeys
        PROVE  WindowInv(k)'
    <2>1. admitted' = admitted => Times(k)' = Times(k)
      BY Zenon DEF Times, Counted
    <2>2. admitted' = Append(admitted, [keys |-> K, at |-> clock]) =>
             /\ k \notin K => Times(k)' = Times(k)
             /\ k \in K => Times(k)' = Added(Times(k), Len(admitted) + 1, clock)
      BY Zenon, <1>1, TimesAppended
    <2>3. CASE k \notin K
      BY Zenon, <1>2, <1>4, <2>1, <2>2, <2>3, WindowQuiet
    <2>4. CASE k \in K /\ admitted' = Append(admitted, [keys |-> K, at |-> clock])
                       /\ counter[k].n < Limit[k[1]]
      BY Zenon, <1>2, <1>4, <2>2, <2>4, WindowAdmits
    <2>5. CASE k \in K /\ admitted' = admitted /\ counter[k].n # 0
      BY Zenon, <1>2, <1>4, <2>1, <2>5, WindowDenies
    <2> QED
      BY Zenon, <2>3, <2>4, <2>5
  <1>8. ASSUME NEW c \in Clients
        PROVE  Failures(c)' = Failures(c)
    <2>1. /\ "login:ip-identifier" \in LoginPurposes
          /\ <<"login:ip-identifier", c>>[1] = "login:ip-identifier"
      BY Zenon DEF LoginPurposes
    <2>2. /\ <<"login:ip-identifier", c>> \notin AdmissionKeys
          /\ <<"login:ip-identifier", c>> \in Keys
      BY Zenon, <1>1, <2>1, GuessTypes DEF AdmissionKeys
    <2> QED
      BY Zenon, <1>4, <2>2 DEF Failures
  <1> QED
    BY Zenon, <1>3, <1>5, <1>6, <1>7, <1>8

\* No request moves.
LEMMA GuessQuiet ==
    ASSUME Inv, NEW c \in Clients, UNCHANGED <<req, faults>>,
           wrong'[c] = 0 \/ (wrong'[c] = wrong[c] /\ Failures(c)' = Failures(c)),
           Failures(c)' \in Nat
    PROVE  GuessInv(c)'
  <1>1. Pending(c)' = Pending(c) /\ Passed(c)' = Passed(c)
    BY Zenon DEF Pending, Passed, IsPending, IsPassed
  <1>2. CASE wrong'[c] = wrong[c] /\ Failures(c)' = Failures(c)
    BY Zenon, <1>1, <1>2 DEF Inv, GuessInv, Failures
  <1>3. CASE wrong'[c] = 0
    <2>1. PICK n1, f, P, Q, R : /\ n1 = Failures(c)' /\ f = faults /\ P = Cardinality(Pending(c))
                                /\ Q = Cardinality(Passed(c)) /\ R = Cardinality(Requests)
      BY Zenon
    <2>2. P + Q <= R
      BY Zenon, <2>1, GuessDisjoint
    <2>3. P \in Nat /\ Q \in Nat
      <3>1. Pending(c) \in SUBSET Requests /\ Passed(c) \in SUBSET Requests
        BY Zenon DEF Pending, Passed
      <3> QED
        BY Zenon, <2>1, <3>1, Constants, Part
    <2>4. R \in Nat /\ f \in Nat /\ n1 \in Nat /\ FirstLimit \in Nat /\ 0 < FirstLimit
      BY Zenon, <2>1, Constants DEF Inv, TypeInv
    <2>5. 0 <= n1 + P + f /\ 0 + Q <= FirstLimit - 1 + R + f
      BY <2>2, <2>3, <2>4
    <2> QED
      BY Zenon, <1>1, <1>3, <2>1, <2>5 DEF GuessInv, Failures
  <1> QED
    BY Zenon, <1>2, <1>3

-----------------------------------------------------------------------------
\* Mails and tokens

\* The keys of a mail are keys of admissions.
LEMMA MailKeys ==
    ASSUME NEW c \in Clients
    PROVE  /\ EmailRequestScopes(c) \in SUBSET AdmissionKeys
           /\ AccountScopes(c) \in SUBSET AdmissionKeys
           /\ Key("token", c) \in AdmissionKeys
  <1>1. \A p \in MailPurposes \cup AccountPurposes \cup {"token"} :
           p \in Purposes /\ p \notin LoginPurposes
    BY Zenon DEF MailPurposes, AccountPurposes, Purposes, LoginPurposes
  <1>2. \A p \in MailPurposes \cup AccountPurposes \cup {"token"} : Key(p, c) \in AdmissionKeys
    BY Zenon, <1>1, KeyIs
  <1> QED
    BY Zenon, <1>2 DEF EmailRequestScopes, AccountScopes

\* The script counts for all of its keys, or for none.
LEMMA ScriptCounts ==
    ASSUME Inv, NEW keys \in SUBSET AdmissionKeys, AdmissionScript(keys), clock' = clock
    PROVE  /\ counter' \in [Keys -> [n : Nat, until : Nat]]
           /\ admitted' \in Seq([keys : SUBSET AdmissionKeys, at : Nat])
           /\ \A k \in Keys : KeyInv(k)'
           /\ \A k \in AdmissionKeys : WindowInv(k)'
           /\ \A c \in Clients : Failures(c)' = Failures(c)
  <1>1. TypeInv /\ \A k \in AdmissionKeys : k \in Keys
    BY Zenon DEF Inv, AdmissionKeys
  <1>2. CASE Blocking(keys) = {}
    <2>1. /\ counter' = [k \in Keys |-> IF k \in keys THEN Incremented(k) ELSE counter[k]]
          /\ admitted' = Append(admitted, [keys |-> keys, at |-> clock])
      BY Zenon, <1>2 DEF AdmissionScript
    <2>2. ASSUME NEW k \in keys
          PROVE  counter[k].n < Limit[k[1]]
      <3>1. ~(counter[k].n >= Limit[k[1]])
        BY Zenon, <1>2 DEF Blocking
      <3>2. counter[k].n \in Nat /\ Limit[k[1]] \in Nat
        BY Zenon, <1>1, KeyTypes
      <3> QED
        BY <3>1, <3>2
    <2> QED
      BY Zenon, <2>1, <2>2, Counts
  <1>3. CASE Blocking(keys) # {}
    <2>1. counter' = counter /\ admitted' = admitted
      BY Zenon, <1>3 DEF AdmissionScript
    <2>2. counter' = [k \in Keys |-> IF k \in {} THEN Incremented(k) ELSE counter[k]]
      BY Zenon, <2>1 DEF Inv, TypeInv
    <2>3. {} \in SUBSET AdmissionKeys /\ \A k \in {} : counter[k].n # 0
      BY Zenon
    <2> QED
      BY Zenon, <2>1, <2>2, <2>3, Counts
  <1> QED
    BY Zenon, <1>2, <1>3

\* A step that counts, and moves no request.
LEMMA CountsOnly ==
    ASSUME Inv, UNCHANGED <<service, clock, req, faults, wrong>>,
           counter' \in [Keys -> [n : Nat, until : Nat]],
           admitted' \in Seq([keys : SUBSET AdmissionKeys, at : Nat]),
           \A k \in Keys : KeyInv(k)',
           \A k \in AdmissionKeys : WindowInv(k)',
           \A c \in Clients : Failures(c)' = Failures(c)
    PROVE  Inv'
  <1>1. TypeInv /\ \A r \in Requests : ReqInv(req[r])
    BY Zenon DEF Inv
  <1>2. TypeInv'
    BY Zenon, <1>1 DEF TypeInv
  <1>3. \A r \in Requests : ReqInv(req[r])'
    BY Zenon, <1>1 DEF ReqInv
  <1>4. ASSUME NEW c \in Clients
        PROVE  GuessInv(c)'
    <2>1. Failures(c) \in Nat
      BY Zenon, <1>1, GuessTypes
    <2> QED
      BY Zenon, <2>1, GuessQuiet
  <1> QED
    BY Zenon, <1>2, <1>3, <1>4 DEF Inv

\* Mails.
LEMMA MailStep ==
    ASSUME Inv, NEW c \in Clients, Register(c) \/ RequestMail(c)
    PROVE  Inv'
  <1>1. UNCHANGED <<service, clock, req, faults, wrong>>
    BY Zenon DEF Register, RequestMail
  <1>2. AdmissionScript(EmailRequestScopes(c)) \/ AdmissionScript(AccountScopes(c))
    BY Zenon DEF Register, RequestMail
  <1>3. PICK keys \in SUBSET AdmissionKeys : AdmissionScript(keys)
    BY Zenon, <1>2, MailKeys
  <1>4. /\ counter' \in [Keys -> [n : Nat, until : Nat]]
        /\ admitted' \in Seq([keys : SUBSET AdmissionKeys, at : Nat])
        /\ \A k \in Keys : KeyInv(k)'
        /\ \A k \in AdmissionKeys : WindowInv(k)'
        /\ \A d \in Clients : Failures(d)' = Failures(d)
    BY Zenon, <1>1, <1>3, ScriptCounts
  <1> QED
    BY Zenon, <1>1, <1>4, CountsOnly

\* One key is counted, for a request that is let in, or for one that is denied.
LEMMA CountsOne ==
    ASSUME Inv, NEW k \in AdmissionKeys, clock' = clock,
           counter' = [counter EXCEPT ![k] = Incremented(k)],
           \/ /\ admitted' = Append(admitted, [keys |-> {k}, at |-> clock])
              /\ counter[k].n < Limit[k[1]]
           \/ admitted' = admitted /\ counter[k].n # 0
    PROVE  /\ counter' \in [Keys -> [n : Nat, until : Nat]]
           /\ admitted' \in Seq([keys : SUBSET AdmissionKeys, at : Nat])
           /\ \A l \in Keys : KeyInv(l)'
           /\ \A l \in AdmissionKeys : WindowInv(l)'
           /\ \A c \in Clients : Failures(c)' = Failures(c)
           /\ counter'[k] = Incremented(k)
  <1>1. counter \in [Keys -> [n : Nat, until : Nat]] /\ k \in Keys
    BY Zenon DEF Inv, TypeInv, AdmissionKeys
  <1>2. PICK K : K = {k}
    BY Zenon
  <1>3. counter' = [l \in Keys |-> IF l \in K THEN Incremented(l) ELSE counter[l]]
    BY Zenon, <1>1, <1>2
  <1>4. /\ K \in SUBSET AdmissionKeys /\ \A l \in K : l = k
        /\ \/ /\ admitted' = Append(admitted, [keys |-> K, at |-> clock])
              /\ counter[k].n < Limit[k[1]]
           \/ admitted' = admitted /\ counter[k].n # 0
    BY Zenon, <1>2
  <1>5. counter'[k] = Incremented(k)
    BY Zenon, <1>1
  <1> QED
    BY Zenon, <1>3, <1>4, <1>5, Counts

\* Tokens: a request is counted even if it is denied.
LEMMA AllowStep ==
    ASSUME Inv, NEW c \in Clients, Allow(c)
    PROVE  Inv'
  <1>1. PICK k : k = Key("token", c)
    BY Zenon
  <1>2. /\ UNCHANGED <<service, clock, req, faults, wrong>>
        /\ counter' = [counter EXCEPT ![k] = Incremented(k)]
        /\ \/ Exceeded(k, counter'[k].n) /\ admitted' = admitted
           \/ /\ ~Exceeded(k, counter'[k].n)
              /\ admitted' = Append(admitted, [keys |-> {k}, at |-> clock])
    BY Zenon, <1>1 DEF Allow
  <1>3. k \in AdmissionKeys /\ k \in Keys /\ TypeInv
    BY Zenon, <1>1, MailKeys DEF AdmissionKeys, Inv
  <1>4. counter'[k] = Incremented(k)
    BY Zenon, <1>2, <1>3 DEF TypeInv
  <1>5. /\ Exceeded(k, counter'[k].n) => counter[k].n # 0
        /\ ~Exceeded(k, counter'[k].n) => counter[k].n < Limit[k[1]]
    <2>1. PICK n, l : n = counter[k].n /\ l = Limit[k[1]]
      BY Zenon
    <2>2. n \in Nat /\ l \in Nat /\ 0 < l
      BY Zenon, <1>3, <2>1, KeyTypes
    <2>3. counter'[k].n = n + 1
      BY Zenon, <1>3, <1>4, <2>1, IncrementedIs
    <2>4. (n + 1 > l => n # 0) /\ (~(n + 1 > l) => n < l)
      BY <2>2
    <2> QED
      BY Zenon, <2>1, <2>3, <2>4 DEF Exceeded
  <1>6. /\ counter' \in [Keys -> [n : Nat, until : Nat]]
        /\ admitted' \in Seq([keys : SUBSET AdmissionKeys, at : Nat])
        /\ \A l \in Keys : KeyInv(l)'
        /\ \A l \in AdmissionKeys : WindowInv(l)'
        /\ \A d \in Clients : Failures(d)' = Failures(d)
    BY Zenon, <1>2, <1>3, <1>5, CountsOne
  <1> QED
    BY Zenon, <1>2, <1>6, CountsOnly

-----------------------------------------------------------------------------
\* Time

\* A tick of the clock.
LEMMA TickStep ==
    ASSUME Inv, Tick
    PROVE  Inv'
  <1>1. /\ clock' = clock + 1 /\ UNCHANGED <<service, req, faults, admitted>>
        /\ counter' = [k \in Keys |-> IF counter[k].until <= clock + 1 THEN NoKey ELSE counter[k]]
        /\ wrong' = [c \in Clients |->
                       IF counter'[Key("login:ip-identifier", c)] = NoKey
                          /\ counter[Key("login:ip-identifier", c)] # NoKey
                       THEN 0 ELSE wrong[c]]
    BY Zenon DEF Tick
  <1>2. TypeInv
    BY Zenon DEF Inv
  <1>3. /\ NoKey \in [n : Nat, until : Nat] /\ NoKey.n = 0 /\ NoKey.until = 0
        /\ ~(0 > 0) /\ 0 \in Nat
    BY DEF NoKey
  <1>4. \A k \in Keys :
           counter'[k] = IF counter[k].until <= clock + 1 THEN NoKey ELSE counter[k]
    BY Zenon, <1>1
  <1>5. TypeInv'
    <2>1. clock' \in Nat
      BY <1>1, <1>2 DEF TypeInv
    <2>2. counter' \in [Keys -> [n : Nat, until : Nat]]
      BY Zenon, <1>1, <1>2, <1>3 DEF TypeInv
    <2>3. wrong' \in [Clients -> Nat]
      BY Zenon, <1>1, <1>2, <1>3 DEF TypeInv
    <2> QED
      BY Zenon, <1>1, <1>2, <2>1, <2>2, <2>3 DEF TypeInv
  <1>6. ASSUME NEW r \in Requests
        PROVE  ReqInv(req[r])'
    <2>1. ReqInv(req[r]) /\ req[r] \in Records /\ clock \in Nat
      BY Zenon, <1>2 DEF Inv, TypeInv
    <2>2. req[r].retry # 0 => req[r].until - (clock + 1) <= req[r].retry
      <3>1. req[r].until \in Nat /\ req[r].retry \in Nat
        BY Zenon, <2>1 DEF Records
      <3> QED
        BY <2>1, <3>1 DEF ReqInv
    <2> QED
      BY Zenon, <1>1, <2>1, <2>2 DEF ReqInv
  <1>7. ASSUME NEW k \in Keys
        PROVE  KeyInv(k)'
    <2>1. KeyInv(k)
      BY Zenon DEF Inv
    <2>2. CASE counter[k].until <= clock + 1
      BY Zenon, <1>3, <1>4, <2>2 DEF KeyInv
    <2>3. CASE ~(counter[k].until <= clock + 1)
      <3>1. counter'[k] = counter[k]
        BY Zenon, <1>4, <2>3
      <3>2. PICK u, c, s : u = counter[k].until /\ c = clock /\ s = Span[k[1]]
        BY Zenon
      <3>3. u \in Nat /\ c \in Nat /\ s \in Nat /\ ~(u <= c + 1)
        BY Zenon, <1>2, <2>3, <3>2, KeyTypes
      <3>4. c + 1 < u /\ (u <= c + s => u <= (c + 1) + s)
        BY <3>3
      <3> QED
        BY Zenon, <1>1, <2>1, <3>1, <3>2, <3>4 DEF KeyInv
    <2> QED
      BY Zenon, <2>2, <2>3
  <1>8. ASSUME NEW c \in Clients
        PROVE  GuessInv(c)'
    <2>1. PICK k : k = <<"login:ip-identifier", c>>
      BY Zenon
    <2>2. k \in Keys /\ k = Key("login:ip-identifier", c)
      <3>1. "login:ip-identifier" \in Purposes
        BY Zenon DEF Purposes, LoginPurposes
      <3> QED
        BY Zenon, <1>2, <2>1, <3>1, GuessTypes, KeyIs
    <2>3. \/ wrong'[c] = 0
          \/ wrong'[c] = wrong[c] /\ counter'[k] = counter[k]
      BY Zenon, <1>1, <1>4, <2>2
    <2>4. Failures(c)' \in Nat
      <3>1. counter'[k] \in [n : Nat, until : Nat]
        BY Zenon, <1>5, <2>2 DEF TypeInv
      <3>2. counter'[k].n \in Nat
        BY Zenon, <3>1
      <3> QED
        BY Zenon, <2>1, <3>2 DEF Failures
    <2> QED
      BY Zenon, <1>1, <2>1, <2>3, <2>4, GuessQuiet DEF Failures
  <1>9. ASSUME NEW k \in AdmissionKeys
        PROVE  WindowInv(k)'
    <2>1. Times(k)' = Times(k) /\ k \in Keys
      BY Zenon, <1>1 DEF Times, Counted, AdmissionKeys
    <2> QED
      BY Zenon, <1>1, <1>4, <2>1, WindowTicks
  <1> QED
    BY Zenon, <1>5, <1>6, <1>7, <1>8, <1>9 DEF Inv

-----------------------------------------------------------------------------
\* Steps of a request

\* The request, and no other, moves.
LEMMA Moves ==
    ASSUME TypeInv, NEW r \in Requests, NEW x \in Records, req' = [req EXCEPT ![r] = x]
    PROVE  /\ req' \in [Requests -> Records] /\ req'[r] = x
           /\ \A q \in Requests : q = r \/ req'[q] = req[q]
  <1>1. req \in [Requests -> Records]
    BY Zenon DEF TypeInv
  <1> QED
    BY Zenon, <1>1

\* What is left to show of a step of a request that lets nothing in.
LEMMA RequestStep ==
    ASSUME Inv, NEW r \in Requests, NEW x \in Records, req' = [req EXCEPT ![r] = x],
           UNCHANGED <<service, clock, admitted>>, ReqInv(x),
           counter' \in [Keys -> [n : Nat, until : Nat]],
           \A k \in Keys : counter'[k] \in {counter[k], Incremented(k), NoKey},
           \A k \in AdmissionKeys : counter'[k] = counter[k],
           faults' \in Nat, wrong' \in [Clients -> Nat],
           TypeInv' => \A c \in Clients : GuessInv(c)'
    PROVE  Inv'
  <1>1. /\ TypeInv
        /\ req' \in [Requests -> Records] /\ req'[r] = x
        /\ \A q \in Requests : q = r \/ req'[q] = req[q]
    BY Zenon, Moves DEF Inv
  <1>2. TypeInv'
    BY Zenon, <1>1 DEF TypeInv
  <1>3. \A q \in Requests : ReqInv(req[q])'
    <2>1. \A q \in Requests : ReqInv(req'[q])
      BY Zenon, <1>1 DEF Inv
    <2> QED
      BY Zenon, <2>1 DEF ReqInv
  <1>4. \A k \in Keys : KeyInv(k)'
    BY Zenon, KeysKept
  <1>5. ASSUME NEW k \in AdmissionKeys
        PROVE  WindowInv(k)'
    <2>1. Times(k)' = Times(k)
      BY Zenon DEF Times, Counted
    <2> QED
      BY Zenon, <2>1, WindowQuiet
  <1> QED
    BY Zenon, <1>2, <1>3, <1>4, <1>5 DEF Inv

\* A request that is not under way.
LEMMA IdleIs ==
    /\ Idle \in Records /\ Idle.pc = "idle" /\ Idle.retry = 0 /\ ReqInv(Idle)
    /\ \A c : ~IsPending(Idle, c) /\ ~IsPassed(Idle, c)
  <1>1. Idle \in Records /\ Idle.pc = "idle" /\ Idle.retry = 0
    BY Zenon DEF Idle, Records, Pcs
  <1> QED
    BY Zenon, <1>1 DEF ReqInv, LoginPcs, LoginPurposes, IsPending, IsPassed

\* Numbers.
LEMMA Less ==
    \A a \in Nat : a <= a /\ a < a + 1 /\ a <= a + 1 /\ a + 1 \in Nat
  OBVIOUS

\* Steps of a login.
LEMMA StepNames ==
    /\ \A p \in LoginPcs : p \in Pcs /\ p # "pttl" /\ p # "idle"
    /\ \A p \in LoginPurposes : p \in LoginPcs /\ p \in Purposes /\ p # "ttl"
    /\ {"ttl", "delay", "compare", "record pair", "record identifier", "record ip",
        "reset pair", "reset identifier"} \subseteq LoginPcs
    /\ "idle" \in Pcs /\ "pttl" \in Pcs /\ "pttl" \notin LoginPcs
    /\ {"login:ip-identifier", "login:identifier", "login:ip"} \subseteq LoginPurposes
  BY Zenon DEF Pcs, LoginPcs, LoginPurposes, Purposes

\* The order of the checks.
LEMMA AfterCheckIs ==
    /\ AfterCheck["login:ip-identifier"] = "login:ip"
    /\ AfterCheck["login:ip"] = "login:identifier"
    /\ AfterCheck["login:identifier"] = "compare"
  <1>1. {"login:ip-identifier", "login:identifier", "login:ip"} \subseteq LoginPurposes
    BY Zenon, StepNames
  <1> QED
    BY Zenon, <1>1 DEF AfterCheck

\* A step that counts nothing and lets nobody pass the first check.
LEMMA PlainStep ==
    ASSUME Inv, NEW r \in Requests, NEW x \in Records, req' = [req EXCEPT ![r] = x],
           UNCHANGED <<service, clock, counter, admitted, wrong>>, ReqInv(x),
           faults' = faults \/ faults' = faults + 1,
           \A c \in Clients : IsPassed(x, c) => IsPassed(req[r], c),
           \A c \in Clients : IsPending(req[r], c) => IsPending(x, c) \/ faults' = faults + 1
    PROVE  Inv'
  <1>1. TypeInv /\ faults \in Nat
    BY Zenon DEF Inv, TypeInv
  <1>2. req'[r] = x /\ \A q \in Requests : q = r \/ req'[q] = req[q]
    BY Zenon, <1>1, Moves
  <1>3. faults <= faults' /\ faults' \in Nat /\ (faults' = faults + 1 => faults < faults')
    BY <1>1
  <1>4. ASSUME TypeInv', NEW c \in Clients
        PROVE  GuessInv(c)'
    <2>1. Failures(c)' = Failures(c) /\ wrong'[c] = wrong[c]
      BY Zenon DEF Failures
    <2>2. Failures(c) <= Failures(c)'
      <3>1. Failures(c) \in Nat
        BY Zenon, <1>1, GuessTypes
      <3> QED
        BY <2>1, <3>1
    <2>3. IsPassed(req'[r], c) => IsPassed(req[r], c)
      BY Zenon, <1>2
    <2>4. IsPending(req[r], c) => IsPending(req'[r], c) \/ faults < faults'
      BY Zenon, <1>2, <1>3
    <2> QED
      BY Zenon, <1>2, <1>3, <1>4, <2>1, <2>2, <2>3, <2>4, GuessKept
  <1>5. /\ counter' \in [Keys -> [n : Nat, until : Nat]] /\ wrong' \in [Clients -> Nat]
        /\ \A k \in Keys : counter'[k] \in {counter[k], Incremented(k), NoKey}
        /\ \A k \in AdmissionKeys : counter'[k] = counter[k]
    BY Zenon, <1>1 DEF TypeInv
  <1> QED
    BY Zenon, <1>3, <1>4, <1>5, RequestStep

\* A request gives up: its answer is given, or Redis does not answer.
LEMMA GivesUp ==
    ASSUME Inv, NEW r \in Requests, req' = [req EXCEPT ![r] = Idle],
           UNCHANGED <<service, clock, counter, admitted, wrong>>,
           (faults' = faults /\ req[r].pc # "record pair") \/ faults' = faults + 1
    PROVE  Inv'
  BY Zenon, IdleIs, PlainStep DEF IsPending

\* A failing command.
LEMMA UnavailableStep ==
    ASSUME Inv, NEW r \in Requests, Unavailable(r)
    PROVE  Inv'
  BY Zenon, GivesUp DEF Unavailable

\* The end of a cooldown is looked up.
LEMMA CooldownLeftStep ==
    ASSUME Inv, NEW r \in Requests, CooldownLeft(r)
    PROVE  Inv'
  <1>1. "pttl" # "record pair"
    OBVIOUS
  <1> QED
    BY Zenon, <1>1, GivesUp DEF CooldownLeft

\* A login begins.
LEMMA LoginBegins ==
    ASSUME Inv, NEW r \in Requests, NEW c \in Clients, Login(r, c)
    PROVE  Inv'
  <1>1. PICK x : x = [Idle EXCEPT !.pc = "login:ip-identifier", !.client = c]
    BY Zenon
  <1>2. /\ service = "login" /\ req[r].pc = "idle"
        /\ req' = [req EXCEPT ![r] = x]
        /\ UNCHANGED <<service, clock, counter, faults, admitted, wrong>>
    BY Zenon, <1>1 DEF Login, Start
  <1>3. x \in Records /\ x.pc = "login:ip-identifier" /\ x.client = c /\ x.retry = 0
    <2>1. "login:ip-identifier" \in Pcs
      BY Zenon, StepNames
    <2> QED
      BY Zenon, <1>1, <2>1 DEF Idle, Records
  <1>4. ReqInv(x)
    BY Zenon, <1>2, <1>3 DEF ReqInv
  <1>5. \A d \in Clients : ~IsPassed(x, d) /\ ~IsPending(req[r], d)
    BY Zenon, <1>2, <1>3 DEF IsPassed, IsPending
  <1> QED
    BY Zenon, <1>2, <1>3, <1>4, <1>5, PlainStep

\* What is known of a request that is logging in.
LEMMA LoginIs ==
    ASSUME Inv, NEW r \in Requests, req[r].pc \in LoginPcs
    PROVE  /\ TypeInv /\ req[r] \in Records /\ ReqInv(req[r])
           /\ service = "login" /\ req[r].client \in Clients
           /\ req[r].pc = "ttl" => req[r].ttl \in LoginPurposes
  BY Zenon DEF Inv, TypeInv, ReqInv

\* The delay of an account at risk is over.
LEMMA DelayStep ==
    ASSUME Inv, NEW r \in Requests, Delay(r)
    PROVE  Inv'
  <1>1. PICK c, x : c = req[r].client /\ x = [Idle EXCEPT !.pc = "compare", !.client = c]
    BY Zenon
  <1>2. /\ req[r].pc = "delay" /\ req' = [req EXCEPT ![r] = x]
        /\ UNCHANGED <<service, clock, counter, faults, admitted, wrong>>
    BY Zenon, <1>1 DEF Delay
  <1>3. "delay" \in LoginPcs /\ "compare" \in Pcs /\ 0 \in Nat
    BY Zenon, StepNames
  <1>4. service = "login" /\ c \in Clients
    BY Zenon, <1>1, <1>2, <1>3, LoginIs
  <1>5. x \in Records /\ x.pc = "compare" /\ x.client = c /\ x.retry = 0
    BY Zenon, <1>1, <1>3, <1>4 DEF Idle, Records
  <1>6. ReqInv(x)
    BY Zenon, <1>4, <1>5 DEF ReqInv
  <1>7. \A d \in Clients : (IsPassed(x, d) => IsPassed(req[r], d)) /\ ~IsPending(req[r], d)
    BY Zenon, <1>1, <1>2, <1>5 DEF IsPassed, IsPending
  <1> QED
    BY Zenon, <1>2, <1>5, <1>6, <1>7, PlainStep

\* A request passes the first check, and its client's counter is below the limit.
LEMMA PassingStep ==
    ASSUME Inv, NEW r \in Requests, NEW x \in Records, req' = [req EXCEPT ![r] = x],
           UNCHANGED <<service, clock, counter, admitted, wrong, faults>>, ReqInv(x),
           x.client = req[r].client,
           req[r].pc # "record pair", x.pc # "record pair",
           req[r].client \in Clients, Failures(req[r].client) < FirstLimit
    PROVE  Inv'
  <1>1. TypeInv
    BY Zenon DEF Inv
  <1>2. req'[r] = x /\ \A q \in Requests : q = r \/ req'[q] = req[q]
    BY Zenon, <1>1, Moves
  <1>3. ASSUME TypeInv', NEW c \in Clients
        PROVE  GuessInv(c)'
    <2>1. ~IsPending(req[r], c) /\ ~IsPending(req'[r], c)
      BY Zenon, <1>2 DEF IsPending
    <2>2. CASE c = req[r].client
      BY Zenon, <1>2, <2>1, <2>2, GuessPasses
    <2>3. CASE c # req[r].client
      <3>1. ~IsPassed(req'[r], c)
        BY Zenon, <1>2, <2>3 DEF IsPassed
      <3>2. Failures(c)' = Failures(c) /\ wrong'[c] = wrong[c]
        BY Zenon DEF Failures
      <3>3. Failures(c) <= Failures(c)' /\ faults <= faults'
        <4>1. Failures(c) \in Nat /\ faults \in Nat
          BY Zenon, <1>1, GuessTypes
        <4> QED
          BY Zenon, <3>2, <4>1, Less
      <3> QED
        BY Zenon, <1>2, <1>3, <2>1, <3>1, <3>2, <3>3, GuessKept
    <2> QED
      BY Zenon, <2>2, <2>3
  <1>4. /\ counter' \in [Keys -> [n : Nat, until : Nat]] /\ wrong' \in [Clients -> Nat]
        /\ \A k \in Keys : counter'[k] \in {counter[k], Incremented(k), NoKey}
        /\ \A k \in AdmissionKeys : counter'[k] = counter[k]
        /\ faults' \in Nat
    BY Zenon, <1>1 DEF TypeInv
  <1> QED
    BY Zenon, <1>3, <1>4, RequestStep

\* GET of a counter of failed logins.
LEMMA CountGetStep ==
    ASSUME Inv, NEW r \in Requests, CountGet(r)
    PROVE  Inv'
  <1>1. PICK p, c, k, m : /\ p = req[r].pc /\ c = req[r].client /\ k = Key(p, c)
                          /\ m = counter[k].n
    BY Zenon
  <1>2. /\ p \in LoginPurposes
        /\ UNCHANGED <<service, clock, counter, faults, admitted, wrong>>
        /\ \/ m = 0 /\ req' = [req EXCEPT ![r].pc = AfterCheck[p]]
           \/ m # 0 /\ req' = [req EXCEPT ![r].pc = "ttl", ![r].ttl = p, ![r].count = m]
    BY Zenon, <1>1 DEF CountGet, Goto
  <1>3. /\ TypeInv /\ req[r] \in Records /\ ReqInv(req[r]) /\ service = "login" /\ c \in Clients
        /\ p \in LoginPcs /\ p \in Purposes
    BY Zenon, <1>1, <1>2, StepNames, LoginIs
  <1>4. /\ k \in Keys /\ m \in Nat
        /\ p = "login:ip-identifier" => m = Failures(c)
    <2>1. k \in Keys /\ (p = "login:ip-identifier" => k = <<p, c>>)
      BY Zenon, <1>1, <1>3, KeyIs
    <2> QED
      BY Zenon, <1>1, <1>3, <2>1, KeyTypes DEF Failures
  <1>5. p \in {"login:ip-identifier", "login:ip", "login:identifier"} /\ p # "record pair"
    BY Zenon, <1>2 DEF LoginPurposes
  <1>6. AfterCheck[p] \in {"login:ip", "login:identifier", "compare"}
    BY Zenon, <1>5, AfterCheckIs
  <1>7. PICK y : y = req[r]
    BY Zenon
  <1>8. req \in [Requests -> Records]
    BY Zenon, <1>3 DEF TypeInv
  <1>9. PICK x : /\ x \in Records /\ req' = [req EXCEPT ![r] = x]
                 /\ x.client = c /\ x.retry = y.retry /\ x.until = y.until
                 /\ \/ m = 0 /\ x.pc \in {"login:ip", "login:identifier", "compare"}
                    \/ m # 0 /\ x.pc = "ttl" /\ x.ttl = p /\ x.count = m
    <2>1. CASE m = 0 /\ req' = [req EXCEPT ![r].pc = AfterCheck[p]]
      <3>1. PICK x : x = [y EXCEPT !.pc = AfterCheck[p]]
        BY Zenon
      <3>2. AfterCheck[p] \in Pcs
        BY Zenon, <1>6 DEF Pcs, LoginPcs, LoginPurposes
      <3>3. /\ x \in Records /\ x.pc = AfterCheck[p] /\ x.client = y.client
            /\ x.retry = y.retry /\ x.until = y.until
        BY Zenon, <1>3, <1>7, <3>1, <3>2 DEF Records
      <3>4. req' = [req EXCEPT ![r] = x]
        BY Zenon, <1>7, <2>1, <3>1
      <3> QED
        BY Zenon, <1>1, <1>6, <1>7, <2>1, <3>3, <3>4
    <2>2. CASE m # 0 /\ req' = [req EXCEPT ![r].pc = "ttl", ![r].ttl = p, ![r].count = m]
      <3>1. PICK x : x = [y EXCEPT !.pc = "ttl", !.ttl = p, !.count = m]
        BY Zenon
      <3>2. "ttl" \in Pcs /\ p \in LoginPurposes \cup {"none"}
        BY Zenon, <1>2, StepNames
      <3>3. /\ x \in Records /\ x.pc = "ttl" /\ x.client = y.client /\ x.ttl = p /\ x.count = m
            /\ x.retry = y.retry /\ x.until = y.until
        BY Zenon, <1>3, <1>4, <1>7, <3>1, <3>2 DEF Records
      <3>4. req' = [req EXCEPT ![r] = x]
        BY Zenon, <1>7, <1>8, <2>2, <3>1
      <3> QED
        BY Zenon, <1>1, <1>7, <2>2, <3>3, <3>4
    <2> QED
      BY Zenon, <1>2, <2>1, <2>2
  <1>10. x.pc # "record pair" /\ x.pc # "pttl" /\ (x.pc = "ttl" => x.ttl = p)
    BY Zenon, <1>9
  <1>11. ReqInv(x)
    BY Zenon, <1>2, <1>3, <1>7, <1>9, <1>10 DEF ReqInv
  <1>12. CASE p = "login:ip-identifier" /\ m < FirstLimit
    <2>1. /\ x.client = req[r].client /\ req[r].client \in Clients
          /\ req[r].pc # "record pair" /\ Failures(req[r].client) < FirstLimit
      BY Zenon, <1>1, <1>3, <1>4, <1>5, <1>9, <1>12
    <2>2. x \in Records /\ req' = [req EXCEPT ![r] = x]
      BY Zenon, <1>9
    <2> QED
      BY Zenon, <1>2, <1>10, <1>11, <2>1, <2>2, PassingStep
  <1>13. CASE p # "login:ip-identifier" \/ ~(m < FirstLimit)
    <2>1. ASSUME NEW d \in Clients, IsPassed(x, d)
          PROVE  IsPassed(req[r], d)
      <3>1. d = c
        BY Zenon, <1>9, <2>1 DEF IsPassed
      <3>2. p # "login:ip-identifier"
        <4>1. ASSUME p = "login:ip-identifier", ~(m < FirstLimit)
              PROVE  FALSE
          <5>1. m # 0
            BY Zenon, <4>1, Constants
          <5>2. x.pc = "ttl" /\ x.ttl = "login:ip-identifier" /\ x.count = m
            BY Zenon, <1>9, <4>1, <5>1
          <5>3. "ttl" \notin {"login:ip", "login:identifier", "delay", "compare"}
            OBVIOUS
          <5> QED
            BY Zenon, <2>1, <4>1, <5>2, <5>3 DEF IsPassed
        <4> QED
          BY Zenon, <1>13, <4>1
      <3>3. p \in {"login:ip", "login:identifier", "delay", "compare"}
        BY Zenon, <1>5, <3>2
      <3> QED
        BY Zenon, <1>1, <3>1, <3>3 DEF IsPassed
    <2>2. \A d \in Clients : ~IsPending(req[r], d)
      BY Zenon, <1>1, <1>5 DEF IsPending
    <2> QED
      BY Zenon, <1>2, <1>9, <1>11, <2>1, <2>2, PlainStep
  <1> QED
    BY Zenon, <1>12, <1>13

\* The decision about a counter.
LEMMA CountTTLStep ==
    ASSUME Inv, NEW r \in Requests, CountTTL(r)
    PROVE  Inv'
  <1>1. PICK p, c, m : p = req[r].ttl /\ c = req[r].client /\ m = req[r].count
    BY Zenon
  <1>2. /\ req[r].pc = "ttl"
        /\ UNCHANGED <<service, clock, counter, faults, admitted, wrong>>
        /\ \/ /\ ~CheckedOut(p, m)
              /\ req' = [req EXCEPT ![r] = [Idle EXCEPT !.pc = AfterCheck[p], !.client = c]]
           \/ /\ p = "login:identifier"
              /\ req' = [req EXCEPT ![r] = [Idle EXCEPT !.pc = "delay", !.client = c,
                                                       !.until = clock + RiskDelay]]
           \/ req' = [req EXCEPT ![r] = Idle]
    BY Zenon, <1>1 DEF CountTTL
  <1>3. "ttl" \in LoginPcs /\ "ttl" # "record pair" /\ "delay" \in Pcs /\ 0 \in Nat
    BY Zenon, StepNames
  <1>4. /\ TypeInv /\ req[r] \in Records /\ service = "login" /\ c \in Clients
        /\ p \in LoginPurposes /\ clock \in Nat
    BY Zenon, <1>1, <1>2, <1>3, LoginIs DEF TypeInv
  <1>5. p \in {"login:ip-identifier", "login:ip", "login:identifier"} /\ p \in Purposes
    BY Zenon, <1>4, StepNames DEF LoginPurposes
  <1>6. /\ AfterCheck[p] \in {"login:ip", "login:identifier", "compare"}
        /\ AfterCheck[p] \in Pcs
    <2>1. AfterCheck[p] \in {"login:ip", "login:identifier", "compare"}
      BY Zenon, <1>5, AfterCheckIs
    <2> QED
      BY Zenon, <2>1 DEF Pcs, LoginPcs, LoginPurposes
  <1>7. \A d \in Clients : ~IsPending(req[r], d)
    BY Zenon, <1>2, <1>3 DEF IsPending
  <1>8. ASSUME NEW x \in Records, req' = [req EXCEPT ![r] = x], x.client = c, x.retry = 0,
               x.pc \in {"login:ip", "login:identifier", "compare", "delay"},
               IsPassed(req[r], c)
        PROVE  Inv'
    <2>1. ReqInv(x)
      BY Zenon, <1>4, <1>8 DEF ReqInv
    <2>2. \A d \in Clients : IsPassed(x, d) => IsPassed(req[r], d)
      BY Zenon, <1>8 DEF IsPassed
    <2> QED
      BY Zenon, <1>2, <1>7, <1>8, <2>1, <2>2, PlainStep
  <1>9. CASE /\ ~CheckedOut(p, m)
             /\ req' = [req EXCEPT ![r] = [Idle EXCEPT !.pc = AfterCheck[p], !.client = c]]
    <2>1. PICK x : x = [Idle EXCEPT !.pc = AfterCheck[p], !.client = c]
      BY Zenon
    <2>2. x \in Records /\ x.pc = AfterCheck[p] /\ x.client = c /\ x.retry = 0
      BY Zenon, <1>4, <1>6, <2>1 DEF Idle, Records
    <2>3. p = "login:ip-identifier" => m < FirstLimit
      <3>1. m \in Nat
        BY Zenon, <1>1, <1>4 DEF Records
      <3> QED
        BY <1>9, <3>1, Constants DEF CheckedOut, FirstLimit
    <2>4. IsPassed(req[r], c)
      BY Zenon, <1>1, <1>2, <2>3 DEF IsPassed
    <2>5. x.pc \in {"login:ip", "login:identifier", "compare", "delay"}
      BY Zenon, <1>6, <2>2
    <2> QED
      BY Zenon, <1>8, <1>9, <2>1, <2>2, <2>4, <2>5
  <1>10. CASE /\ p = "login:identifier"
              /\ req' = [req EXCEPT ![r] = [Idle EXCEPT !.pc = "delay", !.client = c,
                                                       !.until = clock + RiskDelay]]
    <2>1. PICK u : u = clock + RiskDelay
      BY Zenon
    <2>2. u \in Nat
      BY <1>4, <2>1, Constants
    <2>3. PICK x : x = [Idle EXCEPT !.pc = "delay", !.client = c, !.until = u]
      BY Zenon
    <2>4. x \in Records /\ x.pc = "delay" /\ x.client = c /\ x.retry = 0
      BY Zenon, <1>3, <1>4, <2>2, <2>3 DEF Idle, Records
    <2>5. p # "login:ip-identifier"
      BY Zenon, <1>10
    <2>6. IsPassed(req[r], c)
      BY Zenon, <1>1, <1>2, <2>5 DEF IsPassed
    <2>7. x.pc \in {"login:ip", "login:identifier", "compare", "delay"}
      BY Zenon, <2>4
    <2> QED
      BY Zenon, <1>8, <1>10, <2>1, <2>3, <2>4, <2>6, <2>7
  <1>11. CASE req' = [req EXCEPT ![r] = Idle]
    BY Zenon, <1>2, <1>3, <1>11, GivesUp
  <1> QED
    BY Zenon, <1>2, <1>9, <1>10, <1>11

\* The password is compared.
LEMMA CompareStep ==
    ASSUME Inv, NEW r \in Requests, NEW next \in {"record pair", "reset pair", "idle"},
           Compare(r, next)
    PROVE  Inv'
  <1>1. PICK c, y : c = req[r].client /\ y = req[r]
    BY Zenon
  <1>2. /\ y.pc = "compare" /\ UNCHANGED <<service, clock, counter, faults, admitted>>
        /\ req' = [req EXCEPT ![r] = IF next = "idle" THEN Idle ELSE [y EXCEPT !.pc = next]]
        /\ wrong' = IF next = "record pair" THEN [wrong EXCEPT ![c] = wrong[c] + 1] ELSE wrong
    BY Zenon, <1>1 DEF Compare
  <1>3. /\ "compare" \in LoginPcs /\ next \in Pcs /\ "compare" # "record pair"
        /\ "idle" # "record pair" /\ "reset pair" # "record pair"
    BY Zenon, StepNames DEF Pcs, LoginPcs
  <1>4. TypeInv /\ y \in Records /\ ReqInv(y) /\ service = "login" /\ c \in Clients
    BY Zenon, <1>1, <1>2, <1>3, LoginIs
  <1>5. CASE next = "idle"
    BY Zenon, <1>1, <1>2, <1>3, <1>5, GivesUp
  <1>6. ASSUME next # "idle"
        PROVE  Inv'
    <2>1. PICK x : x = [y EXCEPT !.pc = next]
      BY Zenon
    <2>2. /\ x \in Records /\ x.pc = next
          /\ x.client = y.client /\ x.ttl = y.ttl /\ x.retry = y.retry /\ x.until = y.until
      BY Zenon, <1>3, <1>4, <2>1 DEF Records
    <2>3. req' = [req EXCEPT ![r] = x]
      BY Zenon, <1>2, <1>6, <2>1
    <2>4. next \in {"record pair", "reset pair"} /\ next # "pttl" /\ next # "ttl"
      BY Zenon, <1>6
    <2>5. ReqInv(x)
      BY Zenon, <1>1, <1>4, <2>2, <2>4 DEF ReqInv
    <2>6. \A d : IsPassed(y, d) <=> c = d
      BY Zenon, <1>1, <1>2 DEF IsPassed
    <2>7. \A d : ~IsPending(y, d) /\ ~IsPassed(x, d)
      BY Zenon, <1>2, <2>2, <2>4 DEF IsPassed, IsPending
    <2>8. CASE next = "reset pair"
      BY Zenon, <1>1, <1>2, <1>3, <2>2, <2>3, <2>5, <2>7, <2>8, PlainStep
    <2>9. CASE next = "record pair"
      <3>1. /\ wrong' = [wrong EXCEPT ![c] = wrong[c] + 1]
            /\ wrong \in [Clients -> Nat] /\ wrong[c] + 1 \in Nat
        <4>1. wrong \in [Clients -> Nat] /\ wrong[c] \in Nat
          BY Zenon, <1>4 DEF TypeInv
        <4>2. wrong[c] + 1 \in Nat
          BY Zenon, <4>1, Less
        <4> QED
          BY Zenon, <1>2, <2>9, <4>1, <4>2
      <3>2. /\ wrong' \in [Clients -> Nat] /\ wrong'[c] = wrong[c] + 1
            /\ \A d \in Clients : d # c => wrong'[d] = wrong[d]
        BY Zenon, <1>4, <3>1
      <3>3. req'[r] = x /\ \A q \in Requests : q = r \/ req'[q] = req[q]
        BY Zenon, <1>4, <2>2, <2>3, Moves
      <3>4. ASSUME TypeInv', NEW d \in Clients
            PROVE  GuessInv(d)'
        <4>1. CASE d = c
          <5>1. IsPending(x, c)
            BY Zenon, <1>1, <2>2, <2>9 DEF IsPending
          <5> QED
            BY Zenon, <1>1, <1>2, <2>6, <2>7, <3>2, <3>3, <4>1, <5>1, GuessWrong
        <4>2. CASE d # c
          <5>1. Failures(d)' = Failures(d) /\ wrong'[d] = wrong[d]
            BY Zenon, <1>2, <3>2, <4>2 DEF Failures
          <5>2. Failures(d) <= Failures(d)' /\ faults <= faults'
            <6>1. Failures(d) \in Nat /\ faults \in Nat
              BY Zenon, <1>4, GuessTypes
            <6> QED
              BY Zenon, <1>2, <5>1, <6>1, Less
          <5> QED
            BY Zenon, <1>1, <2>7, <3>3, <3>4, <5>1, <5>2, GuessKept
        <4> QED
          BY Zenon, <4>1, <4>2
      <3>5. /\ counter' \in [Keys -> [n : Nat, until : Nat]] /\ faults' \in Nat
            /\ \A k \in Keys : counter'[k] \in {counter[k], Incremented(k), NoKey}
            /\ \A k \in AdmissionKeys : counter'[k] = counter[k]
        BY Zenon, <1>2, <1>4 DEF TypeInv
      <3> QED
        BY Zenon, <1>2, <2>2, <2>3, <2>5, <3>2, <3>4, <3>5, RequestStep
    <2> QED
      BY Zenon, <2>4, <2>8, <2>9
  <1> QED
    BY Zenon, <1>5, <1>6

\* A counter of failed logins gets a value, and the others are left alone.
LoginKeyChanged(k, p, c, v) ==
    /\ k \in Keys /\ counter'[k] = v
    /\ counter' \in [Keys -> [n : Nat, until : Nat]]
    /\ \A l \in Keys : l = k \/ counter'[l] = counter[l]
    /\ \A l \in AdmissionKeys : counter'[l] = counter[l]
    /\ \A d \in Clients : (p = "login:ip-identifier" /\ d = c) \/ Failures(d)' = Failures(d)
    /\ p = "login:ip-identifier" => Failures(c) = counter[k].n /\ Failures(c)' = v.n

\* That is what a change of one of them does.
LEMMA LoginKeys ==
    ASSUME TypeInv, NEW p \in LoginPurposes, NEW c \in Clients, NEW k, k = Key(p, c),
           NEW v \in [n : Nat, until : Nat], counter' = [counter EXCEPT ![k] = v]
    PROVE  LoginKeyChanged(k, p, c, v)
  <1>1. p \in Purposes /\ counter \in [Keys -> [n : Nat, until : Nat]]
    BY Zenon, StepNames DEF TypeInv
  <1>2. k \in Keys /\ k[1] = p /\ (p = "login:ip-identifier" => k = <<p, c>>)
    BY Zenon, <1>1, KeyIs
  <1>3. /\ counter'[k] = v /\ counter' \in [Keys -> [n : Nat, until : Nat]]
        /\ \A l \in Keys : l = k \/ counter'[l] = counter[l]
    BY Zenon, <1>1, <1>2
  <1>4. \A l \in AdmissionKeys : l # k /\ l \in Keys
    BY Zenon, <1>2 DEF AdmissionKeys
  <1>5. ASSUME NEW d \in Clients, ~(p = "login:ip-identifier" /\ d = c)
        PROVE  Failures(d)' = Failures(d)
    <2>1. k # <<"login:ip-identifier", d>>
      BY <1>2, <1>5
    <2>2. <<"login:ip-identifier", d>> \in Keys
      BY Zenon, GuessTypes
    <2> QED
      BY Zenon, <1>3, <2>1, <2>2 DEF Failures
  <1>6. p = "login:ip-identifier" => Failures(c) = counter[k].n /\ Failures(c)' = v.n
    BY Zenon, <1>2, <1>3 DEF Failures
  <1> QED
    BY Zenon, <1>2, <1>3, <1>4, <1>5, <1>6 DEF LoginKeyChanged

\* The three records of a failure.
IsRecord(pc, p, next) ==
    \/ pc = "record pair" /\ p = "login:ip-identifier" /\ next = "record identifier"
    \/ pc = "record identifier" /\ p = "login:identifier" /\ next = "record ip"
    \/ pc = "record ip" /\ p = "login:ip" /\ next = "idle"

\* A failure is recorded; a request that is over a limit remembers how long.
LEMMA RecordStep ==
    ASSUME Inv, NEW r \in Requests, NEW pc, NEW p, NEW next,
           IsRecord(pc, p, next), RecordFailure(r, pc, p, next)
    PROVE  Inv'
  <1>1. PICK c, y, k, v : c = req[r].client /\ y = req[r] /\ k = Key(p, c) /\ v = Incremented(k)
    BY Zenon
  <1>2. /\ y.pc = pc /\ counter' = [counter EXCEPT ![k] = v]
        /\ UNCHANGED <<service, clock, faults, admitted, wrong>>
    BY Zenon, <1>1 DEF RecordFailure
  <1>3. /\ p \in LoginPurposes /\ pc \in LoginPcs /\ next \in Pcs
        /\ next # "record pair" /\ next # "pttl" /\ next # "ttl"
        /\ pc = "record pair" => p = "login:ip-identifier"
    BY Zenon DEF IsRecord, LoginPurposes, LoginPcs, Pcs
  <1>4. /\ TypeInv /\ y \in Records /\ ReqInv(y) /\ service = "login" /\ c \in Clients
        /\ clock \in Nat
    BY Zenon, <1>1, <1>2, <1>3, LoginIs DEF TypeInv
  <1>5. k \in Keys
    BY Zenon, <1>1, <1>3, <1>4, StepNames, KeyIs
  <1>6. v \in [n : Nat, until : Nat] /\ v.n = counter[k].n + 1 /\ clock < v.until
    BY Zenon, <1>1, <1>5, IncrementedIs
  <1>7. /\ counter'[k] = v /\ counter' \in [Keys -> [n : Nat, until : Nat]]
        /\ \A l \in Keys : l = k \/ counter'[l] = counter[l]
        /\ \A l \in AdmissionKeys : counter'[l] = counter[l]
        /\ \A d \in Clients : (p = "login:ip-identifier" /\ d = c) \/ Failures(d)' = Failures(d)
        /\ p = "login:ip-identifier" => Failures(c) = counter[k].n /\ Failures(c)' = v.n
    <2>1. LoginKeyChanged(k, p, c, v)
      BY Zenon, <1>1, <1>2, <1>3, <1>4, <1>6, LoginKeys
    <2> QED
      BY Zenon, <2>1 DEF LoginKeyChanged
  <1>8. PICK x \in Records :
           /\ req' = [req EXCEPT ![r] = x] /\ ReqInv(x)
           /\ \A d \in Clients : ~IsPassed(x, d) /\ ~IsPending(x, d)
    <2>1. CASE next = "idle"
      <3>1. req' = [req EXCEPT ![r] = Idle]
        BY Zenon, <2>1 DEF RecordFailure
      <3> QED
        BY Zenon, <3>1, IdleIs
    <2>2. CASE next # "idle"
      <3>1. PICK retry, until :
               /\ \/ retry = counter'[k].until - clock /\ until = counter'[k].until
                  \/ retry = y.retry /\ until = y.until
               /\ req' = [req EXCEPT ![r].pc = next, ![r].retry = retry, ![r].until = until]
        BY Zenon, <1>1, <2>2 DEF RecordFailure
      <3>2. /\ retry \in Nat /\ until \in Nat
            /\ retry # 0 => until - clock <= retry
        <4>1. CASE retry = y.retry /\ until = y.until
          <5>1. y.retry \in Nat /\ y.until \in Nat
            BY Zenon, <1>4 DEF Records
          <5> QED
            BY Zenon, <1>4, <4>1, <5>1 DEF ReqInv
        <4>2. CASE retry = counter'[k].until - clock /\ until = counter'[k].until
          <5>1. PICK u, now : u = v.until /\ now = clock
            BY Zenon
          <5>2. retry = u - now /\ until = u
            BY Zenon, <1>7, <4>2, <5>1
          <5>3. u \in Nat /\ now \in Nat /\ now < u
            <6>1. v.until \in Nat
              BY Zenon, <1>6
            <6> QED
              BY Zenon, <1>4, <1>6, <5>1, <6>1
          <5>4. retry \in Nat /\ until \in Nat /\ until - now <= retry
            BY <5>2, <5>3
          <5> QED
            BY Zenon, <5>1, <5>4
        <4> QED
          BY Zenon, <3>1, <4>1, <4>2
      <3>3. PICK x : x = [y EXCEPT !.pc = next, !.retry = retry, !.until = until]
        BY Zenon
      <3>4. /\ x \in Records /\ x.pc = next /\ x.client = y.client
            /\ x.retry = retry /\ x.until = until
        BY Zenon, <1>3, <1>4, <3>2, <3>3 DEF Records
      <3>5. req' = [req EXCEPT ![r] = x]
        <4>1. req \in [Requests -> Records]
          BY Zenon, <1>4 DEF TypeInv
        <4> QED
          BY Zenon, <1>1, <3>1, <3>3, <4>1
      <3>6. ReqInv(x)
        BY Zenon, <1>1, <1>3, <1>4, <3>2, <3>4 DEF ReqInv
      <3>7. next \in {"record identifier", "record ip"}
        BY Zenon, <2>2 DEF IsRecord
      <3>8. \A d \in Clients : ~IsPassed(x, d) /\ ~IsPending(x, d)
        BY Zenon, <3>4, <3>7 DEF IsPassed, IsPending
      <3> QED
        BY Zenon, <3>4, <3>5, <3>6, <3>8
    <2> QED
      BY Zenon, <2>1, <2>2
  <1>9. req'[r] = x /\ \A q \in Requests : q = r \/ req'[q] = req[q]
    BY Zenon, <1>4, <1>8, Moves
  <1>10. ASSUME TypeInv', NEW d \in Clients
         PROVE  GuessInv(d)'
    <2>1. Failures(d) \in Nat /\ faults \in Nat /\ counter[k].n \in Nat
      BY Zenon, <1>4, <1>5, GuessTypes, KeyTypes
    <2>2. Failures(d) <= Failures(d)' /\ faults <= faults'
      <3>1. Failures(d)' = Failures(d) \/ Failures(d)' = Failures(d) + 1
        BY Zenon, <1>6, <1>7
      <3> QED
        BY Zenon, <1>2, <2>1, <3>1, Less
    <2>3. IsPending(req[r], d) => Failures(d) < Failures(d)'
      <3>1. IsPending(req[r], d) => Failures(d)' = Failures(d) + 1
        BY Zenon, <1>1, <1>2, <1>3, <1>6, <1>7 DEF IsPending
      <3> QED
        BY Zenon, <2>1, <3>1, Less
    <2>4. ~IsPassed(req'[r], d) /\ wrong'[d] = wrong[d]
      BY Zenon, <1>2, <1>8, <1>9
    <2> QED
      BY Zenon, <1>9, <1>10, <2>2, <2>3, <2>4, GuessKept
  <1>11. /\ \A l \in Keys : counter'[l] \in {counter[l], Incremented(l), NoKey}
         /\ faults' \in Nat /\ wrong' \in [Clients -> Nat]
    BY Zenon, <1>1, <1>2, <1>4, <1>7 DEF TypeInv
  <1> QED
    BY Zenon, <1>2, <1>7, <1>8, <1>10, <1>11, RequestStep

\* The two counters that a successful login deletes.
IsReset(pc, p, next) ==
    \/ pc = "reset pair" /\ p = "login:ip-identifier" /\ next = "reset identifier"
    \/ pc = "reset identifier" /\ p = "login:identifier" /\ next = "idle"

\* A counter is deleted after a successful login, or the command fails.
LEMMA ResetStep ==
    ASSUME Inv, NEW r \in Requests, NEW pc, NEW p, NEW next,
           IsReset(pc, p, next), Reset(r, pc, p, next)
    PROVE  Inv'
  <1>1. PICK c, y, k, x : /\ c = req[r].client /\ y = req[r] /\ k = Key(p, c)
                          /\ x = IF next = "idle" THEN Idle ELSE [y EXCEPT !.pc = next]
    BY Zenon
  <1>2. /\ y.pc = pc /\ UNCHANGED <<service, clock, admitted>>
        /\ req' = [req EXCEPT ![r] = x]
        /\ \/ /\ counter' = [counter EXCEPT ![k] = NoKey] /\ faults' = faults
              /\ wrong' = IF p = "login:ip-identifier" THEN [wrong EXCEPT ![c] = 0] ELSE wrong
           \/ faults' = faults + 1 /\ UNCHANGED <<counter, wrong>>
    BY Zenon, <1>1 DEF Reset
  <1>3. /\ p \in LoginPurposes /\ pc \in LoginPcs /\ next \in Pcs
        /\ next # "record pair" /\ next # "pttl" /\ next # "ttl" /\ pc # "record pair"
        /\ next \in {"reset identifier", "idle"}
    BY Zenon DEF IsReset, LoginPurposes, LoginPcs, Pcs
  <1>4. /\ TypeInv /\ y \in Records /\ ReqInv(y) /\ service = "login" /\ c \in Clients
        /\ wrong \in [Clients -> Nat] /\ faults \in Nat
    BY Zenon, <1>1, <1>2, <1>3, LoginIs DEF TypeInv
  <1>5. x \in Records /\ ReqInv(x) /\ \A d \in Clients : ~IsPassed(x, d) /\ ~IsPending(x, d)
    <2>1. CASE next = "idle"
      BY Zenon, <1>1, <2>1, IdleIs
    <2>2. CASE next # "idle"
      <3>1. x = [y EXCEPT !.pc = next]
        BY Zenon, <1>1, <2>2
      <3>2. x \in Records /\ x.pc = next /\ x.client = y.client
            /\ x.retry = y.retry /\ x.until = y.until
        BY Zenon, <1>3, <1>4, <3>1 DEF Records
      <3>3. ReqInv(x)
        BY Zenon, <1>1, <1>3, <1>4, <3>2 DEF ReqInv
      <3>4. next \notin {"login:ip", "login:identifier", "delay", "compare"}
        BY Zenon, <1>3, <2>2
      <3>5. \A d \in Clients : ~IsPassed(x, d) /\ ~IsPending(x, d)
        BY Zenon, <1>3, <3>2, <3>4 DEF IsPassed, IsPending
      <3> QED
        BY Zenon, <3>2, <3>3, <3>5
    <2> QED
      BY Zenon, <2>1, <2>2
  <1>6. \A d \in Clients : ~IsPending(req[r], d)
    BY Zenon, <1>1, <1>2, <1>3 DEF IsPending
  <1>7. CASE faults' = faults + 1 /\ UNCHANGED <<counter, wrong>>
    BY Zenon, <1>2, <1>5, <1>6, <1>7, PlainStep
  <1>8. CASE /\ counter' = [counter EXCEPT ![k] = NoKey] /\ faults' = faults
             /\ wrong' = IF p = "login:ip-identifier" THEN [wrong EXCEPT ![c] = 0] ELSE wrong
    <2>1. NoKey \in [n : Nat, until : Nat] /\ 0 \in Nat
      BY Zenon DEF NoKey
    <2>2. LoginKeyChanged(k, p, c, NoKey)
      BY Zenon, <1>1, <1>3, <1>4, <1>8, <2>1, LoginKeys
    <2>3. req'[r] = x /\ \A q \in Requests : q = r \/ req'[q] = req[q]
      BY Zenon, <1>2, <1>4, <1>5, Moves
    <2>4. /\ wrong' \in [Clients -> Nat]
          /\ \A d \in Clients :
                wrong'[d] = 0 \/ (wrong'[d] = wrong[d] /\ Failures(d)' = Failures(d))
      <3>1. CASE p = "login:ip-identifier"
        BY Zenon, <1>4, <1>8, <2>1, <2>2, <3>1 DEF LoginKeyChanged
      <3>2. CASE p # "login:ip-identifier"
        BY Zenon, <1>4, <1>8, <2>2, <3>2 DEF LoginKeyChanged
      <3> QED
        BY Zenon, <3>1, <3>2
    <2>5. ASSUME TypeInv', NEW d \in Clients
          PROVE  GuessInv(d)'
      <3>1. Failures(d) \in Nat /\ Failures(d) <= Failures(d) /\ faults <= faults
        BY Zenon, <1>4, GuessTypes, Less
      <3>2. ~IsPassed(req'[r], d) /\ ~IsPending(req[r], d)
        BY Zenon, <1>5, <1>6, <2>3
      <3>3. \/ wrong'[d] = 0
            \/ /\ wrong'[d] = wrong[d] /\ Failures(d) <= Failures(d)'
        BY Zenon, <2>4, <3>1
      <3>4. faults <= faults'
        BY Zenon, <1>8, <3>1
      <3> QED
        BY Zenon, <2>3, <2>5, <3>2, <3>3, <3>4, GuessKept
    <2>6. /\ counter' \in [Keys -> [n : Nat, until : Nat]] /\ faults' \in Nat
          /\ \A l \in Keys : counter'[l] \in {counter[l], Incremented(l), NoKey}
          /\ \A l \in AdmissionKeys : counter'[l] = counter[l]
      BY Zenon, <1>4, <1>8, <2>2 DEF LoginKeyChanged
    <2> QED
      BY Zenon, <1>2, <1>5, <2>4, <2>5, <2>6, RequestStep
  <1> QED
    BY Zenon, <1>2, <1>7, <1>8

-----------------------------------------------------------------------------
\* Submissions

\* A submission takes the key of its cooldown, or finds it taken.
LEMMA SetNXStep ==
    ASSUME Inv, NEW r \in Requests, SetNX(r)
    PROVE  Inv'
  <1>1. PICK k : k = <<"submission", "account">>
    BY Zenon
  <1>2. /\ service = "submission" /\ req[r].pc = "idle"
        /\ UNCHANGED <<service, clock, faults, wrong>>
        /\ \/ /\ counter[k].n = 0 /\ counter' = [counter EXCEPT ![k] = Incremented(k)]
              /\ admitted' = Append(admitted, [keys |-> {k}, at |-> clock]) /\ req' = req
           \/ req' = [req EXCEPT ![r].pc = "pttl"] /\ UNCHANGED <<counter, admitted>>
    BY Zenon, <1>1 DEF SetNX, Start, Goto
  <1>3. TypeInv /\ req[r] \in Records /\ ReqInv(req[r])
    BY Zenon DEF Inv, TypeInv
  <1>4. k \in AdmissionKeys /\ k \in Keys
    <2>1. "submission" \in Purposes /\ "submission" \notin LoginPurposes
      BY Zenon DEF Purposes, LoginPurposes
    <2>2. k[1] = "submission" /\ k \in Purposes \X (Clients \cup {"account"})
      BY Zenon, <1>1, <2>1
    <2> QED
      BY Zenon, <2>1, <2>2 DEF AdmissionKeys, Keys
  <1>5. CASE /\ counter[k].n = 0 /\ counter' = [counter EXCEPT ![k] = Incremented(k)]
             /\ admitted' = Append(admitted, [keys |-> {k}, at |-> clock]) /\ req' = req
    <2>1. counter[k].n < Limit[k[1]]
      BY Zenon, <1>3, <1>4, <1>5, KeyTypes
    <2>2. /\ counter' \in [Keys -> [n : Nat, until : Nat]]
          /\ admitted' \in Seq([keys : SUBSET AdmissionKeys, at : Nat])
          /\ \A l \in Keys : KeyInv(l)'
          /\ \A l \in AdmissionKeys : WindowInv(l)'
          /\ \A d \in Clients : Failures(d)' = Failures(d)
      BY Zenon, <1>2, <1>4, <1>5, <2>1, CountsOne
    <2> QED
      BY Zenon, <1>2, <1>5, <2>2, CountsOnly
  <1>6. CASE req' = [req EXCEPT ![r].pc = "pttl"] /\ UNCHANGED <<counter, admitted>>
    <2>1. PICK y, x : y = req[r] /\ x = [y EXCEPT !.pc = "pttl"]
      BY Zenon
    <2>2. req' = [req EXCEPT ![r] = x]
      BY Zenon, <1>6, <2>1
    <2>3. "pttl" \in Pcs /\ "pttl" \notin LoginPcs /\ "pttl" # "ttl" /\ "idle" # "record pair"
          /\ "pttl" \notin {"login:ip", "login:identifier", "delay", "compare"}
      BY Zenon, StepNames
    <2>4. /\ x \in Records /\ x.pc = "pttl" /\ x.client = y.client
          /\ x.retry = y.retry /\ x.until = y.until
      BY Zenon, <1>3, <2>1, <2>3 DEF Records
    <2>5. ReqInv(x)
      BY Zenon, <1>2, <1>3, <2>1, <2>3, <2>4 DEF ReqInv
    <2>6. \A d \in Clients : ~IsPassed(x, d) /\ ~IsPending(req[r], d)
      BY Zenon, <1>2, <2>3, <2>4 DEF IsPassed, IsPending
    <2> QED
      BY Zenon, <1>2, <1>6, <2>2, <2>4, <2>5, <2>6, PlainStep
  <1> QED
    BY Zenon, <1>2, <1>5, <1>6

-----------------------------------------------------------------------------
\* The theorems

\* Every step keeps the invariant.
LEMMA InvNext ==
    ASSUME Inv, [Next]_vars
    PROVE  Inv'
  <1>1. CASE Tick
    BY Zenon, <1>1, TickStep
  <1>2. ASSUME NEW c \in Clients, Register(c) \/ RequestMail(c) \/ Allow(c)
        PROVE  Inv'
    BY Zenon, <1>2, MailStep, AllowStep
  <1>3. ASSUME NEW r \in Requests, NEW c \in Clients, Login(r, c)
        PROVE  Inv'
    BY Zenon, <1>3, LoginBegins
  <1>4. ASSUME NEW r \in Requests, LoginStep(r)
        PROVE  Inv'
    <2>1. ASSUME NEW pc, NEW p, NEW next, IsRecord(pc, p, next), RecordFailure(r, pc, p, next)
          PROVE  Inv'
      BY Zenon, <2>1, RecordStep
    <2>2. ASSUME NEW pc, NEW p, NEW next, IsReset(pc, p, next), Reset(r, pc, p, next)
          PROVE  Inv'
      BY Zenon, <2>2, ResetStep
    <2>3. /\ IsRecord("record pair", "login:ip-identifier", "record identifier")
          /\ IsRecord("record identifier", "login:identifier", "record ip")
          /\ IsRecord("record ip", "login:ip", "idle")
          /\ IsReset("reset pair", "login:ip-identifier", "reset identifier")
          /\ IsReset("reset identifier", "login:identifier", "idle")
      BY Zenon DEF IsRecord, IsReset
    <2> QED
      BY Zenon, <1>4, <2>1, <2>2, <2>3, CountGetStep, CountTTLStep, DelayStep, CompareStep
         DEF LoginStep
  <1>5. ASSUME NEW r \in Requests, SetNX(r) \/ CooldownLeft(r) \/ Unavailable(r)
        PROVE  Inv'
    BY Zenon, <1>5, SetNXStep, CooldownLeftStep, UnavailableStep
  <1>6. CASE UNCHANGED vars
    <2>1. UNCHANGED <<service, clock, counter, req, faults, admitted, wrong>>
      BY Zenon, <1>6 DEF vars
    <2>2. TypeInv' /\ \A r \in Requests : ReqInv(req[r])'
      BY Zenon, <2>1 DEF Inv, TypeInv, ReqInv
    <2>3. \A k \in Keys : KeyInv(k)'
      BY Zenon, <2>1 DEF Inv, KeyInv
    <2>4. \A c \in Clients : GuessInv(c)'
      BY Zenon, <2>1 DEF Inv, GuessInv, Pending, Passed, IsPending, IsPassed
    <2>5. \A k \in AdmissionKeys : WindowInv(k)'
      BY Zenon, <2>1 DEF Inv, WindowInv, Times, Counted
    <2> QED
      BY Zenon, <2>2, <2>3, <2>4, <2>5 DEF Inv
  <1> QED
    BY Zenon, <1>1, <1>2, <1>3, <1>4, <1>5, <1>6 DEF Next

\* The invariant holds in every state.
LEMMA InvAlways ==
    Spec => []Inv
  BY InvInit, InvNext, PTL DEF Spec

\* The limits of mails, tokens and submissions bound what is let in: fewer than two
\* times the limit of a key in the time of its window, wherever that begins.
THEOREM AdmissionsBounded ==
    Spec => []AdmittedBounded
  <1>1. ASSUME Inv
        PROVE  AdmittedBounded
    <2> SUFFICES ASSUME NEW i \in DOMAIN admitted, NEW k \in admitted[i].keys
                 PROVE  LET window == admitted[i].at..(admitted[i].at + Span[k[1]] - 1)
                            let == {j \in DOMAIN admitted :
                                      k \in admitted[j].keys /\ admitted[j].at \in window}
                        IN  Cardinality(let) < 2 * Limit[k[1]]
      BY Zenon DEF AdmittedBounded
    <2>1. TypeInv
      BY Zenon, <1>1 DEF Inv
    <2>2. \A j \in DOMAIN admitted :
              admitted[j].keys \in SUBSET AdmissionKeys /\ admitted[j].at \in Nat
      <3>1. PICK R : R = [keys : SUBSET AdmissionKeys, at : Nat]
        BY Zenon
      <3>2. admitted \in Seq(R)
        BY Zenon, <2>1, <3>1 DEF TypeInv
      <3>3. \A j \in DOMAIN admitted : admitted[j] \in R
        BY <3>2
      <3>4. \A e \in R : e.keys \in SUBSET AdmissionKeys /\ e.at \in Nat
        BY Zenon, <3>1
      <3> QED
        BY Zenon, <3>3, <3>4
    <2>3. k \in AdmissionKeys /\ k \in Keys
      BY Zenon, <2>2 DEF AdmissionKeys
    <2>4. PICK t, a, s, l : /\ t = Times(k) /\ a = admitted[i].at
                            /\ s = Span[k[1]] /\ l = Limit[k[1]]
      BY Zenon
    <2>5. s \in Nat /\ a \in Nat
      BY Zenon, <2>1, <2>2, <2>3, <2>4, KeyTypes
    <2>6. Bounded(t, s, l)
      BY Zenon, <1>1, <2>3, <2>4 DEF Inv, WindowInv, Windows
    <2>7. /\ DOMAIN t = {j \in DOMAIN admitted : k \in admitted[j].keys}
          /\ \A j \in DOMAIN t : t[j] = admitted[j].at
          /\ i \in DOMAIN t /\ t[i] = a
      BY Zenon, <2>4 DEF Times, Counted
    <2>8. \A u \in Nat : u \in a..(a + s - 1) <=> (a <= u /\ u < a + s)
      BY <2>5
    <2>9. {j \in DOMAIN admitted : k \in admitted[j].keys /\ admitted[j].at \in a..(a + s - 1)}
             = Between(t, a, a + s)
      BY Zenon, <2>2, <2>7, <2>8 DEF Between
    <2>10. Cardinality(Between(t, a, a + s)) < 2 * l
      BY Zenon, <2>6, <2>7 DEF Bounded
    <2> QED
      BY Zenon, <2>4, <2>9, <2>10
  <1> QED
    BY <1>1, InvAlways, PTL

\* However many requests a client has under way at the same time, the wrong passwords
\* that it may try while its counter lives are bounded: those that it may try one after
\* the other, the others under way, and those that could not be recorded.
THEOREM PasswordGuessesBounded ==
    Spec => []GuessesBounded
  <1>1. ASSUME Inv
        PROVE  GuessesBounded
    <2> SUFFICES ASSUME NEW c \in Clients
                 PROVE  wrong[c] <=
                            Limit["login:ip-identifier"] - 1 + Cardinality(Requests) + faults
      BY Zenon DEF GuessesBounded
    <2>1. wrong[c] \in Nat /\ faults \in Nat
      BY Zenon, <1>1, GuessTypes DEF Inv
    <2>2. PICK w, f, Q, R : /\ w = wrong[c] /\ f = faults /\ Q = Cardinality(Passed(c))
                            /\ R = Cardinality(Requests)
      BY Zenon
    <2>3. Q \in Nat /\ R \in Nat
      <3>1. Passed(c) \in SUBSET Requests
        BY Zenon DEF Passed
      <3> QED
        BY Zenon, <2>2, <3>1, Constants, Part
    <2>4. w + Q <= FirstLimit - 1 + R + f
      BY Zenon, <1>1, <2>2 DEF Inv, GuessInv
    <2>5. FirstLimit \in Nat /\ w \in Nat /\ f \in Nat
      BY Zenon, <2>1, <2>2, Constants
    <2>6. w <= FirstLimit - 1 + R + f
      BY <2>3, <2>4, <2>5
    <2> QED
      BY Zenon, <2>2, <2>6 DEF FirstLimit
  <1> QED
    BY <1>1, InvAlways, PTL

-----------------------------------------------------------------------------
\* Refusals

\* What a step says about a refusal.
Honest ==
    /\ 2 * (denial'.until - denial'.at - Second * denial'.header) <= Second
    /\ denial'.header = 0 => service = "login"
    /\ (service \in {"register", "mail"}) /\ denial'.retry # 0 => counter' = counter

\* A step without a refusal.
LEMMA NoRefusal ==
    ASSUME denial' = NoDenial
    PROVE  Honest
  <1>1. NoDenial.at = 0 /\ NoDenial.retry = 0 /\ NoDenial.header = 1 /\ NoDenial.until = 0
    BY Zenon DEF NoDenial
  <1>2. 2 * (0 - 0 - Second * 1) <= Second /\ 1 # 0
    BY Constants
  <1> QED
    BY Zenon, <1>1, <1>2 DEF Honest

\* Division leaves a rest.
LEMMA Quotient ==
    ASSUME NEW a \in Nat, NEW b \in Nat, 0 < b
    PROVE  /\ a \div b \in Nat
           /\ b * (a \div b) <= a /\ a < b * (a \div b) + b
  OBVIOUS

\* HandleError rounds to seconds.
LEMMA Rounding ==
    ASSUME NEW retry \in Int, retry > 0
    PROVE  /\ RetryAfterHeader(retry) \in Nat /\ RetryAfterHeader(retry) # 0
           /\ 2 * retry <= 2 * (Second * RetryAfterHeader(retry)) + Second
  <1>1. PICK s, a, b, q, h : /\ s = Second /\ a = 2 * retry + Second /\ b = 2 * Second
                             /\ q = a \div b /\ h = RetryAfterHeader(retry)
    BY Zenon
  <1>2. s \in Nat /\ 0 < s
    BY Zenon, <1>1, Constants
  <1>3. a \in Nat /\ b \in Nat /\ 0 < b /\ a = 2 * retry + s /\ b = 2 * s
    BY <1>1, <1>2
  <1>4. q \in Nat /\ b * q <= a /\ a < b * q + b
    BY Zenon, <1>1, <1>3, Quotient
  <1>5. ~(retry <= 0)
    OBVIOUS
  <1>6. h = IF q < 1 THEN 1 ELSE q
    BY Zenon, <1>1, <1>5 DEF RetryAfterHeader
  <1>7. CASE q < 1
    <2>1. q = 0 /\ h = 1
      BY <1>4, <1>6, <1>7
    <2>2. b * q = 0
      BY <1>3, <2>1
    <2>3. 2 * retry <= 2 * (s * 1) + s
      BY <1>2, <1>3, <1>4, <2>2
    <2>4. 1 \in Nat /\ 1 # 0
      OBVIOUS
    <2> QED
      BY Zenon, <1>1, <2>1, <2>3, <2>4
  <1>8. CASE ~(q < 1)
    <2>1. h = q /\ q # 0
      BY <1>4, <1>6, <1>8
    <2>2. PICK m : m = s * q
      BY Zenon
    <2>3. m \in Nat /\ b * q = 2 * m
      BY <1>2, <1>3, <1>4, <2>2
    <2>4. 2 * retry <= 2 * m + s
      BY <1>2, <1>3, <1>4, <2>3
    <2> QED
      BY Zenon, <1>1, <1>4, <2>1, <2>2, <2>4
  <1> QED
    BY Zenon, <1>7, <1>8

\* A refusal for a time in which the keys that it is about expire.
LEMMA Refusal ==
    ASSUME clock \in Nat, NEW retry \in Int, NEW until \in Int, retry > 0,
           until - clock <= retry, RateLimited(retry, until),
           service \in {"register", "mail"} => counter' = counter
    PROVE  Honest
  <1>1. PICK h, c : h = RetryAfterHeader(retry) /\ c = clock
    BY Zenon
  <1>2. denial'.at = c /\ denial'.header = h /\ denial'.until = until
    BY Zenon, <1>1 DEF RateLimited
  <1>3. h \in Nat /\ h # 0 /\ 2 * retry <= 2 * (Second * h) + Second
    BY Zenon, <1>1, Rounding
  <1>4. PICK m, s : m = Second * h /\ s = Second
    BY Zenon
  <1>5. m \in Nat /\ s \in Nat /\ c \in Nat /\ until - c <= retry /\ 2 * retry <= 2 * m + s
    BY <1>1, <1>3, <1>4, Constants
  <1>6. 2 * (until - c - m) <= s
    BY <1>5
  <1> QED
    BY Zenon, <1>2, <1>3, <1>4, <1>6 DEF Honest

\* A key that exists lives for a while, as PTTL says.
LEMMA PTTLIs ==
    ASSUME Inv, NEW k \in Keys
    PROVE  /\ clock \in Nat /\ PTTL(k) \in Int /\ counter[k].until \in Int
           /\ counter[k].n # 0 => PTTL(k) = counter[k].until - clock /\ PTTL(k) > 0
           /\ counter[k].n = 0 => PTTL(k) < 0 /\ PTTL(k) <= 0 /\ counter[k].until = 0
  <1>1. PICK n, u, c : n = counter[k].n /\ u = counter[k].until /\ c = clock
    BY Zenon
  <1>2. n \in Nat /\ u \in Nat /\ c \in Nat
    BY Zenon, <1>1, KeyTypes DEF Inv
  <1>3. (n > 0 => c < u) /\ (n = 0 => u = 0)
    BY Zenon, <1>1 DEF Inv, KeyInv
  <1>4. PTTL(k) = IF n = 0 THEN -2 ELSE u - c
    BY Zenon, <1>1 DEF PTTL
  <1>5. n # 0 => c < u
    BY <1>2, <1>3
  <1>6. /\ PTTL(k) \in Int /\ u \in Int
        /\ n # 0 => PTTL(k) = u - c /\ PTTL(k) > 0
        /\ n = 0 => PTTL(k) < 0 /\ PTTL(k) <= 0
    BY <1>2, <1>4, <1>5
  <1> QED
    BY Zenon, <1>1, <1>2, <1>3, <1>6

\* A set of keys has one that expires last.
HasLast(B) == B = {} \/ \E k \in B : \A l \in B : counter[l].until <= counter[k].until

\* One key more.
LEMMA LastOfMore ==
    ASSUME TypeInv, NEW B \in SUBSET Keys, NEW S, NEW k, HasLast(B \cap S)
    PROVE  HasLast(B \cap (S \cup {k}))
  <1>1. \A l \in B : counter[l].until \in Nat
    BY Zenon, KeyTypes
  <1>2. CASE k \notin B
    <2>1. B \cap (S \cup {k}) = B \cap S
      BY Zenon, <1>2
    <2> QED
      BY Zenon, <2>1
  <1>3. CASE k \in B /\ B \cap S = {}
    <2>1. \A l \in B \cap (S \cup {k}) : l = k
      BY Zenon, <1>3
    <2>2. counter[k].until <= counter[k].until
      BY Zenon, <1>1, <1>3, Less
    <2> QED
      BY Zenon, <1>3, <2>1, <2>2 DEF HasLast
  <1>4. CASE k \in B /\ B \cap S # {}
    <2>1. PICK m \in B \cap S : \A l \in B \cap S : counter[l].until <= counter[m].until
      BY Zenon, <1>4 DEF HasLast
    <2>2. PICK a, b : a = counter[m].until /\ b = counter[k].until
      BY Zenon
    <2>3. a \in Nat /\ b \in Nat
      BY Zenon, <1>1, <1>4, <2>2
    <2>4. CASE b <= a
      <3>1. \A l \in B \cap (S \cup {k}) : counter[l].until <= counter[m].until
        BY Zenon, <2>1, <2>2, <2>4
      <3> QED
        BY Zenon, <2>1, <3>1 DEF HasLast
    <2>5. CASE ~(b <= a)
      <3>1. \A x \in Nat : x <= a => x <= b
        BY <2>3, <2>5
      <3>2. b <= b
        BY Zenon, <2>3, Less
      <3>3. \A l \in B \cap (S \cup {k}) : counter[l].until <= counter[k].until
        BY Zenon, <1>1, <2>1, <2>2, <3>1, <3>2
      <3> QED
        BY Zenon, <1>4, <3>3 DEF HasLast
    <2> QED
      BY Zenon, <2>4, <2>5
  <1> QED
    BY Zenon, <1>2, <1>3, <1>4

\* A request for a mail has six keys at most.
LEMMA LastOfMail ==
    ASSUME TypeInv, NEW c \in Clients, NEW B \in SUBSET AccountScopes(c)
    PROVE  HasLast(B)
  <1>1. B \in SUBSET Keys
    BY Zenon, MailKeys DEF AdmissionKeys
  <1>2. PICK S1, S2, S3, S4, S5, S6 :
           /\ S1 = {} \cup {Key("ip-account", c)} /\ S2 = S1 \cup {Key("ip-hour", c)}
           /\ S3 = S2 \cup {Key("ip-day", c)} /\ S4 = S3 \cup {Key("account-hour", c)}
           /\ S5 = S4 \cup {Key("account-day", c)} /\ S6 = S5 \cup {Key("cooldown", c)}
    BY Zenon
  <1>3. HasLast(B \cap {})
    BY Zenon DEF HasLast
  <1>4. HasLast(B \cap S1)
    BY Zenon, <1>1, <1>2, <1>3, LastOfMore
  <1>5. HasLast(B \cap S2)
    BY Zenon, <1>1, <1>2, <1>4, LastOfMore
  <1>6. HasLast(B \cap S3)
    BY Zenon, <1>1, <1>2, <1>5, LastOfMore
  <1>7. HasLast(B \cap S4)
    BY Zenon, <1>1, <1>2, <1>6, LastOfMore
  <1>8. HasLast(B \cap S5)
    BY Zenon, <1>1, <1>2, <1>7, LastOfMore
  <1>9. HasLast(B \cap S6)
    BY Zenon, <1>1, <1>2, <1>8, LastOfMore
  <1>10. \A p \in MailPurposes \cup AccountPurposes : Key(p, c) \in S6
    BY Zenon, <1>2 DEF MailPurposes, AccountPurposes
  <1>11. B \cap S6 = B
    BY Zenon, <1>10 DEF AccountScopes, EmailRequestScopes
  <1> QED
    BY Zenon, <1>9, <1>11

\* The refusal of a mail speaks of the key that expires last, and changes nothing.
LEMMA ScriptHonest ==
    ASSUME Inv, NEW c \in Clients, NEW keys \in SUBSET AccountScopes(c), AdmissionScript(keys)
    PROVE  Honest
  <1>1. CASE Blocking(keys) = {}
    BY Zenon, <1>1, NoRefusal DEF AdmissionScript
  <1>2. CASE Blocking(keys) # {}
    <2>1. PICK B : B = Blocking(keys)
      BY Zenon
    <2>2. PICK T, U : T = {PTTL(k) : k \in B} /\ U = {counter[k].until : k \in B}
      BY Zenon
    <2>3. counter' = counter /\ RateLimited(Max(T), Max(U))
      BY Zenon, <1>2, <2>1, <2>2 DEF AdmissionScript
    <2>4. B \in SUBSET AccountScopes(c) /\ B \in SUBSET Keys /\ B # {}
      BY Zenon, <1>2, <2>1, MailKeys DEF Blocking, AdmissionKeys
    <2>5. ASSUME NEW k \in B
          PROVE  /\ clock \in Nat /\ PTTL(k) \in Int /\ counter[k].until \in Int
                 /\ PTTL(k) = counter[k].until - clock /\ PTTL(k) > 0
      <3>1. counter[k].n >= Limit[k[1]] /\ k \in Keys
        BY Zenon, <2>1, <2>4 DEF Blocking
      <3>2. PICK n, l : n = counter[k].n /\ l = Limit[k[1]]
        BY Zenon
      <3>3. n \in Nat /\ l \in Nat /\ 0 < l /\ n >= l
        BY Zenon, <3>1, <3>2, KeyTypes DEF Inv
      <3>4. n # 0
        BY <3>3
      <3> QED
        BY Zenon, <3>1, <3>2, <3>4, PTTLIs
    <2>6. PICK last \in B : \A l \in B : counter[l].until <= counter[last].until
      BY Zenon, <2>4, LastOfMail DEF HasLast, Inv
    <2>7. \A a, b, d \in Int : /\ a <= b => b >= a
                               /\ a <= b => b - d >= a - d
      OBVIOUS
    <2>8. Max(U) \in U /\ \A u \in U : Max(U) >= u
      <3>1. \A l \in B : counter[last].until >= counter[l].until
        BY Zenon, <2>5, <2>6, <2>7
      <3>2. \E m \in U : \A u \in U : m >= u
        BY Zenon, <2>2, <2>6, <3>1
      <3> QED
        BY Zenon, <3>2 DEF Max
    <2>9. Max(T) \in T /\ \A x \in T : Max(T) >= x
      <3>1. clock \in Int
        BY <2>5, <2>6
      <3>2. ASSUME NEW k \in B
            PROVE  PTTL(last) >= PTTL(k)
        <4>1. counter[last].until - clock >= counter[k].until - clock
          BY Zenon, <2>5, <2>6, <2>7, <3>1
        <4> QED
          BY Zenon, <2>5, <2>6, <4>1
      <3>3. \E m \in T : \A x \in T : m >= x
        BY Zenon, <2>2, <2>6, <3>2
      <3> QED
        BY Zenon, <3>3 DEF Max
    <2>10. PICK k \in B : Max(U) = counter[k].until
      BY Zenon, <2>2, <2>8
    <2>11. PICK j \in B : Max(T) = PTTL(j)
      BY Zenon, <2>2, <2>9
    <2>12. PICK t, u, x : t = Max(T) /\ u = Max(U) /\ x = PTTL(k)
      BY Zenon
    <2>13. t \in Int /\ u \in Int /\ t > 0 /\ clock \in Nat /\ t >= x /\ x = u - clock
      BY Zenon, <2>2, <2>5, <2>9, <2>10, <2>11, <2>12
    <2>14. u - clock <= t
      BY Zenon, <2>13
    <2> QED
      BY Zenon, <2>3, <2>12, <2>13, <2>14, Refusal
  <1> QED
    BY Zenon, <1>1, <1>2

\* The refusal of a token speaks of its key.
LEMMA AllowHonest ==
    ASSUME Inv, NEW c \in Clients, Allow(c)
    PROVE  Honest
  <1>1. PICK k, v : k = Key("token", c) /\ v = Incremented(k)
    BY Zenon
  <1>2. /\ service = "token" /\ counter' = [counter EXCEPT ![k] = v]
        /\ RateLimited(counter'[k].until - clock, counter'[k].until) \/ denial' = NoDenial
    BY Zenon, <1>1 DEF Allow, Start
  <1>3. k \in Keys /\ TypeInv /\ clock \in Nat
    BY Zenon, <1>1, MailKeys DEF AdmissionKeys, Inv, TypeInv
  <1>4. counter'[k] = v
    BY Zenon, <1>2, <1>3 DEF TypeInv
  <1>5. v \in [n : Nat, until : Nat] /\ clock < v.until
    BY Zenon, <1>1, <1>3, IncrementedIs
  <1>6. PICK u, now : u = v.until /\ now = clock
    BY Zenon
  <1>7. u \in Nat /\ now \in Nat /\ now < u
    <2>1. v.until \in Nat
      BY Zenon, <1>5
    <2> QED
      BY Zenon, <1>3, <1>5, <1>6, <2>1
  <1>8. u \in Int /\ u - now \in Int /\ u - now > 0 /\ u - now <= u - now
    BY <1>7
  <1>9. service \notin {"register", "mail"}
    BY Zenon, <1>2
  <1>10. RateLimited(u - now, u) \/ denial' = NoDenial
    BY Zenon, <1>2, <1>4, <1>6
  <1> QED
    BY Zenon, <1>3, <1>6, <1>8, <1>9, <1>10, Refusal, NoRefusal

\* A refusal that speaks of the time that PTTL says; a key that has expired has none.
LEMMA PTTLHonest ==
    ASSUME Inv, NEW k \in Keys, RateLimited(PTTL(k), counter[k].until),
           service \notin {"register", "mail"}, PTTL(k) < 0 => service = "login"
    PROVE  Honest
  <1>1. /\ clock \in Nat /\ PTTL(k) \in Int /\ counter[k].until \in Int
        /\ counter[k].n # 0 => PTTL(k) = counter[k].until - clock /\ PTTL(k) > 0
        /\ counter[k].n = 0 => PTTL(k) < 0 /\ PTTL(k) <= 0 /\ counter[k].until = 0
    BY Zenon, PTTLIs
  <1>2. CASE counter[k].n # 0
    <2>1. PICK t, u : t = PTTL(k) /\ u = counter[k].until
      BY Zenon
    <2>2. t \in Int /\ u \in Int /\ t > 0 /\ t = u - clock
      BY Zenon, <1>1, <1>2, <2>1
    <2>3. \A a \in Int : a <= a
      OBVIOUS
    <2>4. u - clock <= t
      BY Zenon, <2>2, <2>3
    <2> QED
      BY Zenon, <1>1, <2>1, <2>2, <2>4, Refusal
  <1>3. CASE counter[k].n = 0
    <2>1. PICK h, c : h = RetryAfterHeader(PTTL(k)) /\ c = clock
      BY Zenon
    <2>2. h = 0
      BY Zenon, <1>1, <1>3, <2>1 DEF RetryAfterHeader
    <2>3. denial'.at = c /\ denial'.header = h /\ denial'.until = counter[k].until
      BY Zenon, <2>1 DEF RateLimited
    <2>4. 2 * (0 - c - Second * 0) <= Second
      BY <1>1, <2>1, Constants
    <2>5. service = "login" /\ counter[k].until = 0
      BY Zenon, <1>1, <1>3
    <2> QED
      BY Zenon, <2>2, <2>3, <2>4, <2>5 DEF Honest
  <1> QED
    BY Zenon, <1>2, <1>3

\* The refusal of a login that has found a counter at its limit.
LEMMA CountTTLHonest ==
    ASSUME Inv, NEW r \in Requests, CountTTL(r)
    PROVE  Honest
  <1>1. PICK p, c, k : p = req[r].ttl /\ c = req[r].client /\ k = Key(p, c)
    BY Zenon
  <1>2. /\ req[r].pc = "ttl"
        /\ RateLimited(PTTL(k), counter[k].until) \/ denial' = NoDenial
    BY Zenon, <1>1 DEF CountTTL
  <1>3. "ttl" \in LoginPcs /\ "login" \notin {"register", "mail"}
    BY Zenon, StepNames
  <1>4. service = "login" /\ c \in Clients /\ p \in LoginPurposes /\ p \in Purposes
    BY Zenon, <1>1, <1>2, <1>3, LoginIs, StepNames
  <1>5. k \in Keys
    BY Zenon, <1>1, <1>4, KeyIs
  <1> QED
    BY Zenon, <1>2, <1>3, <1>4, <1>5, PTTLHonest, NoRefusal

\* The refusal of a submission.
LEMMA CooldownHonest ==
    ASSUME Inv, NEW r \in Requests, CooldownLeft(r)
    PROVE  Honest
  <1>1. PICK k : k = <<"submission", "account">>
    BY Zenon
  <1>2. /\ req[r].pc = "pttl"
        /\ \/ ~(PTTL(k) < 0) /\ RateLimited(PTTL(k), counter[k].until)
           \/ denial' = NoDenial
    BY Zenon, <1>1 DEF CooldownLeft
  <1>3. service = "submission" /\ "submission" \notin {"register", "mail"}
    BY Zenon, <1>2 DEF Inv, ReqInv
  <1>4. k \in Keys
    <2>1. "submission" \in Purposes
      BY Zenon DEF Purposes
    <2> QED
      BY Zenon, <1>1, <2>1 DEF Keys
  <1> QED
    BY Zenon, <1>2, <1>3, <1>4, PTTLHonest, NoRefusal

\* The refusal of a login whose failure is over a limit.
LEMMA RecordHonest ==
    ASSUME Inv, NEW r \in Requests, NEW pc, NEW p, NEW next, IsRecord(pc, p, next),
           RecordFailure(r, pc, p, next)
    PROVE  Honest
  <1>1. PICK c, y, k, v : c = req[r].client /\ y = req[r] /\ k = Key(p, c) /\ v = Incremented(k)
    BY Zenon
  <1>2. y.pc = pc /\ counter' = [counter EXCEPT ![k] = v]
    BY Zenon, <1>1 DEF RecordFailure
  <1>3. /\ p \in LoginPurposes /\ p \in Purposes /\ pc \in LoginPcs
        /\ "login" \notin {"register", "mail"}
    BY Zenon, StepNames DEF IsRecord, LoginPcs, LoginPurposes
  <1>4. /\ TypeInv /\ y \in Records /\ ReqInv(y) /\ service = "login" /\ c \in Clients
        /\ clock \in Nat
    BY Zenon, <1>1, <1>2, <1>3, LoginIs DEF TypeInv
  <1>5. k \in Keys
    BY Zenon, <1>1, <1>3, <1>4, KeyIs
  <1>6. v \in [n : Nat, until : Nat] /\ clock < v.until /\ counter'[k] = v
    BY Zenon, <1>1, <1>2, <1>4, <1>5, IncrementedIs DEF TypeInv
  <1>7. CASE denial' = NoDenial
    BY Zenon, <1>7, NoRefusal
  <1>8. CASE denial' # NoDenial
    <2>1. PICK retry, until :
             /\ \/ retry = counter'[k].until - clock /\ until = counter'[k].until
                \/ retry = y.retry /\ until = y.until
             /\ retry # 0 /\ RateLimited(retry, until)
      BY Zenon, <1>1, <1>8 DEF RecordFailure
    <2>2. retry \in Int /\ until \in Int /\ retry > 0 /\ until - clock <= retry
      <3>1. CASE retry = y.retry /\ until = y.until
        <4>1. y.retry \in Nat /\ y.until \in Nat
          BY Zenon, <1>4 DEF Records
        <4>2. \A a \in Nat : a \in Int /\ (a # 0 => a > 0)
          OBVIOUS
        <4> QED
          BY Zenon, <1>4, <2>1, <3>1, <4>1, <4>2 DEF ReqInv
      <3>2. CASE retry = counter'[k].until - clock /\ until = counter'[k].until
        <4>1. PICK u, now : u = v.until /\ now = clock
          BY Zenon
        <4>2. retry = u - now /\ until = u
          BY Zenon, <1>6, <3>2, <4>1
        <4>3. u \in Nat /\ now \in Nat /\ now < u
          <5>1. v.until \in Nat
            BY Zenon, <1>6
          <5> QED
            BY Zenon, <1>4, <1>6, <4>1, <5>1
        <4>4. retry \in Int /\ until \in Int /\ retry > 0 /\ until - now <= retry
          BY <4>2, <4>3
        <4> QED
          BY Zenon, <4>1, <4>4
      <3> QED
        BY Zenon, <2>1, <3>1, <3>2
    <2> QED
      BY Zenon, <1>3, <1>4, <2>1, <2>2, Refusal
  <1> QED
    BY Zenon, <1>7, <1>8

\* Every step is honest.
LEMMA HonestNext ==
    ASSUME Inv, Next
    PROVE  Honest
  <1>1. CASE Tick
    BY Zenon, <1>1, NoRefusal DEF Tick
  <1>2. ASSUME NEW c \in Clients, Register(c) \/ RequestMail(c)
        PROVE  Honest
    <2>1. EmailRequestScopes(c) \in SUBSET AccountScopes(c)
      BY Zenon DEF AccountScopes
    <2>2. AccountScopes(c) \in SUBSET AccountScopes(c)
      BY Zenon
    <2>3. AdmissionScript(EmailRequestScopes(c)) \/ AdmissionScript(AccountScopes(c))
      BY Zenon, <1>2 DEF Register, RequestMail
    <2> QED
      BY Zenon, <2>1, <2>2, <2>3, ScriptHonest
  <1>3. ASSUME NEW c \in Clients, Allow(c)
        PROVE  Honest
    BY Zenon, <1>3, AllowHonest
  <1>4. ASSUME NEW r \in Requests, NEW c \in Clients, Login(r, c)
        PROVE  Honest
    BY Zenon, <1>4, NoRefusal DEF Login
  <1>5. ASSUME NEW r \in Requests, LoginStep(r)
        PROVE  Honest
    <2>1. ASSUME CountGet(r) \/ Delay(r)
          PROVE  Honest
      BY Zenon, <2>1, NoRefusal DEF CountGet, Delay
    <2>2. ASSUME NEW next \in {"record pair", "reset pair", "idle"}, Compare(r, next)
          PROVE  Honest
      BY Zenon, <2>2, NoRefusal DEF Compare
    <2>3. ASSUME NEW pc, NEW p, NEW next, IsRecord(pc, p, next), RecordFailure(r, pc, p, next)
          PROVE  Honest
      BY Zenon, <2>3, RecordHonest
    <2>4. ASSUME NEW pc, NEW p, NEW next, Reset(r, pc, p, next)
          PROVE  Honest
      BY Zenon, <2>4, NoRefusal DEF Reset
    <2>5. /\ IsRecord("record pair", "login:ip-identifier", "record identifier")
          /\ IsRecord("record identifier", "login:identifier", "record ip")
          /\ IsRecord("record ip", "login:ip", "idle")
      BY Zenon DEF IsRecord
    <2> QED
      BY Zenon, <1>5, <2>1, <2>2, <2>3, <2>4, <2>5, CountTTLHonest DEF LoginStep
  <1>6. ASSUME NEW r \in Requests, SetNX(r) \/ Unavailable(r)
        PROVE  Honest
    BY Zenon, <1>6, NoRefusal DEF SetNX, Unavailable
  <1>7. ASSUME NEW r \in Requests, CooldownLeft(r)
        PROVE  Honest
    BY Zenon, <1>7, CooldownHonest
  <1> QED
    BY Zenon, <1>1, <1>2, <1>3, <1>4, <1>5, <1>6, <1>7 DEF Next

\* A refusal says how long to wait, to half a second; only that of a login may leave it
\* out; and a request for a mail that is refused uses up no quota.
THEOREM RefusalsHonest ==
    Spec => DenialHonest
  <1>1. ASSUME Inv, [Next]_vars
        PROVE  [Honest]_vars
    BY Zenon, <1>1, HonestNext
  <1>2. Spec => [][Honest]_vars
    BY <1>1, InvAlways, PTL DEF Spec
  <1> QED
    BY Zenon, <1>2 DEF DenialHonest, Honest

=============================================================================
