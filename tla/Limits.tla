-------------------------------- MODULE Limits ------------------------------
(***************************************************************************)
(* Limits on requests, kept in Redis: failed logins, mails, one-time       *)
(* tokens, and the time between two submissions of a user to a problem.    *)
(*                                                                         *)
(* A key is a counter with an expiry, the end of the fixed window that     *)
(* begins with the first INCR.  Mails ask for several keys in one script,  *)
(* all of them or none; tokens count and decide in one script; logins      *)
(* check their counters with single commands, compare the password, and    *)
(* count a failure afterwards; a submission sets a key that must not       *)
(* exist.                                                                  *)
(*                                                                         *)
(* There is one account, which several clients use at the same time; the   *)
(* limits of one service are looked at in each behaviour, so that the name *)
(* of the service, a prefix of its keys, is left out of them.              *)
(***************************************************************************)
EXTENDS Integers, Sequences, FiniteSets, FiniteSetsExt, TLC

CONSTANTS
    Requests,      \* requests that may be in progress at the same time
    Clients,       \* their addresses
    Limit, Span,   \* per purpose: the limit and the window
    RiskDelay,     \* delay of a login to an account at risk
    Second,        \* ticks of a second
    MaxClock,      \* last tick
    MaxStarts,     \* per service: bound on requests
    MaxFaults      \* bound on failing commands

Services == {"login", "register", "mail", "token", "submission"}
LoginPurposes == {"login:ip-identifier", "login:identifier", "login:ip"}
MailPurposes == {"ip-account", "ip-hour", "ip-day"}
AccountPurposes == {"account-hour", "account-day", "cooldown"}
Purposes ==
    LoginPurposes \cup MailPurposes \cup AccountPurposes \cup {"token", "submission"}

ASSUME LimitsAssumption ==
    /\ {Limit, Span} \subseteq [Purposes -> Nat \ {0}]
    /\ Limit["cooldown"] = 1 /\ Limit["submission"] = 1
    /\ {RiskDelay, MaxClock, MaxFaults} \subseteq Nat
    /\ MaxStarts \in [Services -> Nat]
    /\ Second \in Nat \ {0}
    /\ IsFiniteSet(Requests)

VARIABLES
    service,   \* the service whose limits are looked at
    clock,
    counter,   \* Redis: the counters
    req,       \* requests in progress
    starts, faults,
    admitted,  \* ghost: requests let in, with their keys and the time
    wrong,     \* ghost: wrong passwords since the client's counter began
    denial     \* ghost: the answer 429 of the last step

vars == <<service, clock, counter, req, starts, faults, admitted, wrong, denial>>

\* Keys are scoped to the account or to the client's address.
Key(p, c) ==
    IF p \in AccountPurposes \cup {"login:identifier", "submission"} THEN <<p, "account">>
                                                                   ELSE <<p, c>>

Keys == Purposes \X (Clients \cup {"account"})
NoKey == [n |-> 0, until |-> 0]
Idle ==
    [pc |-> "idle", client |-> "none", count |-> 0, ttl |-> "none", retry |-> 0, until |-> 0]
NoDenial == [at |-> 0, retry |-> 0, header |-> 1, until |-> 0]

Init ==
    /\ service \in Services
    /\ clock = 0
    /\ counter = [k \in Keys |-> NoKey]
    /\ req = [r \in Requests |-> Idle]
    /\ starts = 0 /\ faults = 0
    /\ admitted = <<>>
    /\ wrong = [c \in Clients |-> 0]
    /\ denial = NoDenial

-----------------------------------------------------------------------------
\* Redis

Exceeded(k, n) == n > Limit[k[1]]

\* Incremented(k) is the key after INCR, and PEXPIRE if it is new.
Incremented(k) ==
    [n |-> counter[k].n + 1,
     until |-> IF counter[k].n = 0 THEN clock + Span[k[1]] ELSE counter[k].until]

\* PTTL: negative if the key does not exist.
PTTL(k) == IF counter[k].n = 0 THEN -2 ELSE counter[k].until - clock

\* Time goes by, and Redis drops the keys whose time has come.
Tick ==
    /\ clock < MaxClock
    /\ clock' = clock + 1
    /\ counter' = [k \in Keys |->
                     IF counter[k].until <= clock + 1 THEN NoKey ELSE counter[k]]
    /\ wrong' = [c \in Clients |->
                   IF counter'[Key("login:ip-identifier", c)] = NoKey
                      /\ counter[Key("login:ip-identifier", c)] # NoKey
                   THEN 0 ELSE wrong[c]]
    /\ denial' = NoDenial
    /\ UNCHANGED <<service, req, starts, faults, admitted>>

-----------------------------------------------------------------------------
\* Answers

\* HandleError: Retry-After is rounded to seconds, and at least one; it is left
\* out (0) if there is nothing to wait for.
RetryAfterHeader(retry) ==
    LET seconds == (2 * retry + Second) \div (2 * Second)
    IN  IF retry <= 0 THEN 0 ELSE IF seconds < 1 THEN 1 ELSE seconds

\* NewRateLimitError; until is when the keys that the answer is about expire.
RateLimited(retry, until) ==
    denial' = [at |-> clock, retry |-> retry, header |-> RetryAfterHeader(retry),
               until |-> until]

Start(s) ==
    /\ service = s /\ starts < MaxStarts[s]
    /\ starts' = starts + 1

\* A command fails or its time is over: mails are silently not sent, all others
\* answer that the service is not available.
Unavailable(r) ==
    /\ req[r].pc \notin {"idle", "reset pair", "reset identifier"}
    /\ faults < MaxFaults
    /\ faults' = faults + 1
    /\ req' = [req EXCEPT ![r] = Idle]
    /\ denial' = NoDenial
    /\ UNCHANGED <<service, clock, counter, starts, admitted, wrong>>

-----------------------------------------------------------------------------
\* Mails and tokens: one script each

EmailRequestScopes(c) == {Key(p, c) : p \in MailPurposes}

AccountScopes(c) == EmailRequestScopes(c) \cup {Key(p, c) : p \in AccountPurposes}

\* Mutant of Blocking: off by one.
BlockingAbove(keys) == {k \in keys : counter[k].n > Limit[k[1]]}

\* The first half of the script: the keys that are used up, the cooldown included.
Blocking(keys) == {k \in keys : counter[k].n >= Limit[k[1]]}

\* Mutant of AdmissionScript: keys are taken one by one.
AdmissionOneByOne(keys) ==
    /\ counter' = [k \in Keys |-> IF k \in keys \ Blocking(keys) THEN Incremented(k)
                                                                 ELSE counter[k]]
    /\ IF Blocking(keys) = {}
       THEN /\ admitted' = Append(admitted, [keys |-> keys, at |-> clock])
            /\ denial' = NoDenial
       ELSE /\ UNCHANGED admitted
            /\ RateLimited(Max({PTTL(k) : k \in Blocking(keys)}),
                           Max({counter[k].until : k \in Blocking(keys)}))

AdmissionScript(keys) ==
    IF Blocking(keys) = {}
    THEN /\ counter' = [k \in Keys |-> IF k \in keys THEN Incremented(k) ELSE counter[k]]
         /\ admitted' = Append(admitted, [keys |-> keys, at |-> clock])
         /\ denial' = NoDenial
    ELSE /\ UNCHANGED <<counter, admitted>>
         /\ RateLimited(Max({PTTL(k) : k \in Blocking(keys)}),
                        Max({counter[k].until : k \in Blocking(keys)}))

Register(c) ==
    /\ Start("register")
    /\ AdmissionScript(EmailRequestScopes(c))
    /\ UNCHANGED <<service, clock, req, faults, wrong>>

\* forgotPassword and resendVerification, which say nothing if they are denied.
\* If there is no such account, or for resend none that is unverified, they only
\* count for the address: acquireGenericRequest.
RequestMail(c) ==
    /\ Start("mail")
    /\ AdmissionScript(EmailRequestScopes(c)) \/ AdmissionScript(AccountScopes(c))
    /\ UNCHANGED <<service, clock, req, faults, wrong>>

\* verifyEmail and resetPassword count by the address, refreshToken by the token:
\* allow.
Allow(c) ==
    /\ Start("token")
    /\ LET k == Key("token", c) IN
       /\ counter' = [counter EXCEPT ![k] = Incremented(k)]
       /\ IF Exceeded(k, counter'[k].n)
          THEN /\ UNCHANGED admitted
               /\ RateLimited(counter'[k].until - clock, counter'[k].until)
          ELSE /\ admitted' = Append(admitted, [keys |-> {k}, at |-> clock])
               /\ denial' = NoDenial
    /\ UNCHANGED <<service, clock, req, faults, wrong>>

-----------------------------------------------------------------------------
\* Logins

Goto(r, pc) == req' = [req EXCEPT ![r].pc = pc]

Login(r, c) ==
    /\ Start("login") /\ req[r].pc = "idle"
    /\ req' = [req EXCEPT ![r] = [Idle EXCEPT !.pc = "login:ip-identifier", !.client = c]]
    /\ denial' = NoDenial
    /\ UNCHANGED <<service, clock, counter, faults, admitted, wrong>>

\* What comes after a check that has been passed.
AfterCheck ==
    [p \in LoginPurposes |-> CASE p = "login:ip-identifier" -> "login:ip"
                               [] p = "login:ip" -> "login:identifier"
                               [] p = "login:identifier" -> "compare"]

\* Count, the first of its commands.
CountGet(r) ==
    /\ req[r].pc \in LoginPurposes
    /\ LET k == Key(req[r].pc, req[r].client) IN
       IF counter[k].n = 0
       THEN Goto(r, AfterCheck[req[r].pc])
       ELSE req' = [req EXCEPT ![r].pc = "ttl", ![r].ttl = req[r].pc,
                               ![r].count = counter[k].n]
    /\ denial' = NoDenial
    /\ UNCHANGED <<service, clock, counter, starts, faults, admitted, wrong>>

\* Mutant of CheckedOut: off by one.
CheckedOutAbove(p, count) == count > Limit[p]

\* checkFailureLimit, and the threshold of delayForIdentifierRisk.
CheckedOut(p, count) == count >= Limit[p]

\* The second, and the decision; the key may have expired since the first.
CountTTL(r) ==
    /\ req[r].pc = "ttl"
    /\ LET p == req[r].ttl
           k == Key(p, req[r].client)
       IN  CASE ~CheckedOut(p, req[r].count) ->
                  /\ req' = [req EXCEPT ![r] = [Idle EXCEPT !.pc = AfterCheck[p],
                                                           !.client = req[r].client]]
                  /\ denial' = NoDenial
             [] CheckedOut(p, req[r].count) /\ p = "login:identifier" ->
                  /\ req' = [req EXCEPT ![r] = [Idle EXCEPT !.pc = "delay",
                                                           !.client = req[r].client,
                                                           !.until = clock + RiskDelay]]
                  /\ denial' = NoDenial
             [] OTHER ->
                  /\ req' = [req EXCEPT ![r] = Idle]
                  /\ RateLimited(PTTL(k), counter[k].until)
    /\ UNCHANGED <<service, clock, counter, starts, faults, admitted, wrong>>

Delay(r) ==
    /\ req[r].pc = "delay" /\ req[r].until <= clock
    /\ req' = [req EXCEPT ![r] = [Idle EXCEPT !.pc = "compare", !.client = req[r].client]]
    /\ denial' = NoDenial
    /\ UNCHANGED <<service, clock, counter, starts, faults, admitted, wrong>>

\* The password is wrong, or there is no such user; or it is right; or the
\* account may not be used, which counts as neither.
Compare(r, next) ==
    /\ req[r].pc = "compare"
    /\ next \in {"record pair", "reset pair", "idle"}
    /\ req' = [req EXCEPT ![r] = IF next = "idle" THEN Idle ELSE [@ EXCEPT !.pc = next]]
    /\ wrong' = IF next = "record pair" THEN [wrong EXCEPT ![req[r].client] = @ + 1]
                                        ELSE wrong
    /\ denial' = NoDenial
    /\ UNCHANGED <<service, clock, counter, starts, faults, admitted>>

\* recordLoginFailure: three scripts.  The answer is 429 if the first counter,
\* or else the last, has passed its limit.
RecordFailure(r, pc, p, next) ==
    /\ req[r].pc = pc
    /\ LET k == Key(p, req[r].client) IN
       /\ counter' = [counter EXCEPT ![k] = Incremented(k)]
       /\ LET over == /\ p # "login:identifier" /\ req[r].retry = 0
                      /\ Exceeded(k, counter'[k].n)
              retry == IF over THEN counter'[k].until - clock ELSE req[r].retry
              until == IF over THEN counter'[k].until ELSE req[r].until
          IN  IF next # "idle"
              THEN /\ req' = [req EXCEPT ![r].pc = next, ![r].retry = retry,
                                         ![r].until = until]
                   /\ denial' = NoDenial
              ELSE /\ req' = [req EXCEPT ![r] = Idle]
                   /\ IF retry = 0 THEN denial' = NoDenial ELSE RateLimited(retry, until)
    /\ UNCHANGED <<service, clock, starts, faults, admitted, wrong>>

\* After a successful login its counters, but not that of the address, are
\* deleted; errors are ignored.
Reset(r, pc, p, next) ==
    /\ req[r].pc = pc
    /\ LET k == Key(p, req[r].client) IN
       \/ /\ counter' = [counter EXCEPT ![k] = NoKey]
          /\ wrong' = IF p = "login:ip-identifier"
                       THEN [wrong EXCEPT ![req[r].client] = 0] ELSE wrong
          /\ UNCHANGED faults
       \/ faults < MaxFaults /\ faults' = faults + 1 /\ UNCHANGED <<counter, wrong>>
    /\ req' = [req EXCEPT ![r] = IF next = "idle" THEN Idle ELSE [@ EXCEPT !.pc = next]]
    /\ denial' = NoDenial
    /\ UNCHANGED <<service, clock, starts, admitted>>

-----------------------------------------------------------------------------
\* Submissions

\* SETNX.
SetNX(r) ==
    /\ Start("submission") /\ req[r].pc = "idle"
    /\ LET k == <<"submission", "account">> IN
       IF counter[k].n = 0
       THEN /\ counter' = [counter EXCEPT ![k] = Incremented(k)]
            /\ admitted' = Append(admitted, [keys |-> {k}, at |-> clock])
            /\ UNCHANGED req
       ELSE Goto(r, "pttl") /\ UNCHANGED <<counter, admitted>>
    /\ denial' = NoDenial
    /\ UNCHANGED <<service, clock, faults, wrong>>

\* PTTL; a key that has expired in between is an error, not a reason to wait.
CooldownLeft(r) ==
    /\ req[r].pc = "pttl"
    /\ req' = [req EXCEPT ![r] = Idle]
    /\ LET k == <<"submission", "account">> IN
       IF PTTL(k) < 0 THEN denial' = NoDenial ELSE RateLimited(PTTL(k), counter[k].until)
    /\ UNCHANGED <<service, clock, counter, starts, faults, admitted, wrong>>

-----------------------------------------------------------------------------
LoginStep(r) ==
    \/ CountGet(r) \/ CountTTL(r) \/ Delay(r)
    \/ \E next \in {"record pair", "reset pair", "idle"} : Compare(r, next)
    \/ RecordFailure(r, "record pair", "login:ip-identifier", "record identifier")
    \/ RecordFailure(r, "record identifier", "login:identifier", "record ip")
    \/ RecordFailure(r, "record ip", "login:ip", "idle")
    \/ Reset(r, "reset pair", "login:ip-identifier", "reset identifier")
    \/ Reset(r, "reset identifier", "login:identifier", "idle")

Next ==
    \/ Tick
    \/ \E c \in Clients : Register(c) \/ RequestMail(c) \/ Allow(c)
    \/ \E r \in Requests :
          \/ \E c \in Clients : Login(r, c)
          \/ LoginStep(r) \/ SetNX(r) \/ CooldownLeft(r) \/ Unavailable(r)

Spec == Init /\ [][Next]_vars

-----------------------------------------------------------------------------
\* Properties

\* Windows are fixed, so that a limit may be used up at the end of one and again
\* at the start of the next, but no more: in the time of a window, wherever it
\* begins, fewer than two times the limit are let in.  Cooldowns let in one.
AdmittedBounded ==
    \A i \in DOMAIN admitted : \A k \in admitted[i].keys :
        LET window == admitted[i].at..(admitted[i].at + Span[k[1]] - 1)
            let == {j \in DOMAIN admitted :
                      k \in admitted[j].keys /\ admitted[j].at \in window}
        IN  Cardinality(let) < 2 * Limit[k[1]]

\* The counter of failed logins is checked before and increased after the
\* password is compared.  So the wrong passwords that a client may try while its
\* counter lives are the limit and the other requests under way at the same
\* time, and those whose failure could not be recorded.
GuessesBounded ==
    \A c \in Clients :
        wrong[c] <= Limit["login:ip-identifier"] - 1 + Cardinality(Requests) + faults

\* A refusal is honest.  A client that waits as Retry-After says comes at most
\* half a second too early for the last of the keys that the answer is about; only
\* a login, whose counter may expire between two commands, is refused without one.
\* "A denied admission never partially consumes a quota": a request for a mail that
\* one of its keys refuses changes none of the others.
DenialHonest ==
    [][/\ 2 * (denial'.until - denial'.at - Second * denial'.header) <= Second
       /\ denial'.header = 0 => service = "login"
       /\ (service \in {"register", "mail"}) /\ denial'.retry # 0 => counter' = counter]_vars

=============================================================================
