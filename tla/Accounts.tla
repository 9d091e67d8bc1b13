------------------------------ MODULE Accounts ------------------------------
(***************************************************************************)
(* The authentication service, for one account: registration, one-time     *)
(* tokens sent by mail, logins and refreshes, what ends sessions (logout   *)
(* everywhere, password changes, suspension), and uploads of the avatar.   *)
(*                                                                         *)
(* A request runs in steps, one call of PostgreSQL, Redis, MinIO or the    *)
(* clock at a time, between the steps of other requests, and may fail or be         *)
(* cancelled at each of them.  Session tokens and the cutoff that ends     *)
(* them have a resolution of one second, the unit of the clock.            *)
(***************************************************************************)
EXTENDS Integers, FiniteSets

CONSTANTS
    Requests,
    Roles,
    AccessTTL, RefreshTTL,    \* lifetimes of session tokens
    MaxClock,                 \* last second
    MaxSaved                  \* one-time tokens saved per purpose

\* What a request writes, its password hash or the key of its object, it writes
\* under its own name: not that of a missing value or of the avatar of before.
ASSUME AccountsAssumption ==
    /\ {AccessTTL, RefreshTTL, MaxClock, MaxSaved} \subseteq Nat
    /\ 0 < AccessTTL /\ AccessTTL <= RefreshTTL
    /\ Requests \cap {"none", "earlier"} = {}

VARIABLES
    clock,            \* seconds
    row,              \* row of the users table
    cutoff,           \* logout-all key: tokens issued up to here are rejected
    tokens,           \* session tokens issued
    objects,          \* avatars in the bucket, by object key
    saved,            \* per purpose: one-time tokens saved so far
    live, latest,     \* per purpose: token keys, and the latest-token key
    req,              \* per request: what it does next, and its local state
    ended,            \* tokens that a completed operation has ended
    spent,            \* one-time tokens consumed, by whom, and whether outdated
    decided,          \* columns as last decided by a verification or an admin
    overlap,          \* a whole-row update has overwritten another one
    backwards,        \* an invalidation has lowered the cutoff
    doubted           \* avatars a whole-row update wrote back, or whose update
                      \* was answered with an error

store == <<row, cutoff, tokens, objects>>
mail == <<saved, live, latest>>
ghosts == <<ended, spent, decided, overlap, backwards, doubted>>
vars == <<clock, store, mail, req, ghosts>>

Purposes == {"verify", "reset"}

NoUser == [password |-> "none", role |-> "none", active |-> FALSE, suspended |-> FALSE,
           avatar |-> "none"]

NewUser(password) == [NoUser EXCEPT !.password = password, !.role = "user"]

Decided(u) == [role |-> u.role, active |-> u.active, suspended |-> u.suspended]

Idle == [pc |-> "idle", kind |-> "none", user |-> NoUser, token |-> 0, cut |-> 0, now |-> 0,
         watch |-> FALSE, stale |-> FALSE]

\* The account does not exist, waits for its verification, or is in use.
Init ==
    /\ clock = 1
    /\ row \in {NoUser, NewUser("first"),
               [NewUser("first") EXCEPT !.active = TRUE, !.avatar = "earlier"]}
    /\ cutoff = [iat |-> 0, until |-> 0]
    /\ tokens = IF row.active THEN {[by |-> "earlier", use |-> u, iat |-> 1, cut |-> 0] :
                                      u \in {"access", "refresh"}} ELSE {}
    /\ objects = IF row.active THEN {"earlier"} ELSE {}
    /\ saved = [p \in Purposes |-> IF row # NoUser THEN 1 ELSE 0]
    /\ live = [p \in Purposes |-> IF row # NoUser THEN {1} ELSE {}]
    /\ latest = saved
    /\ req = [r \in Requests |-> Idle]
    /\ ended = {} /\ spent = {}
    /\ decided = Decided(row)
    /\ overlap = FALSE /\ backwards = FALSE
    /\ doubted = {}

Become(r, fields) == req' = [req EXCEPT ![r] = fields]

\* Nothing is kept of a finished request, but that it was the registration.
Moved(r, p) ==
    IF p # "done" THEN [req[r] EXCEPT !.pc = p]
    ELSE [Idle EXCEPT !.pc = p, !.kind = IF req[r].kind = "register" THEN "register" ELSE @]

Goto(r, p) == Become(r, Moved(r, p))

At(r, p) == req[r].pc = p

-----------------------------------------------------------------------------
\* Session tokens

TTL(use) == IF use = "access" THEN AccessTTL ELSE RefreshTTL

Unexpired(t) == clock < t.iat + TTL(t.use)

\* The middleware of every service, for access tokens, and the refresh handler.
Accepted(t) == Unexpired(t) /\ (cutoff.iat > 0 => t.iat > cutoff.iat)

SignedIn(use) == \E t \in tokens : t.use = use /\ Accepted(t)

MayEnter(u) == u # NoUser /\ u.active /\ ~u.suspended

\* Login with the right password.
LoginRead(r) ==
    /\ At(r, "idle") /\ MayEnter(row)
    /\ Become(r, [Idle EXCEPT !.pc = "cutoff", !.kind = "login"])
    /\ UNCHANGED <<clock, store, mail, ghosts>>

\* Mutant of LoginCutoff: no wait for the second after the cutoff.
LoginAtOnce(r) ==
    /\ At(r, "cutoff")
    /\ Become(r, [req[r] EXCEPT !.pc = "access", !.cut = cutoff.iat])
    /\ UNCHANGED <<clock, store, mail, ghosts>>

\* waitForTokenIssuedAfterInvalidation.
LoginCutoff(r) ==
    /\ At(r, "cutoff")
    /\ Become(r, [req[r] EXCEPT !.pc = IF cutoff.iat = 0 \/ clock > cutoff.iat THEN "access"
                                                                               ELSE "wait",
                                !.cut = cutoff.iat])
    /\ UNCHANGED <<clock, store, mail, ghosts>>

LoginWaited(r) ==
    /\ At(r, "wait") /\ clock > req[r].cut
    /\ Goto(r, IF MayEnter(row) THEN "access" ELSE "done")
    /\ UNCHANGED <<clock, store, mail, ghosts>>

RefreshCheck(r) ==
    /\ At(r, "idle") /\ SignedIn("refresh")
    /\ Become(r, [Idle EXCEPT !.pc = "refresh user", !.kind = "refresh", !.cut = cutoff.iat])
    /\ UNCHANGED <<clock, store, mail, ghosts>>

RefreshUser(r) ==
    /\ At(r, "refresh user")
    /\ Goto(r, IF MayEnter(row) THEN "access" ELSE "done")
    /\ UNCHANGED <<clock, store, mail, ghosts>>

\* GenerateAccessToken and GenerateRefreshToken.
Issue(r, use, next) ==
    /\ At(r, use)
    /\ tokens' = tokens \cup {[by |-> r, use |-> use, iat |-> clock, cut |-> req[r].cut]}
    /\ Goto(r, next)
    /\ UNCHANGED <<clock, row, cutoff, objects, mail, ghosts>>

-----------------------------------------------------------------------------
\* Operations that end sessions

LogoutAll(r) ==
    /\ At(r, "idle") /\ SignedIn("access")
    /\ Become(r, [Idle EXCEPT !.pc = "set", !.kind = "logout", !.now = clock])
    /\ UNCHANGED <<clock, store, mail, ghosts>>

\* The current password is right, and the new one is another.
ChangePassword(r) ==
    /\ At(r, "idle") /\ SignedIn("access") /\ row # NoUser
    /\ Become(r, [Idle EXCEPT !.pc = "now", !.kind = "password", !.user = row])
    /\ UNCHANGED <<clock, store, mail, ghosts>>

Suspend(r) ==
    /\ At(r, "idle") /\ row # NoUser
    /\ Become(r, [Idle EXCEPT !.pc = "now", !.kind = "suspend",
                              !.user = [row EXCEPT !.suspended = TRUE]])
    /\ UNCHANGED <<clock, store, mail, ghosts>>

TakeNow(r) ==
    /\ At(r, "now")
    /\ Become(r, [req[r] EXCEPT !.pc = "set", !.now = clock])
    /\ UNCHANGED <<clock, store, mail, ghosts>>

EndedBy(r) == {t \in tokens : t.iat <= req[r].now}

\* SetLogoutAllIAT, with a lifetime as long as that of a refresh token.
SetLogoutAllIAT(r) ==
    /\ At(r, "set")
    /\ cutoff' = [iat |-> req[r].now, until |-> clock + RefreshTTL]
    /\ backwards' = (backwards \/ req[r].now < cutoff.iat)
    /\ Goto(r, CASE req[r].kind = "password" -> "write password"
                 [] req[r].kind = "suspend" -> "write row"
                 [] OTHER -> "done")
    /\ ended' = IF req[r].kind = "logout" THEN ended \cup EndedBy(r) ELSE ended
    /\ UNCHANGED <<clock, row, tokens, objects, mail, spent, decided, overlap, doubted>>

\* Mutant of UpdatePassword: the whole row is written.
UpdatePasswordRow(r) ==
    /\ At(r, "write password")
    /\ row' = IF row = NoUser THEN row ELSE [req[r].user EXCEPT !.password = r]
    /\ ended' = ended \cup EndedBy(r)
    /\ Goto(r, "done")
    /\ UNCHANGED <<clock, cutoff, tokens, objects, mail, spent, decided, overlap, backwards,
                   doubted>>

\* UpdatePassword: only the password column is written.
UpdatePassword(r) ==
    /\ At(r, "write password")
    /\ row' = IF row = NoUser THEN row ELSE [row EXCEPT !.password = r]
    /\ ended' = ended \cup EndedBy(r)
    /\ Goto(r, "done")
    /\ UNCHANGED <<clock, cutoff, tokens, objects, mail, spent, decided, overlap, backwards,
                   doubted>>

-----------------------------------------------------------------------------
\* Other updates of the row

Unsuspend(r) ==
    /\ At(r, "idle") /\ row # NoUser
    /\ Become(r, [Idle EXCEPT !.pc = "write row", !.kind = "unsuspend",
                              !.user = [row EXCEPT !.suspended = FALSE]])
    /\ UNCHANGED <<clock, store, mail, ghosts>>

AssignRole(r) ==
    /\ At(r, "idle") /\ row # NoUser
    /\ \E role \in Roles \ {row.role} :
          Become(r, [Idle EXCEPT !.pc = "write row", !.kind = "assign",
                                 !.user = [row EXCEPT !.role = role]])
    /\ UNCHANGED <<clock, store, mail, ghosts>>

\* The columns a whole-row update is about.
Decision(r, d) ==
    LET u == req[r].user
    IN  CASE req[r].kind \in {"suspend", "unsuspend"} -> [d EXCEPT !.suspended = u.suspended]
          [] req[r].kind = "assign" -> [d EXCEPT !.role = u.role]
          [] req[r].kind = "verify" -> [d EXCEPT !.active = TRUE]

\* UpdateUser: every column is written as it was read; no row, no error.
UpdateUser(r) ==
    /\ At(r, "write row")
    /\ row' = IF row = NoUser THEN row ELSE req[r].user
    /\ decided' = IF row = NoUser THEN decided ELSE Decision(r, decided)
    /\ overlap' = (overlap \/ req[r].stale)
    /\ doubted' = IF row'.avatar = row.avatar THEN doubted ELSE doubted \cup {row'.avatar}
    /\ ended' = IF req[r].kind = "suspend" THEN ended \cup EndedBy(r) ELSE ended
    /\ req' = [q \in Requests |-> IF q = r THEN Moved(r, "done")
                                  ELSE [req[q] EXCEPT !.stale = @ \/ req[q].user # NoUser]]
    /\ UNCHANGED <<clock, cutoff, tokens, objects, mail, spent, backwards>>

-----------------------------------------------------------------------------
\* Avatars

\* A file of an allowed size and type; the old key is read with the row.
UploadAvatar(r) ==
    /\ At(r, "idle") /\ SignedIn("access") /\ row # NoUser
    /\ Become(r, [Idle EXCEPT !.pc = "put", !.kind = "avatar",
                              !.user = [NoUser EXCEPT !.avatar = row.avatar]])
    /\ UNCHANGED <<clock, store, mail, ghosts>>

\* Mutant of ObjectKey: the key is that of the user.
ObjectKeyOfUser(r) == "earlier"

\* The key holds a UUID: no two uploads share it.
ObjectKey(r) == r

PutAvatar(r) ==
    /\ At(r, "put")
    /\ objects' = objects \cup {ObjectKey(r)}
    /\ Goto(r, "write avatar")
    /\ UNCHANGED <<clock, row, cutoff, tokens, mail, ghosts>>

WithAvatar(r) == IF row = NoUser THEN row ELSE [row EXCEPT !.avatar = ObjectKey(r)]

\* UpdateAvatar: only the avatar's columns are written; no row, no error.
UpdateAvatar(r) ==
    /\ At(r, "write avatar")
    /\ row' = WithAvatar(r)
    /\ Goto(r, IF req[r].user.avatar = "none" THEN "done" ELSE "drop old")
    /\ UNCHANGED <<clock, cutoff, tokens, objects, mail, ghosts>>

\* It fails, or commits and is answered with an error.
UpdateAvatarFails(r) ==
    /\ At(r, "write avatar")
    /\ \/ row' = WithAvatar(r) /\ doubted' = doubted \cup {ObjectKey(r)}
       \/ UNCHANGED <<row, doubted>>
    /\ Goto(r, "drop new")
    /\ UNCHANGED <<clock, cutoff, tokens, objects, mail, ended, spent, decided, overlap,
                   backwards>>

DeleteAvatar(r) ==
    /\ req[r].pc \in {"drop old", "drop new"}
    /\ objects' = objects \ {IF At(r, "drop old") THEN req[r].user.avatar ELSE ObjectKey(r)}
    /\ Goto(r, "done")
    /\ UNCHANGED <<clock, row, cutoff, tokens, mail, ghosts>>

-----------------------------------------------------------------------------
\* One-time tokens

ForgotPassword(r) ==
    /\ At(r, "idle") /\ row # NoUser
    /\ Become(r, [Idle EXCEPT !.pc = "save", !.kind = "reset"])
    /\ UNCHANGED <<clock, store, mail, ghosts>>

ResendVerification(r) ==
    /\ At(r, "idle") /\ row # NoUser /\ ~row.active
    /\ Become(r, [Idle EXCEPT !.pc = "save", !.kind = "verify"])
    /\ UNCHANGED <<clock, store, mail, ghosts>>

Purpose(r) == IF req[r].kind \in {"reset", "password"} THEN "reset" ELSE "verify"

\* A transaction that watches the keys of p fails when they change.
Touch(p, r, pc) ==
    req' = [q \in Requests |->
              IF q = r THEN [Moved(r, pc) EXCEPT !.watch = FALSE]
              ELSE [req[q] EXCEPT !.watch = @ /\ Purpose(q) # p]]

\* Only a registration does something about an error of Save, which may come
\* although the token was saved.
SaveFailed(r) == IF req[r].kind = "register" THEN {"rollback"} ELSE {}

\* Save: the token becomes the latest one of its purpose.
Save(r) ==
    /\ At(r, "save")
    /\ LET p == Purpose(r)
           n == saved[p] + 1
       IN  /\ n <= MaxSaved
           /\ saved' = [saved EXCEPT ![p] = n]
           /\ live' = [live EXCEPT ![p] = @ \cup {n}]
           /\ latest' = [latest EXCEPT ![p] = n]
           /\ \E next \in {"done"} \cup SaveFailed(r) : Touch(p, r, next)
    /\ UNCHANGED <<clock, store, ghosts>>

ValidToken(p, n) == n \in live[p] /\ latest[p] = n

\* Consume: after WATCH both keys are read again.
ResetPassword(r) ==
    /\ At(r, "idle")
    /\ \E n \in live["reset"] :
          /\ ValidToken("reset", n)
          /\ Become(r, [Idle EXCEPT !.pc = "exec", !.kind = "password", !.token = n,
                                    !.watch = TRUE])
    /\ UNCHANGED <<clock, store, mail, ghosts>>

VerifyEmail(r) ==
    /\ At(r, "idle")
    /\ \E n \in live["verify"] :
          /\ ValidToken("verify", n)
          /\ Become(r, [Idle EXCEPT !.pc = "verify user", !.kind = "verify", !.token = n])
    /\ UNCHANGED <<clock, store, mail, ghosts>>

VerifyUser(r) ==
    /\ At(r, "verify user")
    /\ IF row = NoUser \/ row.active
         THEN Goto(r, "done")
         ELSE Become(r, [req[r] EXCEPT !.pc = "watch", !.user = [row EXCEPT !.active = TRUE]])
    /\ UNCHANGED <<clock, store, mail, ghosts>>

VerifyWatch(r) ==
    /\ At(r, "watch")
    /\ IF ValidToken("verify", req[r].token)
         THEN Become(r, [req[r] EXCEPT !.pc = "exec", !.watch = TRUE])
         ELSE Goto(r, "done")
    /\ UNCHANGED <<clock, store, mail, ghosts>>

Spend(r) ==
    LET p == Purpose(r)
        n == req[r].token
    IN  /\ live' = [live EXCEPT ![p] = @ \ {n}]
        /\ latest' = [latest EXCEPT ![p] = 0]
        /\ spent' = spent \cup {[purpose |-> p, token |-> n, by |-> r,
                                 outdated |-> n < saved[p]]}
        /\ Touch(p, r, IF p = "reset" THEN "reset user" ELSE "write row")
        /\ UNCHANGED <<clock, store, saved, ended, decided, overlap, backwards, doubted>>

\* Mutant of Exec: the keys are deleted without WATCH.
ExecUnwatched(r) == At(r, "exec") /\ Spend(r)

\* EXEC deletes both keys, unless one of them was changed since WATCH.
Exec(r) ==
    /\ At(r, "exec")
    /\ IF req[r].watch THEN Spend(r)
                       ELSE Goto(r, "done") /\ UNCHANGED <<clock, store, mail, ghosts>>

ResetUser(r) ==
    /\ At(r, "reset user")
    /\ IF row = NoUser THEN Goto(r, "done")
                       ELSE Become(r, [req[r] EXCEPT !.pc = "now", !.user = row])
    /\ UNCHANGED <<clock, store, mail, ghosts>>

-----------------------------------------------------------------------------
\* Registration, by one request

Register(r) ==
    /\ At(r, "idle") /\ row = NoUser
    /\ \A q \in Requests : req[q].kind # "register"
    /\ Become(r, [Idle EXCEPT !.pc = "create", !.kind = "register"])
    /\ UNCHANGED <<clock, store, mail, ghosts>>

CreateUser(r) ==
    /\ At(r, "create")
    /\ row' = NewUser(r)
    /\ decided' = Decided(row')
    /\ Goto(r, "save")
    /\ UNCHANGED <<clock, cutoff, tokens, objects, mail, ended, spent, overlap, backwards,
                   doubted>>

\* Save has failed: the user will be deleted again.
RegisterRollback(r) ==
    /\ At(r, "save") /\ req[r].kind = "register"
    /\ Goto(r, "rollback")
    /\ UNCHANGED <<clock, store, mail, ghosts>>

DeleteUser(r) ==
    /\ At(r, "rollback")
    /\ row' = NoUser
    /\ decided' = Decided(NoUser)
    /\ Goto(r, "done")
    /\ UNCHANGED <<clock, cutoff, tokens, objects, mail, ended, spent, overlap, backwards,
                   doubted>>

-----------------------------------------------------------------------------
\* Environment

\* A call fails, before or after its effect, or the request is cancelled.
Fail(r) ==
    /\ req[r].pc \notin {"idle", "done"}
    /\ Goto(r, "done")
    /\ UNCHANGED <<clock, store, mail, ghosts>>

\* The last token of a purpose expires, both keys having the same lifetime.
Expire(p) ==
    /\ latest[p] # 0
    /\ live' = [live EXCEPT ![p] = {}]
    /\ latest' = [latest EXCEPT ![p] = 0]
    /\ req' = [q \in Requests |-> [req[q] EXCEPT !.watch = @ /\ Purpose(q) # p]]
    /\ UNCHANGED <<clock, store, saved, ghosts>>

\* A second passes; the cutoff key may expire.
Tick ==
    /\ clock < MaxClock
    /\ clock' = clock + 1
    /\ cutoff' = IF clock' < cutoff.until THEN cutoff ELSE [iat |-> 0, until |-> 0]
    /\ UNCHANGED <<row, tokens, objects, mail, req, ghosts>>

Next ==
    \/ \E r \in Requests :
          \/ LoginRead(r) \/ LoginCutoff(r) \/ LoginWaited(r)
          \/ RefreshCheck(r) \/ RefreshUser(r)
          \/ Issue(r, "access", "refresh") \/ Issue(r, "refresh", "done")
          \/ LogoutAll(r) \/ ChangePassword(r) \/ Suspend(r)
          \/ TakeNow(r) \/ SetLogoutAllIAT(r) \/ UpdatePassword(r)
          \/ Unsuspend(r) \/ AssignRole(r) \/ UpdateUser(r)
          \/ UploadAvatar(r) \/ PutAvatar(r) \/ UpdateAvatar(r) \/ UpdateAvatarFails(r)
          \/ DeleteAvatar(r)
          \/ ForgotPassword(r) \/ ResendVerification(r) \/ Save(r)
          \/ ResetPassword(r) \/ VerifyEmail(r) \/ VerifyUser(r) \/ VerifyWatch(r)
          \/ Exec(r) \/ ResetUser(r)
          \/ Register(r) \/ CreateUser(r) \/ RegisterRollback(r) \/ DeleteUser(r)
          \/ Fail(r)
    \/ \E p \in Purposes : Expire(p)
    \/ Tick

Spec == Init /\ [][Next]_vars

-----------------------------------------------------------------------------
\* Properties

\* The cutoff ends what it should and nothing else, although it has the
\* resolution of a second.  Sessions that a logout, a completed password change or
\* a suspension has ended stay ended, in the second it happened and after, through
\* failures, unsuspension and the expiry of the cutoff; and a session token is not
\* rejected by the cutoff its login or refresh has seen.  (Of two invalidations at
\* the same time the one that read the clock first may write last; then the cutoff
\* goes backwards.)
CutoffExact ==
    /\ ~backwards => \A t \in ended : ~Accepted(t)
    /\ \A t \in tokens : t.iat > t.cut

\* A one-time token is consumed by one request at most, and never when a newer
\* one was saved.
ConsumedOnce ==
    \A x \in spent : /\ ~x.outdated
                     /\ \A y \in spent : x.purpose = y.purpose /\ x.token = y.token => x = y

\* Password changes and resets, which write one column, never undo a
\* verification, a suspension or a role, in whatever order the requests run.
\* (Two whole-row updates at the same time may undo one another.)
DecisionsKept == ~overlap => Decided(row) = decided

\* The avatar the row names is in the bucket, whatever uploads run at the same
\* time and wherever they fail: an upload deletes only what it replaced or what
\* never was in the row.  (A whole-row update may write back a key that was
\* replaced, and an update answered with an error may have been committed.)
AvatarStored == row.avatar \in objects \cup doubted \cup {"none"}

=============================================================================
