-------------------------- MODULE Accounts_proofs ---------------------------
(***************************************************************************)
(* Sessions, one-time tokens, decisions about the account and its avatar,  *)
(* for every number of requests, every lifetime and every clock.           *)
(***************************************************************************)
EXTENDS Accounts, TLAPS

-----------------------------------------------------------------------------
\* Types

Users == [password : {"none", "first"} \cup Requests, role : {"none", "user"} \cup Roles,
          active : BOOLEAN, suspended : BOOLEAN, avatar : {"none", "earlier"} \cup Requests]

Pcs == {"idle", "cutoff", "wait", "refresh user", "access", "refresh", "now", "set",
        "write password", "write row", "put", "write avatar", "drop old", "drop new", "save",
        "verify user", "watch", "exec", "reset user", "create", "rollback", "done"}

Kinds == {"none", "login", "refresh", "logout", "password", "suspend", "unsuspend", "assign",
          "avatar", "reset", "verify", "register"}

Records == [pc : Pcs, kind : Kinds, user : Users, token : Nat, cut : Nat, now : Nat,
            watch : BOOLEAN, stale : BOOLEAN]

SessionTokens == [by : {"earlier"} \cup Requests, use : {"access", "refresh"}, iat : Nat,
                  cut : Nat]

\* The requests that write the whole row.
Writers == {"suspend", "unsuspend", "assign", "verify"}

\* Which request is at which step.
KindOf(x) ==
    /\ x.pc = "idle" => x.kind = "none"
    /\ x.pc = "exec" => x.kind \in {"password", "verify"}
    /\ x.pc \in {"verify user", "watch"} => x.kind = "verify"
    /\ x.pc = "reset user" => x.kind = "password"
    /\ x.pc = "now" => x.kind \in {"password", "suspend"}
    /\ x.pc = "set" => x.kind \in {"logout", "password", "suspend"}
    /\ x.pc = "write row" => x.kind \in Writers
    /\ x.pc \in {"create", "rollback"} => x.kind = "register"

TypeInv ==
    /\ clock \in Nat /\ 0 < clock
    /\ row \in Users
    /\ cutoff \in [iat : Nat, until : Nat]
    /\ tokens \in SUBSET SessionTokens
    /\ saved \in [Purposes -> Nat]
    /\ live \in [Purposes -> SUBSET Nat]
    /\ latest \in [Purposes -> Nat]
    /\ req \in [Requests -> Records]
    /\ ended \in SUBSET tokens
    /\ overlap \in BOOLEAN /\ backwards \in BOOLEAN
    /\ \A r \in Requests : KindOf(req[r])

-----------------------------------------------------------------------------
\* The inductive invariant: what a request with the local state x may rely on, and
\* what holds of the tables, the keys and the bucket.

\* The cutoff covers what ends at n, or its tokens have expired.
Covered(n) == n <= cutoff.iat \/ n + RefreshTTL <= clock

\* A request that issues tokens has passed the cutoff it has read; one that is to
\* end sessions has set it.
SessionReq(x) ==
    /\ x.pc \in {"refresh user", "access", "refresh"} => x.cut < clock
    /\ x.pc = "set" => 0 < x.now /\ x.now <= clock
    /\ x.pc = "write password" \/ (x.pc = "write row" /\ x.kind = "suspend") =>
          0 < x.now /\ (~backwards => Covered(x.now))

SessionInv ==
    /\ cutoff.iat > 0 => cutoff.iat + RefreshTTL <= cutoff.until
    /\ \A t \in tokens : t.cut < t.iat /\ t.iat <= clock
    /\ \A t \in ended : 0 < t.iat /\ (~backwards => Covered(t.iat) \/ ~Unexpired(t))
    /\ \A r \in Requests : SessionReq(req[r])

\* A watched token is the latest one.
MailReq(x) ==
    x.watch => /\ x.pc = "exec"
               /\ ValidToken(IF x.kind \in {"reset", "password"} THEN "reset" ELSE "verify",
                             x.token)

\* Whatever was consumed is gone for good: tokens are numbered as they are saved.
MailInv ==
    /\ \A p \in Purposes : live[p] \subseteq 1..saved[p] /\ latest[p] \in {0, saved[p]}
    /\ \A y \in spent : /\ y.purpose \in Purposes
                        /\ y.token \in Nat /\ y.token <= saved[y.purpose]
                        /\ y.token \notin live[y.purpose]
    /\ ConsumedOnce
    /\ \A r \in Requests : MailReq(req[r])

\* Apart from what it decides, the user a request has read is as in the row.
Agrees(x) ==
    /\ x.kind \notin {"suspend", "unsuspend"} => x.user.suspended = row.suspended
    /\ x.kind # "assign" => x.user.role = row.role
    /\ x.kind # "verify" => x.user.active = row.active

\* A whole-row update that nobody overtook writes what the row holds.
DecisionReq(x) ==
    /\ x.kind \in Writers /\ x.pc \notin {"save", "verify user"} => x.user # NoUser
    /\ x.kind \in Writers /\ x.user # NoUser =>
          /\ x.user.password # "none"
          /\ x.kind = "verify" => x.user.active
          /\ x.stale \/ row = NoUser \/ Agrees(x)

\* Nobody has read a row before there was one.
Unread == row = NoUser /\ \A r \in Requests : req[r].user = NoUser

DecisionInv ==
    /\ row # NoUser => row.password # "none"
    /\ row # NoUser \/ Unread \/ \E r \in Requests : req[r].kind = "register"
    /\ \A r \in Requests : req[r].pc = "create" => Unread
    /\ \A r, q \in Requests : req[r].kind = "register" /\ req[q].kind = "register" => r = q
    /\ DecisionsKept
    /\ \A r \in Requests : DecisionReq(req[r])

\* The object key k is in the row or was read from it.
Named(k) == row.avatar = k \/ \E r \in Requests : req[r].user.avatar = k

\* Steps before an upload writes its key to the row.
BeforeWrite == {"idle", "put", "write avatar"}

\* What an upload deletes is not in the row.
AvatarReq(r, x) ==
    /\ x.pc = "write avatar" => r \in objects
    /\ x.pc = "drop old" => /\ x.user.avatar # "none"
                            /\ x.user.avatar # row.avatar \/ x.user.avatar \in doubted
    /\ x.pc = "drop new" => row.avatar # r \/ r \in doubted

AvatarInv ==
    /\ AvatarStored
    /\ \A r \in Requests : req[r].pc \in BeforeWrite => ~Named(r)
    /\ \A r \in Requests : AvatarReq(r, req[r])

Inv == TypeInv /\ SessionInv /\ MailInv /\ DecisionInv /\ AvatarInv

-----------------------------------------------------------------------------
\* Init

\* The blank records are of their types.
LEMMA BlankTypes == NoUser \in Users /\ Idle \in Records
  BY Zenon DEF NoUser, Users, Idle, Records, Pcs, Kinds

\* A request that has not started knows nothing.
LEMMA IdleIs == Idle.pc = "idle" /\ Idle.kind = "none" /\ Idle.user = NoUser /\ Idle.watch = FALSE
  BY Zenon DEF Idle

\* A new user has a password and is not active.
LEMMA NewUserIs ==
    ASSUME NEW p \in {"first"} \cup Requests
    PROVE  /\ NewUser(p) \in Users
           /\ NewUser(p).password = p /\ NewUser(p).avatar = "none"
           /\ NewUser(p).active = FALSE
  BY Zenon, BlankTypes DEF NewUser, NoUser, Users

\* The invariant holds of the account as the service finds it.
LEMMA InvInit ==
    ASSUME Init
    PROVE  Inv
  <1>0. /\ clock = 1 /\ cutoff = [iat |-> 0, until |-> 0] /\ ended = {}
        /\ overlap = FALSE /\ backwards = FALSE
    BY Zenon DEF Init
  <1>1. /\ row \in Users
        /\ row.avatar = IF row.active THEN "earlier" ELSE "none"
        /\ row # NoUser => row.password # "none"
    <2>1. CASE row = NoUser
      BY Zenon, <2>1, BlankTypes DEF NoUser
    <2>2. CASE row = NewUser("first")
      <3>1. /\ NewUser("first") \in Users /\ NewUser("first").password = "first"
            /\ NewUser("first").avatar = "none" /\ NewUser("first").active = FALSE
        BY Zenon, NewUserIs
      <3>2. "first" # "none"
        OBVIOUS
      <3> QED
        BY Zenon, <2>2, <3>1, <3>2
    <2>3. CASE row = [NewUser("first") EXCEPT !.active = TRUE, !.avatar = "earlier"]
      <3> DEFINE u == NewUser("first")
      <3>1. u \in Users /\ u.password = "first"
        BY Zenon, NewUserIs
      <3> HIDE DEF u
      <3>2. row = [u EXCEPT !.active = TRUE, !.avatar = "earlier"]
        BY Zenon, <2>3 DEF u
      <3>3. row.active = TRUE /\ row.avatar = "earlier" /\ row.password = "first"
        BY Zenon, <3>1, <3>2 DEF Users
      <3>4. row \in Users
        BY Zenon, <3>1, <3>2 DEF Users
      <3> QED
        BY Zenon, <3>3, <3>4
    <2> QED
      BY Zenon, <2>1, <2>2, <2>3 DEF Init
  <1>2. \A r \in Requests : req[r] = Idle
    BY Zenon DEF Init
  <1>3. /\ Idle.pc = "idle" /\ Idle.kind = "none" /\ Idle.user = NoUser /\ ~Idle.watch
        /\ NoUser.avatar = "none"
    BY Zenon DEF Idle, NoUser
  <1>4. \A t \in tokens : t \in SessionTokens /\ t.iat = 1 /\ t.cut = 0
    <2>1. CASE ~row.active
      BY Zenon, <2>1 DEF Init
    <2>2. CASE row.active
      BY <2>2 DEF Init, SessionTokens
    <2> QED
      BY Zenon, <2>1, <2>2
  <1>5. /\ saved \in [Purposes -> {0, 1}] /\ latest = saved
        /\ \A p \in Purposes : live[p] \subseteq 1..saved[p]
        /\ live \in [Purposes -> SUBSET Nat]
    BY DEF Init
  <1>6. TypeInv
    <2>1. req \in [Requests -> Records] /\ \A r \in Requests : KindOf(req[r])
      BY Zenon, <1>2, <1>3, BlankTypes DEF Init, KindOf
    <2>2. saved \in [Purposes -> Nat] /\ latest \in [Purposes -> Nat]
      BY <1>5
    <2> QED
      <3>1. overlap \in BOOLEAN /\ backwards \in BOOLEAN
        BY Zenon, <1>0
      <3>2. /\ clock \in Nat /\ 0 < clock /\ ended \in SUBSET tokens
            /\ cutoff \in [iat : Nat, until : Nat]
        BY <1>0
      <3>3. tokens \in SUBSET SessionTokens
        BY Zenon, <1>4
      <3> QED
        BY Zenon, <1>1, <1>5, <2>1, <2>2, <3>1, <3>2, <3>3 DEF TypeInv
  <1>7. SessionInv
    <2>1. cutoff.iat = 0
      BY Zenon, <1>0
    <2>2. \A t \in tokens : t.cut < t.iat /\ t.iat <= clock
      BY <1>0, <1>4
    <2>3. \A r \in Requests : SessionReq(req[r])
      BY Zenon, <1>2, <1>3 DEF SessionReq
    <2> QED
      BY <1>0, <2>1, <2>2, <2>3 DEF SessionInv
  <1>8. MailInv
    BY Zenon, <1>2, <1>3, <1>5 DEF Init, MailInv, MailReq, ConsumedOnce
  <1>9. DecisionInv
    BY Zenon, <1>1, <1>2, <1>3 DEF Init, DecisionInv, DecisionReq, DecisionsKept, Unread, Writers
  <1>10. AvatarInv
    <2>1. AvatarStored
      BY Zenon, <1>1 DEF Init, AvatarStored
    <2>2. \A r \in Requests : ~Named(r)
      BY Zenon, <1>1, <1>2, <1>3, AccountsAssumption DEF Named
    <2> QED
      BY Zenon, <1>2, <1>3, <2>1, <2>2 DEF AvatarInv, AvatarReq
  <1> QED
    BY Zenon, <1>6, <1>7, <1>8, <1>9, <1>10 DEF Inv

-----------------------------------------------------------------------------
\* Steps that leave a part of the state alone

\* Another request may lose its watch and go stale, and keeps everything else.
Keeps(q) ==
    /\ req'[q].pc = req[q].pc /\ req'[q].kind = req[q].kind
    /\ req'[q].user = req[q].user /\ req'[q].token = req[q].token
    /\ req'[q].cut = req[q].cut /\ req'[q].now = req[q].now
    /\ req'[q].watch => req[q].watch
    /\ req[q].stale => req'[q].stale

\* Sessions depend on the clock, the cutoff and the tokens.
LEMMA SessionQuiet ==
    ASSUME Inv, UNCHANGED <<clock, cutoff, tokens, ended, backwards>>,
           \A q \in Requests : Keeps(q) \/ SessionReq(req[q])'
    PROVE  SessionInv'
  <1>1. ASSUME NEW q \in Requests
        PROVE  SessionReq(req[q])'
    BY Zenon, <1>1 DEF Inv, SessionInv, SessionReq, Keeps, Covered
  <1> QED
    BY Zenon, <1>1 DEF Inv, SessionInv, Covered, Unexpired, TTL

\* One-time tokens depend on their keys.
LEMMA MailQuiet ==
    ASSUME Inv, UNCHANGED <<saved, live, latest, spent>>,
           \A q \in Requests : Keeps(q) \/ MailReq(req[q])'
    PROVE  MailInv'
  <1>1. ASSUME NEW q \in Requests
        PROVE  MailReq(req[q])'
    BY <1>1 DEF Inv, MailInv, MailReq, Keeps, ValidToken
  <1> QED
    BY Zenon, <1>1 DEF Inv, MailInv, ConsumedOnce

\* The request q has read nothing where there is no row, and a registration
\* is remembered and does not start.
Reads(q) ==
    /\ req'[q].kind = "register" <=> req[q].kind = "register"
    /\ row = NoUser => req'[q].user \in {NoUser, req[q].user}
    /\ req'[q].pc = "create" => Unread

\* The password and the avatar may change in the row.
SameDecisions ==
    /\ row' = NoUser <=> row = NoUser
    /\ row'.role = row.role /\ row'.active = row.active /\ row'.suspended = row.suspended
    /\ row' # NoUser => row'.password # "none"

\* Decisions depend on their columns of the row.
LEMMA DecisionQuiet ==
    ASSUME Inv, SameDecisions, UNCHANGED <<decided, overlap>>,
           \A q \in Requests : Keeps(q) \/ (DecisionReq(req[q])' /\ Reads(q))
    PROVE  DecisionInv'
  <1>1. ASSUME NEW q \in Requests
        PROVE  DecisionReq(req[q])'
    <2>1. CASE Keeps(q)
      <3>1. DecisionReq(req[q])
        BY Zenon DEF Inv, DecisionInv
      <3> QED
        BY Zenon, <2>1, <3>1 DEF DecisionReq, Keeps, Agrees, SameDecisions
    <2> QED
      BY Zenon, <2>1
  <1>2. \A q \in Requests : Reads(q)
    BY Zenon DEF Inv, DecisionInv, Keeps, Reads
  <1>3. Unread => Unread'
    BY Zenon, <1>2 DEF Unread, Reads, SameDecisions
  <1>4. Decided(row)' = Decided(row)
    BY Zenon DEF Decided, SameDecisions
  <1> QED
    BY Zenon, <1>1, <1>2, <1>3, <1>4 DEF Inv, DecisionInv, DecisionsKept, Reads, SameDecisions

\* The request q knows no key but that in the row, and cannot go back.
Knows(q) ==
    /\ req'[q].user.avatar \in {"none", row.avatar, req[q].user.avatar}
    /\ req'[q].pc \in BeforeWrite => req[q].pc \in BeforeWrite

\* Avatars depend on the row and the bucket.
LEMMA AvatarQuiet ==
    ASSUME Inv, row'.avatar = row.avatar, UNCHANGED <<objects, doubted>>,
           \A q \in Requests : Keeps(q) \/ (AvatarReq(q, req[q])' /\ Knows(q))
    PROVE  AvatarInv'
  <1>1. ASSUME NEW q \in Requests
        PROVE  AvatarReq(q, req[q])'
    BY Zenon, <1>1 DEF Inv, AvatarInv, AvatarReq, Keeps
  <1>2. \A q \in Requests : Knows(q)
    BY Zenon DEF Keeps, Knows
  <1>3. ASSUME NEW q \in Requests, req'[q].pc \in BeforeWrite
        PROVE  ~Named(q)'
    <2>1. ~Named(q) /\ q # "none"
      BY Zenon, <1>2, <1>3, AccountsAssumption DEF Inv, AvatarInv, Knows
    <2> QED
      BY Zenon, <1>2, <2>1 DEF Named, Knows
  <1> QED
    BY Zenon, <1>1, <1>3 DEF Inv, AvatarInv, AvatarStored

-----------------------------------------------------------------------------
\* Steps that change one request only

\* What the local state x, which the request r goes on with, has to satisfy.
Sane(r, x) ==
    /\ x \in Records /\ KindOf(x)
    /\ SessionReq(x) /\ MailReq(x) /\ DecisionReq(x) /\ AvatarReq(r, x)
    /\ x.kind = "register" <=> req[r].kind = "register"
    /\ row = NoUser => x.user \in {NoUser, req[r].user}
    /\ x.pc = "create" => Unread
    /\ x.user.avatar \in {"none", row.avatar, req[r].user.avatar}
    /\ x.pc \in BeforeWrite => req[r].pc \in BeforeWrite

\* One request goes on with the local state x.
LEMMA OneRequest ==
    ASSUME Inv, NEW r \in Requests, NEW x \in Records, Become(r, x)
    PROVE  /\ req' \in [Requests -> Records]
           /\ req'[r] = x
           /\ \A q \in Requests : q = r \/ Keeps(q)
           /\ KindOf(x) => \A q \in Requests : KindOf(req[q])'
  <1>1. req \in [Requests -> Records] /\ \A q \in Requests : KindOf(req[q])
    BY Zenon DEF Inv, TypeInv
  <1>2. /\ req' \in [Requests -> Records] /\ req'[r] = x
        /\ \A q \in Requests : q = r \/ req'[q] = req[q]
    BY Zenon, <1>1 DEF Become
  <1>3. \A q \in Requests : q = r \/ Keeps(q)
    BY Zenon, <1>2 DEF Keeps
  <1>4. ASSUME KindOf(x), NEW q \in Requests
        PROVE  KindOf(req[q])'
    <2>1. PICK y : y = req'[q] /\ KindOf(y)
      BY Zenon, <1>1, <1>2, <1>4
    <2> QED
      BY Zenon, <2>1 DEF KindOf
  <1> QED
    BY Zenon, <1>2, <1>3, <1>4

\* When one request goes on with x, the parts of the invariant hold whose other
\* variables do not change.
LEMMA QuietParts ==
    ASSUME Inv, NEW r \in Requests, NEW x \in Records, Become(r, x)
    PROVE  /\ UNCHANGED <<clock, cutoff, tokens, ended, backwards>> /\ SessionReq(x) =>
                 SessionInv'
           /\ UNCHANGED <<saved, live, latest, spent>> /\ MailReq(x) => MailInv'
           /\ UNCHANGED <<row, decided, overlap>> /\ DecisionReq(x) /\ Reads(r) =>
                 DecisionInv'
           /\ UNCHANGED <<row, objects, doubted>> /\ AvatarReq(r, x) /\ Knows(r) =>
                 AvatarInv'
  <1>1. req'[r] = x /\ \A q \in Requests : q = r \/ Keeps(q)
    BY Zenon, OneRequest
  <1>2. ASSUME UNCHANGED <<clock, cutoff, tokens, ended, backwards>>, SessionReq(x)
        PROVE  SessionInv'
    <2>1. SessionReq(req[r])'
      BY Zenon, <1>1, <1>2 DEF SessionReq, Covered
    <2> QED
      BY Zenon, <1>1, <1>2, <2>1, SessionQuiet
  <1>3. ASSUME UNCHANGED <<saved, live, latest, spent>>, MailReq(x)
        PROVE  MailInv'
    <2>1. MailReq(req[r])'
      BY Zenon, <1>1, <1>3 DEF MailReq, ValidToken
    <2> QED
      BY Zenon, <1>1, <1>3, <2>1, MailQuiet
  <1>4. ASSUME UNCHANGED <<row, decided, overlap>>, DecisionReq(x), Reads(r)
        PROVE  DecisionInv'
    <2>1. DecisionReq(req[r])'
      BY Zenon, <1>1, <1>4 DEF DecisionReq, Agrees
    <2>2. SameDecisions
      BY Zenon, <1>4 DEF SameDecisions, Inv, DecisionInv
    <2> QED
      BY Zenon, <1>1, <1>4, <2>1, <2>2, DecisionQuiet
  <1>5. ASSUME UNCHANGED <<row, objects, doubted>>, AvatarReq(r, x), Knows(r)
        PROVE  AvatarInv'
    <2>1. AvatarReq(r, req[r])'
      BY Zenon, <1>1, <1>5 DEF AvatarReq
    <2> QED
      BY Zenon, <1>1, <1>5, <2>1, AvatarQuiet
  <1> QED
    BY Zenon, <1>2, <1>3, <1>4, <1>5

\* A step that changes one request only keeps the invariant.
LEMMA LocalStep ==
    ASSUME Inv, NEW r \in Requests, NEW x, Sane(r, x), Become(r, x),
           UNCHANGED <<clock, store, mail, ghosts>>
    PROVE  Inv'
  <1> USE DEF store, mail, ghosts
  <1>0. x \in Records /\ KindOf(x)
    BY Zenon DEF Sane
  <1>1. /\ req' \in [Requests -> Records] /\ req'[r] = x
        /\ \A q \in Requests : KindOf(req[q])'
    BY Zenon, <1>0, OneRequest
  <1>2. TypeInv'
    BY Zenon, <1>1 DEF Inv, TypeInv
  <1>3. Reads(r) /\ Knows(r)
    BY Zenon, <1>1 DEF Sane, Reads, Knows
  <1>4. SessionInv' /\ MailInv' /\ DecisionInv' /\ AvatarInv'
    BY Zenon, <1>0, <1>3, QuietParts DEF Sane
  <1> QED
    BY Zenon, <1>2, <1>4 DEF Inv

\* A finished request promises nothing.
LEMMA DoneSane ==
    ASSUME Inv, NEW r \in Requests
    PROVE  Sane(r, Moved(r, "done")) /\ Moved(r, "done").watch = FALSE
  <1> DEFINE k == IF req[r].kind = "register" THEN "register" ELSE "none"
             x == Moved(r, "done")
  <1>1. /\ x \in Records /\ x.pc = "done" /\ x.kind = k /\ x.user = NoUser /\ x.watch = FALSE
        /\ x.user.avatar = "none"
    BY Zenon, BlankTypes DEF Moved, Idle, Records, Pcs, Kinds, NoUser
  <1>2. k = "register" <=> req[r].kind = "register"
    OBVIOUS
  <1>3. k \notin Writers
    BY Zenon DEF Writers
  <1> HIDE DEF x, k
  <1> QED
    BY Zenon, <1>1, <1>2, <1>3 DEF x, Sane, KindOf, SessionReq, MailReq, DecisionReq, AvatarReq,
                        BeforeWrite

-----------------------------------------------------------------------------
\* The first steps of the requests

\* A request that starts has local state x with the blanks of Idle.
LEMMA StartSane ==
    ASSUME Inv, NEW r \in Requests, At(r, "idle"), NEW x \in Records, KindOf(x),
           x.pc \notin {"idle", "drop old", "drop new", "write avatar", "write password",
                        "access", "refresh"},
           SessionReq(x), MailReq(x), DecisionReq(x),
           x.user = NoUser \/ (row # NoUser /\ x.user.avatar = row.avatar),
           x.kind # "register"
    PROVE  Sane(r, x)
  <1>1. req[r].kind # "register" /\ NoUser.avatar = "none" /\ req[r].pc \in BeforeWrite
    BY Zenon DEF At, Inv, TypeInv, KindOf, NoUser, BeforeWrite
  <1> QED
    BY Zenon, <1>1 DEF Sane, AvatarReq, KindOf

\* Login, refresh, and what starts an e-mail read nothing they keep.
LEMMA StartBlank ==
    ASSUME Inv, NEW r \in Requests,
           \/ LoginRead(r) \/ RefreshCheck(r) \/ ForgotPassword(r) \/ ResendVerification(r)
           \/ VerifyEmail(r)
    PROVE  Inv'
  <1>1. ASSUME NEW x \in Records, x.pc \in {"cutoff", "save", "verify user"}, KindOf(x),
               x.kind \in Writers => x.pc # "cutoff", x.kind # "register", x.user = NoUser,
               x.watch = FALSE,
               At(r, "idle"), Become(r, x), UNCHANGED <<clock, store, mail, ghosts>>
        PROVE  Inv'
    <2>1. SessionReq(x) /\ MailReq(x) /\ DecisionReq(x)
      BY Zenon, <1>1 DEF SessionReq, MailReq, DecisionReq
    <2>2. Sane(r, x)
      BY Zenon, <1>1, <2>1, StartSane
    <2> QED
      BY Zenon, <1>1, <2>2, LocalStep
  <1>3. CASE LoginRead(r)
    <2> DEFINE x == [Idle EXCEPT !.pc = "cutoff", !.kind = "login"]
    <2>1. x \in Records /\ x.pc = "cutoff" /\ x.kind = "login" /\ x.user = NoUser /\ x.watch = FALSE
      BY Zenon, BlankTypes, IdleIs DEF Records, Pcs, Kinds
    <2> HIDE DEF x
    <2> QED
      BY Zenon, <1>1, <1>3, <2>1 DEF LoginRead, KindOf, Writers, x
  <1>4. CASE ForgotPassword(r) \/ ResendVerification(r)
    <2>1. PICK kind \in {"reset", "verify"} :
             At(r, "idle") /\ Become(r, [Idle EXCEPT !.pc = "save", !.kind = kind])
      BY Zenon, <1>4 DEF ForgotPassword, ResendVerification
    <2> DEFINE x == [Idle EXCEPT !.pc = "save", !.kind = kind]
    <2>2. x \in Records /\ x.pc = "save" /\ x.kind = kind /\ x.user = NoUser /\ x.watch = FALSE
      BY Zenon, BlankTypes, IdleIs DEF Records, Pcs, Kinds
    <2> HIDE DEF x
    <2>3. UNCHANGED <<clock, store, mail, ghosts>>
      BY Zenon, <1>4 DEF ForgotPassword, ResendVerification
    <2> QED
      BY Zenon, <1>1, <2>1, <2>2, <2>3 DEF KindOf, x
  <1>5. CASE VerifyEmail(r)
    <2>1. PICK n \in live["verify"] :
             Become(r, [Idle EXCEPT !.pc = "verify user", !.kind = "verify", !.token = n])
      BY Zenon, <1>5 DEF VerifyEmail
    <2>2. n \in Nat
      BY Zenon DEF Inv, TypeInv, Purposes
    <2> DEFINE x == [Idle EXCEPT !.pc = "verify user", !.kind = "verify", !.token = n]
    <2>3. /\ x \in Records /\ x.pc = "verify user" /\ x.kind = "verify" /\ x.user = NoUser
          /\ x.watch = FALSE
      BY Zenon, <2>2, BlankTypes, IdleIs DEF Records, Pcs, Kinds
    <2> HIDE DEF x
    <2> QED
      BY Zenon, <1>1, <1>5, <2>1, <2>3 DEF VerifyEmail, KindOf, x
  <1>6. CASE RefreshCheck(r)
    <2> DEFINE x == [Idle EXCEPT !.pc = "refresh user", !.kind = "refresh", !.cut = cutoff.iat]
    <2>1. cutoff.iat \in Nat
      BY Zenon DEF Inv, TypeInv
    <2>2. /\ x \in Records /\ x.pc = "refresh user" /\ x.kind = "refresh" /\ x.user = NoUser
          /\ x.watch = FALSE /\ x.cut = cutoff.iat
      BY Zenon, <2>1, BlankTypes, IdleIs DEF Records, Pcs, Kinds
    <2>3. cutoff.iat < clock
      <3>1. PICK t \in tokens : cutoff.iat > 0 => t.iat > cutoff.iat
        BY Zenon, <1>6 DEF RefreshCheck, SignedIn, Accepted
      <3>2. t.iat <= clock /\ t.iat \in Nat /\ clock \in Nat /\ 0 < clock
        BY Zenon DEF Inv, TypeInv, SessionInv, SessionTokens
      <3> QED
        BY <2>1, <3>1, <3>2
    <2> HIDE DEF x
    <2>4. KindOf(x) /\ SessionReq(x) /\ MailReq(x) /\ DecisionReq(x)
      BY Zenon, <2>2, <2>3 DEF KindOf, SessionReq, MailReq, DecisionReq, Writers
    <2>5. Sane(r, x)
      BY Zenon, <1>6, <2>2, <2>4, StartSane DEF RefreshCheck
    <2> QED
      BY Zenon, <1>6, <2>5, LocalStep DEF RefreshCheck, x
  <1> QED
    BY Zenon, <1>3, <1>4, <1>5, <1>6

\* LogoutAll reads the clock, ResetPassword finds the latest token.
LEMMA StartShort ==
    ASSUME Inv, NEW r \in Requests, LogoutAll(r) \/ ResetPassword(r)
    PROVE  Inv'
  <1>1. CASE LogoutAll(r)
    <2> DEFINE x == [Idle EXCEPT !.pc = "set", !.kind = "logout", !.now = clock]
    <2>1. clock \in Nat /\ 0 < clock
      BY Zenon DEF Inv, TypeInv
    <2>2. /\ x \in Records /\ x.pc = "set" /\ x.kind = "logout" /\ x.user = NoUser
          /\ x.watch = FALSE /\ x.now = clock
      BY Zenon, <2>1, BlankTypes, IdleIs DEF Records, Pcs, Kinds
    <2> HIDE DEF x
    <2>3. KindOf(x) /\ SessionReq(x) /\ MailReq(x) /\ DecisionReq(x)
      BY <2>1, <2>2 DEF KindOf, SessionReq, MailReq, DecisionReq, Writers
    <2>4. Sane(r, x)
      BY Zenon, <1>1, <2>2, <2>3, StartSane DEF LogoutAll
    <2> QED
      BY Zenon, <1>1, <2>4, LocalStep DEF LogoutAll, x
  <1>2. CASE ResetPassword(r)
    <2>1. PICK n \in live["reset"] :
             /\ ValidToken("reset", n)
             /\ Become(r, [Idle EXCEPT !.pc = "exec", !.kind = "password", !.token = n,
                                       !.watch = TRUE])
      BY Zenon, <1>2 DEF ResetPassword
    <2> DEFINE x == [Idle EXCEPT !.pc = "exec", !.kind = "password", !.token = n,
                                 !.watch = TRUE]
    <2>2. n \in Nat
      BY Zenon DEF Inv, TypeInv, Purposes
    <2>3. /\ x \in Records /\ x.pc = "exec" /\ x.kind = "password" /\ x.user = NoUser
          /\ x.token = n
      BY Zenon, <2>2, BlankTypes, IdleIs DEF Records, Pcs, Kinds
    <2> HIDE DEF x
    <2>4. KindOf(x) /\ SessionReq(x) /\ MailReq(x) /\ DecisionReq(x)
      BY Zenon, <2>1, <2>3 DEF KindOf, SessionReq, MailReq, DecisionReq, Writers
    <2>5. Sane(r, x)
      BY Zenon, <1>2, <2>3, <2>4, StartSane DEF ResetPassword
    <2> QED
      BY Zenon, <1>2, <2>1, <2>5, LocalStep DEF ResetPassword, x
  <1> QED
    BY Zenon, <1>1, <1>2

\* The one request that registers starts while no row was ever read.
LEMMA RegisterStep ==
    ASSUME Inv, NEW r \in Requests, Register(r)
    PROVE  Inv'
  <1> DEFINE x == [Idle EXCEPT !.pc = "create", !.kind = "register"]
  <1>1. /\ x \in Records /\ x.pc = "create" /\ x.kind = "register" /\ x.user = NoUser
        /\ x.watch = FALSE
    BY Zenon, BlankTypes, IdleIs DEF Records, Pcs, Kinds
  <1>2. /\ Become(r, x) /\ At(r, "idle") /\ row = NoUser
        /\ \A q \in Requests : req[q].kind # "register"
        /\ UNCHANGED <<clock, row, cutoff, tokens, objects, saved, live, latest>>
        /\ UNCHANGED <<ended, spent, decided, overlap, backwards, doubted>>
    BY Zenon DEF Register, store, mail, ghosts
  <1> HIDE DEF x
  <1>3. KindOf(x) /\ SessionReq(x) /\ MailReq(x) /\ DecisionReq(x) /\ AvatarReq(r, x)
    BY Zenon, <1>1 DEF KindOf, SessionReq, MailReq, DecisionReq, AvatarReq, Writers
  <1>4. /\ req' \in [Requests -> Records] /\ req'[r] = x
        /\ \A q \in Requests : q = r \/ Keeps(q)
        /\ \A q \in Requests : KindOf(req[q])'
    BY Zenon, <1>1, <1>2, <1>3, OneRequest
  <1>5. TypeInv'
    BY Zenon, <1>2, <1>4 DEF Inv, TypeInv
  <1>6. Knows(r)
    BY Zenon, <1>1, <1>2, <1>4 DEF Knows, NoUser, BeforeWrite
  <1>7. SessionInv' /\ MailInv' /\ AvatarInv'
    BY Zenon, <1>1, <1>2, <1>3, <1>6, QuietParts
  <1>8. DecisionInv'
    <2>1. Unread
      BY Zenon, <1>2 DEF Inv, DecisionInv
    <2>2. Unread'
      BY Zenon, <1>1, <1>2, <1>4, <2>1 DEF Unread, Keeps
    <2>3. ASSUME NEW q \in Requests
          PROVE  DecisionReq(req[q])'
      <3>1. CASE q = r
        BY <1>1, <1>4, <3>1 DEF DecisionReq, Writers
      <3>2. CASE q # r
        <4>1. Keeps(q) /\ DecisionReq(req[q]) /\ req'[q].user = NoUser
          BY Zenon, <1>4, <2>2, <3>2 DEF Unread, Inv, DecisionInv
        <4> QED
          BY Zenon, <4>1 DEF DecisionReq, Keeps
      <3> QED
        BY Zenon, <3>1, <3>2
    <2>4. \A q, s \in Requests : req'[q].kind = "register" /\ req'[s].kind = "register" => q = s
      BY Zenon, <1>2, <1>4 DEF Keeps
    <2> QED
      BY Zenon, <1>2, <2>2, <2>3, <2>4 DEF Inv, DecisionInv, DecisionsKept, Unread
  <1> QED
    BY Zenon, <1>5, <1>7, <1>8 DEF Inv

\* The requests that read the row keep it as it is but for what they decide.
LEMMA StartRead ==
    ASSUME Inv, NEW r \in Requests,
           ChangePassword(r) \/ Suspend(r) \/ Unsuspend(r) \/ AssignRole(r) \/ UploadAvatar(r)
    PROVE  Inv'
  <1>0. row \in Users /\ row # NoUser /\ row.password # "none" /\ At(r, "idle")
    BY Zenon DEF ChangePassword, Suspend, Unsuspend, AssignRole, UploadAvatar, Inv, TypeInv,
           DecisionInv
  <1>1. CASE ChangePassword(r)
    <2> DEFINE x == [Idle EXCEPT !.pc = "now", !.kind = "password", !.user = row]
    <2>1. /\ x \in Records /\ x.pc = "now" /\ x.kind = "password" /\ x.user = row
          /\ x.watch = FALSE
      BY Zenon, <1>0, BlankTypes, IdleIs DEF Records, Pcs, Kinds
    <2> HIDE DEF x
    <2>2. KindOf(x) /\ SessionReq(x) /\ MailReq(x) /\ DecisionReq(x)
      BY Zenon, <2>1 DEF KindOf, SessionReq, MailReq, DecisionReq, Writers
    <2>3. Sane(r, x)
      BY Zenon, <1>0, <2>1, <2>2, StartSane
    <2> QED
      BY Zenon, <1>1, <2>3, LocalStep DEF ChangePassword, x
  <1>2. CASE Suspend(r)
    <2> DEFINE u == [row EXCEPT !.suspended = TRUE]
               x == [Idle EXCEPT !.pc = "now", !.kind = "suspend", !.user = u]
    <2>1. /\ u \in Users /\ u.password = row.password /\ u.role = row.role
          /\ u.active = row.active /\ u.avatar = row.avatar
      BY Zenon, <1>0 DEF Users
    <2> HIDE DEF u
    <2>2. x \in Records /\ x.pc = "now" /\ x.kind = "suspend" /\ x.user = u /\ x.watch = FALSE
      BY Zenon, <2>1, BlankTypes, IdleIs DEF Records, Pcs, Kinds
    <2> HIDE DEF x
    <2>3. KindOf(x) /\ SessionReq(x) /\ MailReq(x) /\ DecisionReq(x)
      <3>1. u # NoUser
        BY <1>0, <2>1 DEF NoUser
      <3>2. DecisionReq(x)
        BY Zenon, <1>0, <2>1, <2>2, <3>1 DEF DecisionReq, Agrees
      <3> QED
        BY Zenon, <2>2, <3>2 DEF KindOf, SessionReq, MailReq, Writers
    <2>4. Sane(r, x)
      BY Zenon, <1>0, <2>1, <2>2, <2>3, StartSane
    <2> QED
      BY Zenon, <1>2, <2>4, LocalStep DEF Suspend, x, u
  <1>3. CASE Unsuspend(r)
    <2> DEFINE u == [row EXCEPT !.suspended = FALSE]
               x == [Idle EXCEPT !.pc = "write row", !.kind = "unsuspend", !.user = u]
    <2>1. /\ u \in Users /\ u.password = row.password /\ u.role = row.role
          /\ u.active = row.active /\ u.avatar = row.avatar
      BY Zenon, <1>0 DEF Users
    <2> HIDE DEF u
    <2>2. /\ x \in Records /\ x.pc = "write row" /\ x.kind = "unsuspend" /\ x.user = u
          /\ x.watch = FALSE
      BY Zenon, <2>1, BlankTypes, IdleIs DEF Records, Pcs, Kinds
    <2> HIDE DEF x
    <2>3. KindOf(x) /\ SessionReq(x) /\ MailReq(x) /\ DecisionReq(x)
      <3>1. u # NoUser
        BY <1>0, <2>1 DEF NoUser
      <3>2. DecisionReq(x)
        BY Zenon, <1>0, <2>1, <2>2, <3>1 DEF DecisionReq, Agrees
      <3> QED
        BY Zenon, <2>2, <3>2 DEF KindOf, SessionReq, MailReq, Writers
    <2>4. Sane(r, x)
      BY Zenon, <1>0, <2>1, <2>2, <2>3, StartSane
    <2> QED
      BY Zenon, <1>3, <2>4, LocalStep DEF Unsuspend, x, u
  <1>4. CASE AssignRole(r)
    <2>0. PICK role \in Roles : Become(r, [Idle EXCEPT !.pc = "write row", !.kind = "assign",
                                                       !.user = [row EXCEPT !.role = role]])
      BY Zenon, <1>4 DEF AssignRole
    <2> DEFINE u == [row EXCEPT !.role = role]
               x == [Idle EXCEPT !.pc = "write row", !.kind = "assign", !.user = u]
    <2>1. /\ u \in Users /\ u.password = row.password /\ u.suspended = row.suspended
          /\ u.active = row.active /\ u.avatar = row.avatar
      BY Zenon, <1>0 DEF Users
    <2> HIDE DEF u
    <2>2. /\ x \in Records /\ x.pc = "write row" /\ x.kind = "assign" /\ x.user = u
          /\ x.watch = FALSE
      BY Zenon, <2>1, BlankTypes, IdleIs DEF Records, Pcs, Kinds
    <2> HIDE DEF x
    <2>3. KindOf(x) /\ SessionReq(x) /\ MailReq(x) /\ DecisionReq(x)
      <3>1. u # NoUser
        BY <1>0, <2>1 DEF NoUser
      <3>2. DecisionReq(x)
        BY Zenon, <1>0, <2>1, <2>2, <3>1 DEF DecisionReq, Agrees
      <3> QED
        BY Zenon, <2>2, <3>2 DEF KindOf, SessionReq, MailReq, Writers
    <2>4. Sane(r, x)
      BY Zenon, <1>0, <2>1, <2>2, <2>3, StartSane
    <2> QED
      BY Zenon, <1>4, <2>0, <2>4, LocalStep DEF AssignRole, x, u
  <1>5. CASE UploadAvatar(r)
    <2> DEFINE u == [NoUser EXCEPT !.avatar = row.avatar]
               x == [Idle EXCEPT !.pc = "put", !.kind = "avatar", !.user = u]
    <2>1. u \in Users /\ u.avatar = row.avatar
      BY Zenon, <1>0, BlankTypes DEF Users, NoUser
    <2> HIDE DEF u
    <2>2. x \in Records /\ x.pc = "put" /\ x.kind = "avatar" /\ x.user = u /\ x.watch = FALSE
      BY Zenon, <2>1, BlankTypes, IdleIs DEF Records, Pcs, Kinds
    <2> HIDE DEF x
    <2>3. KindOf(x) /\ SessionReq(x) /\ MailReq(x) /\ DecisionReq(x)
      BY Zenon, <2>2 DEF KindOf, SessionReq, MailReq, DecisionReq, Writers
    <2>4. Sane(r, x)
      BY Zenon, <1>0, <2>1, <2>2, <2>3, StartSane
    <2> QED
      BY Zenon, <1>5, <2>4, LocalStep DEF UploadAvatar, x, u
  <1> QED
    BY Zenon, <1>1, <1>2, <1>3, <1>4, <1>5

-----------------------------------------------------------------------------
\* The steps in the middle of a request

\* What the invariant says of the local state of a request.
LEMMA SaneNow ==
    ASSUME Inv, NEW r \in Requests
    PROVE  /\ req[r] \in Records /\ KindOf(req[r])
           /\ SessionReq(req[r]) /\ MailReq(req[r]) /\ DecisionReq(req[r])
           /\ AvatarReq(r, req[r])
           /\ req[r].watch => req[r].pc = "exec"
  BY Zenon DEF Inv, TypeInv, SessionInv, MailInv, DecisionInv, AvatarInv, MailReq

\* A request that fails, is cancelled, or has nothing left to do.
LEMMA Finish ==
    ASSUME Inv, NEW r \in Requests, Goto(r, "done"), UNCHANGED <<clock, store, mail, ghosts>>
    PROVE  Inv'
  <1>1. Sane(r, Moved(r, "done"))
    BY Zenon, DoneSane
  <1> QED
    BY Zenon, <1>1, LocalStep DEF Goto

\* Only its place changes.
LEMMA MovedIs ==
    ASSUME Inv, NEW r \in Requests, NEW p \in Pcs, p # "done"
    PROVE  /\ Moved(r, p) \in Records /\ Moved(r, p).pc = p
           /\ Moved(r, p).kind = req[r].kind /\ Moved(r, p).user = req[r].user
           /\ Moved(r, p).token = req[r].token /\ Moved(r, p).cut = req[r].cut
           /\ Moved(r, p).now = req[r].now /\ Moved(r, p).watch = req[r].watch
           /\ Moved(r, p).stale = req[r].stale
  BY Zenon, SaneNow DEF Moved, Records

\* Login and refresh go on past the cutoff only.
LEMMA LoginSteps ==
    ASSUME Inv, NEW r \in Requests, LoginCutoff(r) \/ LoginWaited(r) \/ RefreshUser(r)
    PROVE  Inv'
  <1>0. /\ req[r] \in Records /\ req[r].watch = FALSE /\ KindOf(req[r])
        /\ SessionReq(req[r]) /\ DecisionReq(req[r]) /\ req[r].pc \notin BeforeWrite
        /\ clock \in Nat /\ 0 < clock /\ cutoff.iat \in Nat
    BY Zenon, SaneNow DEF LoginCutoff, LoginWaited, RefreshUser, At, Records, BeforeWrite, Inv,
                          TypeInv
  <1>1. ASSUME NEW x \in Records, x.pc \in {"access", "wait"}, x.kind = req[r].kind,
               x.user = req[r].user, x.stale = req[r].stale, x.watch = FALSE,
               x.pc = "access" => x.cut < clock,
               req[r].pc \in {"cutoff", "wait", "refresh user"}
        PROVE  Sane(r, x)
    <2>1. KindOf(x) /\ SessionReq(x) /\ MailReq(x) /\ AvatarReq(r, x)
      BY Zenon, <1>1 DEF KindOf, SessionReq, MailReq, AvatarReq
    <2>2. DecisionReq(x)
      BY Zenon, <1>0, <1>1 DEF DecisionReq, Agrees, KindOf
    <2> QED
      BY Zenon, <1>1, <2>1, <2>2 DEF Sane, BeforeWrite
  <1>2. CASE LoginCutoff(r)
    <2> DEFINE x == [req[r] EXCEPT !.pc = IF cutoff.iat = 0 \/ clock > cutoff.iat
                                            THEN "access" ELSE "wait", !.cut = cutoff.iat]
    <2>1. /\ x \in Records /\ x.pc \in {"access", "wait"} /\ x.kind = req[r].kind
          /\ x.user = req[r].user /\ x.stale = req[r].stale /\ x.watch = FALSE
          /\ x.pc = "access" => x.cut < clock
      BY Zenon, <1>0 DEF Records, Pcs
    <2> HIDE DEF x
    <2>2. Sane(r, x)
      BY Zenon, <1>1, <1>2, <2>1 DEF LoginCutoff, At
    <2> QED
      BY Zenon, <1>2, <2>2, LocalStep DEF LoginCutoff, x
  <1>3. CASE LoginWaited(r) \/ RefreshUser(r)
    <2>1. CASE Goto(r, "done")
      BY Zenon, <1>3, <2>1, Finish DEF LoginWaited, RefreshUser
    <2>2. CASE Goto(r, "access")
      <3>1. req[r].pc \in {"wait", "refresh user"} /\ req[r].cut < clock
        BY Zenon, <1>0, <1>3 DEF LoginWaited, RefreshUser, At, SessionReq, Records
      <3> DEFINE x == Moved(r, "access")
      <3>2. /\ x \in Records /\ x.pc = "access" /\ x.kind = req[r].kind /\ x.user = req[r].user
            /\ x.cut = req[r].cut /\ x.watch = req[r].watch /\ x.stale = req[r].stale
        <4>1. "access" \in Pcs /\ "access" # "done"
          BY Zenon DEF Pcs
        <4> QED
          BY Zenon, <4>1, MovedIs
      <3> HIDE DEF x
      <3>3. Sane(r, x)
        BY Zenon, <1>0, <1>1, <3>1, <3>2
      <3> QED
        BY Zenon, <1>3, <2>2, <3>3, LocalStep DEF LoginWaited, RefreshUser, Goto, x
    <2> QED
      BY Zenon, <1>3, <2>1, <2>2 DEF LoginWaited, RefreshUser
  <1> QED
    BY Zenon, <1>2, <1>3

\* The invalidation reads the clock.
LEMMA TakeNowStep ==
    ASSUME Inv, NEW r \in Requests, TakeNow(r)
    PROVE  Inv'
  <1> DEFINE x == [req[r] EXCEPT !.pc = "set", !.now = clock]
  <1>0. /\ req[r] \in Records /\ KindOf(req[r]) /\ DecisionReq(req[r])
        /\ req[r].watch = FALSE /\ req[r].pc = "now" /\ clock \in Nat /\ 0 < clock
    BY Zenon, SaneNow DEF TakeNow, At, Records, Inv, TypeInv
  <1>1. /\ x \in Records /\ x.pc = "set" /\ x.kind = req[r].kind /\ x.user = req[r].user
        /\ x.stale = req[r].stale /\ x.watch = FALSE /\ x.now = clock
    BY Zenon, <1>0 DEF Records, Pcs
  <1> HIDE DEF x
  <1>2. KindOf(x) /\ SessionReq(x) /\ MailReq(x) /\ AvatarReq(r, x)
    BY <1>0, <1>1 DEF KindOf, SessionReq, MailReq, AvatarReq
  <1>3. DecisionReq(x)
    BY Zenon, <1>0, <1>1 DEF DecisionReq, Agrees
  <1>4. Sane(r, x)
    BY Zenon, <1>0, <1>1, <1>2, <1>3 DEF Sane, BeforeWrite
  <1> QED
    BY Zenon, <1>4, LocalStep DEF TakeNow, x

\* A verification reads the row it will write, and watches the token's keys.
LEMMA VerifySteps ==
    ASSUME Inv, NEW r \in Requests, VerifyUser(r) \/ VerifyWatch(r)
    PROVE  Inv'
  <1>0. /\ req[r] \in Records /\ KindOf(req[r]) /\ DecisionReq(req[r])
        /\ req[r].watch = FALSE /\ req[r].kind = "verify" /\ req[r].pc \notin BeforeWrite
        /\ req[r].pc \in {"verify user", "watch"}
    BY Zenon, SaneNow DEF VerifyUser, VerifyWatch, At, Records, KindOf, BeforeWrite
  <1>1. CASE Goto(r, "done")
    BY Zenon, <1>1, Finish DEF VerifyUser, VerifyWatch
  <1>2. CASE VerifyUser(r) /\ ~Goto(r, "done")
    <2> DEFINE u == [row EXCEPT !.active = TRUE]
               x == [req[r] EXCEPT !.pc = "watch", !.user = u]
    <2>0. row \in Users /\ row # NoUser /\ row.password # "none" /\ Become(r, x)
      BY Zenon, <1>2 DEF VerifyUser, Inv, TypeInv, DecisionInv
    <2>1. /\ u \in Users /\ u.password = row.password /\ u.suspended = row.suspended
          /\ u.role = row.role /\ u.avatar = row.avatar /\ u.active = TRUE
      BY Zenon, <2>0 DEF Users
    <2> HIDE DEF u
    <2>2. x \in Records /\ x.pc = "watch" /\ x.kind = "verify" /\ x.user = u /\ x.watch = FALSE
      BY Zenon, <1>0, <2>1 DEF Records, Pcs
    <2> HIDE DEF x
    <2>3. u # NoUser
      BY <2>0, <2>1 DEF NoUser
    <2>4. DecisionReq(x)
      BY Zenon, <2>0, <2>1, <2>2, <2>3 DEF DecisionReq, Agrees
    <2>5. KindOf(x) /\ SessionReq(x) /\ MailReq(x) /\ AvatarReq(r, x)
      BY Zenon, <2>2 DEF KindOf, SessionReq, MailReq, AvatarReq
    <2>6. Sane(r, x)
      BY Zenon, <1>0, <2>0, <2>1, <2>2, <2>4, <2>5 DEF Sane, BeforeWrite
    <2> QED
      BY Zenon, <1>2, <2>0, <2>6, LocalStep DEF VerifyUser
  <1>3. CASE VerifyWatch(r) /\ ~Goto(r, "done")
    <2> DEFINE x == [req[r] EXCEPT !.pc = "exec", !.watch = TRUE]
    <2>0. ValidToken("verify", req[r].token) /\ Become(r, x) /\ req[r].pc = "watch"
      BY Zenon, <1>3 DEF VerifyWatch, At
    <2>1. /\ x \in Records /\ x.pc = "exec" /\ x.kind = "verify" /\ x.user = req[r].user
          /\ x.token = req[r].token /\ x.stale = req[r].stale
      BY Zenon, <1>0 DEF Records, Pcs
    <2> HIDE DEF x
    <2>2. DecisionReq(x)
      BY Zenon, <1>0, <2>0, <2>1 DEF DecisionReq, Agrees
    <2>3. KindOf(x) /\ SessionReq(x) /\ MailReq(x) /\ AvatarReq(r, x)
      BY Zenon, <2>0, <2>1 DEF KindOf, SessionReq, MailReq, AvatarReq
    <2>4. Sane(r, x)
      BY Zenon, <1>0, <2>1, <2>2, <2>3 DEF Sane, BeforeWrite
    <2> QED
      BY Zenon, <1>3, <2>0, <2>4, LocalStep DEF VerifyWatch
  <1> QED
    BY Zenon, <1>1, <1>2, <1>3

\* ResetUser reads the row, and a registration without its token is undone.
LEMMA MiddleSteps ==
    ASSUME Inv, NEW r \in Requests, ResetUser(r) \/ RegisterRollback(r)
    PROVE  Inv'
  <1>0. /\ req[r] \in Records /\ KindOf(req[r]) /\ DecisionReq(req[r]) /\ req[r].watch = FALSE
        /\ row \in Users
    BY Zenon, SaneNow DEF ResetUser, RegisterRollback, At, Records, Inv, TypeInv
  <1>1. CASE ResetUser(r)
    <2>1. CASE row = NoUser
      BY Zenon, <1>1, <2>1, Finish DEF ResetUser
    <2>2. CASE row # NoUser
      <3> DEFINE x == [req[r] EXCEPT !.pc = "now", !.user = row]
      <3>1. req[r].kind = "password"
        BY Zenon, <1>0, <1>1 DEF ResetUser, At, KindOf
      <3>2. x \in Records /\ x.pc = "now" /\ x.kind = "password" /\ x.user = row /\ x.watch = FALSE
        BY Zenon, <1>0, <3>1 DEF Records, Pcs
      <3> HIDE DEF x
      <3>3. /\ KindOf(x) /\ SessionReq(x) /\ MailReq(x) /\ DecisionReq(x) /\ AvatarReq(r, x)
        BY Zenon, <3>2 DEF KindOf, SessionReq, MailReq, DecisionReq, AvatarReq, Writers
      <3>4. Sane(r, x)
        BY Zenon, <2>2, <3>1, <3>2, <3>3 DEF Sane, BeforeWrite
      <3> QED
        BY Zenon, <1>1, <2>2, <3>4, LocalStep DEF ResetUser, x
    <2> QED
      BY Zenon, <2>1, <2>2
  <1>2. CASE RegisterRollback(r)
    <2> DEFINE x == Moved(r, "rollback")
    <2>1. /\ x \in Records /\ x.pc = "rollback" /\ x.kind = "register" /\ x.user = req[r].user
          /\ x.watch = FALSE
      <3>1. "rollback" \in Pcs /\ "rollback" # "done" /\ req[r].kind = "register"
        BY <1>2 DEF RegisterRollback, Pcs
      <3> QED
        BY Zenon, <1>0, <3>1, MovedIs
    <2> HIDE DEF x
    <2>2. /\ KindOf(x) /\ SessionReq(x) /\ MailReq(x) /\ DecisionReq(x) /\ AvatarReq(r, x)
      BY Zenon, <2>1 DEF KindOf, SessionReq, MailReq, DecisionReq, AvatarReq, Writers
    <2>3. Sane(r, x)
      BY Zenon, <1>2, <2>1, <2>2 DEF Sane, BeforeWrite, RegisterRollback
    <2> QED
      BY Zenon, <1>2, <2>3, LocalStep DEF RegisterRollback, Goto, x
  <1> QED
    BY Zenon, <1>1, <1>2

-----------------------------------------------------------------------------
\* Session tokens and what ends them

\* A token is issued after the cutoff that its login or refresh has read.
LEMMA IssueStep ==
    ASSUME Inv, NEW r \in Requests, NEW use \in {"access", "refresh"},
           NEW next \in {"refresh", "done"}, Issue(r, use, next)
    PROVE  Inv'
  <1> DEFINE t == [by |-> r, use |-> use, iat |-> clock, cut |-> req[r].cut]
             x == Moved(r, next)
  <1>0. /\ req[r] \in Records /\ KindOf(req[r]) /\ DecisionReq(req[r]) /\ req[r].watch = FALSE
        /\ req[r].cut < clock /\ req[r].pc = use /\ clock \in Nat
    BY Zenon, SaneNow DEF Issue, At, Records, SessionReq, Inv, TypeInv
  <1>1. t \in SessionTokens /\ t.cut = req[r].cut /\ t.iat = clock /\ tokens' = tokens \cup {t}
    BY Zenon, <1>0 DEF SessionTokens, Records, Issue
  <1> HIDE DEF t
  <1>2. Sane(r, x)
    <2>1. CASE next = "done"
      BY Zenon, <2>1, DoneSane
    <2>2. CASE next = "refresh"
      <3>1. /\ x \in Records /\ x.pc = "refresh" /\ x.kind = req[r].kind
            /\ x.user = req[r].user /\ x.cut = req[r].cut /\ x.watch = FALSE
            /\ x.stale = req[r].stale
        <4>1. next \in Pcs /\ next # "done"
          BY Zenon, <2>2 DEF Pcs
        <4> QED
          BY Zenon, <1>0, <2>2, <4>1, MovedIs
      <3> HIDE DEF x
      <3>2. KindOf(x) /\ SessionReq(x) /\ MailReq(x) /\ AvatarReq(r, x)
        BY Zenon, <1>0, <3>1 DEF KindOf, SessionReq, MailReq, AvatarReq
      <3>3. DecisionReq(x)
        BY Zenon, <1>0, <3>1 DEF DecisionReq, Agrees
      <3> QED
        BY Zenon, <3>1, <3>2, <3>3 DEF Sane, BeforeWrite
    <2> QED
      BY Zenon, <2>1, <2>2
  <1> HIDE DEF x
  <1>3. Become(r, x) /\ x \in Records /\ KindOf(x) /\ SessionReq(x)
    BY Zenon, <1>2 DEF Issue, Goto, Sane, x
  <1>4. /\ req' \in [Requests -> Records] /\ req'[r] = x
        /\ \A q \in Requests : q = r \/ Keeps(q)
        /\ \A q \in Requests : KindOf(req[q])'
    BY Zenon, <1>3, OneRequest
  <1>5. /\ UNCHANGED <<clock, row, cutoff, objects, saved, live, latest>>
        /\ UNCHANGED <<ended, spent, decided, overlap, backwards, doubted>>
    BY Zenon DEF Issue, mail, ghosts
  <1>6. TypeInv'
    BY Zenon, <1>1, <1>4, <1>5 DEF Inv, TypeInv
  <1>7. SessionInv'
    <2>1. \A q \in Requests : SessionReq(req[q])'
      BY <1>3, <1>4, <1>5 DEF Inv, SessionInv, SessionReq, Keeps, Covered
    <2>2. \A u \in tokens' : u.cut < u.iat /\ u.iat <= clock
      BY <1>0, <1>1 DEF Inv, SessionInv
    <2> QED
      BY Zenon, <1>5, <2>1, <2>2 DEF Inv, SessionInv, Covered, Unexpired, TTL
  <1>8. Reads(r) /\ Knows(r)
    BY Zenon, <1>2, <1>4 DEF Sane, Reads, Knows
  <1>9. MailInv' /\ DecisionInv' /\ AvatarInv'
    BY Zenon, <1>2, <1>3, <1>5, <1>8, QuietParts DEF Sane
  <1> QED
    BY Zenon, <1>6, <1>7, <1>9 DEF Inv

\* Nothing that the cutoff has ended is accepted again when it is set to a later
\* second.
LEMMA CutoffMoves ==
    ASSUME Inv, NEW n \in Nat, 0 < n, n <= clock, UNCHANGED clock,
           cutoff' = [iat |-> n, until |-> clock + RefreshTTL],
           backwards' = (backwards \/ n < cutoff.iat)
    PROVE  /\ cutoff'.iat = n /\ n + RefreshTTL <= cutoff'.until
           /\ \A m \in Nat : ~backwards' /\ Covered(m) => Covered(m)'
           /\ \A m \in Nat : m <= n => Covered(m)'
           /\ ~backwards' => ~backwards
  <1>1. cutoff.iat \in Nat /\ clock \in Nat /\ RefreshTTL \in Nat
    BY Zenon, AccountsAssumption DEF Inv, TypeInv
  <1>2. cutoff'.iat = n /\ cutoff'.until = clock + RefreshTTL
    OBVIOUS
  <1>3. ~backwards' => ~backwards /\ ~(n < cutoff.iat)
    BY Zenon
  <1>4. \A m \in Nat : m <= n => Covered(m)'
    BY Zenon, <1>2 DEF Covered
  <1>5. \A m \in Nat : cutoff.iat <= n /\ Covered(m) => Covered(m)'
    BY <1>1, <1>2 DEF Covered
  <1>6. n + RefreshTTL <= cutoff'.until
    BY <1>1, <1>2
  <1>7. ~(n < cutoff.iat) => cutoff.iat <= n
    BY <1>1
  <1> QED
    BY Zenon, <1>2, <1>3, <1>4, <1>5, <1>6, <1>7

\* SetLogoutAllIAT.
LEMMA SetLogoutAllStep ==
    ASSUME Inv, NEW r \in Requests, SetLogoutAllIAT(r)
    PROVE  Inv'
  <1> DEFINE p == CASE req[r].kind = "password" -> "write password"
                    [] req[r].kind = "suspend" -> "write row"
                    [] OTHER -> "done"
             x == Moved(r, p)
  <1>n. PICK n : n = req[r].now
    OBVIOUS
  <1>0. /\ req[r] \in Records /\ KindOf(req[r]) /\ DecisionReq(req[r]) /\ req[r].watch = FALSE
        /\ req[r].pc = "set" /\ n \in Nat /\ 0 < n /\ n <= clock
    BY Zenon, <1>n, SaneNow DEF SetLogoutAllIAT, At, Records, SessionReq
  <1>1. /\ p \in {"write password", "write row", "done"}
        /\ p = "write row" => req[r].kind = "suspend"
    BY Zenon
  <1>2. /\ cutoff' = [iat |-> n, until |-> clock + RefreshTTL]
        /\ backwards' = (backwards \/ n < cutoff.iat)
        /\ ended' = IF req[r].kind = "logout" THEN ended \cup EndedBy(r) ELSE ended
        /\ Become(r, x)
        /\ UNCHANGED <<clock, row, tokens, objects, saved, live, latest>>
        /\ UNCHANGED <<spent, decided, overlap, doubted>>
    BY Zenon, <1>n DEF SetLogoutAllIAT, Goto, mail
  <1> HIDE DEF p
  <1>3. /\ x \in Records /\ x.pc = p /\ x.watch = FALSE
        /\ p # "done" => /\ x.kind = req[r].kind /\ x.user = req[r].user
                         /\ x.now = n /\ x.stale = req[r].stale
        /\ p = "done" => Sane(r, x)
    <2>1. CASE p = "done"
      BY Zenon, <2>1, DoneSane DEF Sane, Moved, Idle
    <2>2. CASE p # "done"
      <3>1. p \in Pcs
        BY Zenon, <1>1 DEF Pcs
      <3> QED
        BY Zenon, <1>n, <1>0, <2>2, <3>1, MovedIs
    <2> QED
      BY Zenon, <2>1, <2>2
  <1> HIDE DEF x
  <1>4. KindOf(x) /\ MailReq(x) /\ DecisionReq(x) /\ AvatarReq(r, x)
    <2>1. CASE p = "done"
      BY Zenon, <1>3, <2>1 DEF Sane
    <2>2. CASE p # "done"
      <3>1. KindOf(x) /\ MailReq(x) /\ AvatarReq(r, x)
        BY Zenon, <1>1, <1>3, <2>2 DEF KindOf, MailReq, AvatarReq, Writers
      <3>2. DecisionReq(x)
        BY Zenon, <1>0, <1>1, <1>3, <2>2 DEF DecisionReq, Agrees
      <3> QED
        BY Zenon, <3>1, <3>2
    <2> QED
      BY Zenon, <2>1, <2>2
  <1>5. /\ req' \in [Requests -> Records] /\ req'[r] = x
        /\ \A q \in Requests : q = r \/ Keeps(q)
        /\ \A q \in Requests : KindOf(req[q])'
    BY Zenon, <1>2, <1>3, <1>4, OneRequest
  <1>6. Reads(r) /\ Knows(r)
    BY Zenon, <1>0, <1>1, <1>3, <1>5 DEF Sane, Reads, Knows, BeforeWrite
  <1>7. MailInv' /\ DecisionInv' /\ AvatarInv'
    BY Zenon, <1>2, <1>3, <1>4, <1>6, QuietParts
  <1>8. /\ EndedBy(r) \subseteq tokens
        /\ ended \subseteq ended' /\ ended' \subseteq ended \cup EndedBy(r)
    BY Zenon, <1>2 DEF EndedBy
  <1>9. TypeInv'
    <2>1. clock + RefreshTTL \in Nat
      BY AccountsAssumption DEF Inv, TypeInv
    <2>2. cutoff' \in [iat : Nat, until : Nat]
      BY Zenon, <1>0, <1>2, <2>1
    <2>3. backwards' \in BOOLEAN
      BY Zenon, <1>2
    <2> QED
      BY Zenon, <1>2, <1>5, <1>8, <2>2, <2>3 DEF Inv, TypeInv
  <1>10. SessionInv'
    <2>1. /\ cutoff'.iat = n /\ n + RefreshTTL <= cutoff'.until
          /\ \A m \in Nat : ~backwards' /\ Covered(m) => Covered(m)'
          /\ \A m \in Nat : m <= n => Covered(m)'
          /\ ~backwards' => ~backwards
      BY Zenon, <1>0, <1>2, CutoffMoves
    <2>2. ASSUME NEW q \in Requests
          PROVE  SessionReq(req[q])'
      <3>1. CASE q = r
        <4>1. CASE p = "done"
          BY Zenon, <1>3, <1>5, <3>1, <4>1 DEF SessionReq
        <4>2. CASE p # "done"
          <5>1. Covered(n)' /\ 0 < n
            BY <1>0, <2>1
          <5>2. x.pc \in {"write password", "write row"} /\ x.now = n
            BY Zenon, <1>1, <1>3, <4>2
          <5>3. req'[q].pc = x.pc /\ req'[q].now = n
            BY Zenon, <1>5, <3>1, <5>2
          <5> QED
            BY Zenon, <5>1, <5>2, <5>3 DEF SessionReq
        <4> QED
          BY Zenon, <4>1, <4>2
      <3>2. CASE q # r
        <4>1. Keeps(q) /\ SessionReq(req[q]) /\ req[q].now \in Nat
          BY Zenon, <1>5, <3>2, SaneNow DEF Records
        <4> QED
          BY Zenon, <1>2, <2>1, <4>1 DEF SessionReq, Keeps
      <3> QED
        BY Zenon, <3>1, <3>2
    <2>3. ASSUME NEW t \in ended'
          PROVE  0 < t.iat /\ (~backwards' => Covered(t.iat)' \/ ~Unexpired(t)')
      <3>0. t \in tokens /\ t.iat \in Nat /\ t.cut \in Nat
        BY <1>8 DEF Inv, TypeInv, SessionTokens
      <3>1. CASE t \in ended
        BY Zenon, <1>2, <2>1, <3>0, <3>1 DEF Inv, SessionInv, Unexpired, TTL
      <3>2. CASE t \in EndedBy(r)
        <4>1. t.iat <= n /\ t.cut < t.iat
          BY Zenon, <1>n, <3>2 DEF EndedBy, Inv, SessionInv
        <4> QED
          BY <2>1, <3>0, <4>1
      <3> QED
        BY Zenon, <1>8, <3>1, <3>2
    <2> QED
      BY Zenon, <1>2, <2>1, <2>2, <2>3 DEF Inv, SessionInv
  <1> QED
    BY Zenon, <1>7, <1>9, <1>10 DEF Inv

\* What is covered at n is covered before n.
LEMMA CoveredBelow ==
    ASSUME Inv, NEW n \in Nat, NEW m \in Nat, m <= n, Covered(n)
    PROVE  Covered(m)
  <1>1. cutoff.iat \in Nat /\ clock \in Nat /\ RefreshTTL \in Nat
    BY Zenon, AccountsAssumption DEF Inv, TypeInv
  <1> QED
    BY <1>1 DEF Covered

\* What is greater than a number is not zero.
LEMMA Positive ==
    ASSUME NEW n \in Nat, NEW m \in Nat, m < n
    PROVE  0 < n
  OBVIOUS

\* What a completed password change or suspension ends, the cutoff covers.
LEMMA EndedCovered ==
    ASSUME Inv, NEW r \in Requests,
           At(r, "write password") \/ (At(r, "write row") /\ req[r].kind = "suspend"),
           NEW t \in EndedBy(r)
    PROVE  t \in tokens /\ 0 < t.iat /\ (~backwards => Covered(t.iat))
  <1>1. /\ t \in tokens /\ t.iat <= req[r].now /\ t.cut < t.iat
        /\ t.iat \in Nat /\ t.cut \in Nat
    BY Zenon DEF EndedBy, Inv, TypeInv, SessionInv, SessionTokens
  <1>2. req[r].now \in Nat /\ (~backwards => Covered(req[r].now))
    BY Zenon, SaneNow DEF At, SessionReq, Records
  <1>4. Covered(req[r].now) => Covered(t.iat)
    BY Zenon, <1>1, <1>2, CoveredBelow
  <1>5. 0 < t.iat
    BY Zenon, <1>1, Positive
  <1> QED
    BY Zenon, <1>1, <1>2, <1>4, <1>5

\* Sessions when tokens are ended that the cutoff covers.
LEMMA SessionEnds ==
    ASSUME Inv, NEW E \in SUBSET tokens, ended' \subseteq ended \cup E,
           \A t \in E : 0 < t.iat /\ (~backwards => Covered(t.iat)),
           UNCHANGED <<clock, cutoff, tokens, backwards>>,
           \A q \in Requests : Keeps(q) \/ SessionReq(req[q])'
    PROVE  SessionInv'
  <1>1. ASSUME NEW q \in Requests
        PROVE  SessionReq(req[q])'
    BY Zenon, <1>1 DEF Inv, SessionInv, SessionReq, Keeps, Covered
  <1>2. ASSUME NEW t \in ended'
        PROVE  0 < t.iat /\ (~backwards => Covered(t.iat) \/ ~Unexpired(t))
    BY Zenon, <1>2 DEF Inv, SessionInv
  <1> QED
    BY Zenon, <1>1, <1>2 DEF Inv, SessionInv, Covered, Unexpired, TTL

\* UpdatePassword writes one column.
LEMMA UpdatePasswordStep ==
    ASSUME Inv, NEW r \in Requests, UpdatePassword(r)
    PROVE  Inv'
  <1> DEFINE x == Moved(r, "done")
  <1>1. Sane(r, x)
    BY Zenon, DoneSane
  <1>2. /\ row' = IF row = NoUser THEN row ELSE [row EXCEPT !.password = r]
        /\ ended' = ended \cup EndedBy(r) /\ Become(r, x) /\ At(r, "write password")
        /\ UNCHANGED <<clock, cutoff, tokens, objects, saved, live, latest>>
        /\ UNCHANGED <<spent, decided, overlap, backwards, doubted>>
    BY Zenon DEF UpdatePassword, Goto, mail
  <1> HIDE DEF x
  <1>3. /\ req' \in [Requests -> Records] /\ req'[r] = x
        /\ \A q \in Requests : q = r \/ Keeps(q)
        /\ \A q \in Requests : KindOf(req[q])'
    BY Zenon, <1>1, <1>2, OneRequest DEF Sane
  <1>4. Reads(r) /\ Knows(r)
    BY Zenon, <1>1, <1>3 DEF Sane, Reads, Knows
  <1>5. /\ row' \in Users /\ row'.avatar = row.avatar /\ SameDecisions
    <2>1. row \in Users /\ r # "none"
      BY Zenon, AccountsAssumption DEF Inv, TypeInv
    <2>2. CASE row = NoUser
      BY Zenon, <1>2, <2>1, <2>2 DEF SameDecisions
    <2>3. CASE row # NoUser
      <3>1. row' = [row EXCEPT !.password = r]
        BY Zenon, <1>2, <2>3
      <3>2. /\ row' \in Users /\ row'.password = r /\ row'.avatar = row.avatar
            /\ row'.role = row.role /\ row'.active = row.active
            /\ row'.suspended = row.suspended
        BY Zenon, <2>1, <3>1 DEF Users
      <3>3. row' # NoUser
        BY <2>1, <3>2 DEF NoUser
      <3> QED
        BY Zenon, <2>1, <2>3, <3>2, <3>3 DEF SameDecisions
    <2> QED
      BY Zenon, <2>2, <2>3
  <1>6. \A t \in EndedBy(r) : t \in tokens /\ 0 < t.iat /\ (~backwards => Covered(t.iat))
    BY Zenon, <1>2, EndedCovered
  <1>7. TypeInv'
    BY Zenon, <1>2, <1>3, <1>5, <1>6 DEF Inv, TypeInv
  <1>8. SessionInv'
    <2>1. SessionReq(req[r])'
      BY Zenon, <1>1, <1>2, <1>3 DEF Sane, SessionReq, Covered
    <2>2. EndedBy(r) \in SUBSET tokens
      BY Zenon DEF EndedBy
    <2> QED
      BY Zenon, <1>2, <1>3, <1>6, <2>1, <2>2, SessionEnds
  <1>9. MailInv'
    BY Zenon, <1>1, <1>2, QuietParts DEF Sane
  <1>10. DecisionInv'
    <2>1. DecisionReq(req[r])'
      BY Zenon, <1>1, <1>3, <1>5 DEF Sane, DecisionReq, Agrees, SameDecisions
    <2> QED
      BY Zenon, <1>2, <1>3, <1>4, <1>5, <2>1, DecisionQuiet
  <1>11. AvatarInv'
    <2>1. AvatarReq(r, req[r])'
      BY Zenon, <1>1, <1>2, <1>3, <1>5 DEF Sane, AvatarReq
    <2> QED
      BY Zenon, <1>2, <1>3, <1>4, <1>5, <2>1, AvatarQuiet
  <1> QED
    BY Zenon, <1>7, <1>8, <1>9, <1>10, <1>11 DEF Inv

-----------------------------------------------------------------------------
\* The whole row

\* An avatar that comes back into the row is doubted.
LEMMA AvatarRow ==
    ASSUME Inv, UNCHANGED objects, doubted \subseteq doubted',
           row'.avatar \in {row.avatar, "none"} \cup doubted',
           row'.avatar = "none" \/ Named(row'.avatar),
           \A q \in Requests : Keeps(q) \/ (AvatarReq(q, req[q])' /\ Knows(q))
    PROVE  AvatarInv'
  <1>0. \A q \in Requests : q # "none"
    BY Zenon, AccountsAssumption
  <1>1. ASSUME NEW q \in Requests
        PROVE  AvatarReq(q, req[q])'
    <2>1. CASE Keeps(q)
      <3>1. AvatarReq(q, req[q])
        BY Zenon DEF Inv, AvatarInv
      <3> QED
        BY Zenon, <1>0, <2>1, <3>1 DEF AvatarReq, Keeps
    <2> QED
      BY Zenon, <2>1
  <1>2. \A q \in Requests : Knows(q)
    BY Zenon DEF Keeps, Knows
  <1>3. ASSUME NEW q \in Requests, req'[q].pc \in BeforeWrite
        PROVE  ~Named(q)'
    <2>1. ~Named(q)
      BY Zenon, <1>2, <1>3 DEF Inv, AvatarInv, Knows
    <2>2. row'.avatar # q
      BY Zenon, <1>0, <2>1
    <2>3. \A s \in Requests : req'[s].user.avatar # q
      BY Zenon, <1>0, <1>2, <2>1 DEF Named, Knows
    <2> QED
      BY Zenon, <2>2, <2>3 DEF Named
  <1>4. AvatarStored'
    BY Zenon DEF Inv, AvatarInv, AvatarStored
  <1> QED
    BY Zenon, <1>1, <1>3, <1>4 DEF AvatarInv

\* What UpdateUser does to the requests: the others that have read the row go stale.
LEMMA UpdateUserRequests ==
    ASSUME Inv, NEW r \in Requests, UpdateUser(r)
    PROVE  /\ req' \in [Requests -> Records] /\ req'[r] = Moved(r, "done")
           /\ \A q \in Requests : q = r \/ Keeps(q)
           /\ \A q \in Requests : q = r \/ req'[q].stale \/ req'[q].user = NoUser
           /\ \A q \in Requests : KindOf(req[q])'
  <1>1. Moved(r, "done") \in Records /\ KindOf(Moved(r, "done"))
    BY Zenon, DoneSane DEF Sane
  <1>2. req' = [q \in Requests |-> IF q = r THEN Moved(r, "done")
                                   ELSE [req[q] EXCEPT !.stale = @ \/ req[q].user # NoUser]]
    BY Zenon DEF UpdateUser
  <1>3. req'[r] = Moved(r, "done")
    BY Zenon, <1>2
  <1>4. ASSUME NEW q \in Requests, q # r
        PROVE  /\ req'[q] \in Records /\ Keeps(q) /\ KindOf(req[q])'
               /\ req'[q].stale \/ req'[q].user = NoUser
    <2>1. req[q] \in Records /\ KindOf(req[q])
      BY Zenon, SaneNow
    <2>2. req'[q] = [req[q] EXCEPT !.stale = @ \/ req[q].user # NoUser]
      BY Zenon, <1>2, <1>4
    <2>3. (req[q].stale \/ req[q].user # NoUser) \in BOOLEAN
      BY Zenon
    <2>4. req'[q] \in Records
      BY Zenon, <2>1, <2>2, <2>3 DEF Records
    <2>5. /\ req'[q].pc = req[q].pc /\ req'[q].kind = req[q].kind
          /\ req'[q].user = req[q].user /\ req'[q].token = req[q].token
          /\ req'[q].cut = req[q].cut /\ req'[q].now = req[q].now
          /\ req'[q].watch = req[q].watch
      BY Zenon, <2>1, <2>2 DEF Records
    <2>6. req'[q].stale = (req[q].stale \/ req[q].user # NoUser)
      BY Zenon, <2>1, <2>2 DEF Records
    <2>7. Keeps(q)
      BY Zenon, <2>5, <2>6 DEF Keeps
    <2>8. KindOf(req[q])'
      BY Zenon, <2>1, <2>5 DEF KindOf
    <2> QED
      BY Zenon, <2>4, <2>5, <2>6, <2>7, <2>8
  <1>5. req' \in [Requests -> Records]
    <2>1. \A q \in Requests : req'[q] \in Records
      BY Zenon, <1>1, <1>3, <1>4
    <2> QED
      BY Zenon, <1>2, <2>1
  <1> QED
    BY Zenon, <1>1, <1>3, <1>4, <1>5

\* Decided columns that differ in one of them only.
LEMMA OneColumn ==
    ASSUME NEW u, NEW v
    PROVE  /\ v.role = u.role /\ v.active = u.active =>
                 Decided(v) = [Decided(u) EXCEPT !.suspended = v.suspended]
           /\ v.active = u.active /\ v.suspended = u.suspended =>
                 Decided(v) = [Decided(u) EXCEPT !.role = v.role]
           /\ v.role = u.role /\ v.suspended = u.suspended =>
                 Decided(v) = [Decided(u) EXCEPT !.active = v.active]
  <1>1. PICK a, b, c : a = u.role /\ b = u.active /\ c = u.suspended
    OBVIOUS
  <1>2. PICK x, y, z : x = v.role /\ y = v.active /\ z = v.suspended
    OBVIOUS
  <1>3. PICK d, e : /\ d = [role |-> a, active |-> b, suspended |-> c]
                    /\ e = [role |-> x, active |-> y, suspended |-> z]
    BY Zenon
  <1>4. /\ x = a /\ y = b => e = [d EXCEPT !.suspended = z]
        /\ y = b /\ z = c => e = [d EXCEPT !.role = x]
        /\ x = a /\ z = c => e = [d EXCEPT !.active = y]
    BY <1>3
  <1>5. d = Decided(u) /\ e = Decided(v)
    BY Zenon, <1>1, <1>2, <1>3 DEF Decided
  <1> QED
    BY Zenon, <1>1, <1>2, <1>4, <1>5

\* A request that nobody overtook decides on the row as it is.
LEMMA DecidesOnRow ==
    ASSUME Inv, NEW r \in Requests, At(r, "write row"), row # NoUser, ~req[r].stale,
           Decided(row) = decided
    PROVE  Decided(req[r].user) = Decision(r, decided)
  <1>1. /\ req[r].kind \in Writers /\ Agrees(req[r])
        /\ req[r].kind = "verify" => req[r].user.active
        /\ req[r].user \in Users
    BY Zenon, SaneNow DEF At, KindOf, DecisionReq, Records, Writers
  <1>3. CASE req[r].kind \in {"suspend", "unsuspend"}
    <2>1. Decision(r, decided) = [decided EXCEPT !.suspended = req[r].user.suspended]
      BY Zenon, <1>3 DEF Decision
    <2>2. req[r].user.role = row.role /\ req[r].user.active = row.active
      BY Zenon, <1>1, <1>3 DEF Agrees
    <2> QED
      BY Zenon, <2>1, <2>2, OneColumn
  <1>4. CASE req[r].kind = "assign"
    <2>1. Decision(r, decided) = [decided EXCEPT !.role = req[r].user.role]
      BY Zenon, <1>4 DEF Decision
    <2>2. req[r].user.suspended = row.suspended /\ req[r].user.active = row.active
      BY Zenon, <1>1, <1>4 DEF Agrees
    <2> QED
      BY Zenon, <2>1, <2>2, OneColumn
  <1>5. CASE req[r].kind = "verify"
    <2>1. Decision(r, decided) = [decided EXCEPT !.active = TRUE]
      BY Zenon, <1>5 DEF Decision
    <2>2. req[r].user.suspended = row.suspended /\ req[r].user.role = row.role
      BY Zenon, <1>1, <1>5 DEF Agrees
    <2>3. req[r].user.active = TRUE
      BY Zenon, <1>1, <1>5 DEF Users
    <2> QED
      BY Zenon, <2>1, <2>2, <2>3, OneColumn
  <1> QED
    BY Zenon, <1>1, <1>3, <1>4, <1>5 DEF Writers

\* UpdateUser writes every column as it was read.
LEMMA UpdateUserStep ==
    ASSUME Inv, NEW r \in Requests, UpdateUser(r)
    PROVE  Inv'
  <1> DEFINE x == Moved(r, "done")
             u == req[r].user
             E == IF req[r].kind = "suspend" THEN EndedBy(r) ELSE {}
  <1>1. Sane(r, x)
    BY Zenon, DoneSane
  <1>2. /\ At(r, "write row")
        /\ row' = IF row = NoUser THEN row ELSE u
        /\ decided' = IF row = NoUser THEN decided ELSE Decision(r, decided)
        /\ overlap' = (overlap \/ req[r].stale)
        /\ doubted' = IF row'.avatar = row.avatar THEN doubted ELSE doubted \cup {row'.avatar}
        /\ ended' = ended \cup E
        /\ UNCHANGED <<clock, cutoff, tokens, objects, saved, live, latest, spent, backwards>>
    BY Zenon DEF UpdateUser, mail
  <1>3. /\ req' \in [Requests -> Records] /\ req'[r] = x
        /\ \A q \in Requests : q = r \/ Keeps(q)
        /\ \A q \in Requests : q = r \/ req'[q].stale \/ req'[q].user = NoUser
        /\ \A q \in Requests : KindOf(req[q])'
    BY Zenon, UpdateUserRequests
  <1> HIDE DEF x
  <1>4. Reads(r) /\ Knows(r)
    BY Zenon, <1>1, <1>3 DEF Sane, Reads, Knows
  <1>5. /\ req[r] \in Records /\ KindOf(req[r]) /\ DecisionReq(req[r])
        /\ u \in Users /\ u # NoUser /\ u.password # "none" /\ row \in Users
    <2>1. req[r] \in Records /\ KindOf(req[r]) /\ DecisionReq(req[r]) /\ row \in Users
      BY Zenon, SaneNow DEF Inv, TypeInv
    <2>2. req[r].pc = "write row" /\ req[r].kind \in Writers
      BY Zenon, <1>2, <2>1 DEF At, KindOf
    <2> QED
      BY Zenon, <2>1, <2>2 DEF DecisionReq, Records
  <1>6. E \in SUBSET tokens /\ \A t \in E : 0 < t.iat /\ (~backwards => Covered(t.iat))
    <2>1. CASE req[r].kind = "suspend"
      BY Zenon, <1>2, <2>1, EndedCovered
    <2>2. CASE req[r].kind # "suspend"
      BY Zenon, <2>2
    <2> QED
      BY Zenon, <2>1, <2>2
  <1> HIDE DEF E
  <1>7. TypeInv'
    <2>1. overlap' \in BOOLEAN
      BY Zenon, <1>2
    <2>2. row' \in Users
      BY Zenon, <1>2, <1>5
    <2> QED
      BY Zenon, <1>2, <1>3, <1>6, <2>1, <2>2 DEF Inv, TypeInv
  <1>8. SessionInv'
    <2>1. SessionReq(req[r])'
      BY Zenon, <1>1, <1>2, <1>3 DEF Sane, SessionReq, Covered
    <2> QED
      BY Zenon, <1>2, <1>3, <1>6, <2>1, SessionEnds
  <1>9. MailInv'
    <2>1. MailReq(req[r])'
      BY Zenon, <1>1, <1>2, <1>3 DEF Sane, MailReq, ValidToken
    <2> QED
      BY Zenon, <1>2, <1>3, <2>1, MailQuiet
  <1>10. DecisionInv'
    <2>1. ASSUME NEW q \in Requests
          PROVE  DecisionReq(req[q])'
      <3>1. CASE q = r
        BY Zenon, <1>3, <3>1, DoneSane DEF DecisionReq, Moved, Idle, Writers, x
      <3>2. CASE q # r
        <4>1. Keeps(q) /\ DecisionReq(req[q]) /\ (req'[q].stale \/ req'[q].user = NoUser)
          BY Zenon, <1>3, <3>2, SaneNow
        <4> QED
          BY Zenon, <4>1 DEF DecisionReq, Keeps
      <3> QED
        BY Zenon, <3>1, <3>2
    <2>2. DecisionsKept'
      <3>1. ASSUME ~overlap'
            PROVE  Decided(row)' = decided'
        <4>1. ~overlap /\ ~req[r].stale
          BY Zenon, <1>2, <3>1
        <4>2. Decided(row) = decided
          BY Zenon, <4>1 DEF Inv, DecisionInv, DecisionsKept
        <4>3. CASE row = NoUser
          BY Zenon, <1>2, <4>2, <4>3 DEF Decided
        <4>4. CASE row # NoUser
          <5>1. Decided(u) = decided'
            BY Zenon, <1>2, <4>1, <4>2, <4>4, DecidesOnRow
          <5>2. row' = u
            BY Zenon, <1>2, <4>4
          <5> QED
            BY Zenon, <5>1, <5>2 DEF Decided
        <4> QED
          BY Zenon, <4>3, <4>4
      <3> QED
        BY Zenon, <3>1 DEF DecisionsKept
    <2>3. \A q \in Requests : Reads(q)
      BY <1>3, <1>4 DEF Inv, DecisionInv, Keeps, Reads
    <2>4. row' = NoUser <=> row = NoUser
      BY Zenon, <1>2, <1>5
    <2>5. Unread => Unread'
      BY Zenon, <2>3, <2>4 DEF Unread, Reads
    <2>6. row' # NoUser => row'.password # "none"
      BY Zenon, <1>2, <1>5, <2>4
    <2> QED
      BY Zenon, <2>1, <2>2, <2>3, <2>4, <2>5, <2>6 DEF Inv, DecisionInv, Reads
  <1>11. AvatarInv'
    <2>1. AvatarReq(r, req[r])'
      BY Zenon, <1>3, DoneSane DEF AvatarReq, Moved, Idle, x
    <2>2. /\ doubted \subseteq doubted' /\ row'.avatar \in {row.avatar, "none"} \cup doubted'
          /\ Named(row'.avatar)
      BY Zenon, <1>2 DEF Named
    <2> QED
      BY Zenon, <1>2, <1>3, <1>4, <2>1, <2>2, AvatarRow
  <1> QED
    BY Zenon, <1>7, <1>8, <1>9, <1>10, <1>11 DEF Inv

-----------------------------------------------------------------------------
\* Avatars

\* The steps of an upload keep the request as it is but for its place.
LEMMA UploadMoves ==
    ASSUME Inv, NEW r \in Requests, req[r].pc \in {"put", "write avatar", "drop old", "drop new"},
           NEW p \in {"write avatar", "drop old", "drop new", "done"}
    PROVE  LET x == Moved(r, p)
           IN  /\ x \in Records /\ x.pc = p /\ x.watch = FALSE
               /\ KindOf(x) /\ SessionReq(x) /\ MailReq(x) /\ DecisionReq(x)
               /\ x.kind = "register" <=> req[r].kind = "register"
               /\ x.user \in {NoUser, req[r].user}
               /\ x.user.avatar \in {"none", req[r].user.avatar}
               /\ p # "done" => x.user = req[r].user
  <1> DEFINE x == Moved(r, p)
  <1>0. /\ req[r] \in Records /\ DecisionReq(req[r]) /\ req[r].watch = FALSE
        /\ NoUser.avatar = "none"
    BY Zenon, SaneNow DEF Records, NoUser
  <1>1. CASE p = "done"
    <2>1. Sane(r, x) /\ x.pc = "done" /\ x.user = NoUser /\ x.watch = FALSE
      BY Zenon, <1>1, DoneSane DEF Moved, Idle
    <2> QED
      BY Zenon, <1>0, <1>1, <2>1 DEF Sane
  <1>2. CASE p # "done"
    <2>1. p \in Pcs
      BY Zenon DEF Pcs
    <2>2. /\ x \in Records /\ x.pc = p /\ x.kind = req[r].kind /\ x.user = req[r].user
          /\ x.watch = FALSE /\ x.stale = req[r].stale
      BY Zenon, <1>0, <1>2, <2>1, MovedIs
    <2> HIDE DEF x
    <2>3. KindOf(x) /\ SessionReq(x) /\ MailReq(x)
      BY Zenon, <1>2, <2>2 DEF KindOf, SessionReq, MailReq
    <2>4. DecisionReq(x)
      BY Zenon, <1>0, <2>2 DEF DecisionReq, Agrees
    <2> QED
      BY Zenon, <1>2, <2>2, <2>3, <2>4 DEF x
  <1> QED
    BY Zenon, <1>1, <1>2

\* PutAvatar stores the object under a key of its own.
LEMMA PutAvatarStep ==
    ASSUME Inv, NEW r \in Requests, PutAvatar(r)
    PROVE  Inv'
  <1> DEFINE x == Moved(r, "write avatar")
  <1>1. /\ req[r].pc = "put" /\ objects' = objects \cup {r} /\ Become(r, x)
        /\ UNCHANGED <<clock, row, cutoff, tokens, saved, live, latest>>
        /\ UNCHANGED <<ended, spent, decided, overlap, backwards, doubted>>
    BY Zenon DEF PutAvatar, At, Goto, ObjectKey, mail, ghosts
  <1>2. /\ x \in Records /\ x.pc = "write avatar" /\ x.watch = FALSE
        /\ KindOf(x) /\ SessionReq(x) /\ MailReq(x) /\ DecisionReq(x)
        /\ x.kind = "register" <=> req[r].kind = "register"
        /\ x.user = req[r].user
    BY Zenon, <1>1, UploadMoves
  <1> HIDE DEF x
  <1>3. /\ req' \in [Requests -> Records] /\ req'[r] = x
        /\ \A q \in Requests : q = r \/ Keeps(q)
        /\ \A q \in Requests : KindOf(req[q])'
    BY Zenon, <1>1, <1>2, OneRequest
  <1>4. TypeInv'
    BY Zenon, <1>1, <1>3 DEF Inv, TypeInv
  <1>5. Reads(r)
    BY Zenon, <1>2, <1>3 DEF Reads
  <1>6. SessionInv' /\ MailInv' /\ DecisionInv'
    BY Zenon, <1>1, <1>2, <1>5, QuietParts
  <1>7. AvatarInv'
    <2>1. \A q \in Requests : /\ req'[q].user = req[q].user
                              /\ req'[q].pc \in BeforeWrite => req[q].pc \in BeforeWrite
                              /\ q # r => req'[q].pc = req[q].pc
      BY Zenon, <1>1, <1>2, <1>3 DEF Keeps, BeforeWrite
    <2>2. \A q \in Requests : req'[q].pc \in BeforeWrite => ~Named(q)'
      BY Zenon, <1>1, <2>1 DEF Inv, AvatarInv, Named
    <2>3. \A q \in Requests : AvatarReq(q, req[q])'
      BY <1>1, <1>2, <1>3, <2>1 DEF Inv, AvatarInv, AvatarReq
    <2>4. AvatarStored'
      BY Zenon, <1>1 DEF Inv, AvatarInv, AvatarStored
    <2> QED
      BY Zenon, <2>2, <2>3, <2>4 DEF AvatarInv
  <1> QED
    BY Zenon, <1>4, <1>6, <1>7 DEF Inv

\* The column of the avatar is written, or no row is there.
LEMMA AvatarColumn ==
    ASSUME Inv, NEW r \in Requests, row' = row \/ row' = WithAvatar(r)
    PROVE  /\ row' \in Users /\ SameDecisions
           /\ row'.avatar \in {row.avatar, r}
           /\ row' = WithAvatar(r) => row'.avatar \in {"none", r}
  <1>1. row \in Users /\ (row # NoUser => row.password # "none") /\ NoUser.avatar = "none"
    BY Zenon DEF Inv, TypeInv, DecisionInv, NoUser
  <1>2. CASE row' = row
    <2>1. WithAvatar(r) = row => row.avatar \in {"none", r}
      BY Zenon, <1>1 DEF WithAvatar, ObjectKey, Users
    <2> QED
      BY Zenon, <1>1, <1>2, <2>1 DEF SameDecisions
  <1>3. CASE row # NoUser /\ row' = [row EXCEPT !.avatar = r]
    <2>1. /\ row' \in Users /\ row'.avatar = r /\ row'.password = row.password
          /\ row'.role = row.role /\ row'.active = row.active /\ row'.suspended = row.suspended
      BY Zenon, <1>1, <1>3 DEF Users
    <2>2. row' # NoUser
      BY Zenon, <1>1, <1>3, <2>1 DEF NoUser
    <2> QED
      BY Zenon, <1>1, <1>3, <2>1, <2>2 DEF SameDecisions
  <1> QED
    BY Zenon, <1>2, <1>3 DEF WithAvatar, ObjectKey

\* UpdateAvatar, answered with an error or not.
LEMMA UpdateAvatarStep ==
    ASSUME Inv, NEW r \in Requests, UpdateAvatar(r) \/ UpdateAvatarFails(r)
    PROVE  Inv'
  <1>1. /\ req[r].pc = "write avatar" /\ (row' = row \/ row' = WithAvatar(r))
        /\ doubted \subseteq doubted'
        /\ UNCHANGED <<clock, cutoff, tokens, objects, saved, live, latest>>
        /\ UNCHANGED <<ended, spent, decided, overlap, backwards>>
    BY Zenon DEF UpdateAvatar, UpdateAvatarFails, At, mail, ghosts, ObjectKey
  <1>2. PICK p \in {"drop old", "drop new", "done"} :
          /\ Goto(r, p)
          /\ p = "drop old" => req[r].user.avatar # "none" /\ row' = WithAvatar(r)
          /\ p = "drop new" => row' = row \/ r \in doubted'
    BY Zenon DEF UpdateAvatar, UpdateAvatarFails, ObjectKey
  <1> DEFINE x == Moved(r, p)
  <1>3. /\ x \in Records /\ x.pc = p /\ x.watch = FALSE
        /\ KindOf(x) /\ SessionReq(x) /\ MailReq(x) /\ DecisionReq(x)
        /\ x.kind = "register" <=> req[r].kind = "register"
        /\ x.user \in {NoUser, req[r].user} /\ x.user.avatar \in {"none", req[r].user.avatar}
        /\ p # "done" => x.user = req[r].user
    <2>1. /\ req[r].pc \in {"put", "write avatar", "drop old", "drop new"}
          /\ p \in {"write avatar", "drop old", "drop new", "done"}
      BY <1>1
    <2> QED
      BY Zenon, <2>1, UploadMoves
  <1> HIDE DEF x
  <1>4. Become(r, x)
    BY Zenon, <1>2 DEF Goto, x
  <1>5. /\ req' \in [Requests -> Records] /\ req'[r] = x
        /\ \A q \in Requests : q = r \/ Keeps(q)
        /\ \A q \in Requests : KindOf(req[q])'
    BY Zenon, <1>3, <1>4, OneRequest
  <1>6. /\ row' \in Users /\ SameDecisions
        /\ row'.avatar \in {row.avatar, r}
        /\ row' = WithAvatar(r) => row'.avatar \in {"none", r}
    BY Zenon, <1>1, AvatarColumn
  <1>7. TypeInv'
    BY Zenon, <1>1, <1>5, <1>6 DEF Inv, TypeInv
  <1>8. SessionInv' /\ MailInv'
    BY Zenon, <1>1, <1>3, <1>4, QuietParts
  <1>9. DecisionInv'
    <2>1. DecisionReq(req[r])'
      BY Zenon, <1>3, <1>5, <1>6 DEF DecisionReq, Agrees, SameDecisions
    <2>2. Reads(r)
      BY Zenon, <1>3, <1>5 DEF Reads
    <2> QED
      BY Zenon, <1>1, <1>5, <1>6, <2>1, <2>2, DecisionQuiet
  <1>10. AvatarInv'
    <2>1. /\ r \in objects /\ ~Named(r) /\ AvatarStored /\ r # "none"
          /\ \A q \in Requests : AvatarReq(q, req[q])
      BY Zenon, <1>1, AccountsAssumption DEF Inv, AvatarInv, AvatarReq, BeforeWrite
    <2>2. AvatarStored'
      BY Zenon, <1>1, <1>6, <2>1 DEF AvatarStored
    <2>3. \A q \in Requests : /\ req'[q].user.avatar \in {"none", req[q].user.avatar}
                              /\ req'[q].pc \in BeforeWrite => q # r /\ req[q].pc \in BeforeWrite
      BY Zenon, <1>3, <1>5 DEF Keeps, BeforeWrite
    <2>4. ASSUME NEW q \in Requests, req'[q].pc \in BeforeWrite
          PROVE  ~Named(q)'
      <3>1. ~Named(q) /\ q # "none" /\ q # r
        BY Zenon, <2>3, <2>4, AccountsAssumption DEF Inv, AvatarInv
      <3> QED
        BY Zenon, <1>6, <2>3, <3>1 DEF Named
    <2>5. ASSUME NEW q \in Requests
          PROVE  AvatarReq(q, req[q])'
      <3>1. CASE q = r
        <4>1. p = "drop old" => x.user.avatar # "none" /\ row'.avatar # x.user.avatar
          BY Zenon, <1>2, <1>3, <1>6, <2>1 DEF Named
        <4>2. p = "drop new" => row'.avatar # r \/ r \in doubted'
          BY Zenon, <1>2, <2>1 DEF Named
        <4> QED
          BY Zenon, <1>3, <1>5, <3>1, <4>1, <4>2 DEF AvatarReq
      <3>2. CASE q # r
        <4>1. Keeps(q) /\ req[q].user.avatar # r
          BY Zenon, <1>5, <2>1, <3>2 DEF Named
        <4> QED
          BY Zenon, <1>1, <1>6, <2>1, <3>2, <4>1 DEF AvatarReq, Keeps
      <3> QED
        BY Zenon, <3>1, <3>2
    <2> QED
      BY Zenon, <2>2, <2>4, <2>5 DEF AvatarInv
  <1> QED
    BY Zenon, <1>7, <1>8, <1>9, <1>10 DEF Inv

\* DeleteAvatar deletes what is not in the row.
LEMMA DeleteAvatarStep ==
    ASSUME Inv, NEW r \in Requests, DeleteAvatar(r)
    PROVE  Inv'
  <1> DEFINE x == Moved(r, "done")
  <1>1. PICK k : k = IF At(r, "drop old") THEN req[r].user.avatar ELSE r
    OBVIOUS
  <1>2. /\ req[r].pc \in {"drop old", "drop new"} /\ objects' = objects \ {k} /\ Become(r, x)
        /\ UNCHANGED <<clock, row, cutoff, tokens, saved, live, latest>>
        /\ UNCHANGED <<ended, spent, decided, overlap, backwards, doubted>>
    BY Zenon, <1>1 DEF DeleteAvatar, Goto, ObjectKey, mail, ghosts
  <1>3. x.pc = "done" /\ Sane(r, x) /\ x \in Records /\ KindOf(x)
    BY Zenon, DoneSane DEF Sane, Moved, Idle
  <1> HIDE DEF x
  <1>4. /\ req' \in [Requests -> Records] /\ req'[r] = x
        /\ \A q \in Requests : q = r \/ Keeps(q)
        /\ \A q \in Requests : KindOf(req[q])'
    BY Zenon, <1>2, <1>3, OneRequest
  <1>5. TypeInv'
    BY Zenon, <1>2, <1>4 DEF Inv, TypeInv
  <1>6. Reads(r) /\ Knows(r)
    BY Zenon, <1>3, <1>4 DEF Sane, Reads, Knows
  <1>7. SessionInv' /\ MailInv' /\ DecisionInv'
    BY Zenon, <1>2, <1>3, <1>6, QuietParts DEF Sane
  <1>8. AvatarInv'
    <2>1. row.avatar # k \/ k \in doubted
      BY Zenon, <1>1, <1>2, SaneNow DEF At, AvatarReq
    <2>2. AvatarStored'
      BY Zenon, <1>2, <2>1 DEF Inv, AvatarInv, AvatarStored
    <2>3. \A q \in Requests : Knows(q)
      BY Zenon, <1>4, <1>6 DEF Keeps, Knows
    <2>4. ASSUME NEW q \in Requests, req'[q].pc \in BeforeWrite
          PROVE  ~Named(q) /\ ~Named(q)'
      <3>1. ~Named(q) /\ q # "none"
        BY Zenon, <2>3, <2>4, AccountsAssumption DEF Inv, AvatarInv, Knows
      <3> QED
        BY Zenon, <1>2, <2>3, <3>1 DEF Named, Knows
    <2>5. ASSUME NEW q \in Requests
          PROVE  AvatarReq(q, req[q])'
      <3>1. CASE q = r
        BY Zenon, <1>3, <1>4, <3>1 DEF AvatarReq
      <3>2. CASE q # r
        <4>1. Keeps(q) /\ AvatarReq(q, req[q])
          BY Zenon, <1>4, <3>2, SaneNow
        <4>2. req'[q].pc = "write avatar" => q # k
          BY Zenon, <1>1, <2>4, <3>2 DEF BeforeWrite, Named
        <4> QED
          BY Zenon, <1>2, <4>1, <4>2 DEF AvatarReq, Keeps
      <3> QED
        BY Zenon, <3>1, <3>2
    <2> QED
      BY Zenon, <2>2, <2>4, <2>5 DEF AvatarInv
  <1> QED
    BY Zenon, <1>5, <1>7, <1>8 DEF Inv

-----------------------------------------------------------------------------
\* One-time tokens

\* A request whose keys may have been touched keeps everything but its watch.
LEMMA LosesWatch ==
    ASSUME Inv, NEW p, NEW q \in Requests,
           req'[q] = [req[q] EXCEPT !.watch = @ /\ Purpose(q) # p]
    PROVE  /\ req'[q] \in Records /\ Keeps(q) /\ KindOf(req[q])'
           /\ req'[q].watch => Purpose(q) # p
  <1>1. req[q] \in Records /\ KindOf(req[q])
    BY Zenon, SaneNow
  <1>2. PICK w \in BOOLEAN : w = (req[q].watch /\ Purpose(q) # p)
    BY Zenon
  <1>3. req'[q] = [req[q] EXCEPT !.watch = w]
    BY Zenon, <1>2
  <1>4. /\ req'[q] \in Records /\ req'[q].watch = w
        /\ req'[q].pc = req[q].pc /\ req'[q].kind = req[q].kind
        /\ req'[q].user = req[q].user /\ req'[q].token = req[q].token
        /\ req'[q].cut = req[q].cut /\ req'[q].now = req[q].now
        /\ req'[q].stale = req[q].stale
    BY Zenon, <1>1, <1>3 DEF Records
  <1>5. Keeps(q)
    BY Zenon, <1>2, <1>4 DEF Keeps
  <1>6. KindOf(req[q])'
    BY Zenon, <1>1, <1>4 DEF KindOf
  <1> QED
    BY Zenon, <1>2, <1>4, <1>5, <1>6

\* The request that touches them goes on without one.
LEMMA TouchSane ==
    ASSUME Inv, NEW r \in Requests, NEW pc,
           \/ pc = "done"
           \/ pc = "rollback" /\ At(r, "save") /\ req[r].kind = "register"
           \/ pc = "reset user" /\ At(r, "exec") /\ req[r].kind = "password"
           \/ pc = "write row" /\ At(r, "exec") /\ req[r].kind = "verify"
    PROVE  LET x == [Moved(r, pc) EXCEPT !.watch = FALSE]
           IN  Sane(r, x) /\ x.watch = FALSE
  <1> DEFINE m == Moved(r, pc)
             x == [m EXCEPT !.watch = FALSE]
  <1>1. req[r] \in Records /\ DecisionReq(req[r]) /\ NoUser.avatar = "none"
    BY Zenon, SaneNow DEF NoUser
  <1>2. CASE pc = "done"
    <2>1. /\ m \in Records /\ m.pc = "done" /\ m.kind \notin Writers /\ m.user = NoUser
          /\ m.kind = "register" <=> req[r].kind = "register"
      BY Zenon, <1>2, DoneSane DEF Sane, Moved, Idle, Writers
    <2> HIDE DEF m
    <2>2. /\ x \in Records /\ x.pc = "done" /\ x.kind = m.kind /\ x.user = NoUser
          /\ x.watch = FALSE
      BY Zenon, <2>1 DEF Records
    <2> HIDE DEF x
    <2>3. KindOf(x) /\ SessionReq(x) /\ MailReq(x) /\ DecisionReq(x) /\ AvatarReq(r, x)
      BY Zenon, <2>1, <2>2 DEF KindOf, SessionReq, MailReq, DecisionReq, AvatarReq
    <2>4. Sane(r, x)
      BY Zenon, <1>1, <2>1, <2>2, <2>3 DEF Sane, BeforeWrite
    <2> QED
      BY Zenon, <2>2, <2>4 DEF x, m
  <1>3. CASE pc # "done"
    <2>1. pc \in Pcs
      BY Zenon, <1>3 DEF Pcs
    <2>2. /\ m \in Records /\ m.pc = pc /\ m.kind = req[r].kind /\ m.user = req[r].user
          /\ m.stale = req[r].stale
      BY Zenon, <1>3, <2>1, MovedIs
    <2> HIDE DEF m
    <2>3. /\ x \in Records /\ x.pc = pc /\ x.kind = req[r].kind /\ x.user = req[r].user
          /\ x.stale = req[r].stale /\ x.watch = FALSE
      BY Zenon, <2>2 DEF Records
    <2> HIDE DEF x
    <2>4. KindOf(x) /\ SessionReq(x) /\ MailReq(x) /\ AvatarReq(r, x)
      BY Zenon, <1>3, <2>3 DEF KindOf, SessionReq, MailReq, AvatarReq, Writers
    <2>5. DecisionReq(x)
      <3>1. CASE req[r].kind = "verify"
        BY Zenon, <1>1, <1>3, <2>3, <3>1 DEF DecisionReq, Agrees, At, Writers
      <3>2. CASE req[r].kind # "verify"
        BY Zenon, <1>3, <2>3, <3>2 DEF DecisionReq, Writers
      <3> QED
        BY Zenon, <3>1, <3>2
    <2>6. Sane(r, x)
      BY Zenon, <1>3, <2>3, <2>4, <2>5 DEF Sane, BeforeWrite
    <2> QED
      BY Zenon, <2>3, <2>6 DEF x, m
  <1> QED
    BY Zenon, <1>2, <1>3

\* Touch, for all requests.
LEMMA TouchIs ==
    ASSUME Inv, NEW r \in Requests, NEW p, NEW pc, Touch(p, r, pc),
           Sane(r, [Moved(r, pc) EXCEPT !.watch = FALSE])
    PROVE  /\ req' \in [Requests -> Records]
           /\ req'[r] = [Moved(r, pc) EXCEPT !.watch = FALSE]
           /\ \A q \in Requests : q = r \/ (Keeps(q) /\ (req'[q].watch => Purpose(q) # p))
           /\ \A q \in Requests : KindOf(req[q])'
  <1>0. PICK x : x = [Moved(r, pc) EXCEPT !.watch = FALSE]
    OBVIOUS
  <1>1. req' = [q \in Requests |-> IF q = r THEN x
                                   ELSE [req[q] EXCEPT !.watch = @ /\ Purpose(q) # p]]
    BY Zenon, <1>0 DEF Touch
  <1>2. req'[r] = x /\ x \in Records /\ KindOf(x)
    BY Zenon, <1>0, <1>1 DEF Sane
  <1>3. ASSUME NEW q \in Requests, q # r
        PROVE  req'[q] = [req[q] EXCEPT !.watch = @ /\ Purpose(q) # p]
    BY Zenon, <1>1, <1>3
  <1>4. \A q \in Requests : q # r => /\ req'[q] \in Records /\ Keeps(q) /\ KindOf(req[q])'
                                     /\ req'[q].watch => Purpose(q) # p
    BY Zenon, <1>3, LosesWatch
  <1>5. \A q \in Requests : req'[q] \in Records
    BY Zenon, <1>2, <1>4
  <1>6. req' \in [Requests -> Records]
    BY Zenon, <1>1, <1>5
  <1>7. KindOf(req[r])'
    BY Zenon, <1>2 DEF KindOf
  <1> QED
    BY Zenon, <1>0, <1>2, <1>4, <1>6, <1>7

\* A step on the keys of one-time tokens touches nothing else.
LEMMA KeysStep ==
    ASSUME Inv, UNCHANGED <<clock, store>>,
           UNCHANGED <<ended, decided, overlap, backwards, doubted>>,
           req' \in [Requests -> Records], \A q \in Requests : KindOf(req[q])',
           \A q \in Requests : Keeps(q) \/ Sane(q, req'[q]),
           saved' \in [Purposes -> Nat], live' \in [Purposes -> SUBSET Nat],
           latest' \in [Purposes -> Nat],
           MailInv'
    PROVE  Inv'
  <1>1. UNCHANGED <<clock, row, cutoff, tokens, objects>>
    BY Zenon DEF store
  <1>2. TypeInv'
    BY Zenon, <1>1 DEF Inv, TypeInv
  <1>3. ASSUME NEW q \in Requests, ~Keeps(q)
        PROVE  /\ SessionReq(req[q])' /\ DecisionReq(req[q])' /\ AvatarReq(q, req[q])'
               /\ Reads(q) /\ Knows(q)
    <2>1. PICK x : x = req'[q] /\ Sane(q, x)
      BY Zenon, <1>3
    <2>2. SessionReq(req[q])'
      BY Zenon, <1>1, <2>1 DEF Sane, SessionReq, Covered
    <2>3. DecisionReq(req[q])'
      BY Zenon, <1>1, <2>1 DEF Sane, DecisionReq, Agrees
    <2>4. AvatarReq(q, req[q])'
      BY Zenon, <1>1, <2>1 DEF Sane, AvatarReq
    <2> QED
      BY Zenon, <2>1, <2>2, <2>3, <2>4 DEF Sane, Reads, Knows
  <1>4. SessionInv'
    BY Zenon, <1>1, <1>3, SessionQuiet
  <1>5. DecisionInv'
    <2>1. SameDecisions
      BY Zenon, <1>1 DEF SameDecisions, Inv, DecisionInv
    <2> QED
      BY Zenon, <1>3, <2>1, DecisionQuiet
  <1>6. AvatarInv'
    BY Zenon, <1>1, <1>3, AvatarQuiet
  <1> QED
    BY Zenon, <1>2, <1>4, <1>5, <1>6 DEF Inv

\* A watched token is still valid when the keys of another purpose were touched.
LEMMA WatchKept ==
    ASSUME Inv, NEW p \in Purposes, NEW q \in Requests, Keeps(q),
           req'[q].watch => Purpose(q) # p,
           \A o \in Purposes \ {p} : live'[o] = live[o] /\ latest'[o] = latest[o]
    PROVE  MailReq(req[q])'
  <1>1. SUFFICES ASSUME req'[q].watch
                 PROVE  MailReq(req[q])'
    BY Zenon DEF MailReq
  <1> DEFINE o == IF req[q].kind \in {"reset", "password"} THEN "reset" ELSE "verify"
  <1>2. o \in Purposes \ {p}
    BY Zenon, <1>1 DEF Purpose, Purposes
  <1>3. req[q].pc = "exec" /\ ValidToken(o, req[q].token)
    BY Zenon, <1>1, SaneNow DEF Keeps, MailReq
  <1>4. /\ req'[q].pc = "exec"
        /\ req[q].token \in live'[o] /\ latest'[o] = req[q].token
    BY Zenon, <1>2, <1>3 DEF ValidToken, Keeps
  <1> QED
    BY Zenon, <1>4 DEF MailReq, ValidToken, Keeps

\* Save numbers the token after all others of its purpose.
LEMMA SaveStep ==
    ASSUME Inv, NEW r \in Requests, Save(r)
    PROVE  Inv'
  <1>1. PICK p : p = Purpose(r)
    OBVIOUS
  <1>2. p \in Purposes
    BY Zenon, <1>1 DEF Purpose, Purposes
  <1>3. PICK n : n = saved[p] + 1
    OBVIOUS
  <1>4. PICK pc \in {"done"} \cup SaveFailed(r) : Touch(p, r, pc)
    BY Zenon, <1>1 DEF Save
  <1>5. /\ saved' = [saved EXCEPT ![p] = n]
        /\ live' = [live EXCEPT ![p] = @ \cup {n}]
        /\ latest' = [latest EXCEPT ![p] = n]
        /\ UNCHANGED <<clock, store>>
        /\ UNCHANGED <<ended, spent, decided, overlap, backwards, doubted>>
        /\ At(r, "save")
    BY Zenon, <1>1, <1>3 DEF Save, ghosts
  <1> DEFINE x == [Moved(r, pc) EXCEPT !.watch = FALSE]
  <1>6. Sane(r, x) /\ x.watch = FALSE
    <2>1. pc = "done" \/ (pc = "rollback" /\ At(r, "save") /\ req[r].kind = "register")
      BY Zenon, <1>4, <1>5 DEF SaveFailed
    <2> QED
      BY Zenon, <2>1, TouchSane
  <1>7. /\ req' \in [Requests -> Records] /\ req'[r] = x
        /\ \A q \in Requests : q = r \/ (Keeps(q) /\ (req'[q].watch => Purpose(q) # p))
        /\ \A q \in Requests : KindOf(req[q])'
    BY Zenon, <1>4, <1>6, TouchIs
  <1> HIDE DEF x
  <1>8. /\ saved \in [Purposes -> Nat] /\ live \in [Purposes -> SUBSET Nat]
        /\ latest \in [Purposes -> Nat] /\ n \in Nat
    BY <1>2, <1>3 DEF Inv, TypeInv
  <1>9. /\ saved' \in [Purposes -> Nat] /\ live' \in [Purposes -> SUBSET Nat]
        /\ latest' \in [Purposes -> Nat]
        /\ saved'[p] = n /\ live'[p] = live[p] \cup {n} /\ latest'[p] = n
        /\ \A o \in Purposes \ {p} : /\ saved'[o] = saved[o] /\ live'[o] = live[o]
                                     /\ latest'[o] = latest[o]
    BY Zenon, <1>2, <1>5, <1>8
  <1>10. MailInv'
    <2>1. ASSUME NEW o \in Purposes
          PROVE  live'[o] \subseteq 1..saved'[o] /\ latest'[o] \in {0, saved'[o]}
      <3>1. live[o] \subseteq 1..saved[o] /\ latest[o] \in {0, saved[o]} /\ saved[o] \in Nat
        BY Zenon, <1>8 DEF Inv, MailInv
      <3>2. CASE o = p
        BY <1>3, <1>8, <1>9, <3>1, <3>2
      <3>3. CASE o # p
        BY Zenon, <1>9, <3>1, <3>3
      <3> QED
        BY Zenon, <3>2, <3>3
    <2>2. ASSUME NEW y \in spent'
          PROVE  /\ y.purpose \in Purposes
                 /\ y.token \in Nat /\ y.token <= saved'[y.purpose]
                 /\ y.token \notin live'[y.purpose]
      <3>1. /\ y.purpose \in Purposes /\ y.token \in Nat /\ y.token <= saved[y.purpose]
            /\ y.token \notin live[y.purpose] /\ saved[y.purpose] \in Nat
        BY Zenon, <1>5, <1>8 DEF Inv, MailInv
      <3>2. CASE y.purpose = p
        BY <1>3, <1>8, <1>9, <3>1, <3>2
      <3>3. CASE y.purpose # p
        BY Zenon, <1>9, <3>1, <3>3
      <3> QED
        BY Zenon, <3>2, <3>3
    <2>3. ASSUME NEW q \in Requests
          PROVE  MailReq(req[q])'
      <3>1. CASE q = r
        BY Zenon, <1>6, <1>7, <3>1 DEF MailReq
      <3>2. CASE q # r
        BY <1>2, <1>7, <1>9, <3>2, WatchKept
      <3> QED
        BY Zenon, <3>1, <3>2
    <2>4. ConsumedOnce'
      BY Zenon, <1>5 DEF Inv, MailInv, ConsumedOnce
    <2> QED
      BY Zenon, <2>1, <2>2, <2>3, <2>4 DEF MailInv
  <1>11. \A q \in Requests : Keeps(q) \/ Sane(q, req'[q])
    BY Zenon, <1>6, <1>7
  <1> QED
    BY Zenon, <1>5, <1>7, <1>9, <1>10, <1>11, KeysStep

\* Both keys of a purpose expire.
LEMMA ExpireStep ==
    ASSUME Inv, NEW p \in Purposes, Expire(p)
    PROVE  Inv'
  <1>1. /\ live' = [live EXCEPT ![p] = {}] /\ latest' = [latest EXCEPT ![p] = 0]
        /\ UNCHANGED <<clock, store, saved>>
        /\ UNCHANGED <<ended, spent, decided, overlap, backwards, doubted>>
        /\ req' = [q \in Requests |-> [req[q] EXCEPT !.watch = @ /\ Purpose(q) # p]]
    BY Zenon DEF Expire, ghosts
  <1>2. \A q \in Requests : /\ req'[q] \in Records /\ Keeps(q) /\ KindOf(req[q])'
                            /\ req'[q].watch => Purpose(q) # p
    <2>1. ASSUME NEW q \in Requests
          PROVE  req'[q] = [req[q] EXCEPT !.watch = @ /\ Purpose(q) # p]
      BY Zenon, <1>1
    <2> QED
      BY Zenon, <2>1, LosesWatch
  <1>3. req' \in [Requests -> Records]
    <2>1. \A q \in Requests : req'[q] \in Records
      BY Zenon, <1>2
    <2> QED
      BY Zenon, <1>1, <2>1
  <1>4. /\ saved \in [Purposes -> Nat] /\ live \in [Purposes -> SUBSET Nat]
        /\ latest \in [Purposes -> Nat]
    BY Zenon DEF Inv, TypeInv
  <1>5. /\ live' \in [Purposes -> SUBSET Nat] /\ latest' \in [Purposes -> Nat]
        /\ live'[p] = {} /\ latest'[p] = 0
        /\ \A o \in Purposes \ {p} : live'[o] = live[o] /\ latest'[o] = latest[o]
        /\ \A o \in Purposes : live'[o] \subseteq live[o] /\ latest'[o] \in {0, latest[o]}
    BY Zenon, <1>1, <1>4
  <1>6. MailInv'
    <2>1. \A q \in Requests : MailReq(req[q])'
      BY Zenon, <1>2, <1>5, WatchKept
    <2>2. ConsumedOnce'
      BY Zenon, <1>1 DEF Inv, MailInv, ConsumedOnce
    <2>3. \A o \in Purposes : live'[o] \subseteq 1..saved'[o] /\ latest'[o] \in {0, saved'[o]}
      BY Zenon, <1>1, <1>5 DEF Inv, MailInv
    <2>4. \A y \in spent' : /\ y.purpose \in Purposes
                            /\ y.token \in Nat /\ y.token <= saved'[y.purpose]
                            /\ y.token \notin live'[y.purpose]
      BY Zenon, <1>1, <1>5 DEF Inv, MailInv
    <2> QED
      BY Zenon, <2>1, <2>2, <2>3, <2>4 DEF MailInv
  <1> QED
    BY Zenon, <1>1, <1>2, <1>3, <1>4, <1>5, <1>6, KeysStep

\* EXEC consumes a token only while it is the latest one and its key is there.
LEMMA ExecStep ==
    ASSUME Inv, NEW r \in Requests, Exec(r)
    PROVE  Inv'
  <1>1. CASE ~req[r].watch
    BY Zenon, <1>1, Finish DEF Exec
  <1>2. CASE req[r].watch
    <2>1. PICK p : p = Purpose(r)
      OBVIOUS
    <2>2. PICK n : n = req[r].token
      OBVIOUS
    <2>3. PICK pc : pc = IF p = "reset" THEN "reset user" ELSE "write row"
      OBVIOUS
    <2>4. PICK b : b = (n < saved[p])
      OBVIOUS
    <2>5. PICK y : y = [purpose |-> p, token |-> n, by |-> r, outdated |-> b]
      BY Zenon
    <2>6. /\ live' = [live EXCEPT ![p] = @ \ {n}]
          /\ latest' = [latest EXCEPT ![p] = 0]
          /\ spent' = spent \cup {y}
          /\ Touch(p, r, pc)
          /\ UNCHANGED <<clock, store, saved, ended, decided, overlap, backwards, doubted>>
          /\ At(r, "exec")
      BY Zenon, <1>2, <2>1, <2>2, <2>3, <2>4, <2>5 DEF Exec, Spend
    <2>7. /\ p \in Purposes /\ req[r].kind \in {"password", "verify"}
          /\ p = "reset" <=> req[r].kind = "password"
      BY Zenon, <2>1, <2>6, SaneNow DEF Purpose, Purposes, At, KindOf
    <2>8. n \in live[p] /\ latest[p] = n
      BY Zenon, <1>2, <2>1, <2>2, SaneNow DEF MailReq, ValidToken, Purpose
    <2>9. /\ saved \in [Purposes -> Nat] /\ live \in [Purposes -> SUBSET Nat]
          /\ latest \in [Purposes -> Nat]
      BY Zenon DEF Inv, TypeInv
    <2>10. n \in Nat /\ saved[p] \in Nat /\ n = saved[p] /\ ~b
      <3>1. live[p] \subseteq 1..saved[p] /\ latest[p] \in {0, saved[p]} /\ saved[p] \in Nat
        BY Zenon, <2>7, <2>9 DEF Inv, MailInv
      <3>2. n \in Nat /\ n = saved[p]
        BY <2>8, <3>1
      <3>3. ~(n < saved[p])
        BY <3>1, <3>2
      <3> QED
        BY Zenon, <2>4, <3>1, <3>2, <3>3
    <2> DEFINE x == [Moved(r, pc) EXCEPT !.watch = FALSE]
    <2>11. Sane(r, x) /\ x.watch = FALSE
      <3>1. \/ pc = "reset user" /\ At(r, "exec") /\ req[r].kind = "password"
            \/ pc = "write row" /\ At(r, "exec") /\ req[r].kind = "verify"
        BY Zenon, <2>3, <2>6, <2>7
      <3> QED
        BY Zenon, <3>1, TouchSane
    <2>12. /\ req' \in [Requests -> Records] /\ req'[r] = x
           /\ \A q \in Requests : q = r \/ (Keeps(q) /\ (req'[q].watch => Purpose(q) # p))
           /\ \A q \in Requests : KindOf(req[q])'
      BY Zenon, <2>6, <2>11, TouchIs
    <2> HIDE DEF x
    <2>13. /\ live' \in [Purposes -> SUBSET Nat] /\ latest' \in [Purposes -> Nat]
           /\ live'[p] = live[p] \ {n} /\ latest'[p] = 0
           /\ \A o \in Purposes \ {p} : live'[o] = live[o] /\ latest'[o] = latest[o]
           /\ \A o \in Purposes : live'[o] \subseteq live[o] /\ latest'[o] \in {0, latest[o]}
      BY Zenon, <2>6, <2>7, <2>9
    <2>14. y.purpose = p /\ y.token = n /\ y.outdated = b
      BY Zenon, <2>5
    <2>15. MailInv'
      <3>1. \A q \in Requests : MailReq(req[q])'
        <4>1. MailReq(req[r])'
          BY Zenon, <2>11, <2>12 DEF MailReq
        <4> QED
          BY Zenon, <2>7, <2>12, <2>13, <4>1, WatchKept
      <3>2. \A o \in Purposes : live'[o] \subseteq 1..saved'[o] /\ latest'[o] \in {0, saved'[o]}
        BY Zenon, <2>6, <2>13 DEF Inv, MailInv
      <3>3. \A z \in spent : /\ z.purpose \in Purposes
                             /\ z.token \in Nat /\ z.token <= saved[z.purpose]
                             /\ z.token \notin live[z.purpose]
                             /\ ~z.outdated
        BY Zenon DEF Inv, MailInv, ConsumedOnce
      <3>4. ASSUME NEW z \in spent'
            PROVE  /\ z.purpose \in Purposes
                   /\ z.token \in Nat /\ z.token <= saved'[z.purpose]
                   /\ z.token \notin live'[z.purpose]
        <4>1. CASE z \in spent
          BY Zenon, <2>6, <2>13, <3>3, <4>1
        <4>2. CASE z = y
          BY <2>6, <2>7, <2>10, <2>13, <2>14, <4>2
        <4> QED
          BY Zenon, <2>6, <4>1, <4>2
      <3>5. ConsumedOnce'
        <4>1. \A z \in spent' : ~z.outdated
          BY Zenon, <2>6, <2>10, <2>14, <3>3
        <4>2. ASSUME NEW z \in spent', NEW w \in spent', z.purpose = w.purpose, z.token = w.token
              PROVE  z = w
          <5>1. CASE z \in spent /\ w \in spent
            BY Zenon, <4>2, <5>1 DEF Inv, MailInv, ConsumedOnce
          <5>2. CASE z = y \/ w = y
            BY Zenon, <2>6, <2>8, <2>14, <3>3, <4>2, <5>2
          <5> QED
            BY Zenon, <2>6, <5>1, <5>2
        <4> QED
          BY Zenon, <4>1, <4>2 DEF ConsumedOnce
      <3> QED
        BY Zenon, <3>1, <3>2, <3>4, <3>5 DEF MailInv
    <2>16. \A q \in Requests : Keeps(q) \/ Sane(q, req'[q])
      BY Zenon, <2>11, <2>12
    <2> QED
      BY Zenon, <2>6, <2>9, <2>12, <2>13, <2>15, <2>16, KeysStep
  <1> QED
    BY Zenon, <1>1, <1>2

-----------------------------------------------------------------------------
\* Registration and the clock

\* CreateUser inserts the row that nobody has read before.
LEMMA CreateUserStep ==
    ASSUME Inv, NEW r \in Requests, CreateUser(r)
    PROVE  Inv'
  <1> DEFINE x == Moved(r, "save")
  <1>0. /\ req[r] \in Records /\ req[r].kind = "register" /\ req[r].pc = "create"
        /\ req[r].watch = FALSE /\ Unread /\ r # "none"
    BY Zenon, SaneNow, AccountsAssumption DEF CreateUser, At, KindOf, Records, Inv, DecisionInv
  <1>1. /\ row' = NewUser(r) /\ decided' = Decided(row') /\ Become(r, x)
        /\ UNCHANGED <<clock, cutoff, tokens, objects, saved, live, latest>>
        /\ UNCHANGED <<ended, spent, overlap, backwards, doubted>>
    BY Zenon DEF CreateUser, Goto, mail
  <1>2. /\ row' \in Users /\ row'.password = r /\ row'.avatar = "none" /\ row' # NoUser
    <2>1. row' \in Users /\ row'.password = r /\ row'.avatar = "none"
      BY Zenon, <1>1, NewUserIs
    <2> QED
      BY <1>0, <2>1 DEF NoUser
  <1>3. /\ x \in Records /\ x.pc = "save" /\ x.kind = "register" /\ x.user = NoUser
        /\ x.watch = FALSE
    <2>1. "save" \in Pcs /\ "save" # "done"
      BY Zenon DEF Pcs
    <2> QED
      BY Zenon, <1>0, <2>1, MovedIs DEF Unread
  <1> HIDE DEF x
  <1>4. KindOf(x) /\ SessionReq(x) /\ MailReq(x)
    BY Zenon, <1>3 DEF KindOf, SessionReq, MailReq
  <1>5. /\ req' \in [Requests -> Records] /\ req'[r] = x
        /\ \A q \in Requests : q = r \/ Keeps(q)
        /\ \A q \in Requests : KindOf(req[q])'
    BY Zenon, <1>1, <1>3, <1>4, OneRequest
  <1>6. TypeInv'
    BY Zenon, <1>1, <1>2, <1>5 DEF Inv, TypeInv
  <1>7. SessionInv' /\ MailInv'
    BY Zenon, <1>1, <1>3, <1>4, QuietParts
  <1>8. DecisionInv'
    <2>1. ASSUME NEW q \in Requests
          PROVE  /\ DecisionReq(req[q])' /\ req'[q].pc # "create"
                 /\ req'[q].kind = "register" <=> req[q].kind = "register"
      <3>1. CASE q = r
        BY Zenon, <1>0, <1>3, <1>5, <3>1 DEF DecisionReq, Writers
      <3>2. CASE q # r
        <4>1. Keeps(q) /\ DecisionReq(req[q]) /\ req[q].user = NoUser
          BY Zenon, <1>0, <1>5, <3>2, SaneNow DEF Unread
        <4>2. req[q].pc # "create"
          BY Zenon, <1>0, <3>2, SaneNow DEF KindOf, Inv, DecisionInv
        <4> QED
          BY Zenon, <4>1, <4>2 DEF DecisionReq, Keeps
      <3> QED
        BY Zenon, <3>1, <3>2
    <2>2. DecisionsKept'
      BY Zenon, <1>1 DEF DecisionsKept, Decided
    <2>3. \A q, s \in Requests : req'[q].kind = "register" /\ req'[s].kind = "register" => q = s
      BY Zenon, <2>1 DEF Inv, DecisionInv
    <2> QED
      BY Zenon, <1>0, <1>2, <2>1, <2>2, <2>3 DEF DecisionInv
  <1>9. AvatarInv'
    <2>0. NoUser.avatar = "none"
      BY Zenon DEF NoUser
    <2>1. AvatarReq(r, req[r])' /\ Knows(r)
      BY Zenon, <1>3, <1>5, <2>0 DEF AvatarReq, Knows, BeforeWrite
    <2> QED
      BY Zenon, <1>1, <1>2, <1>5, <2>1, AvatarRow
  <1> QED
    BY Zenon, <1>6, <1>7, <1>8, <1>9 DEF Inv

\* DeleteUser takes a registration back.
LEMMA DeleteUserStep ==
    ASSUME Inv, NEW r \in Requests, DeleteUser(r)
    PROVE  Inv'
  <1> DEFINE x == Moved(r, "done")
  <1>0. req[r].kind = "register" /\ req[r].pc = "rollback"
    BY Zenon, SaneNow DEF DeleteUser, At, KindOf
  <1>1. /\ row' = NoUser /\ decided' = Decided(NoUser) /\ Become(r, x)
        /\ UNCHANGED <<clock, cutoff, tokens, objects, saved, live, latest>>
        /\ UNCHANGED <<ended, spent, overlap, backwards, doubted>>
    BY Zenon DEF DeleteUser, Goto, mail
  <1>2. Sane(r, x) /\ x \in Records /\ KindOf(x) /\ x.kind = "register" /\ x.pc = "done"
    BY Zenon, <1>0, DoneSane DEF Sane, Moved, Idle
  <1> HIDE DEF x
  <1>3. /\ req' \in [Requests -> Records] /\ req'[r] = x
        /\ \A q \in Requests : q = r \/ Keeps(q)
        /\ \A q \in Requests : KindOf(req[q])'
    BY Zenon, <1>1, <1>2, OneRequest
  <1>4. TypeInv'
    BY Zenon, <1>1, <1>3, BlankTypes DEF Inv, TypeInv
  <1>5. SessionInv' /\ MailInv'
    BY Zenon, <1>1, <1>2, QuietParts DEF Sane
  <1>6. DecisionInv'
    <2>1. ASSUME NEW q \in Requests
          PROVE  /\ DecisionReq(req[q])' /\ req'[q].pc # "create"
                 /\ req'[q].kind = "register" <=> req[q].kind = "register"
      <3>1. CASE q = r
        BY Zenon, <1>0, <1>2, <1>3, <3>1 DEF DecisionReq, Writers
      <3>2. CASE q # r
        <4>1. Keeps(q) /\ DecisionReq(req[q])
          BY Zenon, <1>3, <3>2, SaneNow
        <4>2. req[q].pc # "create"
          BY Zenon, <1>0, <3>2, SaneNow DEF KindOf, Inv, DecisionInv
        <4> QED
          BY Zenon, <1>1, <4>1, <4>2 DEF DecisionReq, Keeps
      <3> QED
        BY Zenon, <3>1, <3>2
    <2>2. DecisionsKept'
      BY Zenon, <1>1 DEF DecisionsKept, Decided
    <2>3. \A q, s \in Requests : req'[q].kind = "register" /\ req'[s].kind = "register" => q = s
      BY Zenon, <2>1 DEF Inv, DecisionInv
    <2>4. \E q \in Requests : req'[q].kind = "register"
      BY Zenon, <1>2, <1>3
    <2> QED
      BY Zenon, <1>1, <2>1, <2>2, <2>3, <2>4 DEF DecisionInv
  <1>7. AvatarInv'
    <2>1. AvatarReq(r, req[r])' /\ Knows(r) /\ row'.avatar = "none"
      BY Zenon, <1>0, <1>1, <1>2, <1>3 DEF Sane, AvatarReq, Knows, NoUser, BeforeWrite
    <2> QED
      BY Zenon, <1>1, <1>3, <2>1, AvatarRow
  <1> QED
    BY Zenon, <1>4, <1>5, <1>6, <1>7 DEF Inv

\* The cutoff expires no earlier than the tokens it rejects.
LEMMA TickStep ==
    ASSUME Inv, Tick
    PROVE  Inv'
  <1>1. /\ clock' = clock + 1
        /\ cutoff' = IF clock' < cutoff.until THEN cutoff ELSE [iat |-> 0, until |-> 0]
        /\ UNCHANGED <<row, tokens, objects, saved, live, latest, req>>
        /\ UNCHANGED <<ended, spent, decided, overlap, backwards, doubted>>
    BY Zenon DEF Tick, mail, ghosts
  <1>2. /\ clock \in Nat /\ 0 < clock /\ RefreshTTL \in Nat /\ AccessTTL \in Nat
        /\ cutoff \in [iat : Nat, until : Nat] /\ cutoff.iat \in Nat /\ cutoff.until \in Nat
    BY Zenon, AccountsAssumption DEF Inv, TypeInv
  <1>3. /\ cutoff' \in [iat : Nat, until : Nat]
        /\ cutoff' = cutoff \/ (cutoff'.iat = 0 /\ cutoff.until <= clock')
    BY <1>1, <1>2
  <1>4. TypeInv'
    BY <1>1, <1>2, <1>3 DEF Inv, TypeInv
  <1>5. \A q \in Requests : Keeps(q)
    BY Zenon, <1>1 DEF Keeps
  <1>6. MailInv' /\ AvatarInv'
    BY Zenon, <1>1, <1>5, MailQuiet, AvatarQuiet
  <1>7. DecisionInv'
    <2>1. SameDecisions
      BY Zenon, <1>1 DEF SameDecisions, Inv, DecisionInv
    <2> QED
      BY Zenon, <1>1, <1>5, <2>1, DecisionQuiet
  <1>8. SessionInv'
    <2>1. cutoff.iat > 0 => cutoff.iat + RefreshTTL <= cutoff.until
      BY Zenon DEF Inv, SessionInv
    <2>2. ASSUME NEW m \in Nat, Covered(m)
          PROVE  Covered(m)'
      <3>1. CASE m + RefreshTTL <= clock
        BY <1>1, <1>2, <3>1 DEF Covered
      <3>2. CASE m <= cutoff.iat /\ cutoff' = cutoff
        BY Zenon, <3>2 DEF Covered
      <3>3. CASE m <= cutoff.iat /\ cutoff.iat = 0 /\ cutoff'.iat = 0
        BY Zenon, <3>3 DEF Covered
      <3>4. CASE m <= cutoff.iat /\ cutoff.iat > 0 /\ cutoff.until <= clock'
        BY <1>1, <1>2, <2>1, <3>4 DEF Covered
      <3> QED
        BY <1>2, <1>3, <2>2, <3>1, <3>2, <3>3, <3>4 DEF Covered
    <2>3. cutoff'.iat > 0 => cutoff'.iat + RefreshTTL <= cutoff'.until
      BY <1>3, <2>1
    <2>4. ASSUME NEW t \in tokens'
          PROVE  t.cut < t.iat /\ t.iat <= clock' /\ (~Unexpired(t) => ~Unexpired(t)')
      <3>1. t.iat \in Nat /\ t.cut < t.iat /\ t.iat <= clock
        BY Zenon, <1>1 DEF Inv, TypeInv, SessionInv, SessionTokens
      <3> QED
        BY <1>1, <1>2, <3>1 DEF Unexpired, TTL
    <2>5. ASSUME NEW t \in ended'
          PROVE  0 < t.iat /\ (~backwards' => Covered(t.iat)' \/ ~Unexpired(t)')
      <3>1. t \in tokens' /\ t.iat \in Nat
        BY Zenon, <1>1 DEF Inv, TypeInv, SessionTokens
      <3> QED
        BY Zenon, <1>1, <2>2, <2>4, <3>1 DEF Inv, SessionInv
    <2>6. ASSUME NEW q \in Requests
          PROVE  SessionReq(req[q])'
      <3>1. SessionReq(req[q]) /\ req[q].now \in Nat /\ req[q].cut \in Nat /\ req'[q] = req[q]
        BY Zenon, <1>1, SaneNow DEF Records
      <3>2. \A m \in Nat : m <= clock => m <= clock' /\ m < clock'
        BY <1>1, <1>2
      <3>3. /\ req[q].cut < clock => req[q].cut < clock'
            /\ req[q].now <= clock => req[q].now <= clock'
            /\ Covered(req[q].now) => Covered(req[q].now)'
        <4>1. PICK m \in Nat : m = req[q].now
          BY Zenon, <3>1
        <4>2. Covered(m) => Covered(m)'
          BY Zenon, <2>2
        <4>3. Covered(req[q].now) <=> Covered(m)
          BY Zenon, <4>1
        <4>4. Covered(req[q].now)' <=> Covered(m)'
          BY Zenon, <1>1, <3>1, <4>1 DEF Covered
        <4>5. req[q].cut < clock => req[q].cut <= clock
          BY <1>2, <3>1
        <4> QED
          BY Zenon, <3>1, <3>2, <4>2, <4>3, <4>4, <4>5
      <3> QED
        BY Zenon, <1>1, <3>1, <3>3 DEF SessionReq
    <2> QED
      BY Zenon, <2>3, <2>4, <2>5, <2>6 DEF SessionInv
  <1> QED
    BY Zenon, <1>4, <1>6, <1>7, <1>8 DEF Inv

-----------------------------------------------------------------------------
\* The theorems

\* A step of a request.
LEMMA RequestStep ==
    ASSUME Inv, NEW r \in Requests,
           \/ LoginRead(r) \/ LoginCutoff(r) \/ LoginWaited(r)
           \/ RefreshCheck(r) \/ RefreshUser(r)
           \/ Issue(r, "access", "refresh") \/ Issue(r, "refresh", "done")
           \/ LogoutAll(r) \/ ChangePassword(r) \/ Suspend(r)
           \/ TakeNow(r) \/ SetLogoutAllIAT(r) \/ UpdatePassword(r)
           \/ Unsuspend(r) \/ AssignRole(r) \/ UpdateUser(r)
           \/ UploadAvatar(r) \/ PutAvatar(r) \/ UpdateAvatar(r) \/ UpdateAvatarFails(r)
           \/ DeleteAvatar(r)
           \/ ForgotPassword(r) \/ ResendVerification(r) \/ Save(r)
           \/ ResetPassword(r) \/ VerifyEmail(r) \/ VerifyUser(r) \/ VerifyWatch(r)
           \/ Exec(r) \/ ResetUser(r)
           \/ Register(r) \/ CreateUser(r) \/ RegisterRollback(r) \/ DeleteUser(r)
           \/ Fail(r)
    PROVE  Inv'
  <1>1. CASE \/ LoginRead(r) \/ RefreshCheck(r) \/ ForgotPassword(r)
             \/ ResendVerification(r) \/ VerifyEmail(r)
    BY Zenon, <1>1, StartBlank
  <1>2. CASE LogoutAll(r) \/ ResetPassword(r) \/ Register(r)
    BY Zenon, <1>2, StartShort, RegisterStep
  <1>3. CASE ChangePassword(r) \/ Suspend(r) \/ Unsuspend(r) \/ AssignRole(r) \/ UploadAvatar(r)
    BY Zenon, <1>3, StartRead
  <1>4. CASE LoginCutoff(r) \/ LoginWaited(r) \/ RefreshUser(r) \/ TakeNow(r)
    BY Zenon, <1>4, LoginSteps, TakeNowStep
  <1>5. CASE Issue(r, "access", "refresh") \/ Issue(r, "refresh", "done")
    BY Zenon, <1>5, IssueStep
  <1>6. CASE SetLogoutAllIAT(r) \/ UpdatePassword(r) \/ UpdateUser(r)
    BY Zenon, <1>6, SetLogoutAllStep, UpdatePasswordStep, UpdateUserStep
  <1>7. CASE PutAvatar(r) \/ UpdateAvatar(r) \/ UpdateAvatarFails(r) \/ DeleteAvatar(r)
    BY Zenon, <1>7, PutAvatarStep, UpdateAvatarStep, DeleteAvatarStep
  <1>8. CASE Save(r) \/ Exec(r) \/ VerifyUser(r) \/ VerifyWatch(r)
    BY Zenon, <1>8, SaveStep, ExecStep, VerifySteps
  <1>9. CASE ResetUser(r) \/ CreateUser(r) \/ RegisterRollback(r) \/ DeleteUser(r)
    BY Zenon, <1>9, MiddleSteps, CreateUserStep, DeleteUserStep
  <1>10. CASE Fail(r)
    BY Zenon, <1>10, Finish DEF Fail
  <1> QED
    BY Zenon, <1>1, <1>2, <1>3, <1>4, <1>5, <1>6, <1>7, <1>8, <1>9, <1>10

\* No step breaks the invariant.
LEMMA InvNext ==
    ASSUME Inv, [Next]_vars
    PROVE  Inv'
  <1>1. CASE UNCHANGED vars
    <2>1. /\ UNCHANGED <<clock, row, cutoff, tokens, objects, saved, live, latest, req>>
          /\ UNCHANGED <<ended, spent, decided, overlap, backwards, doubted>>
      BY Zenon, <1>1 DEF vars, store, mail, ghosts
    <2>2. \A q \in Requests : Keeps(q)
      BY Zenon, <2>1 DEF Keeps
    <2>3. SameDecisions
      BY Zenon, <2>1 DEF SameDecisions, Inv, DecisionInv
    <2>4. TypeInv'
      BY Zenon, <2>1 DEF Inv, TypeInv, KindOf
    <2> QED
      BY Zenon, <2>1, <2>2, <2>3, <2>4, SessionQuiet, MailQuiet, DecisionQuiet, AvatarQuiet DEF Inv
  <1>2. CASE \E p \in Purposes : Expire(p)
    BY Zenon, <1>2, ExpireStep
  <1>3. CASE Tick
    BY Zenon, <1>3, TickStep
  <1>4. CASE Next /\ ~(\E p \in Purposes : Expire(p)) /\ ~Tick
    BY Zenon, <1>4, RequestStep DEF Next
  <1> QED
    BY Zenon, <1>1, <1>2, <1>3, <1>4

\* A token is rejected when the cutoff covers it or when it has expired.
LEMMA EndedRejected ==
    ASSUME Inv
    PROVE  CutoffExact
  <1>1. ASSUME ~backwards, NEW t \in ended
        PROVE  ~Accepted(t)
    <2>1. /\ t.iat \in Nat /\ 0 < t.iat /\ t.use \in {"access", "refresh"}
          /\ Covered(t.iat) \/ ~Unexpired(t)
      BY Zenon, <1>1 DEF Inv, TypeInv, SessionInv, SessionTokens
    <2>2. /\ clock \in Nat /\ cutoff.iat \in Nat /\ AccessTTL \in Nat /\ RefreshTTL \in Nat
          /\ AccessTTL <= RefreshTTL
      BY Zenon, AccountsAssumption DEF Inv, TypeInv
    <2>3. CASE t.iat <= cutoff.iat
      BY <2>1, <2>2, <2>3 DEF Accepted
    <2>4. CASE t.iat + RefreshTTL <= clock
      BY <2>1, <2>2, <2>4 DEF Accepted, Unexpired, TTL
    <2> QED
      BY Zenon, <2>1, <2>3, <2>4 DEF Accepted, Covered
  <1>2. \A t \in tokens : t.iat > t.cut
    BY Zenon DEF Inv, TypeInv, SessionInv, SessionTokens
  <1> QED
    BY Zenon, <1>1, <1>2 DEF CutoffExact

\* The inductive invariant holds in every behaviour of the service.
LEMMA InvAlways == Spec => []Inv
  BY InvInit, InvNext, PTL DEF Spec

\* Logout everywhere, a password change and a suspension end the sessions of before
\* for good, and no session that starts after them is ended (SetLogoutAllIAT and
\* waitForTokenIssuedAfterInvalidation): for every number of requests, every pair of
\* token lifetimes and every instant at which the requests are interrupted.
THEOREM SessionsEnded == Spec => []CutoffExact
  BY InvAlways, EndedRejected, PTL

\* A token of a verification or a reset mail is consumed by one request at most, and
\* never after a newer one was saved (Consume, under WATCH), however many requests
\* present it.
THEOREM TokensConsumedOnce == Spec => []ConsumedOnce
  <1>1. Inv => ConsumedOnce
    BY Zenon DEF Inv, MailInv
  <1> QED
    BY <1>1, InvAlways, PTL

\* A password change or reset undoes no verification, suspension or role
\* (UpdatePassword writes one column), and a whole-row update only what another one
\* has written since it read the row.
THEOREM DecisionsStay == Spec => []DecisionsKept
  <1>1. Inv => DecisionsKept
    BY Zenon DEF Inv, DecisionInv
  <1> QED
    BY <1>1, InvAlways, PTL

\* The avatar in the row is in the bucket, for any number of uploads, each of which
\* may be cut off at any step (UploadAvatar).
THEOREM AvatarsStored == Spec => []AvatarStored
  <1>1. Inv => AvatarStored
    BY Zenon DEF Inv, AvatarInv
  <1> QED
    BY <1>1, InvAlways, PTL

=============================================================================
