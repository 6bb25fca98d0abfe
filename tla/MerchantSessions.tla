-------------------------- MODULE MerchantSessions --------------------------
(***************************************************************************)
(* Who may act for a merchant: accounts and their passwords, memberships,  *)
(* sessions and invitations (app/merchant/service.py).                     *)
(*                                                                         *)
(* Every request is a PostgreSQL transaction at READ COMMITTED.  It runs   *)
(* one statement at a time; a statement waits for the row locks it needs,  *)
(* reads the rows as they are committed then, and its writes appear when   *)
(* the transaction commits.  A request that is refused, whose process dies *)
(* or that PostgreSQL picks to break a deadlock leaves nothing behind.     *)
(*                                                                         *)
(* The version a client sends with an edit is not modelled: a conflict     *)
(* refuses the request, which may happen to any request (GiveUp).  Neither *)
(* are cookies, CSRF tokens, rate limits, store scopes and the ten minutes *)
(* of re-authentication: they too only refuse.                             *)
(***************************************************************************)
EXTENDS Integers, FiniteSets, FiniteSetsExt

CONSTANTS
    Users,         \* merchant_user
    MailUsers,     \* the accounts with a verified e-mail address
    Members,       \* merchant_member, numbered in the order of created_at
    Tenants,       \* merchant_tenant
    UserOf,        \* the account of each membership
    TenantOf,      \* the organisation of each membership
    Joining,       \* the membership an invitation creates
    Sessions,      \* merchant_session rows
    Invitations,   \* merchant_invitation rows, each with its e-mail action
    Requests,      \* requests served at the same time
    Edits,         \* roles and states an owner gives a member
    MaxPassword,   \* bound: passwords an account goes through
    None

Roles == {"OWNER", "OPERATOR"}

ASSUME SessionsAssumption ==
    /\ Members \subseteq Nat /\ IsFiniteSet(Members)
    /\ UserOf \in [Members -> Users]
    /\ TenantOf \in [Members -> Tenants]
    /\ Joining \in Members
    /\ MailUsers \subseteq Users
    /\ Edits \subseteq [role : Roles, status : {"ACTIVE", "SUSPENDED"}]
    /\ MaxPassword \in Nat \ {0}

(* None stands for an absent value: no request, statement, role or status  *)
(* is called that.                                                         *)
ASSUME NoneIsAbsent ==
    /\ None \notin {"login", "use", "manage", "logout", "others", "switch", "update",
                    "invite", "revoke", "accept", "reset"}
    /\ None \notin {"fence", "session", "member", "account", "insert", "move", "read",
                    "target", "sessions", "link", "action", "invitation", "create", "join"}
    /\ None \notin {"OWNER", "OPERATOR", "ACTIVE", "SUSPENDED",
                    "PENDING", "ACCEPTED", "REVOKED"}

VARIABLES
    password,    \* current password of each account; 0: no such account
    token,       \* the account has an unused RESET link
    member,      \* role and status of each membership
    session,     \* member and user of each session that is not revoked
    invitation,  \* status of each invitation
    consumed,    \* its INVITE link is used up
    expired,     \* its expires_at has passed
    tx,          \* what each request is doing
    locks        \* row locks each request's transaction holds

accounts == <<password, token, member, session>>
invites == <<invitation, consumed, expired>>
vars == <<accounts, invites, tx, locks>>

NoMember == [role |-> None, status |-> None]
NoSession == [user |-> None, member |-> None, password |-> 0]
Idle == [op |-> None, at |-> None, user |-> None, session |-> None,
         member |-> None, target |-> None, hint |-> None, new |-> NoMember]

Active(m) == member[m].status = "ACTIVE"
ActiveOwner == [role |-> "OWNER", status |-> "ACTIVE"]
Live(s) == session[s] # NoSession
Open == {i \in Invitations : invitation[i] = "PENDING"}

-----------------------------------------------------------------------------
(* Row locks                                                               *)

(* Which two locks on one row exclude each other in PostgreSQL.  "nokey" is *)
(* what an UPDATE takes, "keyshare" what a foreign key check takes.        *)
Conflict(a, b) ==
    \/ "update" \in {a, b}
    \/ {a, b} \in {{"nokey"}, {"nokey", "share"}}

Lock(table, id, mode) == [table |-> table, id |-> id, mode |-> mode]

(* Membership edits need members.manage; which edit it is, or which other  *)
(* request ("use"), matters once identity has let it through.              *)
ManageOps == {"manage", "update", "invite", "revoke"}

(* Mutant: every request shares the fence.                                 *)
FenceShared(op) == "share"

(* identity: the advisory lock on the tenant's memberships.                *)
FenceMode(op) == IF op \in ManageOps THEN "update" ELSE "share"

(* The sessions a statement of x revokes.                                  *)
Revoked(x) ==
    CASE x.op = "reset"  -> {s \in Sessions : session[s].user = x.user}
      [] x.op = "others" -> {s \in Sessions \ {x.session} : session[s].user = x.user}
      [] x.op = "logout" -> {x.session}
      [] x.op = "update" -> {s \in Sessions : session[s].member = x.target}

(* The memberships in the organisation x acts for.                         *)
Colleagues(x) ==
    {m \in Members : TenantOf[m] = TenantOf[x.member] /\ member[m] # NoMember}

(* The locks the next statement of request x waits for: those of the rows  *)
(* its WHERE clause finds.                                                 *)
Needs(x) ==
    CASE x.at = "fence"      -> {Lock("fence", x.hint, FenceMode(x.op))}
      [] x.at = "session"    -> {Lock("session", x.session, "share")}
      [] x.at = "member"     -> {Lock("user", x.user, "share"), Lock("member", x.member, "share")}
      [] x.at = "account"    -> {Lock("user", x.user,
                                      IF x.op = "reset" THEN "nokey" ELSE "update")}
      [] x.at = "insert"     -> {Lock("member", x.target, "share")}
      [] x.at = "move"       -> {Lock("session", x.session, "nokey")}
      [] x.at = "target"     -> {Lock("member", m, "update") :
                                   m \in {x.target} \cap Colleagues(x)}
      [] x.at = "sessions"   -> {Lock("session", s, "nokey") : s \in Revoked(x)}
      [] x.at = "link"       -> {Lock("reset", x.user, "update")}
      [] x.at = "action"     -> {Lock("action", x.target,
                                      IF x.op = "accept" THEN "update" ELSE "nokey")}
      [] x.at = "invitation" -> {Lock("invitation", i,
                                      IF x.op = "accept" THEN "update" ELSE "nokey") :
                                   i \in {x.target} \cap Open}
      [] x.at = "create"     -> {Lock("invitation", i, "nokey") : i \in {j \in Open : expired[j]}}
      [] OTHER               -> {}

(* Other requests whose locks keep r waiting.                              *)
Blockers(r) ==
    {q \in Requests \ {r} :
        \E want \in Needs(tx[r]), has \in locks[q] :
            want.table = has.table /\ want.id = has.id /\ Conflict(want.mode, has.mode)}

(* r runs the statement it is at, having got the locks it needs.           *)
Runs(r, at) == tx[r].at = at /\ Blockers(r) = {}

(* The transaction goes on with statement `at' and keeps its locks.        *)
Continue(r, x, at) ==
    /\ tx' = [tx EXCEPT ![r] = [x EXCEPT !.at = at]]
    /\ locks' = [locks EXCEPT ![r] = @ \cup Needs(tx[r])]
    /\ UNCHANGED <<accounts, invites>>

(* Commit or rollback.                                                     *)
Ends(r) ==
    /\ tx' = [tx EXCEPT ![r] = Idle]
    /\ locks' = [locks EXCEPT ![r] = {}]

Refused(r) == Ends(r) /\ UNCHANGED <<accounts, invites>>

Close(rows, gone) == [s \in Sessions |-> IF s \in gone THEN NoSession ELSE rows[s]]

-----------------------------------------------------------------------------
Init ==
    \* the invited person may have an account, in another organisation
    /\ \E invited \in {0, 1} :
          password = [u \in Users |-> IF u = UserOf[Joining] THEN invited ELSE 1]
    /\ member = [m \in Members |->
                   IF m = Joining \/ password[UserOf[m]] = 0 THEN NoMember
                   ELSE ActiveOwner]
    /\ token = [u \in Users |-> FALSE]
    /\ session = [s \in Sessions |-> NoSession]
    /\ invitation = [i \in Invitations |-> None]
    /\ consumed = [i \in Invitations |-> FALSE]
    /\ expired = [i \in Invitations |-> FALSE]
    /\ tx = [r \in Requests |-> Idle]
    /\ locks = [r \in Requests |-> {}]

Starts(r, x) ==
    /\ tx[r] = Idle
    /\ tx' = [tx EXCEPT ![r] = x]
    /\ UNCHANGED <<accounts, invites, locks>>

-----------------------------------------------------------------------------
(* Signing in                                                              *)

(* login, first transaction: the password is right as of now.              *)
LoginStarts(r, u) ==
    /\ password[u] > 0
    /\ Starts(r, [Idle EXCEPT !.op = "login", !.at = "account", !.user = u,
                              !.hint = password[u]])

(* Mutant: the password is not compared again under the lock.              *)
SamePasswordUnchecked(x) == TRUE

(* The account is still what the first transaction read.                   *)
SamePassword(x) == password[x.user] = x.hint

(* login, second transaction: the account is locked and compared, and the  *)
(* oldest active membership is read without a lock.                        *)
LoginAccount(r) ==
    LET x == tx[r]
        mine == {m \in Members : UserOf[m] = x.user /\ Active(m)}
    IN
    /\ Runs(r, "account") /\ x.op = "login"
    /\ IF SamePassword(x) /\ mine # {}
         THEN Continue(r, [x EXCEPT !.target = Min(mine)], "insert")
         ELSE Refused(r)

(* Mutant: the new session is not checked before the commit.               *)
UsableAssumed(s, m) == TRUE

(* The checks of _principal on membership m of a session.                  *)
Usable(s, m) == Active(m)

(* login inserts the session and runs _principal on it.                    *)
LoginInsert(r, s) ==
    LET x == tx[r] IN
    /\ Runs(r, "insert") /\ x.op = "login"
    /\ ~Live(s) /\ \A q \in Requests : tx[q].session # s
    /\ IF Usable(s, x.target)
         THEN /\ session' = [session EXCEPT ![s] =
                    [user |-> x.user, member |-> x.target, password |-> x.hint]]
              /\ Ends(r)
              /\ UNCHANGED <<password, token, member, invites>>
         ELSE Refused(r)

-----------------------------------------------------------------------------
(* identity: the fence, then _principal                                    *)

(* A signed-in request: its tenant is read without a lock.                 *)
RequestStarts(r, op, s) ==
    /\ Live(s)
    /\ Starts(r, [Idle EXCEPT !.op = op, !.at = "fence", !.session = s,
                              !.user = session[s].user,
                              !.hint = TenantOf[session[s].member]])

Fence(r) == Runs(r, "fence") /\ Continue(r, tx[r], "session")

(* _principal locks the session, then the account and the membership (no   *)
(* one waits for an account while holding a membership).                   *)
PrincipalSession(r) ==
    LET x == tx[r] IN
    /\ Runs(r, "session")
    /\ IF Live(x.session)
         THEN Continue(r, [x EXCEPT !.member = session[x.session].member], "member")
         ELSE Refused(r)

(* What the client asks for, the row it is about, and the first statement  *)
(* that serves it.                                                         *)
Job(op, target, at) == [op |-> op, target |-> target, at |-> at]

Jobs(x) ==
    CASE x.op = "use" ->
            {Job("logout", None, "sessions"), Job("others", None, "sessions")}
              \cup {Job("switch", m, "read") :
                      m \in {n \in Members : UserOf[n] = x.user /\ n # x.member}}
      [] x.op = "manage" ->
            {Job("invite", None, "create")}
              \cup {Job("update", m, "target") : m \in {n \in Members : TenantOf[n] = x.hint}}
              \cup {Job("revoke", i, "invitation") : i \in Invitations}
      [] x.op = "accept" -> {Job("accept", x.target, "join")}
      [] OTHER -> {}

(* The last locks of _principal, its conditions, and those of identity: the *)
(* tenant must be the one whose fence is held, the role must permit.  Only *)
(* the tenant of `Joining' invites: others' invitations are not modelled.  *)
PrincipalMember(r, job) ==
    LET x == tx[r] IN
    /\ Runs(r, "member")
    /\ IF /\ Usable(x.session, x.member)
          /\ x.op # "accept" => TenantOf[x.member] = x.hint
          /\ x.op = "manage" => member[x.member].role = "OWNER"
          /\ job.op \in {"invite", "revoke"} => x.hint = TenantOf[Joining]
         THEN Continue(r, [x EXCEPT !.op = job.op, !.target = job.target], job.at)
         ELSE Refused(r)

-----------------------------------------------------------------------------
(* Sessions                                                                *)

(* switch_tenant: the other membership is read without a lock.             *)
SwitchRead(r) ==
    LET x == tx[r] IN
    /\ Runs(r, "read")
    /\ IF Active(x.target)
         THEN Continue(r, x, "move")
         ELSE Refused(r)

(* The session row is updated, which waits for others that share it.       *)
SwitchMove(r) == Runs(r, "move") /\ Continue(r, tx[r], "insert")

(* The foreign key check and _principal lock the new membership.           *)
SwitchCommit(r) ==
    LET x == tx[r] IN
    /\ Runs(r, "insert") /\ x.op = "switch"
    /\ IF Usable(x.session, x.target)
         THEN /\ session' = [session EXCEPT ![x.session].member = x.target]
              /\ Ends(r)
              /\ UNCHANGED <<password, token, member, invites>>
         ELSE Refused(r)

(* logout, of this session or of all others of the account.                *)
Logout(r) ==
    LET x == tx[r] IN
    /\ Runs(r, "sessions") /\ x.op \in {"logout", "others"}
    /\ session' = Close(session, Revoked(x))
    /\ Ends(r)
    /\ UNCHANGED <<password, token, member, invites>>

-----------------------------------------------------------------------------
(* Passwords                                                               *)

(* forgot_password                                                         *)
ForgotPassword(u) ==
    /\ u \in MailUsers /\ password[u] \in 1 .. MaxPassword - 1
    /\ token' = [token EXCEPT ![u] = TRUE]
    /\ UNCHANGED <<password, member, session, invites, tx, locks>>

(* reset_password: the link is consumed, the account updated, its sessions *)
(* revoked.                                                                *)
ResetStarts(r, u) ==
    /\ token[u]
    /\ Starts(r, [Idle EXCEPT !.op = "reset", !.at = "link", !.user = u])

ResetLink(r) ==
    /\ Runs(r, "link")
    /\ IF token[tx[r].user] THEN Continue(r, tx[r], "account") ELSE Refused(r)

ResetAccount(r) ==
    Runs(r, "account") /\ tx[r].op = "reset" /\ Continue(r, tx[r], "sessions")

ResetCommit(r) ==
    LET x == tx[r] IN
    /\ Runs(r, "sessions") /\ x.op = "reset"
    /\ password' = [password EXCEPT ![x.user] = @ + 1]
    /\ token' = [token EXCEPT ![x.user] = FALSE]
    /\ session' = Close(session, Revoked(x))
    /\ Ends(r)
    /\ UNCHANGED <<member, invites>>

-----------------------------------------------------------------------------
(* Memberships                                                             *)

(* Mutant: suspended owners count too.                                     *)
OwnerCountAll(t) ==
    Cardinality({m \in Members : TenantOf[m] = t /\ member[m].role = "OWNER"})

OwnerCount(t) == Cardinality({m \in Members : TenantOf[m] = t /\ member[m] = ActiveOwner})

(* update_member locks the membership and counts the owners.               *)
UpdateTarget(r, new) ==
    LET x == tx[r]
        demoted == member[x.target] = ActiveOwner /\ new # ActiveOwner
    IN
    /\ Runs(r, "target")
    /\ IF /\ x.target \in Colleagues(x)
          /\ demoted => OwnerCount(TenantOf[x.member]) > 1
         THEN Continue(r, [x EXCEPT !.new = new], "sessions")
         ELSE Refused(r)

(* It changes the membership and revokes its sessions.                     *)
UpdateCommit(r) ==
    LET x == tx[r] IN
    /\ Runs(r, "sessions") /\ x.op = "update"
    /\ member' = [member EXCEPT ![x.target] = x.new]
    /\ session' = Close(session, Revoked(x))
    /\ Ends(r)
    /\ UNCHANGED <<password, token, invites>>

-----------------------------------------------------------------------------
(* Invitations: all of them invite the same e-mail to the same tenant      *)

(* invite: an expired invitation is revoked, a valid one refuses the new   *)
(* one, else the invitation and its link are created.                      *)
Invite(r, i) ==
    LET x == tx[r] IN
    /\ Runs(r, "create")
    /\ invitation[i] = None
    /\ IF \A j \in Open : expired[j]
         THEN /\ invitation' = [j \in Invitations |->
                    IF j = i THEN "PENDING"
                    ELSE IF j \in Open THEN "REVOKED" ELSE invitation[j]]
              /\ Ends(r)
              /\ UNCHANGED <<accounts, consumed, expired>>
         ELSE Refused(r)

(* revoke_invitation: the invitation first, then its link.                 *)
RevokeInvitation(r) ==
    LET x == tx[r] IN
    /\ Runs(r, "invitation") /\ x.op = "revoke"
    /\ IF x.target \in Open
         THEN Continue(r, x, "action")
         ELSE Refused(r)

RevokeCommit(r) ==
    LET x == tx[r] IN
    /\ Runs(r, "action") /\ x.op = "revoke"
    /\ invitation' = [invitation EXCEPT ![x.target] = "REVOKED"]
    /\ consumed' = [consumed EXCEPT ![x.target] = TRUE]
    /\ Ends(r)
    /\ UNCHANGED <<accounts, expired>>

(* accept_invitation.  now() is the time the transaction began, so an      *)
(* invitation that expires later still passes the expiry checks.           *)
AcceptStarts(r, i, s) ==
    /\ invitation[i] # None /\ ~expired[i]
    /\ s # None => Live(s)
    /\ Starts(r, [Idle EXCEPT !.op = "accept", !.at = "action", !.session = s,
                              !.user = UserOf[Joining], !.target = i])

(* _consume_action                                                         *)
AcceptAction(r) ==
    LET x == tx[r] IN
    /\ Runs(r, "action") /\ x.op = "accept"
    /\ IF consumed[x.target] THEN Refused(r) ELSE Continue(r, x, "invitation")

(* Mutant: the link alone is trusted.                                      *)
StillOpenUnchecked(i) == TRUE

StillOpen(i) == i \in Open

AcceptInvitation(r) ==
    LET x == tx[r] IN
    /\ Runs(r, "invitation") /\ x.op = "accept"
    /\ IF StillOpen(x.target)
         THEN Continue(r, x, "account")
         ELSE Refused(r)

(* The invited account must be signed in, unless it is created here.       *)
AcceptAccount(r) ==
    LET x == tx[r] IN
    /\ Runs(r, "account") /\ x.op = "accept"
    /\ IF password[x.user] = 0 THEN Continue(r, x, "join")
       ELSE IF x.session # None /\ session[x.session].user = x.user
         THEN Continue(r, x, "session")
         ELSE Refused(r)

(* The membership is inserted unless there is one, with the role the       *)
(* invitation names, and the invitation closed.                            *)
AcceptCommit(r, role) ==
    LET x == tx[r] IN
    /\ Runs(r, "join")
    /\ IF member[Joining] = NoMember
         THEN /\ member' = [member EXCEPT ![Joining] = [role |-> role, status |-> "ACTIVE"]]
              /\ password' = [password EXCEPT ![x.user] = IF @ = 0 THEN 1 ELSE @]
              /\ invitation' = [invitation EXCEPT ![x.target] = "ACCEPTED"]
              /\ consumed' = [consumed EXCEPT ![x.target] = TRUE]
              /\ Ends(r)
              /\ UNCHANGED <<token, session, expired>>
         ELSE Refused(r)

-----------------------------------------------------------------------------
(* Time and failure                                                        *)

Expire(i) ==
    /\ i \in Open /\ ~expired[i]
    /\ expired' = [expired EXCEPT ![i] = TRUE]
    /\ UNCHANGED <<accounts, invitation, consumed, tx, locks>>

(* A session runs out; the row stays, no query finds it.                   *)
SessionExpires(s) ==
    /\ Live(s) /\ \A r \in Requests : tx[r].session # s
    /\ session' = [session EXCEPT ![s] = NoSession]
    /\ UNCHANGED <<password, token, member, invites, tx, locks>>

(* A request ends without effect: refused, disconnected, its process dead, *)
(* or the victim of the deadlock detector.                                 *)
GiveUp(r) == tx[r] # Idle /\ Refused(r)

Starting(r) ==
    \/ \E u \in Users : LoginStarts(r, u) \/ ResetStarts(r, u)
    \/ \E s \in Sessions, op \in {"use", "manage"} : RequestStarts(r, op, s)
    \/ \E i \in Invitations, s \in Sessions \cup {None} : AcceptStarts(r, i, s)

Statement(r) ==
    \/ LoginAccount(r)
    \/ \E s \in Sessions : LoginInsert(r, s)
    \/ Fence(r) \/ PrincipalSession(r)
    \/ \E job \in Jobs(tx[r]) : PrincipalMember(r, job)
    \/ SwitchRead(r) \/ SwitchMove(r) \/ SwitchCommit(r)
    \/ Logout(r)
    \/ ResetLink(r) \/ ResetAccount(r) \/ ResetCommit(r)
    \/ \E new \in Edits : UpdateTarget(r, new)
    \/ UpdateCommit(r)
    \/ \E i \in Invitations : Invite(r, i)
    \/ RevokeInvitation(r) \/ RevokeCommit(r)
    \/ AcceptAction(r) \/ AcceptInvitation(r) \/ AcceptAccount(r)
    \/ \E role \in Roles : AcceptCommit(r, role)

Next ==
    \/ \E r \in Requests : Starting(r) \/ Statement(r) \/ GiveUp(r)
    \/ \E u \in Users : ForgotPassword(u)
    \/ \E i \in Invitations : Expire(i)
    \/ \E s \in Sessions : SessionExpires(s)

Spec == Init /\ [][Next]_vars

-----------------------------------------------------------------------------
(* Properties                                                              *)

(* A session was issued for the account's current password: reset_password *)
(* leaves no session of the old one, not even of a login that was under    *)
(* way (login compares the hash again under the account's lock).           *)
OldPasswordHasNoSession ==
    \A s \in Sessions : Live(s) => session[s].password = password[session[s].user]

(* No session belongs to a suspended membership, so re-activating a member *)
(* revives none: not one that login or switch_tenant created from a        *)
(* membership read before update_member suspended it.                      *)
SuspendedHasNoSession == \A s \in Sessions : Live(s) => Active(session[s].member)

(* An organisation keeps an active owner, whatever owners do to each other *)
(* and to themselves at the same time (the LAST_OWNER check counts rows    *)
(* that update_member does not lock; the fence makes the count stand).     *)
AlwaysAnOwner ==
    \A t \in Tenants :
        LET staff == {m \in Members : TenantOf[m] = t /\ member[m] # NoMember}
        IN staff # {} => \E m \in staff : member[m] = ActiveOwner

(* An invitation is used at most once and not after it was revoked, by an  *)
(* owner or by the next invitation, even when the acceptance began before  *)
(* that; and nobody joins without one.                                     *)
InvitationOnce ==
    [][/\ \A i \in Invitations :
            invitation[i] \in {"ACCEPTED", "REVOKED"} => invitation'[i] = invitation[i]
       /\ member[Joining] = NoMember /\ member'[Joining] # NoMember =>
            \E i \in Open : invitation'[i] = "ACCEPTED"]_vars

(* r and q wait for each other.                                            *)
Stuck(r, q) == q \in Blockers(r) /\ r \in Blockers(q)

(* The fence, taken before any row lock, keeps a membership edit out of    *)
(* deadlocks with the requests of its organisation.  What can still face   *)
(* one crosswise takes no fence (reset_password, accept_invitation) or     *)
(* took that of another organisation, before its session moved here.       *)
FenceKeepsOrder ==
    \A r, q \in Requests :
        Stuck(r, q) /\ tx[r].op \in ManageOps =>
            tx[q].op \in {"reset", "accept"} \/ tx[q].hint # tx[r].hint

=============================================================================
