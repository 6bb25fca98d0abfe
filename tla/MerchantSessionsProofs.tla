----------------------- MODULE MerchantSessionsProofs -----------------------
(***************************************************************************)
(* The properties of MerchantSessions, proved for any accounts,            *)
(* memberships, sessions and invitations and any number of requests at     *)
(* once.  What makes them inductive is what every request holds (row       *)
(* locks) and what it knows because it holds them.                         *)
(***************************************************************************)
EXTENDS MerchantSessions, FiniteSetTheorems, WellFoundedInduction, TLAPS

-----------------------------------------------------------------------------
(* The rows and the requests.                                              *)

(* The requests, and the statements each goes through.                     *)
Fenced == {"use", "logout", "others", "switch"} \cup ManageOps
Ops == {None, "login", "accept", "reset"} \cup Fenced

StagesOf(op) ==
    CASE op = "login" -> {"account", "insert"}
      [] op \in {"use", "manage"} -> {"fence", "session", "member"}
      [] op \in {"logout", "others"} -> {"sessions"}
      [] op = "switch" -> {"read", "move", "insert"}
      [] op = "update" -> {"target", "sessions"}
      [] op = "invite" -> {"create"}
      [] op = "revoke" -> {"invitation", "action"}
      [] op = "accept" -> {"action", "invitation", "account", "session", "member", "join"}
      [] op = "reset" -> {"link", "account", "sessions"}
      [] OTHER -> {None}

MemberRows == [role : Roles \cup {None}, status : {"ACTIVE", "SUSPENDED", None}]
SessionRows == [user : Users \cup {None}, member : Members \cup {None}, password : Nat]
Contexts ==
    [op : Ops, at : UNION {StagesOf(op) : op \in Ops}, user : Users \cup {None},
     session : Sessions \cup {None}, member : Members \cup {None},
     target : Members \cup Invitations \cup {None},
     hint : Tenants \cup Nat \cup {None}, new : MemberRows]

TypeOK ==
    /\ password \in [Users -> Nat]
    /\ token \in [Users -> BOOLEAN]
    /\ member \in [Members -> MemberRows]
    /\ session \in [Sessions -> SessionRows]
    /\ invitation \in [Invitations -> {None, "PENDING", "ACCEPTED", "REVOKED"}]
    /\ consumed \in [Invitations -> BOOLEAN]
    /\ expired \in [Invitations -> BOOLEAN]
    /\ tx \in [Requests -> Contexts]
    /\ locks = [r \in Requests |-> locks[r]]

(* Two requests never hold locks that exclude each other.                  *)
LocksCompatible ==
    \A r, q \in Requests : r # q =>
        \A a \in locks[r], b \in locks[q] :
            a.table = b.table /\ a.id = b.id => ~Conflict(a.mode, b.mode)

(* The locks a request holds at each statement.                            *)
Holds(r) ==
    LET x == tx[r] IN
    /\ x.at \in StagesOf(x.op)
    /\ x.op = None \/ x.at = "fence" \/ (x.op = "login" /\ x.at = "account") =>
          locks[r] = {}
    /\ x.op \in Fenced /\ x.at # "fence" =>
          Lock("fence", x.hint, FenceMode(x.op)) \in locks[r]
    /\ x.op \in {"use", "manage"} => \A k \in locks[r] : k.table # "member"
    /\ x.op = "login" /\ x.at = "insert" => locks[r] = {Lock("user", x.user, "update")}
    /\ x.op = "reset" /\ x.at = "sessions" => Lock("user", x.user, "nokey") \in locks[r]
    /\ x.at = "member" \/ x.op = "switch" => Lock("session", x.session, "share") \in locks[r]
    /\ x.op = "revoke" /\ x.at = "action" =>
          Lock("invitation", x.target, "nokey") \in locks[r]
    /\ x.op = "accept" /\ x.at \notin {"action", "invitation"} =>
          Lock("invitation", x.target, "update") \in locks[r]

(* The organisation that invites has somebody in it.                       *)
Staffed == \E m \in Members : TenantOf[m] = TenantOf[Joining] /\ member[m] # NoMember

(* An owner of the organisation besides m.                                 *)
OtherOwner(m) ==
    \E n \in Members \ {m} : TenantOf[n] = TenantOf[m] /\ member[n] = ActiveOwner

(* What a request has read and may still rely on.                          *)
Knows(r) ==
    LET x == tx[r] IN
    /\ x.op \in {"login", "reset", "accept"} => x.user \in Users
    /\ x.op = "login" =>
          /\ x.hint \in Nat \ {0}
          /\ x.at = "insert" => x.hint = password[x.user] /\ x.target \in Members
    /\ x.op \in Fenced => x.session \in Sessions
    /\ x.at = "session" => x.session \in Sessions
    /\ x.at = "member" => x.session \in Sessions /\ x.member \in Members
    /\ x.at = "member" \/ x.op = "switch" => Live(x.session)
    /\ x.op = "switch" => x.target \in Members
    /\ x.op \in ManageOps \ {"manage"} => x.member \in Members /\ TenantOf[x.member] = x.hint
    /\ x.op = "update" => x.target \in Members /\ TenantOf[x.target] = x.hint
    /\ x.op = "update" /\ x.at = "sessions" =>
          /\ member[x.target] # NoMember
          /\ x.new \in Edits
          /\ member[x.target] = ActiveOwner /\ x.new # ActiveOwner => OtherOwner(x.target)
    /\ x.op = "invite" => Staffed
    /\ x.op = "revoke" =>
          x.target \in Invitations /\ (x.at = "action" => x.target \in Open)
    /\ x.op = "accept" =>
          /\ x.user = UserOf[Joining]
          /\ x.target \in Invitations /\ invitation[x.target] # None
          /\ x.at \notin {"action", "invitation"} => x.target \in Open

(* The rows of live sessions, and the first member of an organisation.     *)
LiveRows ==
    \A s \in Sessions : Live(s) =>
        session[s].user \in Users /\ session[s].member \in Members /\ session[s].password > 0

InvitedByStaff == (\E i \in Invitations : invitation[i] # None) => Staffed

Inv ==
    /\ TypeOK
    /\ LocksCompatible
    /\ \A r \in Requests : Holds(r) /\ Knows(r)
    /\ LiveRows
    /\ InvitedByStaff
    /\ OldPasswordHasNoSession
    /\ SuspendedHasNoSession
    /\ AlwaysAnOwner

-----------------------------------------------------------------------------
(* Types.                                                                  *)

(* No request, no statement.                                               *)
LEMMA IdleTypes ==
    /\ Idle \in Contexts
    /\ Idle.op = None /\ Idle.at = None
    /\ NoMember \in MemberRows /\ NoSession \in SessionRows
    /\ ActiveOwner \in MemberRows /\ ActiveOwner # NoMember
  BY NoneIsAbsent DEF Idle, Contexts, NoMember, MemberRows, NoSession, SessionRows, Ops,
     StagesOf, Fenced, ManageOps, ActiveOwner, Roles

(* The statements.                                                         *)
LEMMA StageTypes ==
    /\ \A op \in Ops : \A at \in StagesOf(op) : at \in UNION {StagesOf(o) : o \in Ops}
    /\ "account" \in StagesOf("login") /\ "insert" \in StagesOf("login")
    /\ \A op \in {"use", "manage"} : {"fence", "session", "member"} \subseteq StagesOf(op)
    /\ \A op \in {"logout", "others"} : "sessions" \in StagesOf(op)
    /\ {"read", "move", "insert"} \subseteq StagesOf("switch")
    /\ {"target", "sessions"} \subseteq StagesOf("update")
    /\ "create" \in StagesOf("invite")
    /\ {"invitation", "action"} \subseteq StagesOf("revoke")
    /\ {"action", "invitation", "account", "session", "member", "join"}
          \subseteq StagesOf("accept")
    /\ {"link", "account", "sessions"} \subseteq StagesOf("reset")
    /\ StagesOf(None) = {None}
  BY NoneIsAbsent DEF StagesOf, ManageOps

(* The oldest membership of an account.                                    *)
LEMMA MinMember ==
    ASSUME NEW mine \in SUBSET Members, mine # {}
    PROVE  Min(mine) \in mine
<1>1. mine \in SUBSET Nat
  BY SessionsAssumption
<1>2. \E m \in mine : \A n \in mine : m <= n
  <2>1. PICK m \in mine : \A n \in mine : ~ (<<n, m>> \in OpToRel(<, Nat))
    BY <1>1, NatLessThanWellFounded, WFMin
  <2>2. \A n \in mine : n < m => <<n, m>> \in OpToRel(<, Nat)
    BY <1>1, Zenon DEF OpToRel
  <2>3. \A n \in mine : ~ (n < m)
    BY <2>1, <2>2, Zenon
  <2> QED
    BY <1>1, <2>3
<1> QED
  BY <1>2 DEF Min

(* The rows that sessions are closed to.                                   *)
LEMMA Closed ==
    ASSUME TypeOK, NEW gone
    PROVE  /\ Close(session, gone) \in [Sessions -> SessionRows]
           /\ \A s \in Sessions :
                 Close(session, gone)[s] # NoSession =>
                    s \notin gone /\ Close(session, gone)[s] = session[s]
  BY IdleTypes DEF Close, TypeOK

(* What is asked for once the request is identified.                       *)
LEMMA JobTypes ==
    ASSUME NEW x \in Contexts, NEW job \in Jobs(x)
    PROVE  /\ job.op \in Ops /\ job.at \in StagesOf(job.op)
           /\ job.target \in Members \cup Invitations \cup {None}
           /\ job.op \in ManageOps <=> x.op \in ManageOps
           /\ x.op \in {"use", "manage", "accept"}
           /\ \/ x.op = "use" /\ job.op \in {"logout", "others"} /\ job.at = "sessions"
              \/ x.op = "use" /\ job.op = "switch" /\ job.at = "read" /\ job.target \in Members
              \/ x.op = "manage" /\ job.op = "invite" /\ job.at = "create"
              \/ /\ x.op = "manage" /\ job.op = "update" /\ job.at = "target"
                 /\ job.target \in Members /\ TenantOf[job.target] = x.hint
              \/ /\ x.op = "manage" /\ job.op = "revoke" /\ job.at = "invitation"
                 /\ job.target \in Invitations
              \/ /\ x.op = "accept" /\ job.op = "accept" /\ job.at = "join"
                 /\ job.target = x.target
<1>1. CASE x.op = "use"
  BY <1>1, StageTypes DEF Jobs, Job, Ops, Fenced, ManageOps
<1>2. CASE x.op = "manage"
  BY <1>2, StageTypes DEF Jobs, Job, Ops, Fenced, ManageOps
<1>3. CASE x.op = "accept"
  BY <1>3, StageTypes DEF Jobs, Job, Ops, Fenced, ManageOps, Contexts
<1>4. CASE x.op \notin {"use", "manage", "accept"}
  BY <1>4 DEF Jobs
<1> QED
  BY <1>1, <1>2, <1>3, <1>4

(* What starting, going on and ending do to a request's context.           *)
LEMMA ContextTypes ==
    ASSUME TypeOK, NEW r \in Requests
    PROVE  /\ \A x \in Contexts : Starts(r, x) => TypeOK'
           /\ \A x \in Contexts : \A at \in StagesOf(x.op) : Continue(r, x, at) => TypeOK'
           /\ Ends(r) => /\ tx' \in [Requests -> Contexts]
                         /\ locks' = [q \in Requests |-> locks'[q]]
           /\ Refused(r) => TypeOK'
<1>1. ASSUME NEW x \in Contexts, Starts(r, x) PROVE TypeOK'
  BY <1>1 DEF Starts, TypeOK, accounts, invites
<1>2. ASSUME NEW x \in Contexts, NEW at \in StagesOf(x.op), Continue(r, x, at) PROVE TypeOK'
  <2>1. [x EXCEPT !.at = at] \in Contexts
    <3>1. at \in UNION {StagesOf(op) : op \in Ops}
      BY <1>2 DEF Contexts
    <3> QED
      BY <3>1 DEF Contexts
  <2> QED
    BY <1>2, <2>1 DEF Continue, TypeOK, accounts, invites
<1>3. ASSUME Ends(r)
      PROVE  tx' \in [Requests -> Contexts] /\ locks' = [q \in Requests |-> locks'[q]]
  BY <1>3, IdleTypes DEF Ends, TypeOK
<1>4. ASSUME Refused(r) PROVE TypeOK'
  BY <1>3, <1>4 DEF Refused, TypeOK, accounts, invites
<1> QED
  BY <1>1, <1>2, <1>3, <1>4

(* A request starts from nothing.                                          *)
LEMMA StartTypes ==
    ASSUME TypeOK, LiveRows, NEW r \in Requests, Starting(r)
    PROVE  \E x \in Contexts :
              /\ Starts(r, x)
              /\ x.op \in Ops \ {None} /\ x.at \in StagesOf(x.op)
              /\ \/ /\ x.op = "login" /\ x.at = "account" /\ x.user \in Users
                    /\ x.hint \in Nat \ {0}
                 \/ x.op = "reset" /\ x.at = "link" /\ x.user \in Users
                 \/ x.op \in {"use", "manage"} /\ x.at = "fence" /\ x.session \in Sessions
                 \/ /\ x.op = "accept" /\ x.at = "action" /\ x.user = UserOf[Joining]
                    /\ x.target \in Invitations /\ invitation[x.target] # None
<1>1. ASSUME NEW u \in Users, LoginStarts(r, u)
      PROVE  \E x \in Contexts :
                /\ Starts(r, x)
                /\ x.op = "login" /\ x.at = "account" /\ x.user \in Users /\ x.hint \in Nat \ {0}
  <2> DEFINE x == [Idle EXCEPT !.op = "login", !.at = "account", !.user = u,
                               !.hint = password[u]]
  <2>0. password[u] \in Nat \ {0}
    BY <1>1 DEF LoginStarts, TypeOK
  <2>1. /\ x \in Contexts
        /\ x.op = "login" /\ x.at = "account" /\ x.user \in Users /\ x.hint \in Nat \ {0}
    BY <1>1, <2>0, StageTypes DEF Contexts, Idle, MemberRows, NoMember, Ops
  <2>2. Starts(r, x)
    BY <1>1 DEF LoginStarts
  <2> HIDE DEF x
  <2> QED
    BY <2>1, <2>2
<1>2. ASSUME NEW u \in Users, ResetStarts(r, u)
      PROVE  \E x \in Contexts :
                Starts(r, x) /\ x.op = "reset" /\ x.at = "link" /\ x.user \in Users
  <2> DEFINE x == [Idle EXCEPT !.op = "reset", !.at = "link", !.user = u]
  <2>1. x \in Contexts /\ x.op = "reset" /\ x.at = "link" /\ x.user \in Users
    BY <1>2, StageTypes DEF Contexts, Idle, MemberRows, NoMember, Ops
  <2>2. Starts(r, x)
    BY <1>2 DEF ResetStarts
  <2> HIDE DEF x
  <2> QED
    BY <2>1, <2>2
<1>3. ASSUME NEW s \in Sessions, NEW op \in {"use", "manage"}, RequestStarts(r, op, s)
      PROVE  \E x \in Contexts :
                /\ Starts(r, x)
                /\ x.op \in {"use", "manage"} /\ x.at = "fence" /\ x.session \in Sessions
  <2> DEFINE x == [Idle EXCEPT !.op = op, !.at = "fence", !.session = s,
                               !.user = session[s].user,
                               !.hint = TenantOf[session[s].member]]
  <2>1. session[s].user \in Users /\ TenantOf[session[s].member] \in Tenants
    BY <1>3, SessionsAssumption DEF RequestStarts, LiveRows
  <2>2. /\ x \in Contexts
        /\ x.op \in {"use", "manage"} /\ x.at = "fence" /\ x.session \in Sessions
    BY <1>3, <2>1, StageTypes DEF Contexts, Idle, MemberRows, NoMember, Ops, Fenced, ManageOps
  <2>3. Starts(r, x)
    BY <1>3 DEF RequestStarts
  <2> HIDE DEF x
  <2> QED
    BY <2>2, <2>3
<1>4. ASSUME NEW i \in Invitations, NEW s \in Sessions \cup {None}, AcceptStarts(r, i, s)
      PROVE  \E x \in Contexts :
                /\ Starts(r, x)
                /\ x.op = "accept" /\ x.at = "action" /\ x.user = UserOf[Joining]
                /\ x.target \in Invitations /\ invitation[x.target] # None
  <2> DEFINE x == [Idle EXCEPT !.op = "accept", !.at = "action", !.session = s,
                               !.user = UserOf[Joining], !.target = i]
  <2>1. x \in Contexts
    BY <1>4, StageTypes, SessionsAssumption DEF Contexts, Idle, MemberRows, NoMember, Ops
  <2>2. /\ x.op = "accept" /\ x.at = "action" /\ x.user = UserOf[Joining]
        /\ x.target \in Invitations /\ invitation[x.target] # None
    BY <1>4 DEF AcceptStarts, Idle
  <2>3. Starts(r, x)
    BY <1>4 DEF AcceptStarts
  <2> HIDE DEF x
  <2> QED
    BY <2>1, <2>2, <2>3
<1>5. /\ {"login", "reset", "use", "manage", "accept"} \subseteq Ops \ {None}
      /\ "account" \in StagesOf("login") /\ "link" \in StagesOf("reset")
      /\ \A op \in {"use", "manage"} : "fence" \in StagesOf(op)
      /\ "action" \in StagesOf("accept")
  BY StageTypes, NoneIsAbsent DEF Ops, Fenced, ManageOps
<1> QED
  BY <1>1, <1>2, <1>3, <1>4, <1>5 DEF Starting

(* The statements that let a transaction go on, with its next context.     *)
LEMMA GoesOn ==
    ASSUME Inv, NEW r \in Requests, Statement(r)
    PROVE  \/ Ends(r)
           \/ \E x \in Contexts : \E at \in StagesOf(x.op) : Continue(r, x, at)
<1> DEFINE x == tx[r]
<1>0. x \in Contexts /\ x.at \in StagesOf(x.op) /\ Knows(r)
  BY DEF Inv, TypeOK, Holds
<1>1. ASSUME NEW at \in StagesOf(x.op), Continue(r, x, at)
      PROVE  \E y \in Contexts : \E to \in StagesOf(y.op) : Continue(r, y, to)
  BY <1>0, <1>1
<1>2. CASE LoginAccount(r)
  <2> DEFINE mine == {m \in Members : UserOf[m] = x.user /\ Active(m)}
             y == [x EXCEPT !.target = Min(mine)]
  <2>1. CASE Refused(r)
    BY <2>1 DEF Refused
  <2>2. CASE mine # {} /\ Continue(r, y, "insert")
    <3>1. Min(mine) \in Members
      BY <2>2, MinMember
    <3>2. y \in Contexts /\ y.op = "login"
      BY <1>0, <1>2, <3>1 DEF LoginAccount, Contexts
    <3> HIDE DEF y
    <3> QED
      BY <2>2, <3>2, StageTypes
  <2> QED
    BY <1>2, <2>1, <2>2 DEF LoginAccount
<1>3. CASE Fence(r) \/ SwitchRead(r) \/ SwitchMove(r) \/ ResetLink(r) \/ ResetAccount(r)
           \/ RevokeInvitation(r) \/ AcceptAction(r) \/ AcceptInvitation(r) \/ AcceptAccount(r)
  <2>1. x.at = "fence" => "session" \in StagesOf(x.op)
    BY <1>0, NoneIsAbsent DEF StagesOf
  <2>2. x.at \in {"read", "move"} => x.op = "switch"
    BY <1>0, NoneIsAbsent DEF StagesOf
  <2>3. x.at = "link" => x.op = "reset"
    BY <1>0, NoneIsAbsent DEF StagesOf
  <2> QED
    BY <1>1, <1>3, <2>1, <2>2, <2>3, StageTypes
       DEF Fence, SwitchRead, SwitchMove, ResetLink, ResetAccount, RevokeInvitation,
           AcceptAction, AcceptInvitation, AcceptAccount, Refused, Runs
<1>4. CASE PrincipalSession(r)
  <2> DEFINE y == [x EXCEPT !.member = session[x.session].member]
  <2>1. CASE Refused(r)
    BY <2>1 DEF Refused
  <2>2. CASE Continue(r, y, "member")
    <3>1. session[x.session].member \in Members \cup {None}
      BY <1>0, <1>4 DEF PrincipalSession, Runs, Knows, Inv, TypeOK, SessionRows
    <3>2. y \in Contexts /\ y.op = x.op
      BY <1>0, <3>1 DEF Contexts
    <3>3. "member" \in StagesOf(x.op)
      BY <1>0, <1>4, NoneIsAbsent DEF PrincipalSession, Runs, StagesOf
    <3> HIDE DEF y
    <3> QED
      BY <2>2, <3>2, <3>3
  <2> QED
    BY <1>4, <2>1, <2>2 DEF PrincipalSession
<1>5. ASSUME NEW job \in Jobs(x), PrincipalMember(r, job)
      PROVE  \/ Ends(r)
             \/ \E y \in Contexts : \E at \in StagesOf(y.op) : Continue(r, y, at)
  <2> DEFINE y == [x EXCEPT !.op = job.op, !.target = job.target]
  <2>1. CASE Refused(r)
    BY <2>1 DEF Refused
  <2>2. CASE Continue(r, y, job.at)
    <3>1. y \in Contexts /\ y.op = job.op /\ job.at \in StagesOf(job.op)
      BY <1>0, JobTypes DEF Contexts
    <3> HIDE DEF y
    <3> QED
      BY <2>2, <3>1
  <2> QED
    BY <1>5, <2>1, <2>2 DEF PrincipalMember
<1>6. ASSUME NEW new \in Edits, UpdateTarget(r, new)
      PROVE  \/ Ends(r)
             \/ \E y \in Contexts : \E at \in StagesOf(y.op) : Continue(r, y, at)
  <2> DEFINE y == [x EXCEPT !.new = new]
  <2>1. CASE Refused(r)
    BY <2>1 DEF Refused
  <2>2. CASE Continue(r, y, "sessions")
    <3>1. y \in Contexts /\ y.op = x.op
      BY <1>0, SessionsAssumption DEF Contexts, MemberRows
    <3>2. "sessions" \in StagesOf(x.op)
      BY <1>0, <1>6, NoneIsAbsent DEF UpdateTarget, Runs, StagesOf
    <3> HIDE DEF y
    <3> QED
      BY <2>2, <3>1, <3>2
  <2> QED
    BY <1>6, <2>1, <2>2 DEF UpdateTarget
<1>7. CASE (\E s \in Sessions : LoginInsert(r, s)) \/ SwitchCommit(r) \/ Logout(r)
           \/ ResetCommit(r) \/ UpdateCommit(r) \/ (\E i \in Invitations : Invite(r, i))
           \/ RevokeCommit(r) \/ (\E role \in Roles : AcceptCommit(r, role))
  BY <1>7 DEF LoginInsert, SwitchCommit, Logout, ResetCommit, UpdateCommit, Invite,
     RevokeCommit, AcceptCommit, Refused
<1> QED
  BY <1>2, <1>3, <1>4, <1>5, <1>6, <1>7 DEF Statement

(* The requests that write rows as they commit.                            *)
Commits(r) ==
    \/ \E s \in Sessions : LoginInsert(r, s)
    \/ SwitchCommit(r)
    \/ Logout(r)
    \/ ResetCommit(r)
    \/ UpdateCommit(r)
    \/ \E i \in Invitations : Invite(r, i)
    \/ RevokeCommit(r)
    \/ \E role \in Roles : AcceptCommit(r, role)

(* Every other step leaves the rows alone, but for time passing and a      *)
(* password link being sent.                                               *)
LEMMA Writers ==
    ASSUME [Next]_vars
    PROVE  \/ UNCHANGED <<accounts, invites>>
           \/ \E r \in Requests : Commits(r) /\ Ends(r)
           \/ /\ \/ \E u \in Users : ForgotPassword(u)
                 \/ \E i \in Invitations : Expire(i)
                 \/ \E s \in Sessions : SessionExpires(s)
              /\ UNCHANGED <<tx, locks>>
<1>1. CASE UNCHANGED vars
  BY <1>1 DEF vars
<1>2. CASE \E r \in Requests : Starting(r) \/ GiveUp(r)
  BY <1>2 DEF Starting, GiveUp, Refused, Starts, LoginStarts, ResetStarts, RequestStarts,
              AcceptStarts
<1>3. ASSUME NEW r \in Requests, Statement(r)
      PROVE  UNCHANGED <<accounts, invites>> \/ (Commits(r) /\ Ends(r))
  <2>1. CASE Commits(r)
    BY <2>1 DEF Commits, LoginInsert, SwitchCommit, Logout, ResetCommit, UpdateCommit, Invite,
                RevokeCommit, AcceptCommit, Refused
  <2>2. CASE ~Commits(r)
    <3>1. Refused(r) \/ (\E x, at : Continue(r, x, at)) => UNCHANGED <<accounts, invites>>
      BY DEF Refused, Continue
    <3>2. CASE LoginAccount(r) \/ Fence(r) \/ PrincipalSession(r) \/ SwitchRead(r) \/ SwitchMove(r)
      BY <3>1, <3>2 DEF LoginAccount, Fence, PrincipalSession, SwitchRead, SwitchMove
    <3>3. CASE ResetLink(r) \/ ResetAccount(r) \/ RevokeInvitation(r)
      BY <3>1, <3>3 DEF ResetLink, ResetAccount, RevokeInvitation
    <3>4. CASE AcceptAction(r) \/ AcceptInvitation(r) \/ AcceptAccount(r)
      BY <3>1, <3>4 DEF AcceptAction, AcceptInvitation, AcceptAccount
    <3>5. CASE \E job \in Jobs(tx[r]) : PrincipalMember(r, job)
      BY <3>1, <3>5 DEF PrincipalMember
    <3>6. CASE \E new \in Edits : UpdateTarget(r, new)
      BY <3>1, <3>6 DEF UpdateTarget
    <3> QED
      BY <1>3, <2>2, <3>2, <3>3, <3>4, <3>5, <3>6 DEF Statement, Commits
  <2> QED
    BY <2>1, <2>2
<1>4. CASE \/ \E u \in Users : ForgotPassword(u)
           \/ \E i \in Invitations : Expire(i)
           \/ \E s \in Sessions : SessionExpires(s)
  BY <1>4 DEF ForgotPassword, Expire, SessionExpires
<1> QED
  BY <1>1, <1>2, <1>3, <1>4 DEF Next

(* What a step does to the requests: it leaves them, or one of them        *)
(* starts, gets the locks of its statement and goes on, or ends.           *)
LEMMA Schedule ==
    ASSUME Inv, [Next]_vars
    PROVE  \/ UNCHANGED <<tx, locks>>
           \/ \E r \in Requests :
                 \/ \E x \in Contexts : Starts(r, x)
                 \/ Ends(r)
                 \/ /\ Blockers(r) = {}
                    /\ \E x \in Contexts : \E at \in StagesOf(x.op) : Continue(r, x, at)
<1>0. TypeOK /\ LiveRows
  BY DEF Inv
<1>1. CASE UNCHANGED vars
  BY <1>1 DEF vars
<1>2. ASSUME NEW r \in Requests, Starting(r) PROVE \E x \in Contexts : Starts(r, x)
  BY <1>0, <1>2, StartTypes
<1>3. ASSUME NEW r \in Requests, GiveUp(r) PROVE Ends(r)
  BY <1>3 DEF GiveUp, Refused
<1>4. ASSUME NEW r \in Requests, Statement(r)
      PROVE  \/ Ends(r)
             \/ /\ Blockers(r) = {}
                /\ \E x \in Contexts : \E at \in StagesOf(x.op) : Continue(r, x, at)
  <2>1. Blockers(r) = {}
    BY <1>4 DEF Statement, Runs, LoginAccount, LoginInsert, Fence, PrincipalSession,
       PrincipalMember, SwitchRead, SwitchMove, SwitchCommit, Logout, ResetLink, ResetAccount,
       ResetCommit, UpdateTarget, UpdateCommit, Invite, RevokeInvitation, RevokeCommit,
       AcceptAction, AcceptInvitation, AcceptAccount, AcceptCommit
  <2> QED
    BY <1>4, <2>1, GoesOn
<1>5. CASE \/ \E u \in Users : ForgotPassword(u)
           \/ \E i \in Invitations : Expire(i)
           \/ \E s \in Sessions : SessionExpires(s)
  BY <1>5 DEF ForgotPassword, Expire, SessionExpires
<1> QED
  BY <1>1, <1>2, <1>3, <1>4, <1>5 DEF Next

(* The row types after a commit.                                           *)
LEMMA CommitTypes ==
    ASSUME Inv, NEW r \in Requests, Commits(r)
    PROVE  /\ password' \in [Users -> Nat]
           /\ token' \in [Users -> BOOLEAN]
           /\ member' \in [Members -> MemberRows]
           /\ session' \in [Sessions -> SessionRows]
           /\ invitation' \in [Invitations -> {None, "PENDING", "ACCEPTED", "REVOKED"}]
           /\ consumed' \in [Invitations -> BOOLEAN]
           /\ expired' \in [Invitations -> BOOLEAN]
<1> USE DEF accounts, invites, Runs
<1> DEFINE x == tx[r]
<1>0. TypeOK /\ x \in Contexts /\ Knows(r) /\ x.at \in StagesOf(x.op)
  BY DEF Inv, TypeOK, Holds
<1>1. CASE Refused(r)
  BY <1>0, <1>1 DEF Refused, TypeOK
<1>2. ASSUME NEW s \in Sessions, LoginInsert(r, s), ~Refused(r)
      PROVE  session' \in [Sessions -> SessionRows]
  <2>1. x.user \in Users /\ x.hint \in Nat /\ x.target \in Members
    BY <1>0, <1>2 DEF LoginInsert, Knows
  <2>2. [user |-> x.user, member |-> x.target, password |-> x.hint] \in SessionRows
    BY <2>1 DEF SessionRows
  <2> QED
    BY <1>0, <1>2, <2>2 DEF LoginInsert, TypeOK
<1>3. ASSUME SwitchCommit(r), ~Refused(r)
      PROVE  session' \in [Sessions -> SessionRows]
  <2>1. x.target \in Members /\ x.session \in Sessions
    BY <1>0, <1>3 DEF SwitchCommit, Knows, Fenced
  <2> QED
    BY <1>0, <1>3, <2>1 DEF SwitchCommit, TypeOK, SessionRows
<1>4. CASE Logout(r)
  BY <1>0, <1>4, Closed DEF Logout, TypeOK
<1>5. CASE ResetCommit(r)
  <2>1. session' \in [Sessions -> SessionRows]
    BY <1>0, <1>5, Closed DEF ResetCommit
  <2>2. password' \in [Users -> Nat]
    <3>1. x.user \in Users /\ password' = [password EXCEPT ![x.user] = @ + 1]
      BY <1>0, <1>5 DEF ResetCommit, Knows
    <3>2. password[x.user] + 1 \in Nat
      BY <1>0, <3>1 DEF TypeOK
    <3> QED
      BY <1>0, <3>1, <3>2 DEF TypeOK
  <2> QED
    BY <1>0, <1>5, <2>1, <2>2 DEF ResetCommit, TypeOK
<1>6. CASE UpdateCommit(r)
  BY <1>0, <1>6, Closed DEF UpdateCommit, TypeOK, Contexts
<1>7. ASSUME NEW i \in Invitations, Invite(r, i), ~Refused(r)
      PROVE  invitation' \in [Invitations -> {None, "PENDING", "ACCEPTED", "REVOKED"}]
  BY <1>0, <1>7 DEF Invite, TypeOK
<1>8. CASE RevokeCommit(r)
  BY <1>0, <1>8 DEF RevokeCommit, TypeOK
<1>9. ASSUME NEW role \in Roles, AcceptCommit(r, role), ~Refused(r)
      PROVE  /\ member' \in [Members -> MemberRows]
             /\ password' \in [Users -> Nat]
             /\ invitation' \in [Invitations -> {None, "PENDING", "ACCEPTED", "REVOKED"}]
             /\ consumed' \in [Invitations -> BOOLEAN]
  <2>1. [role |-> role, status |-> "ACTIVE"] \in MemberRows
    BY DEF MemberRows
  <2>2. /\ member' = [member EXCEPT ![Joining] = [role |-> role, status |-> "ACTIVE"]]
        /\ password' = [password EXCEPT ![x.user] = IF @ = 0 THEN 1 ELSE @]
        /\ invitation' = [invitation EXCEPT ![x.target] = "ACCEPTED"]
        /\ consumed' = [consumed EXCEPT ![x.target] = TRUE]
    BY <1>9 DEF AcceptCommit
  <2>3. member' \in [Members -> MemberRows]
    BY <1>0, <2>1, <2>2 DEF TypeOK
  <2>4. password' \in [Users -> Nat]
    BY <1>0, <2>2 DEF TypeOK
  <2> QED
    BY <1>0, <2>2, <2>3, <2>4 DEF TypeOK
<1>10. \A s \in Sessions : LoginInsert(r, s) /\ ~Refused(r) =>
           UNCHANGED <<password, token, member, invites>>
  BY DEF LoginInsert
<1>11. SwitchCommit(r) /\ ~Refused(r) => UNCHANGED <<password, token, member, invites>>
  BY DEF SwitchCommit
<1>12. \A i \in Invitations : Invite(r, i) /\ ~Refused(r) => UNCHANGED <<accounts, consumed, expired>>
  BY DEF Invite
<1>13. \A role \in Roles : AcceptCommit(r, role) /\ ~Refused(r) =>
           UNCHANGED <<token, session, expired>>
  BY DEF AcceptCommit
<1> HIDE DEF x
<1> QED
  BY <1>0, <1>1, <1>2, <1>3, <1>4, <1>5, <1>6, <1>7, <1>8, <1>9, <1>10, <1>11, <1>12, <1>13
     DEF Commits, TypeOK

(* Every step keeps the types.                                             *)
LEMMA TypeStep ==
    ASSUME Inv, [Next]_vars
    PROVE  TypeOK'
<1>0. TypeOK
  BY DEF Inv
<1>1. /\ tx' \in [Requests -> Contexts]
      /\ locks' = [q \in Requests |-> locks'[q]]
  <2>1. CASE UNCHANGED <<tx, locks>>
    BY <1>0, <2>1 DEF TypeOK
  <2>2. ASSUME NEW r \in Requests,
               \/ \E x \in Contexts : Starts(r, x)
               \/ Ends(r)
               \/ \E x \in Contexts : \E at \in StagesOf(x.op) : Continue(r, x, at)
        PROVE  /\ tx' \in [Requests -> Contexts]
               /\ locks' = [q \in Requests |-> locks'[q]]
    BY <1>0, <2>2, ContextTypes DEF TypeOK
  <2> QED
    BY <2>1, <2>2, Schedule
<1>2. CASE UNCHANGED <<accounts, invites>>
  BY <1>0, <1>1, <1>2 DEF TypeOK, accounts, invites
<1>3. CASE \E r \in Requests : Commits(r)
  BY <1>1, <1>3, CommitTypes DEF TypeOK
<1>4. CASE \/ \E u \in Users : ForgotPassword(u)
           \/ \E i \in Invitations : Expire(i)
           \/ \E s \in Sessions : SessionExpires(s)
  BY <1>0, <1>1, <1>4, IdleTypes DEF ForgotPassword, Expire, SessionExpires, TypeOK,
     accounts, invites
<1> QED
  BY <1>2, <1>3, <1>4, Writers

-----------------------------------------------------------------------------
(* Locks.                                                                  *)

(* Conflict is symmetric.                                                  *)
LEMMA ConflictBothWays == \A a, b : Conflict(a, b) <=> Conflict(b, a)
<1>1. \A a, b : {a, b} = {b, a}
  OBVIOUS
<1> QED
  BY <1>1 DEF Conflict

(* A request waits for locks that exclude those it needs, so no two        *)
(* requests ever hold such a pair.                                         *)
LEMMA LocksStep ==
    ASSUME Inv, [Next]_vars
    PROVE  LocksCompatible'
<1>0. TypeOK /\ LocksCompatible
  BY DEF Inv
<1>1. CASE UNCHANGED <<tx, locks>>
  BY <1>0, <1>1 DEF LocksCompatible
<1>2. ASSUME NEW r \in Requests, (\E x \in Contexts : Starts(r, x)) \/ Ends(r)
      PROVE  LocksCompatible'
  <2>1. \A q \in Requests : locks'[q] = locks[q] \/ locks'[q] = {}
    BY <1>0, <1>2 DEF Starts, Ends, TypeOK
  <2> QED
    BY <1>0, <2>1 DEF LocksCompatible
<1>3. ASSUME NEW r \in Requests, Blockers(r) = {}, NEW x, NEW at, Continue(r, x, at)
      PROVE  LocksCompatible'
  <2>1. /\ locks'[r] = locks[r] \cup Needs(tx[r])
        /\ \A q \in Requests \ {r} : locks'[q] = locks[q]
    BY <1>0, <1>3 DEF Continue, TypeOK
  <2>2. \A q \in Requests \ {r} : \A a \in Needs(tx[r]), b \in locks[q] :
            a.table = b.table /\ a.id = b.id => ~Conflict(a.mode, b.mode)
    BY <1>3 DEF Blockers
  <2>3. ASSUME NEW q \in Requests \ {r}, NEW a \in locks'[r], NEW b \in locks'[q],
               a.table = b.table, a.id = b.id
        PROVE  ~Conflict(a.mode, b.mode) /\ ~Conflict(b.mode, a.mode)
    BY <1>0, <2>1, <2>2, <2>3, ConflictBothWays DEF LocksCompatible
  <2>4. ASSUME NEW p \in Requests \ {r}, NEW q \in Requests \ {r}, p # q,
               NEW a \in locks'[p], NEW b \in locks'[q], a.table = b.table, a.id = b.id
        PROVE  ~Conflict(a.mode, b.mode)
    BY <1>0, <2>1, <2>4 DEF LocksCompatible
  <2> QED
    BY <2>3, <2>4 DEF LocksCompatible
<1> QED
  BY <1>1, <1>2, <1>3, Schedule

(* The locks that a statement of each request waits for.                   *)
LEMMA NeedsOf ==
    ASSUME NEW x
    PROVE  /\ x.at = "fence" => Needs(x) = {Lock("fence", x.hint, FenceMode(x.op))}
           /\ x.at = "session" => Needs(x) = {Lock("session", x.session, "share")}
           /\ x.at = "member" =>
                 Needs(x) = {Lock("user", x.user, "share"), Lock("member", x.member, "share")}
           /\ x.at = "account" =>
                 Needs(x) = {Lock("user", x.user, IF x.op = "reset" THEN "nokey" ELSE "update")}
           /\ x.at = "insert" => Needs(x) = {Lock("member", x.target, "share")}
           /\ x.at = "move" => Needs(x) = {Lock("session", x.session, "nokey")}
           /\ x.at = "target" =>
                 Needs(x) = {Lock("member", m, "update") : m \in {x.target} \cap Colleagues(x)}
           /\ x.at = "sessions" => Needs(x) = {Lock("session", s, "nokey") : s \in Revoked(x)}
           /\ x.at = "link" => Needs(x) = {Lock("reset", x.user, "update")}
           /\ x.at = "action" =>
                 Needs(x) = {Lock("action", x.target,
                                  IF x.op = "accept" THEN "update" ELSE "nokey")}
           /\ x.at = "invitation" =>
                 Needs(x) = {Lock("invitation", i, IF x.op = "accept" THEN "update" ELSE "nokey") :
                               i \in {x.target} \cap Open}
           /\ x.at = "create" =>
                 Needs(x) = {Lock("invitation", i, "nokey") : i \in {j \in Open : expired[j]}}
           /\ x.at \in {"read", "join", None} => Needs(x) = {}
  BY NoneIsAbsent, Zenon DEF Needs

(* What a request holds keeps others from taking it.                       *)
LEMMA LockExcludes ==
    ASSUME NEW r \in Requests, NEW q \in Requests, r # q,
           NEW table, NEW id, NEW a, NEW b, Conflict(a, b),
           Lock(table, id, a) \in locks[r]
    PROVE  /\ LocksCompatible => Lock(table, id, b) \notin locks[q]
           /\ Blockers(q) = {} => Lock(table, id, b) \notin Needs(tx[q])
<1>1. \A m : Lock(table, id, m).table = table /\ Lock(table, id, m).id = id
             /\ Lock(table, id, m).mode = m
  BY DEF Lock
<1> QED
  BY <1>1, ConflictBothWays DEF LocksCompatible, Blockers

(* The pairs of locks that exclude each other.                             *)
LEMMA Conflicts ==
    /\ \A m : Conflict("update", m) /\ Conflict(m, "update")
    /\ Conflict("nokey", "nokey") /\ Conflict("nokey", "share") /\ Conflict("share", "nokey")
<1>1. {"nokey", "nokey"} = {"nokey"} /\ {"share", "nokey"} = {"nokey", "share"}
  OBVIOUS
<1> QED
  BY <1>1 DEF Conflict

-----------------------------------------------------------------------------
(* What each request holds and knows.                                      *)

(* The context after a statement.                                          *)
LEMMA Continued ==
    ASSUME TypeOK, NEW r \in Requests, NEW x \in Contexts, NEW at, Continue(r, x, at)
    PROVE  /\ tx'[r].op = x.op /\ tx'[r].at = at /\ tx'[r].user = x.user
           /\ tx'[r].session = x.session /\ tx'[r].member = x.member
           /\ tx'[r].target = x.target /\ tx'[r].hint = x.hint /\ tx'[r].new = x.new
           /\ locks'[r] = locks[r] \cup Needs(tx[r])
           /\ UNCHANGED <<password, member, session, invitation>>
  BY DEF Continue, TypeOK, Contexts, accounts, invites

(* A request that starts holds no lock.                                    *)
LEMMA StartHolds ==
    ASSUME Inv, NEW r \in Requests, Starting(r)
    PROVE  Holds(r)' /\ Knows(r)'
<1>0. TypeOK /\ LiveRows /\ Holds(r)
  BY DEF Inv
<1>1. PICK x \in Contexts :
          /\ Starts(r, x)
          /\ x.op \in Ops \ {None} /\ x.at \in StagesOf(x.op)
          /\ \/ /\ x.op = "login" /\ x.at = "account" /\ x.user \in Users
                /\ x.hint \in Nat \ {0}
             \/ x.op = "reset" /\ x.at = "link" /\ x.user \in Users
             \/ x.op \in {"use", "manage"} /\ x.at = "fence" /\ x.session \in Sessions
             \/ /\ x.op = "accept" /\ x.at = "action" /\ x.user = UserOf[Joining]
                /\ x.target \in Invitations /\ invitation[x.target] # None
  BY <1>0, StartTypes
<1>2. locks[r] = {}
  BY <1>0, <1>1, IdleTypes DEF Starts, Holds
<1>3. tx'[r] = x /\ locks' = locks /\ UNCHANGED invitation
  BY <1>0, <1>1 DEF Starts, TypeOK, invites
<1>4. Holds(r)'
  BY <1>1, <1>2, <1>3, NoneIsAbsent DEF Holds, Fenced, ManageOps
<1>5. UserOf[Joining] \in Users
  BY SessionsAssumption
<1>6. Knows(r)'
  BY <1>1, <1>3, <1>5, NoneIsAbsent DEF Knows, Fenced, ManageOps
<1> QED
  BY <1>4, <1>6

(* A request that ended holds nothing.                                     *)
LEMMA EndHolds ==
    ASSUME TypeOK, NEW r \in Requests, Ends(r)
    PROVE  Holds(r)' /\ Knows(r)'
<1>1. tx'[r] = Idle /\ locks'[r] = {}
  BY DEF Ends, TypeOK
<1>2. Holds(r)'
  BY <1>1, IdleTypes, StageTypes, NoneIsAbsent DEF Holds, Fenced, ManageOps
<1>3. Knows(r)'
  BY <1>1, IdleTypes, NoneIsAbsent DEF Knows, Fenced, ManageOps
<1> QED
  BY <1>2, <1>3

(* Where the count exceeds one, there is an owner besides any given one.    *)
LEMMA CountedTwice ==
    ASSUME NEW t, OwnerCount(t) > 1, NEW m \in Members
    PROVE  \E n \in Members \ {m} : TenantOf[n] = t /\ member[n] = ActiveOwner
<1> DEFINE owners == {n \in Members : TenantOf[n] = t /\ member[n] = ActiveOwner}
<1>1. CASE owners \subseteq {m}
  <2>1. IsFiniteSet({m}) /\ Cardinality({m}) = 1
    BY FS_Singleton
  <2>2. Cardinality(owners) <= 1
    BY <1>1, <2>1, FS_Subset
  <2>3. Cardinality(owners) \in Nat
    BY <1>1, <2>1, FS_Subset, FS_CardinalityType
  <2>4. Cardinality(owners) > 1
    BY DEF OwnerCount
  <2> HIDE DEF owners
  <2> QED
    BY <2>2, <2>3, <2>4
<1> QED
  BY <1>1

(* The locks a request gets are added to those it has, so it only has to   *)
(* be seen what a statement is about to rely on.                           *)
LEMMA StatementHolds ==
    ASSUME Inv, NEW r \in Requests, Statement(r), ~Ends(r)
    PROVE  Holds(r)' /\ Knows(r)'
<1> DEFINE x == tx[r]
<1>0. TypeOK /\ x \in Contexts /\ Holds(r) /\ Knows(r) /\ LiveRows
  BY DEF Inv, TypeOK
<1>1. CASE LoginAccount(r)
  <2> DEFINE mine == {m \in Members : UserOf[m] = x.user /\ Active(m)}
             y == [x EXCEPT !.target = Min(mine)]
  <2>1. /\ x.op = "login" /\ x.at = "account" /\ mine # {} /\ x.hint = password[x.user]
        /\ Continue(r, y, "insert")
    BY <1>1 DEF LoginAccount, SamePassword, Refused, Runs
  <2>2. Min(mine) \in Members
    BY <2>1, MinMember
  <2>3. y \in Contexts /\ y.op = x.op /\ y.user = x.user /\ y.hint = x.hint
        /\ y.target = Min(mine)
    BY <1>0, <2>2 DEF Contexts
  <2>4. Needs(x) = {Lock("user", x.user, "update")} /\ locks[r] = {}
    BY <1>0, <2>1, NeedsOf DEF Holds
  <2> HIDE DEF x, y, mine
  <2>5. Holds(r)'
    BY <1>0, <2>1, <2>3, <2>4, Continued, StageTypes, NoneIsAbsent
       DEF Holds, Fenced, ManageOps, x
  <2>6. Knows(r)'
    BY <1>0, <2>1, <2>2, <2>3, Continued, NoneIsAbsent DEF Knows, Fenced, ManageOps, x
  <2> QED
    BY <2>5, <2>6
<1>2. CASE Fence(r)
  <2>1. x.at = "fence" /\ x.op \in {"use", "manage"} /\ Continue(r, x, "session")
    BY <1>0, <1>2, NoneIsAbsent DEF Fence, Runs, Holds, StagesOf
  <2>2. /\ locks[r] = {}
        /\ Needs(x) = {Lock("fence", x.hint, FenceMode(x.op))}
        /\ Lock("fence", x.hint, FenceMode(x.op)).table = "fence"
    BY <1>0, <2>1, NeedsOf DEF Holds, Lock
  <2> HIDE DEF x
  <2>3. Holds(r)'
    BY <1>0, <2>1, <2>2, Continued, StageTypes, NoneIsAbsent DEF Holds, Fenced, ManageOps, x
  <2>4. Knows(r)'
    BY <1>0, <2>1, Continued, NoneIsAbsent DEF Knows, Fenced, ManageOps, x
  <2> QED
    BY <2>3, <2>4
<1>3. CASE PrincipalSession(r)
  <2> DEFINE y == [x EXCEPT !.member = session[x.session].member]
  <2>1. /\ x.at = "session" /\ x.op \in {"use", "manage", "accept"}
        /\ Live(x.session) /\ Continue(r, y, "member")
    BY <1>0, <1>3, NoneIsAbsent DEF PrincipalSession, Refused, Runs, Holds, StagesOf
  <2>2. x.session \in Sessions /\ session[x.session].member \in Members
    BY <1>0, <2>1 DEF Knows, LiveRows
  <2>3. y \in Contexts /\ y.op = x.op /\ y.user = x.user /\ y.hint = x.hint
        /\ y.session = x.session /\ y.target = x.target /\ y.member = session[x.session].member
    BY <1>0, <2>2 DEF Contexts
  <2>4. Needs(x) = {Lock("session", x.session, "share")}
        /\ Lock("session", x.session, "share").table = "session"
    BY <2>1, NeedsOf DEF Lock
  <2> HIDE DEF x, y
  <2>5. Holds(r)'
    BY <1>0, <2>1, <2>3, <2>4, Continued, StageTypes, NoneIsAbsent
       DEF Holds, Fenced, ManageOps, x
  <2>6. Knows(r)'
    BY <1>0, <2>1, <2>2, <2>3, Continued, NoneIsAbsent
       DEF Knows, Fenced, ManageOps, Live, Open, x
  <2> QED
    BY <2>5, <2>6
<1>4. ASSUME NEW job \in Jobs(x), PrincipalMember(r, job)
      PROVE  Holds(r)' /\ Knows(r)'
  <2> DEFINE y == [x EXCEPT !.op = job.op, !.target = job.target]
  <2>1. /\ x.at = "member" /\ Usable(x.session, x.member) /\ Continue(r, y, job.at)
        /\ x.op # "accept" => TenantOf[x.member] = x.hint
        /\ job.op \in {"invite", "revoke"} => x.hint = TenantOf[Joining]
    BY <1>4 DEF PrincipalMember, Refused, Runs
  <2>2. /\ x.session \in Sessions /\ x.member \in Members /\ Live(x.session)
        /\ x.op \in {"use", "manage", "accept"}
        /\ x.op \in {"use", "manage"} =>
              Lock("fence", x.hint, FenceMode(x.op)) \in locks[r]
        /\ Lock("session", x.session, "share") \in locks[r]
    BY <1>0, <2>1, NoneIsAbsent DEF Holds, Knows, StagesOf, Fenced, ManageOps
  <2>3. /\ y \in Contexts /\ y.op = job.op /\ y.user = x.user /\ y.hint = x.hint
        /\ y.session = x.session /\ y.target = job.target /\ y.member = x.member
    BY <1>0, JobTypes DEF Contexts
  <2>4. FenceMode(job.op) = FenceMode(x.op)
    BY <1>0, JobTypes DEF FenceMode
  <2>5. job.op = "invite" => Staffed
    <3>1. member[x.member] # NoMember
      BY <2>1, NoneIsAbsent DEF Usable, Active, NoMember
    <3>2. job.op = "invite" => TenantOf[x.member] = TenantOf[Joining]
      BY <1>0, <2>1, JobTypes
    <3> QED
      BY <2>2, <3>1, <3>2 DEF Staffed
  <2>6. job.at \notin {"fence", "session", "member", "insert"}
        /\ job.op \notin {None, "login", "reset", "use", "manage"}
    BY <1>0, JobTypes, NoneIsAbsent
  <2> HIDE DEF x, y
  <2>7. Holds(r)'
    <3>1. /\ tx'[r].op = job.op /\ tx'[r].at = job.at /\ tx'[r].session = x.session
          /\ tx'[r].hint = x.hint /\ tx'[r].target = job.target
          /\ locks[r] \subseteq locks'[r]
      BY <1>0, <2>1, <2>3, Continued DEF x
    <3>2. job.op = "accept" => job.target = x.target /\ x.op = "accept" /\ job.at = "join"
      BY <1>0, JobTypes, NoneIsAbsent DEF ManageOps
    <3>3. /\ job.at \in StagesOf(job.op)
          /\ job.op \in Fenced => x.op \in {"use", "manage"}
          /\ job.op = "revoke" => job.at # "action"
      BY <1>0, JobTypes, NoneIsAbsent DEF ManageOps, Fenced
    <3>4. x.op = "accept" => Lock("invitation", x.target, "update") \in locks[r]
      BY <1>0, <2>1 DEF Holds, x
    <3> QED
      BY <2>2, <2>4, <2>6, <3>1, <3>2, <3>3, <3>4 DEF Holds
  <2>8. Knows(r)'
    <3>1. /\ tx'[r].op = job.op /\ tx'[r].at = job.at /\ tx'[r].session = x.session
          /\ tx'[r].hint = x.hint /\ tx'[r].target = job.target /\ tx'[r].user = x.user
          /\ tx'[r].member = x.member
          /\ UNCHANGED <<password, member, session, invitation>>
      BY <1>0, <2>1, <2>3, Continued DEF x
    <3>2. CASE x.op = "use"
      <4>1. \/ job.op \in {"logout", "others"}
            \/ job.op = "switch" /\ job.target \in Members
        BY <1>0, <3>2, JobTypes
      <4> QED
        BY <2>2, <2>6, <3>1, <4>1, NoneIsAbsent DEF Knows, Fenced, ManageOps, Live
    <3>3. CASE x.op = "manage"
      <4>1. \/ job.op = "invite"
            \/ job.op = "update" /\ job.at = "target" /\ job.target \in Members
               /\ TenantOf[job.target] = x.hint
            \/ job.op = "revoke" /\ job.at = "invitation" /\ job.target \in Invitations
        BY <1>0, <3>3, JobTypes
      <4>2. Staffed <=> Staffed'
        BY <3>1 DEF Staffed
      <4> QED
        BY <2>1, <2>2, <2>5, <2>6, <3>1, <3>3, <4>1, <4>2, NoneIsAbsent
           DEF Knows, Fenced, ManageOps, Live
    <3>4. CASE x.op = "accept"
      <4>1. job.op = "accept" /\ job.target = x.target /\ job.at = "join"
        BY <1>0, <3>4, JobTypes
      <4>2. /\ x.user \in Users /\ x.user = UserOf[Joining] /\ x.target \in Invitations
            /\ invitation[x.target] # None /\ x.target \in Open
        BY <1>0, <2>1, <3>4 DEF Knows, x
      <4> QED
        BY <3>1, <4>1, <4>2, NoneIsAbsent DEF Knows, Fenced, ManageOps, Open
    <3> QED
      BY <2>2, <3>2, <3>3, <3>4
  <2> QED
    BY <2>7, <2>8
<1>5. CASE SwitchRead(r) \/ SwitchMove(r)
  <2>1. /\ x.op = "switch"
        /\ Continue(r, x, "move") \/ Continue(r, x, "insert")
    BY <1>0, <1>5, NoneIsAbsent
       DEF SwitchRead, SwitchMove, Refused, Runs, Holds, StagesOf
  <2> HIDE DEF x
  <2>2. Holds(r)'
    BY <1>0, <2>1, Continued, StageTypes, NoneIsAbsent DEF Holds, Fenced, ManageOps, x
  <2>3. Knows(r)'
    BY <1>0, <2>1, Continued, NoneIsAbsent DEF Knows, Fenced, ManageOps, Live, x
  <2> QED
    BY <2>2, <2>3
<1>6. CASE ResetLink(r) \/ ResetAccount(r)
  <2>1. /\ x.op = "reset"
        /\ \/ Continue(r, x, "account")
           \/ x.at = "account" /\ Continue(r, x, "sessions")
    BY <1>0, <1>6, NoneIsAbsent DEF ResetLink, ResetAccount, Refused, Runs, Holds, StagesOf
  <2>2. x.at = "account" => Needs(x) = {Lock("user", x.user, "nokey")}
    BY <2>1, NeedsOf
  <2> HIDE DEF x
  <2>3. Holds(r)'
    BY <1>0, <2>1, <2>2, Continued, StageTypes, NoneIsAbsent DEF Holds, Fenced, ManageOps, x
  <2>4. Knows(r)'
    BY <1>0, <2>1, Continued, NoneIsAbsent DEF Knows, Fenced, ManageOps, x
  <2> QED
    BY <2>3, <2>4
<1>7. ASSUME NEW new \in Edits, UpdateTarget(r, new)
      PROVE  Holds(r)' /\ Knows(r)'
  <2> DEFINE y == [x EXCEPT !.new = new]
  <2>1. /\ x.at = "target" /\ x.op = "update" /\ Continue(r, y, "sessions")
        /\ x.target \in Colleagues(x)
        /\ member[x.target] = ActiveOwner /\ new # ActiveOwner =>
              OwnerCount(TenantOf[x.member]) > 1
    BY <1>0, <1>7, NoneIsAbsent DEF UpdateTarget, Refused, Runs, Holds, StagesOf
  <2>2. x.member \in Members /\ TenantOf[x.member] = x.hint /\ x.session \in Sessions
        /\ x.target \in Members /\ TenantOf[x.target] = x.hint
    BY <1>0, <2>1 DEF Knows, Fenced, ManageOps
  <2>3. y \in Contexts /\ y.op = x.op /\ y.user = x.user /\ y.hint = x.hint /\ y.new = new
        /\ y.session = x.session /\ y.target = x.target /\ y.member = x.member
    BY <1>0, SessionsAssumption DEF Contexts, MemberRows
  <2>4. member[x.target] # NoMember
    BY <2>1 DEF Colleagues
  <2>5. member[x.target] = ActiveOwner /\ new # ActiveOwner => OtherOwner(x.target)
    BY <2>1, <2>2, CountedTwice DEF OtherOwner
  <2> HIDE DEF x, y
  <2>6. Holds(r)'
    BY <1>0, <2>1, <2>3, Continued, StageTypes, NoneIsAbsent DEF Holds, Fenced, ManageOps, x
  <2>7. Knows(r)'
    <3>1. OtherOwner(x.target) => (\E n \in Members \ {x.target} :
              TenantOf[n] = TenantOf[x.target] /\ member'[n] = ActiveOwner)
      BY <1>0, <2>1, <2>3, Continued DEF OtherOwner
    <3> QED
      BY <1>0, <1>7, <2>1, <2>2, <2>3, <2>4, <2>5, <3>1, Continued, NoneIsAbsent
         DEF Knows, Fenced, ManageOps, OtherOwner, x
  <2> QED
    BY <2>6, <2>7
<1>8. CASE RevokeInvitation(r)
  <2>1. /\ x.at = "invitation" /\ x.op = "revoke" /\ x.target \in Open
        /\ Continue(r, x, "action")
    BY <1>8 DEF RevokeInvitation, Refused, Runs
  <2>2. Lock("invitation", x.target, "nokey") \in Needs(x)
    BY <2>1, NeedsOf
  <2> HIDE DEF x
  <2>3. Holds(r)'
    BY <1>0, <2>1, <2>2, Continued, StageTypes, NoneIsAbsent DEF Holds, Fenced, ManageOps, x
  <2>4. Knows(r)'
    BY <1>0, <2>1, Continued, NoneIsAbsent DEF Knows, Fenced, ManageOps, Open, x
  <2> QED
    BY <2>3, <2>4
<1>9. CASE AcceptAction(r)
  <2>1. x.op = "accept" /\ Continue(r, x, "invitation")
    BY <1>9 DEF AcceptAction, Refused
  <2> HIDE DEF x
  <2>2. Holds(r)'
    BY <1>0, <2>1, Continued, StageTypes, NoneIsAbsent DEF Holds, Fenced, ManageOps, x
  <2>3. Knows(r)'
    BY <1>0, <2>1, Continued, NoneIsAbsent DEF Knows, Fenced, ManageOps, x
  <2> QED
    BY <2>2, <2>3
<1>10. CASE AcceptInvitation(r)
  <2>1. /\ x.at = "invitation" /\ x.op = "accept" /\ x.target \in Open
        /\ Continue(r, x, "account")
    BY <1>10 DEF AcceptInvitation, StillOpen, Refused, Runs
  <2>2. Lock("invitation", x.target, "update") \in Needs(x)
    BY <2>1, NeedsOf
  <2> HIDE DEF x
  <2>3. Holds(r)'
    BY <1>0, <2>1, <2>2, Continued, StageTypes, NoneIsAbsent DEF Holds, Fenced, ManageOps, x
  <2>4. Knows(r)'
    BY <1>0, <2>1, Continued, NoneIsAbsent DEF Knows, Fenced, ManageOps, Open, x
  <2> QED
    BY <2>3, <2>4
<1>11. CASE AcceptAccount(r)
  <2>1. /\ x.at = "account" /\ x.op = "accept"
        /\ \/ Continue(r, x, "join")
           \/ Continue(r, x, "session") /\ x.session # None
    BY <1>11 DEF AcceptAccount, Refused, Runs
  <2>2. x.session # None => x.session \in Sessions
    BY <1>0 DEF Contexts
  <2> HIDE DEF x
  <2>3. Holds(r)'
    BY <1>0, <2>1, Continued, StageTypes, NoneIsAbsent DEF Holds, Fenced, ManageOps, x
  <2>4. Knows(r)'
    BY <1>0, <2>1, <2>2, Continued, NoneIsAbsent DEF Knows, Fenced, ManageOps, Open, x
  <2> QED
    BY <2>3, <2>4
<1>12. ~Commits(r)
  BY DEF Commits, LoginInsert, SwitchCommit, Logout, ResetCommit, UpdateCommit, Invite,
         RevokeCommit, AcceptCommit, Refused
<1> QED
  BY <1>1, <1>2, <1>3, <1>4, <1>5, <1>6, <1>7, <1>8, <1>9, <1>10, <1>11, <1>12
     DEF Statement, Commits

-----------------------------------------------------------------------------
(* What a commit leaves standing for the others.                           *)

(* A commit that closes sessions has the lock of each of them, and one     *)
(* that writes an invitation has that one's.                               *)
LEMMA CommitLocks ==
    ASSUME Inv, NEW r \in Requests, Commits(r), NEW q \in Requests, q # r
    PROVE  /\ Blockers(r) = {}
           /\ tx[r].at = "sessions" =>
                 \A s \in Revoked(tx[r]) :
                    /\ Lock("session", s, "share") \notin locks[q]
                    /\ Lock("session", s, "nokey") \notin locks[q]
           /\ tx[r].at = "create" =>
                 \A i \in Open : expired[i] =>
                    /\ Lock("invitation", i, "nokey") \notin locks[q]
                    /\ Lock("invitation", i, "update") \notin locks[q]
           /\ tx[r].op = "revoke" \/ (tx[r].op = "accept" /\ tx[r].at = "join") =>
                 /\ Lock("invitation", tx[r].target, "nokey") \notin locks[q]
                 /\ Lock("invitation", tx[r].target, "update") \notin locks[q]
<1>1. Blockers(r) = {}
  BY DEF Commits, Runs, LoginInsert, SwitchCommit, Logout, ResetCommit, UpdateCommit, Invite,
         RevokeCommit, AcceptCommit
<1>2. ASSUME tx[r].at = "sessions", NEW s \in Revoked(tx[r])
      PROVE  /\ Lock("session", s, "share") \notin locks[q]
             /\ Lock("session", s, "nokey") \notin locks[q]
  <2>1. Lock("session", s, "nokey") \in Needs(tx[r])
    BY <1>2, NeedsOf
  <2> QED
    BY <1>1, <2>1, LockExcludes, Conflicts
<1>3. ASSUME tx[r].at = "create", NEW i \in Open, expired[i]
      PROVE  /\ Lock("invitation", i, "nokey") \notin locks[q]
             /\ Lock("invitation", i, "update") \notin locks[q]
  <2>1. Lock("invitation", i, "nokey") \in Needs(tx[r])
    BY <1>3, NeedsOf
  <2> QED
    BY <1>1, <2>1, LockExcludes, Conflicts
<1>4. ASSUME tx[r].op = "revoke" \/ (tx[r].op = "accept" /\ tx[r].at = "join")
      PROVE  /\ Lock("invitation", tx[r].target, "nokey") \notin locks[q]
             /\ Lock("invitation", tx[r].target, "update") \notin locks[q]
  <2>1. tx[r].op = "revoke" => tx[r].at = "action"
    BY <1>4 DEF Commits, Runs, LoginInsert, SwitchCommit, Logout, ResetCommit, UpdateCommit,
       Invite, RevokeCommit, AcceptCommit, Inv, Holds, StagesOf
  <2>2. \E mode \in {"nokey", "update"} : Lock("invitation", tx[r].target, mode) \in locks[r]
    BY <1>4, <2>1 DEF Inv, Holds
  <2> QED
    BY <2>2, LockExcludes, Conflicts DEF Inv
<1> QED
  BY <1>1, <1>2, <1>3, <1>4

(* A row with a password is a live session.                                *)
LEMMA LiveByPassword ==
    ASSUME NEW row, row.password # 0 PROVE row # NoSession
  BY DEF NoSession

(* A session another request holds stays.                                  *)
LEMMA LiveStays ==
    ASSUME Inv, NEW r \in Requests, Commits(r), NEW q \in Requests, q # r,
           NEW s \in Sessions, Live(s), Lock("session", s, "share") \in locks[q]
    PROVE  session'[s] # NoSession
<1> DEFINE x == tx[r]
<1>0. TypeOK /\ x \in Contexts /\ Holds(r) /\ Knows(r) /\ session[s].password # 0
  BY DEF Inv, TypeOK, LiveRows, SessionRows
<1>1. CASE session' = session
  BY <1>1 DEF Live
<1>2. ASSUME NEW t \in Sessions, LoginInsert(r, t), session' # session
      PROVE  session'[s] # NoSession
  <2>1. session'[s] = session[s]
    BY <1>0, <1>2 DEF LoginInsert, Live, TypeOK, Refused, accounts
  <2> QED
    BY <2>1 DEF Live
<1>3. ASSUME SwitchCommit(r), session' # session
      PROVE  session'[s] # NoSession
  <2>1. session' = [session EXCEPT ![x.session].member = x.target]
    BY <1>3 DEF SwitchCommit, Refused, accounts
  <2>2. session'[s].password = session[s].password
    BY <1>0, <2>1 DEF TypeOK, SessionRows
  <2> QED
    BY <1>0, <2>2, LiveByPassword
<1>4. ASSUME x.at = "sessions", session' = Close(session, Revoked(x))
      PROVE  session'[s] # NoSession
  <2>1. s \notin Revoked(x)
    BY <1>4, CommitLocks
  <2> QED
    BY <1>4, <2>1 DEF Close, Live
<1>5. CASE Logout(r) \/ ResetCommit(r) \/ UpdateCommit(r)
  BY <1>4, <1>5 DEF Logout, ResetCommit, UpdateCommit, Runs
<1>6. CASE (\E i \in Invitations : Invite(r, i)) \/ RevokeCommit(r)
           \/ (\E role \in Roles : AcceptCommit(r, role))
  BY <1>1, <1>6 DEF Invite, RevokeCommit, AcceptCommit, Refused, accounts
<1> QED
  BY <1>1, <1>2, <1>3, <1>5, <1>6 DEF Commits

(* Who writes invitations, and what.                                       *)
LEMMA InvitationWrites ==
    ASSUME Inv, NEW r \in Requests, Commits(r), NEW i \in Invitations,
           invitation'[i] # invitation[i]
    PROVE  \/ /\ tx[r].at = "create" /\ tx[r].op = "invite"
              /\ \A j \in Open : expired[j]
              /\ \/ invitation[i] = None /\ invitation'[i] = "PENDING"
                 \/ i \in Open /\ invitation'[i] = "REVOKED"
           \/ tx[r].op = "revoke" /\ i = tx[r].target /\ i \in Open /\ invitation'[i] = "REVOKED"
           \/ /\ tx[r].op = "accept" /\ tx[r].at = "join" /\ i = tx[r].target /\ i \in Open
              /\ invitation'[i] = "ACCEPTED"
<1> DEFINE x == tx[r]
<1>0. TypeOK /\ x \in Contexts /\ Holds(r) /\ Knows(r) /\ invitation' # invitation
  BY DEF Inv, TypeOK
<1>1. ~Refused(r)
  BY <1>0 DEF Refused, invites
<1>2. ASSUME NEW j \in Invitations, Invite(r, j)
      PROVE  /\ x.at = "create" /\ x.op = "invite" /\ \A k \in Open : expired[k]
             /\ \/ invitation[i] = None /\ invitation'[i] = "PENDING"
                \/ i \in Open /\ invitation'[i] = "REVOKED"
  <2>1. x.at = "create" /\ (\A k \in Open : expired[k]) /\ invitation[j] = None
        /\ invitation' = [k \in Invitations |->
                             IF k = j THEN "PENDING"
                             ELSE IF k \in Open THEN "REVOKED" ELSE invitation[k]]
    BY <1>1, <1>2 DEF Invite, Runs
  <2>2. x.op = "invite"
    BY <1>0, <2>1, NoneIsAbsent DEF Holds, StagesOf
  <2> QED
    BY <2>1, <2>2
<1>3. CASE RevokeCommit(r)
  <2>1. x.op = "revoke" /\ x.at = "action"
        /\ invitation' = [invitation EXCEPT ![x.target] = "REVOKED"]
    BY <1>3 DEF RevokeCommit, Runs
  <2> QED
    BY <1>0, <2>1 DEF Knows, TypeOK
<1>4. ASSUME NEW role \in Roles, AcceptCommit(r, role)
      PROVE  /\ x.op = "accept" /\ x.at = "join" /\ i = x.target /\ i \in Open
             /\ invitation'[i] = "ACCEPTED"
  <2>1. x.at = "join" /\ invitation' = [invitation EXCEPT ![x.target] = "ACCEPTED"]
    BY <1>1, <1>4 DEF AcceptCommit, Runs
  <2>2. x.op = "accept"
    BY <1>0, <2>1, NoneIsAbsent DEF Holds, StagesOf
  <2> QED
    BY <1>0, <2>1, <2>2 DEF Knows, TypeOK
<1>5. CASE (\E s \in Sessions : LoginInsert(r, s)) \/ SwitchCommit(r) \/ Logout(r)
           \/ ResetCommit(r) \/ UpdateCommit(r)
  BY <1>0, <1>1, <1>5 DEF LoginInsert, SwitchCommit, Logout, ResetCommit, UpdateCommit, invites
<1> QED
  BY <1>2, <1>3, <1>4, <1>5 DEF Commits

(* An invitation another request holds stays as it is.                     *)
LEMMA OpenStays ==
    ASSUME Inv, NEW r \in Requests, Commits(r), NEW q \in Requests, q # r,
           NEW i \in Open, NEW mode \in {"nokey", "update"},
           Lock("invitation", i, mode) \in locks[q]
    PROVE  invitation'[i] = invitation[i]
<1>1. i \in Invitations /\ invitation[i] # None
  BY NoneIsAbsent DEF Open
<1>2. SUFFICES ASSUME invitation'[i] # invitation[i] PROVE FALSE
  OBVIOUS
<1> QED
  BY <1>1, <1>2, InvitationWrites, CommitLocks

(* An edit leaves a membership, and so does joining.                       *)
LEMMA RealMembers ==
    /\ \A new \in Edits : new # NoMember
    /\ \A role \in Roles : [role |-> role, status |-> "ACTIVE"] # NoMember
  BY SessionsAssumption, NoneIsAbsent DEF NoMember, Roles

(* Who writes memberships, and what.                                       *)
LEMMA MemberWrites ==
    ASSUME Inv, NEW r \in Requests, Commits(r), NEW m \in Members, member'[m] # member[m]
    PROVE  \/ /\ tx[r].op = "update" /\ tx[r].at = "sessions" /\ m = tx[r].target
              /\ member[m] # NoMember
              /\ member'[m] = tx[r].new /\ tx[r].new \in Edits
              /\ UpdateCommit(r)
           \/ /\ tx[r].op = "accept" /\ tx[r].at = "join" /\ m = Joining
              /\ member[m] = NoMember
              /\ \E role \in Roles : member'[m] = [role |-> role, status |-> "ACTIVE"]
              /\ tx[r].target \in Open /\ invitation'[tx[r].target] = "ACCEPTED"
              /\ UNCHANGED session
<1> DEFINE x == tx[r]
<1>0. TypeOK /\ x \in Contexts /\ Holds(r) /\ Knows(r) /\ member' # member
  BY DEF Inv, TypeOK
<1>1. ~Refused(r)
  BY <1>0 DEF Refused, accounts
<1>2. CASE UpdateCommit(r)
  <2>1. x.op = "update" /\ x.at = "sessions" /\ member' = [member EXCEPT ![x.target] = x.new]
    BY <1>2 DEF UpdateCommit, Runs
  <2> QED
    BY <1>0, <1>2, <2>1 DEF Knows, TypeOK
<1>3. ASSUME NEW role \in Roles, AcceptCommit(r, role)
      PROVE  /\ x.op = "accept" /\ x.at = "join" /\ m = Joining /\ member[m] = NoMember
             /\ member'[m] = [role |-> role, status |-> "ACTIVE"]
             /\ x.target \in Open /\ invitation'[x.target] = "ACCEPTED"
             /\ UNCHANGED session
  <2>1. /\ x.at = "join" /\ member[Joining] = NoMember
        /\ member' = [member EXCEPT ![Joining] = [role |-> role, status |-> "ACTIVE"]]
        /\ invitation' = [invitation EXCEPT ![x.target] = "ACCEPTED"]
        /\ UNCHANGED session
    BY <1>1, <1>3 DEF AcceptCommit, Runs
  <2>2. x.op = "accept"
    BY <1>0, <2>1, NoneIsAbsent DEF Holds, StagesOf
  <2>3. x.target \in Open /\ x.target \in Invitations
    BY <1>0, <2>1, <2>2 DEF Knows
  <2> QED
    BY <1>0, <2>1, <2>2, <2>3 DEF TypeOK
<1>4. CASE (\E s \in Sessions : LoginInsert(r, s)) \/ SwitchCommit(r) \/ Logout(r)
           \/ ResetCommit(r) \/ (\E i \in Invitations : Invite(r, i)) \/ RevokeCommit(r)
  BY <1>0, <1>1, <1>4 DEF LoginInsert, SwitchCommit, Logout, ResetCommit, Invite, RevokeCommit,
     accounts
<1> QED
  BY <1>2, <1>3, <1>4 DEF Commits

(* Who writes passwords, and what.                                         *)
LEMMA PasswordWrites ==
    ASSUME Inv, NEW r \in Requests, Commits(r), NEW u \in Users, password'[u] # password[u]
    PROVE  \/ /\ tx[r].op = "reset" /\ tx[r].at = "sessions" /\ u = tx[r].user
              /\ session' = Close(session, {s \in Sessions : session[s].user = u})
           \/ password[u] = 0 /\ UNCHANGED session
<1> DEFINE x == tx[r]
<1>0. TypeOK /\ x \in Contexts /\ Holds(r) /\ Knows(r) /\ password' # password
  BY DEF Inv, TypeOK
<1>1. ~Refused(r)
  BY <1>0 DEF Refused, accounts
<1>2. CASE ResetCommit(r)
  <2>1. /\ x.op = "reset" /\ x.at = "sessions"
        /\ password' = [password EXCEPT ![x.user] = @ + 1]
        /\ session' = Close(session, Revoked(x))
    BY <1>2 DEF ResetCommit, Runs
  <2>2. u = x.user
    BY <1>0, <2>1 DEF TypeOK
  <2>3. Revoked(x) = {s \in Sessions : session[s].user = x.user}
    BY <2>1 DEF Revoked
  <2> QED
    BY <2>1, <2>2, <2>3
<1>3. ASSUME NEW role \in Roles, AcceptCommit(r, role)
      PROVE  password[u] = 0 /\ UNCHANGED session
  <2>1. /\ password' = [password EXCEPT ![x.user] = IF @ = 0 THEN 1 ELSE @]
        /\ UNCHANGED session
    BY <1>1, <1>3 DEF AcceptCommit
  <2> QED
    BY <1>0, <2>1 DEF TypeOK
<1>4. CASE (\E s \in Sessions : LoginInsert(r, s)) \/ SwitchCommit(r) \/ Logout(r)
           \/ UpdateCommit(r) \/ (\E i \in Invitations : Invite(r, i)) \/ RevokeCommit(r)
  BY <1>0, <1>1, <1>4 DEF LoginInsert, SwitchCommit, Logout, UpdateCommit, Invite, RevokeCommit,
     accounts
<1> QED
  BY <1>2, <1>3, <1>4 DEF Commits

(* Nobody leaves, and an invitation never becomes none.                    *)
LEMMA StaffStays ==
    ASSUME Inv, [Next]_vars
    PROVE  /\ \A m \in Members : member[m] # NoMember => member'[m] # NoMember
           /\ \A i \in Invitations : invitation[i] # None => invitation'[i] # None
           /\ Staffed => Staffed'
<1>1. ASSUME NEW r \in Requests, Commits(r), NEW m \in Members, member[m] # NoMember
      PROVE  member'[m] # NoMember
  BY <1>1, MemberWrites, RealMembers
<1>2. ASSUME NEW r \in Requests, Commits(r), NEW i \in Invitations, invitation[i] # None
      PROVE  invitation'[i] # None
  BY <1>2, InvitationWrites, NoneIsAbsent
<1>3. CASE UNCHANGED <<member, invitation>>
  BY <1>3 DEF Staffed
<1>4. \/ UNCHANGED <<member, invitation>>
      \/ \E r \in Requests : Commits(r)
  BY Writers DEF accounts, invites, ForgotPassword, Expire, SessionExpires
<1> QED
  BY <1>1, <1>2, <1>3, <1>4 DEF Staffed

(* The owner a demotion relies on stays one, and the demoted a member: the *)
(* fence keeps other edits of the organisation out.                        *)
LEMMA OwnersStay ==
    ASSUME Inv, NEW r \in Requests, Commits(r), NEW q \in Requests, q # r,
           tx[q].op = "update", tx[q].at = "sessions",
           NEW m \in Members, TenantOf[m] = tx[q].hint, member[m] # NoMember
    PROVE  member'[m] = member[m]
<1>1. SUFFICES ASSUME member'[m] # member[m] PROVE FALSE
  OBVIOUS
<1>2. /\ tx[r].op = "update" /\ tx[r].at = "sessions"
      /\ m = tx[r].target
  BY <1>1, MemberWrites
<1>3. tx[r].hint = tx[q].hint
  BY <1>2 DEF Inv, Knows
<1>4. /\ Lock("fence", tx[q].hint, "update") \in locks[q]
      /\ Lock("fence", tx[q].hint, "update") \in locks[r]
  BY <1>2, <1>3 DEF Inv, Holds, Fenced, ManageOps, FenceMode
<1> QED
  BY <1>4, LockExcludes, Conflicts DEF Inv

(* What a request knows stays true while others commit.                    *)
LEMMA OthersCommit ==
    ASSUME Inv, [Next]_vars, NEW r \in Requests, Commits(r), NEW q \in Requests, q # r,
           tx'[q] = tx[q], locks'[q] = locks[q]
    PROVE  Knows(q)'
<1> DEFINE x == tx[q]
<1>0. TypeOK /\ Holds(q) /\ Knows(q) /\ LocksCompatible /\ x \in Contexts
  BY DEF Inv, TypeOK
<1>1. ASSUME x.at = "member" \/ x.op = "switch" PROVE session'[x.session] # NoSession
  <2>1. /\ x.session \in Sessions /\ Live(x.session)
        /\ Lock("session", x.session, "share") \in locks[q]
    BY <1>0, <1>1, NoneIsAbsent DEF Knows, Holds, Fenced
  <2> QED
    BY <2>1, LiveStays
<1>2. ASSUME x.op = "login", x.at = "insert" PROVE password'[x.user] = x.hint
  <2>1. /\ x.user \in Users /\ x.hint = password[x.user] /\ x.hint # 0
        /\ Lock("user", x.user, "update") \in locks[q]
    BY <1>0, <1>2 DEF Knows, Holds
  <2>2. SUFFICES ASSUME password'[x.user] # password[x.user] PROVE FALSE
    BY <2>1
  <2>3. tx[r].op = "reset" /\ tx[r].at = "sessions" /\ x.user = tx[r].user
    BY <2>1, <2>2, PasswordWrites
  <2>4. Lock("user", x.user, "nokey") \in locks[r]
    BY <2>3 DEF Inv, Holds
  <2> HIDE DEF x
  <2> QED
    BY <1>0, <2>1, <2>4, LockExcludes, Conflicts
<1>3. ASSUME x.op = "update", x.at = "sessions"
      PROVE  /\ member'[x.target] = member[x.target]
             /\ OtherOwner(x.target) => OtherOwner(x.target)'
  <2>1. x.target \in Members /\ TenantOf[x.target] = x.hint /\ member[x.target] # NoMember
    BY <1>0, <1>3 DEF Knows
  <2>2. member'[x.target] = member[x.target]
    BY <1>3, <2>1, OwnersStay
  <2>3. ASSUME NEW n \in Members, TenantOf[n] = TenantOf[x.target], member[n] = ActiveOwner
        PROVE  member'[n] = ActiveOwner
    BY <1>3, <2>1, <2>3, OwnersStay, IdleTypes
  <2> QED
    BY <2>1, <2>2, <2>3 DEF OtherOwner
<1>4. ASSUME \/ x.op = "revoke" /\ x.at = "action"
             \/ x.op = "accept" /\ x.at \notin {"action", "invitation"}
      PROVE  x.target \in Open'
  <2>1. /\ x.target \in Open /\ x.target \in Invitations
        /\ \E mode \in {"nokey", "update"} : Lock("invitation", x.target, mode) \in locks[q]
    BY <1>0, <1>4 DEF Knows, Holds
  <2>2. invitation'[x.target] = invitation[x.target]
    BY <2>1, OpenStays
  <2> QED
    BY <2>1, <2>2 DEF Open
<1>5. /\ Staffed => Staffed'
      /\ \A i \in Invitations : invitation[i] # None => invitation'[i] # None
  BY StaffStays
<1> HIDE DEF x
<1>6. tx'[q] = x
  BY DEF x
<1> QED
  BY <1>0, <1>1, <1>2, <1>3, <1>4, <1>5, <1>6 DEF Knows, Live, x

(* Time and mail change nothing a request relies on.                       *)
LEMMA TimeKeeps ==
    ASSUME Inv, NEW q \in Requests,
           \/ \E u \in Users : ForgotPassword(u)
           \/ \E i \in Invitations : Expire(i)
           \/ \E s \in Sessions : SessionExpires(s)
    PROVE  Holds(q)' /\ Knows(q)'
<1>0. TypeOK /\ Holds(q) /\ Knows(q)
  BY DEF Inv
<1>1. /\ UNCHANGED <<tx, locks, password, member, invitation>>
      /\ \A s \in Sessions : tx[q].session = s => session'[s] = session[s]
  BY <1>0 DEF ForgotPassword, Expire, SessionExpires, TypeOK, accounts, invites
<1>2. Holds(q)'
  BY <1>0, <1>1 DEF Holds
<1>3. Knows(q)'
  <2>1. /\ Staffed => Staffed'
        /\ Open' = Open
        /\ tx[q].op = "update" => (OtherOwner(tx[q].target) => OtherOwner(tx[q].target)')
    BY <1>1 DEF Staffed, Open, OtherOwner
  <2>2. tx[q].at = "member" \/ tx[q].op = "switch" => session'[tx[q].session] # NoSession
    BY <1>0, <1>1 DEF Knows, Live, Fenced
  <2> QED
    BY <1>0, <1>1, <2>1, <2>2 DEF Knows, Live
<1> QED
  BY <1>2, <1>3

(* A request's statement is its own.                                       *)
LEMMA OneRequest ==
    ASSUME TypeOK, NEW r \in Requests, NEW q \in Requests, q # r
    PROVE  /\ \A x : Starts(r, x) => tx'[q] = tx[q] /\ locks'[q] = locks[q]
           /\ \A x, at : Continue(r, x, at) => tx'[q] = tx[q] /\ locks'[q] = locks[q]
           /\ Ends(r) => tx'[q] = tx[q] /\ locks'[q] = locks[q]
  BY DEF Starts, Continue, Ends, TypeOK

(* Every request goes on holding and knowing what it relies on.            *)
LEMMA RequestsStep ==
    ASSUME Inv, [Next]_vars, NEW q \in Requests
    PROVE  Holds(q)' /\ Knows(q)'
<1>0. TypeOK /\ Holds(q) /\ Knows(q)
  BY DEF Inv
<1>1. ASSUME UNCHANGED <<accounts, invites>>, tx'[q] = tx[q], locks'[q] = locks[q]
      PROVE  Holds(q)' /\ Knows(q)'
  <2>1. UNCHANGED <<password, member, session, invitation>>
    BY <1>1 DEF accounts, invites
  <2>2. Holds(q)'
    BY <1>0, <1>1 DEF Holds
  <2>3. Knows(q)'
    BY <1>0, <1>1, <2>1 DEF Knows, Live, Open, Staffed, OtherOwner
  <2> QED
    BY <2>2, <2>3
<1>2. ASSUME Commits(q) /\ Ends(q)
      PROVE  Holds(q)' /\ Knows(q)'
  BY <1>0, <1>2, EndHolds
<1>3. ASSUME NEW r \in Requests, r # q, Commits(r), Ends(r)
      PROVE  Holds(q)' /\ Knows(q)'
  <2>1. tx'[q] = tx[q] /\ locks'[q] = locks[q]
    BY <1>0, <1>3, OneRequest
  <2>2. Holds(q)'
    BY <1>0, <2>1 DEF Holds
  <2> QED
    BY <1>3, <2>1, <2>2, OthersCommit
<1>4. ASSUME UNCHANGED <<accounts, invites>>
      PROVE  Holds(q)' /\ Knows(q)'
  <2>1. CASE UNCHANGED vars
    BY <1>1, <2>1 DEF vars
  <2>2. ASSUME NEW r \in Requests, r # q, Starting(r) \/ Statement(r) \/ GiveUp(r)
        PROVE  Holds(q)' /\ Knows(q)'
    <3>1. tx'[q] = tx[q] /\ locks'[q] = locks[q]
      <4>1. CASE Starting(r)
        <5>1. \E x \in Contexts : Starts(r, x)
          BY <4>1, StartTypes DEF Inv
        <5> QED
          BY <1>0, <2>2, <5>1, OneRequest
      <4>2. CASE GiveUp(r)
        BY <1>0, <2>2, <4>2, OneRequest DEF GiveUp, Refused
      <4>3. CASE Statement(r)
        <5>1. Ends(r) \/ \E x \in Contexts : \E at \in StagesOf(x.op) : Continue(r, x, at)
          BY <4>3, GoesOn
        <5> QED
          BY <1>0, <2>2, <5>1, OneRequest
      <4> QED
        BY <2>2, <4>1, <4>2, <4>3
    <3> QED
      BY <1>1, <1>4, <3>1
  <2>3. CASE Starting(q)
    BY <2>3, StartHolds
  <2>4. CASE GiveUp(q)
    BY <1>0, <2>4, EndHolds DEF GiveUp, Refused
  <2>5. CASE Statement(q)
    BY <1>0, <2>5, StatementHolds, EndHolds
  <2>6. CASE \/ \E u \in Users : ForgotPassword(u)
             \/ \E i \in Invitations : Expire(i)
             \/ \E s \in Sessions : SessionExpires(s)
    BY <2>6, TimeKeeps
  <2> QED
    BY <2>1, <2>2, <2>3, <2>4, <2>5, <2>6 DEF Next
<1>5. CASE \/ \E u \in Users : ForgotPassword(u)
           \/ \E i \in Invitations : Expire(i)
           \/ \E s \in Sessions : SessionExpires(s)
  BY <1>5, TimeKeeps
<1> QED
  BY <1>2, <1>3, <1>4, <1>5, Writers

-----------------------------------------------------------------------------
(* The properties.                                                         *)

(* A live session after a step was live before, as it is, or it was        *)
(* inserted or moved by the step.                                          *)
LEMMA SessionWrites ==
    ASSUME Inv, [Next]_vars, NEW s \in Sessions, session'[s] # NoSession
    PROVE  \/ session'[s] = session[s]
           \/ \E r \in Requests :
                 /\ tx[r].op = "login" /\ tx[r].at = "insert"
                 /\ session'[s] = [user |-> tx[r].user, member |-> tx[r].target,
                                   password |-> tx[r].hint]
                 /\ Active(tx[r].target)
                 /\ UNCHANGED <<member, password>>
           \/ \E r \in Requests :
                 /\ tx[r].op = "switch"
                 /\ session'[s] = [session[s] EXCEPT !.member = tx[r].target]
                 /\ Live(s) /\ Active(tx[r].target)
                 /\ UNCHANGED <<member, password>>
<1>0. TypeOK
  BY DEF Inv
<1>1. SUFFICES ASSUME session'[s] # session[s]
               PROVE  \E r \in Requests :
                         \/ /\ tx[r].op = "login" /\ tx[r].at = "insert"
                            /\ session'[s] = [user |-> tx[r].user, member |-> tx[r].target,
                                              password |-> tx[r].hint]
                            /\ Active(tx[r].target)
                            /\ UNCHANGED <<member, password>>
                         \/ /\ tx[r].op = "switch"
                            /\ session'[s] = [session[s] EXCEPT !.member = tx[r].target]
                            /\ Live(s) /\ Active(tx[r].target)
                            /\ UNCHANGED <<member, password>>
  BY <1>1
<1>2. \E r \in Requests : Commits(r)
  <2>1. ASSUME NEW t \in Sessions, SessionExpires(t) PROVE session'[s] \in {session[s], NoSession}
    BY <1>0, <2>1 DEF SessionExpires, TypeOK
  <2>2. UNCHANGED <<accounts, invites>> \/ (\E u \in Users : ForgotPassword(u))
        \/ (\E i \in Invitations : Expire(i)) => session' = session
    BY DEF ForgotPassword, Expire, accounts
  <2> QED
    BY <1>1, <2>1, <2>2, Writers
<1>3. PICK r \in Requests : Commits(r)
  BY <1>2
<1> DEFINE x == tx[r]
<1>4. Holds(r) /\ Knows(r) /\ ~Refused(r)
  BY <1>1 DEF Inv, Refused, accounts
<1>5. ASSUME NEW gone, session' = Close(session, gone) PROVE FALSE
  BY <1>0, <1>1, <1>5, Closed
<1>6. ~Logout(r) /\ ~ResetCommit(r) /\ ~UpdateCommit(r)
  BY <1>5 DEF Logout, ResetCommit, UpdateCommit
<1>7. (\A i \in Invitations : ~Invite(r, i)) /\ ~RevokeCommit(r)
      /\ (\A role \in Roles : ~AcceptCommit(r, role))
  BY <1>1, <1>4 DEF Invite, RevokeCommit, AcceptCommit, accounts
<1>8. ASSUME NEW t \in Sessions, LoginInsert(r, t)
      PROVE  /\ x.op = "login" /\ x.at = "insert"
             /\ session'[s] = [user |-> x.user, member |-> x.target, password |-> x.hint]
             /\ Active(x.target)
             /\ UNCHANGED <<member, password>>
  BY <1>0, <1>1, <1>4, <1>8 DEF LoginInsert, Usable, Runs, TypeOK
<1>9. ASSUME SwitchCommit(r)
      PROVE  /\ x.op = "switch"
             /\ session'[s] = [session[s] EXCEPT !.member = x.target]
             /\ Live(s) /\ Active(x.target)
             /\ UNCHANGED <<member, password>>
  <2>1. /\ x.op = "switch" /\ Active(x.target)
        /\ session' = [session EXCEPT ![x.session].member = x.target]
        /\ UNCHANGED <<member, password>>
    BY <1>4, <1>9 DEF SwitchCommit, Usable
  <2>2. s = x.session /\ Live(x.session)
    BY <1>0, <1>1, <1>4, <2>1 DEF Knows, TypeOK
  <2> QED
    BY <1>0, <2>1, <2>2 DEF TypeOK
<1> QED
  BY <1>3, <1>6, <1>7, <1>8, <1>9 DEF Commits

(* A live session has an account, a membership and a password.             *)
LEMMA RowsStep ==
    ASSUME Inv, [Next]_vars PROVE LiveRows'
<1> SUFFICES ASSUME NEW s \in Sessions, session'[s] # NoSession
             PROVE  /\ session'[s].user \in Users /\ session'[s].member \in Members
                    /\ session'[s].password > 0
  BY DEF LiveRows, Live
<1>0. TypeOK /\ LiveRows /\ \A r \in Requests : Knows(r)
  BY DEF Inv
<1>1. CASE session'[s] = session[s]
  BY <1>0, <1>1 DEF LiveRows, Live
<1>2. ASSUME NEW r \in Requests, tx[r].op = "login", tx[r].at = "insert",
             session'[s] = [user |-> tx[r].user, member |-> tx[r].target,
                            password |-> tx[r].hint]
      PROVE  /\ session'[s].user \in Users /\ session'[s].member \in Members
             /\ session'[s].password > 0
  BY <1>0, <1>2 DEF Knows
<1>3. ASSUME NEW r \in Requests, tx[r].op = "switch", Live(s),
             session'[s] = [session[s] EXCEPT !.member = tx[r].target]
      PROVE  /\ session'[s].user \in Users /\ session'[s].member \in Members
             /\ session'[s].password > 0
  <2>1. session[s] \in SessionRows /\ tx[r].target \in Members
    BY <1>0, <1>3 DEF Knows, TypeOK
  <2> QED
    BY <1>0, <1>3, <2>1 DEF LiveRows, SessionRows
<1> QED
  BY <1>1, <1>2, <1>3, SessionWrites

(* Sessions carry the current password: a reset closes those it finds, and *)
(* the lock on the account makes a login that began before it wait, and    *)
(* fail, or finish first.                                                  *)
LEMMA PasswordStep ==
    ASSUME Inv, [Next]_vars PROVE OldPasswordHasNoSession'
<1> SUFFICES ASSUME NEW s \in Sessions, session'[s] # NoSession
             PROVE  session'[s].password = password'[session'[s].user]
  BY DEF OldPasswordHasNoSession, Live
<1>0. TypeOK /\ LiveRows /\ OldPasswordHasNoSession /\ \A r \in Requests : Knows(r)
  BY DEF Inv
<1>1. CASE session'[s] = session[s]
  <2> DEFINE u == session[s].user
  <2>1. /\ Live(s) /\ u \in Users
        /\ session[s].password = password[u] /\ password[u] # 0
    BY <1>0, <1>1 DEF LiveRows, OldPasswordHasNoSession, Live, TypeOK
  <2>2. ASSUME password'[u] # password[u] PROVE FALSE
    <3>1. PICK r \in Requests : Commits(r)
      BY <2>2, Writers DEF accounts, ForgotPassword, Expire, SessionExpires
    <3>2. session' = Close(session, {t \in Sessions : session[t].user = u})
      BY <2>1, <2>2, <3>1, PasswordWrites
    <3> QED
      BY <1>0, <3>2, Closed
  <2> QED
    BY <1>1, <2>1, <2>2
<1>2. ASSUME NEW r \in Requests, tx[r].op = "login", tx[r].at = "insert", password' = password,
             session'[s] = [user |-> tx[r].user, member |-> tx[r].target,
                            password |-> tx[r].hint]
      PROVE  session'[s].password = password'[session'[s].user]
  BY <1>0, <1>2 DEF Knows
<1>3. ASSUME NEW r \in Requests, tx[r].op = "switch", Live(s), password' = password,
             session'[s] = [session[s] EXCEPT !.member = tx[r].target]
      PROVE  session'[s].password = password'[session'[s].user]
  BY <1>0, <1>3 DEF OldPasswordHasNoSession, TypeOK, SessionRows
<1> QED
  BY <1>1, <1>2, <1>3, SessionWrites

(* Sessions belong to active memberships: a suspension closes those it     *)
(* finds, and a membership is looked at again as a session is written.     *)
LEMMA SuspendedStep ==
    ASSUME Inv, [Next]_vars PROVE SuspendedHasNoSession'
<1> SUFFICES ASSUME NEW s \in Sessions, session'[s] # NoSession
             PROVE  member'[session'[s].member].status = "ACTIVE"
  BY DEF SuspendedHasNoSession, Live, Active
<1>0. TypeOK /\ LiveRows /\ SuspendedHasNoSession
  BY DEF Inv
<1>1. CASE session'[s] = session[s]
  <2> DEFINE m == session[s].member
  <2>1. Live(s) /\ m \in Members /\ member[m].status = "ACTIVE"
    BY <1>0, <1>1 DEF LiveRows, SuspendedHasNoSession, Live, Active
  <2>2. ASSUME member'[m] # member[m] PROVE FALSE
    <3>1. PICK r \in Requests : Commits(r)
      BY <2>2, Writers DEF accounts, ForgotPassword, Expire, SessionExpires
    <3>2. member[m] # NoMember
      BY <2>1, NoneIsAbsent DEF NoMember
    <3>3. tx[r].op = "update" /\ m = tx[r].target /\ UpdateCommit(r)
      BY <2>1, <2>2, <3>1, <3>2, MemberWrites
    <3>4. session' = Close(session, {t \in Sessions : session[t].member = m})
      BY <3>3 DEF UpdateCommit, Revoked
    <3> QED
      BY <1>0, <3>4, Closed
  <2> QED
    BY <1>1, <2>1, <2>2
<1>2. ASSUME NEW r \in Requests, Active(tx[r].target), member' = member,
             \/ session'[s] = [user |-> tx[r].user, member |-> tx[r].target,
                               password |-> tx[r].hint]
             \/ session'[s] = [session[s] EXCEPT !.member = tx[r].target]
      PROVE  member'[session'[s].member].status = "ACTIVE"
  <2>1. session'[s].member = tx[r].target
    BY <1>0, <1>2 DEF TypeOK, SessionRows
  <2> QED
    BY <1>2, <2>1 DEF Active
<1> QED
  BY <1>1, <1>2, SessionWrites

(* An invitation comes from an organisation that has somebody in it.       *)
LEMMA InvitedStep ==
    ASSUME Inv, [Next]_vars PROVE InvitedByStaff'
<1> SUFFICES ASSUME NEW i \in Invitations, invitation'[i] # None PROVE Staffed'
  BY DEF InvitedByStaff
<1>1. CASE invitation[i] # None
  BY <1>1, StaffStays DEF Inv, InvitedByStaff
<1>2. CASE invitation[i] = None
  <2>1. PICK r \in Requests : Commits(r)
    BY <1>2, Writers DEF invites, ForgotPassword, Expire, SessionExpires
  <2>2. tx[r].op = "invite"
    BY <1>2, <2>1, InvitationWrites, NoneIsAbsent DEF Open
  <2> QED
    BY <2>2, StaffStays DEF Inv, Knows
<1> QED
  BY <1>1, <1>2

(* An owner who is demoted leaves another behind, and who joins finds one. *)
LEMMA OwnerStep ==
    ASSUME Inv, [Next]_vars PROVE AlwaysAnOwner'
<1> SUFFICES ASSUME NEW t \in Tenants, NEW m \in Members, TenantOf[m] = t, member'[m] # NoMember
             PROVE  \E n \in Members : TenantOf[n] = t /\ member'[n] = ActiveOwner
  <2>1. \A n \in Members : member'[n] = ActiveOwner => member'[n] # NoMember
    BY IdleTypes
  <2> QED
    BY <2>1 DEF AlwaysAnOwner
<1>0. TypeOK /\ InvitedByStaff /\ AlwaysAnOwner /\ \A r \in Requests : Knows(r)
  BY DEF Inv
<1>1. ASSUME NEW k \in Members, TenantOf[k] = t, member[k] # NoMember
      PROVE  \E n \in Members : TenantOf[n] = t /\ member[n] = ActiveOwner
  BY <1>0, <1>1 DEF AlwaysAnOwner
<1>2. CASE member' = member
  BY <1>1, <1>2
<1>3. ASSUME NEW r \in Requests, Commits(r), NEW k \in Members, member'[k] # member[k]
      PROVE  \E n \in Members : TenantOf[n] = t /\ member'[n] = ActiveOwner
  <2> DEFINE x == tx[r]
  <2>1. CASE x.op = "update" /\ x.at = "sessions" /\ k = x.target /\ UpdateCommit(r)
    <3>1. /\ x.target \in Members /\ member[x.target] # NoMember
          /\ member[x.target] = ActiveOwner /\ x.new # ActiveOwner => OtherOwner(x.target)
      BY <1>0, <2>1 DEF Knows
    <3>2. member'[x.target] = x.new /\ \A n \in Members \ {x.target} : member'[n] = member[n]
      BY <1>0, <2>1, <3>1 DEF UpdateCommit, TypeOK
    <3>3. \E n \in Members : TenantOf[n] = t /\ member[n] = ActiveOwner
      <4>1. CASE m = x.target
        BY <1>1, <3>1, <4>1
      <4>2. CASE m # x.target
        BY <1>1, <3>2, <4>2
      <4> QED
        BY <4>1, <4>2
    <3>4. PICK n \in Members : TenantOf[n] = t /\ member[n] = ActiveOwner
      BY <3>3
    <3>5. CASE n # x.target
      BY <3>2, <3>4, <3>5
    <3>6. CASE n = x.target /\ x.new = ActiveOwner
      BY <3>2, <3>4, <3>6
    <3>7. CASE n = x.target /\ x.new # ActiveOwner
      <4>1. PICK p \in Members \ {x.target} :
                TenantOf[p] = TenantOf[x.target] /\ member[p] = ActiveOwner
        BY <3>1, <3>4, <3>7 DEF OtherOwner
      <4> QED
        BY <3>2, <3>4, <3>7, <4>1
    <3> QED
      BY <3>5, <3>6, <3>7
  <2>2. CASE x.op = "accept" /\ k = Joining /\ member[k] = NoMember
    <3>1. \A n \in Members : member[n] # NoMember => member'[n] = member[n]
      BY <1>3, <2>2, MemberWrites, NoneIsAbsent
    <3>2. \E n \in Members : TenantOf[n] = t /\ member[n] # NoMember
      <4>1. CASE member[m] # NoMember
        BY <4>1
      <4>2. CASE member[m] = NoMember
        <5>1. m = Joining
          BY <1>3, <2>2, <4>2, MemberWrites, NoneIsAbsent
        <5>2. Staffed
          BY <1>0, <2>2 DEF Knows, InvitedByStaff
        <5> QED
          BY <5>1, <5>2 DEF Staffed
      <4> QED
        BY <4>1, <4>2
    <3> QED
      BY <1>1, <3>1, <3>2, IdleTypes
  <2> QED
    BY <1>3, <2>1, <2>2, MemberWrites
<1>4. (\E r \in Requests : Commits(r)) \/ member' = member
  BY Writers DEF accounts, ForgotPassword, Expire, SessionExpires
<1>5. (\E k \in Members : member'[k] # member[k]) \/ member' = member
  <2>1. member' \in [Members -> MemberRows]
    BY TypeStep DEF TypeOK
  <2> QED
    BY <1>0, <2>1 DEF TypeOK
<1> QED
  BY <1>2, <1>3, <1>4, <1>5

(* Before any request.                                                     *)
LEMMA InvInit == Init => Inv
<1> SUFFICES ASSUME Init PROVE Inv
  OBVIOUS
<1>1. TypeOK
  <2>1. password \in [Users -> Nat]
    BY DEF Init
  <2>2. member \in [Members -> MemberRows]
    BY IdleTypes DEF Init
  <2> QED
    BY <2>1, <2>2, IdleTypes DEF Init, TypeOK
<1>2. LocksCompatible
  BY DEF Init, LocksCompatible
<1>3. \A r \in Requests : Holds(r) /\ Knows(r)
  <2>1. \A r \in Requests : tx[r] = Idle /\ locks[r] = {}
    BY DEF Init
  <2>2. \A r \in Requests : Holds(r)
    BY <2>1, IdleTypes, StageTypes, NoneIsAbsent DEF Holds, Fenced, ManageOps
  <2>3. \A r \in Requests : Knows(r)
    BY <2>1, IdleTypes, NoneIsAbsent DEF Knows, Fenced, ManageOps
  <2> QED
    BY <2>2, <2>3
<1>4. LiveRows /\ OldPasswordHasNoSession /\ SuspendedHasNoSession
  BY DEF Init, LiveRows, OldPasswordHasNoSession, SuspendedHasNoSession, Live
<1>5. InvitedByStaff
  BY DEF Init, InvitedByStaff
<1>6. AlwaysAnOwner
  BY DEF Init, AlwaysAnOwner
<1> QED
  BY <1>1, <1>2, <1>3, <1>4, <1>5, <1>6 DEF Inv

(* The invariant is inductive.                                             *)
LEMMA InvStep == Inv /\ [Next]_vars => Inv'
  BY TypeStep, LocksStep, RequestsStep, RowsStep, InvitedStep, PasswordStep, SuspendedStep,
     OwnerStep DEF Inv

(* A request's locks and what it waits for, where two could wait for each  *)
(* other.                                                                  *)
LEMMA FenceHolds ==
    ASSUME Inv PROVE FenceKeepsOrder
<1> SUFFICES ASSUME NEW r \in Requests, NEW q \in Requests, Stuck(r, q),
                    tx[r].op \in ManageOps, tx[q].op \notin {"reset", "accept"},
                    tx[q].hint = tx[r].hint
             PROVE  FALSE
  BY DEF FenceKeepsOrder
<1>0. /\ r # q /\ Holds(r) /\ Holds(q) /\ LocksCompatible
      /\ tx[r] \in Contexts /\ tx[q] \in Contexts
  BY DEF Stuck, Blockers, Inv, TypeOK
<1>1. locks[r] # {} /\ locks[q] # {}
  BY DEF Stuck, Blockers
<1>2. Lock("fence", tx[r].hint, "update") \in locks[r]
  BY <1>0, <1>1 DEF Holds, Fenced, FenceMode
<1>3. CASE tx[q].op \in Fenced
  <2>1. Lock("fence", tx[r].hint, FenceMode(tx[q].op)) \in locks[q]
    BY <1>0, <1>1, <1>3 DEF Holds
  <2> QED
    BY <1>0, <1>2, <2>1, LockExcludes, Conflicts
<1>4. CASE tx[q].op = "login"
  <2>1. tx[q].at = "insert" /\ locks[q] = {Lock("user", tx[q].user, "update")}
    BY <1>0, <1>1, <1>4 DEF Holds, StagesOf
  <2>2. PICK want \in Needs(tx[r]) : want.table = "user"
    BY <2>1 DEF Stuck, Blockers, Lock
  <2>3. tx[r].at = "member"
    <3>1. tx[r].at \in {"fence", "session", "member", "target", "sessions", "create",
                        "invitation", "action"}
      BY <1>0, NoneIsAbsent DEF Holds, StagesOf, ManageOps
    <3> QED
      BY <2>2, <3>1, NeedsOf DEF Lock
  <2>4. \A k \in locks[r] : k.table # "member"
    BY <1>0, <2>3, NoneIsAbsent DEF Holds, StagesOf, ManageOps
  <2>5. Needs(tx[q]) = {Lock("member", tx[q].target, "share")}
    BY <2>1, NeedsOf
  <2> QED
    BY <2>4, <2>5 DEF Stuck, Blockers, Lock
<1>5. CASE tx[q].op = None
  BY <1>0, <1>1, <1>5 DEF Holds
<1> QED
  BY <1>0, <1>3, <1>4, <1>5 DEF Contexts, Ops

(* Invitations close once, and only an open one lets somebody in.          *)
LEMMA InvitationStep ==
    ASSUME Inv, [Next]_vars
    PROVE  /\ \A i \in Invitations :
                 invitation[i] \in {"ACCEPTED", "REVOKED"} => invitation'[i] = invitation[i]
           /\ member[Joining] = NoMember /\ member'[Joining] # NoMember =>
                 \E i \in Open : invitation'[i] = "ACCEPTED"
<1>1. (\E r \in Requests : Commits(r)) \/ UNCHANGED <<member, invitation>>
  BY Writers DEF accounts, invites, ForgotPassword, Expire, SessionExpires
<1>2. ASSUME NEW r \in Requests, Commits(r), NEW i \in Invitations,
             invitation[i] \in {"ACCEPTED", "REVOKED"}
      PROVE  invitation'[i] = invitation[i]
  BY <1>2, InvitationWrites, NoneIsAbsent DEF Open
<1>3. ASSUME NEW r \in Requests, Commits(r), member[Joining] = NoMember,
             member'[Joining] # NoMember
      PROVE  \E i \in Open : invitation'[i] = "ACCEPTED"
  BY <1>3, MemberWrites, SessionsAssumption
<1> QED
  BY <1>1, <1>2, <1>3

(* For any number of accounts, memberships, sessions and requests at once, *)
(* the invariant of the locks and of what is known under them holds.       *)
THEOREM RequestsKnowWhatTheyHold == Spec => []Inv
  BY InvInit, InvStep, PTL DEF Spec

(* No session outlives the password it was issued for, whatever logins and *)
(* resets run at once.                                                     *)
THEOREM ResetClosesSessions == Spec => []OldPasswordHasNoSession
<1>1. Inv => OldPasswordHasNoSession
  BY DEF Inv
<1> QED
  BY <1>1, RequestsKnowWhatTheyHold, PTL

(* No session belongs to a suspended membership, whatever logins, switches *)
(* and suspensions run at once.                                            *)
THEOREM SuspensionClosesSessions == Spec => []SuspendedHasNoSession
<1>1. Inv => SuspendedHasNoSession
  BY DEF Inv
<1> QED
  BY <1>1, RequestsKnowWhatTheyHold, PTL

(* An organisation keeps an active owner, whatever edits its owners make   *)
(* at once.                                                                *)
THEOREM OrganisationsKeepAnOwner == Spec => []AlwaysAnOwner
<1>1. Inv => AlwaysAnOwner
  BY DEF Inv
<1> QED
  BY <1>1, RequestsKnowWhatTheyHold, PTL

(* Membership edits face no request of their organisation crosswise, but   *)
(* for those that take no fence.                                           *)
THEOREM FencePreventsDeadlock == Spec => []FenceKeepsOrder
<1>1. Inv => FenceKeepsOrder
  BY FenceHolds
<1> QED
  BY <1>1, RequestsKnowWhatTheyHold, PTL

(* An invitation is used at most once, and not after it was revoked.       *)
THEOREM InvitationsUsedOnce == Spec => InvitationOnce
<1>1. Inv /\ [Next]_vars =>
        [/\ \A i \in Invitations :
                invitation[i] \in {"ACCEPTED", "REVOKED"} => invitation'[i] = invitation[i]
         /\ member[Joining] = NoMember /\ member'[Joining] # NoMember =>
                \E i \in Open : invitation'[i] = "ACCEPTED"]_vars
  BY InvitationStep
<1> QED
  BY <1>1, RequestsKnowWhatTheyHold, PTL DEF Spec, InvitationOnce
=============================================================================
