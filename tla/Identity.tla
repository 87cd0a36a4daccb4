------------------------------ MODULE Identity ------------------------------
(* Who has an account, in which organization and with which role: the        *)
(* provisioning every authenticated request begins with                      *)
(* (crud/user.py, api/deps.py), invitations, the members' roles and the       *)
(* platform administrator's panel.                                            *)
(*                                                                            *)
(* A request is a chain of steps that other requests may come between: what   *)
(* it reads, and the commit that writes it.  As everywhere in this program a  *)
(* commit writes only the attributes the request changed, and checks nothing  *)
(* that it read.  Rows are never deleted here, so `users' and `invites' are   *)
(* sequences in the order of creation.                                        *)
EXTENDS Naturals, Sequences, FiniteSets

CONSTANTS Sessions,     \* the requests in flight
          Identities,   \* what a verified token says: [uid, email]
          AdminEmail,   \* settings.admin_email
          Offered,      \* the roles invitations offer
          Grantable,    \* the roles members are given
          Seats,        \* spec_for(user.plan).limits.seats, 0 for no limit
          MaxUsers, MaxInvites  \* bounds of the model

VARIABLES users,    \* the table of users
          invites,  \* the table of invitations
          orgs,     \* how many organizations were founded
          call,     \* what each request has read and is about to write
          excused,  \* organizations whose roles changed under another request,
                    \* or by the platform administrator (not in the code)
          crowded   \* organizations with two invitations made across each other,
                    \* or one accepted while it was cancelled, or between the
                    \* two lists another is measured by (not in the code)

identityVars == <<users, invites, orgs, call, excused, crowded>>

Role == {"viewer", "analyst", "owner", "admin"}
Rank == [r \in Role |->
           CASE r = "viewer" -> 0 [] r = "analyst" -> 1
             [] r = "owner" -> 2 [] r = "admin" -> 3]
ASSUME IdentityAssumption ==
    /\ Offered \subseteq Role /\ Grantable \subseteq Role
    /\ Seats \in Nat /\ MaxUsers \in Nat /\ MaxInvites \in Nat

Emails == {i.email : i \in Identities}
\* No account changes its address at Firebase while the program runs: nothing
\* in the program does it.
OneAddress == \A i, j \in Identities : i.uid = j.uid => i.email = j.email

\* `via' is the invitation that admitted the user, 0 for a founder: it is not
\* in the code.
User == [uid : {i.uid : i \in Identities}, email : Emails, role : Role,
         org : 1..MaxUsers, active : BOOLEAN, via : 0..MaxInvites]
Invitation == [org : 1..MaxUsers, email : Emails, role : Role, live : BOOLEAN,
               status : {"pending", "accepted", "revoked"}]

Idle == [at |-> "idle"]
Call == [at : {"idle", "unavailable"}]
   \cup [at : {"found"}, who : Identities]
   \cup [at : {"join"}, who : Identities, inv : 1..MaxInvites]
   \cup [at : {"login"}, who : Identities, user : 1..MaxUsers,
         set : SUBSET {"uid", "email", "role"}]
   \cup [at : {"handle"}, user : 1..MaxUsers, role : Role]
   \cup [at : {"asked", "counting", "inviting"}, org : 1..MaxUsers, email : Emails,
         role : Role]
   \cup [at : {"listing"}, org : 1..MaxUsers, email : Emails, role : Role,
         members : 0..MaxUsers]
   \cup [at : {"revoking"}, inv : 1..MaxInvites]
   \cup [at : {"ranking"}, org : 1..MaxUsers, target : 1..MaxUsers, role : Role,
         panel : BOOLEAN]

IdentityInit ==
    /\ users = <<>> /\ invites = <<>> /\ orgs = 0
    /\ excused = {} /\ crowded = {}
    /\ call = [s \in Sessions |-> Idle]

ByUid(uid) == {u \in DOMAIN users : users[u].uid = uid}
ByEmail(email) == {u \in DOMAIN users : users[u].email = email}
Members(o) == {u \in DOMAIN users : users[u].org = o}
\* Mutant: an invitation that has expired no longer takes a seat.
LivePending(o) == {v \in DOMAIN invites :
                     /\ invites[v].org = o /\ invites[v].status = "pending"
                     /\ invites[v].live}
Pending(o) == {v \in DOMAIN invites :
                 invites[v].org = o /\ invites[v].status = "pending"}
PendingFor(o, email) == {v \in Pending(o) : invites[v].email = email}
\* Nobody asks any more whether it has expired.
Closed(v, status) == [invites EXCEPT ![v].status = status, ![v].live = FALSE]
OldestFirst(S) == CHOOSE v \in S : \A w \in S : v <= w

Goes(s, c) == call' = [call EXCEPT ![s] = c]

(***************************** provisioning *********************************)
\* The invitations of this address that may still be accepted, anywhere.
Acceptable(email) ==
    {v \in DOMAIN invites : /\ invites[v].email = email
                            /\ invites[v].status = "pending" /\ invites[v].live}

\* The attributes signing in changes, in the row it read.
Changes(i, u) ==
    {a \in {"uid", "email"} : users[u][a] # i[a]}
    \cup {a \in {"role"} : i.email = AdminEmail /\ users[u].role # "admin"}

\* The account is looked for by uid, then by address; without one the oldest
\* acceptable invitation is taken, and without that a workspace is founded.
Arrive(s) ==
    /\ call[s].at \in {"idle", "unavailable"}
    /\ \E i \in Identities :
         LET known == IF ByUid(i.uid) # {} THEN ByUid(i.uid) ELSE ByEmail(i.email)
         IN  \/ \E u \in known :
                  Goes(s, [at |-> "login", who |-> i, user |-> u, set |-> Changes(i, u)])
             \/ /\ known = {} /\ Acceptable(i.email) # {}
                /\ Goes(s, [at |-> "join", who |-> i,
                            inv |-> OldestFirst(Acceptable(i.email))])
             \/ /\ known = {} /\ Acceptable(i.email) = {}
                /\ Goes(s, [at |-> "found", who |-> i])
    /\ UNCHANGED <<users, invites, orgs, excused, crowded>>

\* The endpoint runs for an active account, and refuses a suspended one.
Admit(s, u, row) ==
    Goes(s, IF row.active THEN [at |-> "handle", user |-> u, role |-> row.role] ELSE Idle)

Taken(i) == ByUid(i.uid) \cup ByEmail(i.email) # {}
\* The unique index refused the new row: the transaction is rolled back, the
\* invitation with it, and the account of this uid, if there is one, is used.
\* Mutant: the transaction is not rolled back.
UseExistingKeeping(s, i) ==
    /\ \/ \E u \in ByUid(i.uid) : Admit(s, u, users[u])
       \/ ByUid(i.uid) = {} /\ Goes(s, [at |-> "unavailable"])
    /\ invites' = IF call[s].at = "join" THEN Closed(call[s].inv, "accepted") ELSE invites
    /\ UNCHANGED <<users, orgs, crowded>>
\* Mutant: the account that won the race is not looked for.
UseExistingNever(s, i) ==
    /\ Goes(s, [at |-> "unavailable"])
    /\ UNCHANGED <<users, invites, orgs, crowded>>
UseExisting(s, i) ==
    /\ \/ \E u \in ByUid(i.uid) : Admit(s, u, users[u])
       \/ ByUid(i.uid) = {} /\ Goes(s, [at |-> "unavailable"])
    /\ UNCHANGED <<users, invites, orgs, crowded>>

CommitLogin(s) ==
    LET c == call[s]
        i == c.who
        u == c.user
        now == [users[u] EXCEPT
                  !.uid = IF "uid" \in c.set THEN i.uid ELSE @,
                  !.email = IF "email" \in c.set THEN i.email ELSE @,
                  !.role = IF "role" \in c.set THEN "admin" ELSE @]
        clash == \E w \in DOMAIN users \ {u} :
                   users[w].uid = now.uid \/ users[w].email = now.email
    IN  /\ c.at = "login"
        /\ \/ clash /\ Goes(s, [at |-> "unavailable"]) /\ UNCHANGED users
           \/ ~clash /\ users' = [users EXCEPT ![u] = now] /\ Admit(s, u, now)
        /\ UNCHANGED <<invites, orgs, excused, crowded>>

\* One transaction adds the user and marks the invitation accepted, whatever
\* has become of it since it was read.
CommitJoin(s) ==
    LET c == call[s]
        i == c.who
        v == c.inv
        row == [uid |-> i.uid, email |-> i.email, role |-> invites[v].role,
                org |-> invites[v].org, active |-> TRUE, via |-> v]
    IN  /\ c.at = "join"
        /\ \/ Taken(i) /\ UseExisting(s, i)
           \/ /\ ~Taken(i) /\ Len(users) < MaxUsers
              /\ users' = Append(users, row)
              /\ invites' = Closed(v, "accepted")
              /\ crowded' = crowded \cup {o \in {row.org} :
                   \/ invites[v].status # "pending"
                   \/ \E z \in Sessions : call[z].at = "listing" /\ call[z].org = o}
              /\ Admit(s, Len(users) + 1, row)
              /\ UNCHANGED orgs
        /\ UNCHANGED excused

CommitFound(s) ==
    LET i == call[s].who
        row == [uid |-> i.uid, email |-> i.email, org |-> orgs + 1,
                role |-> IF i.email = AdminEmail THEN "admin" ELSE "owner",
                active |-> TRUE, via |-> 0]
    IN  /\ call[s].at = "found"
        /\ \/ Taken(i) /\ UseExisting(s, i)
           \/ /\ ~Taken(i) /\ Len(users) < MaxUsers
              /\ users' = Append(users, row)
              /\ orgs' = orgs + 1
              /\ Admit(s, Len(users) + 1, row)
              /\ UNCHANGED <<invites, crowded>>
        /\ UNCHANGED excused

(************************** members and invitations *************************)
\* The role is the one the account had when the request was let in.
Requires(s, minimum) == call[s].at = "handle" /\ Rank[call[s].role] >= Rank[minimum]
OrgOf(s) == users[call[s].user].org

\* The endpoint awaits one query after another, and others may commit between
\* any two of them; a refusal changes nothing.  First: nobody of the
\* organization has this address.
Invite(s) ==
    /\ Requires(s, "owner")
    /\ \E e \in Emails, r \in Offered :
         Goes(s, IF /\ e # users[call[s].user].email
                    /\ ByEmail(e) \cap Members(OrgOf(s)) = {}
                 THEN [at |-> "asked", org |-> OrgOf(s), email |-> e, role |-> r]
                 ELSE Idle)
    /\ UNCHANGED <<users, invites, orgs, excused, crowded>>

\* The invitation s is about to make, at its next stage.
Onward(s, stage) ==
    [at |-> stage, org |-> call[s].org, email |-> call[s].email, role |-> call[s].role]

\* Then: none is pending for the address.  Two of them make the lookup raise.
FindPending(s) ==
    /\ call[s].at = "asked"
    /\ Goes(s, IF PendingFor(call[s].org, call[s].email) = {}
               THEN Onward(s, "counting") ELSE Idle)
    /\ UNCHANGED <<users, invites, orgs, excused, crowded>>

\* Then the members are counted,
CountMembers(s) ==
    /\ call[s].at = "counting"
    /\ Goes(s, [at |-> "listing", org |-> call[s].org, email |-> call[s].email,
                role |-> call[s].role, members |-> Cardinality(Members(call[s].org))])
    /\ UNCHANGED <<users, invites, orgs, excused, crowded>>

\* and the pending invitations listed, and both held against the seats.
ListPending(s) ==
    /\ call[s].at = "listing"
    /\ Goes(s, IF \/ Seats = 0
                  \/ call[s].members + Cardinality(Pending(call[s].org)) < Seats
               THEN Onward(s, "inviting") ELSE Idle)
    /\ UNCHANGED <<users, invites, orgs, excused, crowded>>

CreateInvite(s) ==
    LET c == call[s]
    IN  /\ c.at = "inviting" /\ Len(invites) < MaxInvites
        /\ invites' = Append(invites,
             [org |-> c.org, email |-> c.email, role |-> c.role, live |-> TRUE,
              status |-> "pending"])
        /\ crowded' = crowded \cup {o \in {c.org} :
             \E z \in Sessions \ {s} : call[z].at = "inviting" /\ call[z].org = o}
        /\ Goes(s, Idle)
        /\ UNCHANGED <<users, orgs, excused>>

Revoke(s) ==
    /\ Requires(s, "owner")
    /\ \E v \in Pending(OrgOf(s)) : Goes(s, [at |-> "revoking", inv |-> v])
    /\ UNCHANGED <<users, invites, orgs, excused, crowded>>

CommitRevoke(s) ==
    /\ call[s].at = "revoking"
    /\ invites' = Closed(call[s].inv, "revoked")
    /\ Goes(s, Idle)
    /\ UNCHANGED <<users, orgs, excused, crowded>>

Expire(v) ==
    /\ invites[v].live /\ invites[v].status = "pending"
    /\ invites' = [invites EXCEPT ![v].live = FALSE]
    /\ UNCHANGED <<users, orgs, call, excused, crowded>>

(********************************** roles ***********************************)
Owners(o) == {u \in Members(o) : users[u].role = "owner"}

\* Owners are only counted by someone who gives up a role of their own.
\* Mutant: the only owner counts as two.
MayRankAlone(s, t, r) ==
    /\ users[t].org = OrgOf(s)
    /\ r \notin {"admin", users[t].role}
    /\ t = call[s].user /\ r # "owner" => Cardinality(Owners(OrgOf(s))) >= 1
MayRank(s, t, r) ==
    /\ users[t].org = OrgOf(s)
    /\ r \notin {"admin", users[t].role}
    /\ t = call[s].user /\ r # "owner" => Cardinality(Owners(OrgOf(s))) > 1

ChangeRole(s) ==
    /\ Requires(s, "owner")
    /\ \E t \in DOMAIN users, r \in Grantable :
         /\ MayRank(s, t, r)
         /\ Goes(s, [at |-> "ranking", org |-> users[t].org, target |-> t, role |-> r,
                     panel |-> FALSE])
    /\ UNCHANGED <<users, invites, orgs, excused, crowded>>

\* The platform administrator changes any role but their own away from admin.
AdminRole(s) ==
    /\ call[s].at = "handle" /\ call[s].role = "admin"
    /\ \E t \in DOMAIN users, r \in Grantable :
         /\ t # call[s].user /\ r # users[t].role
         /\ Goes(s, [at |-> "ranking", org |-> users[t].org, target |-> t, role |-> r,
                     panel |-> TRUE])
    /\ UNCHANGED <<users, invites, orgs, excused, crowded>>

\* Another request of the organization was let in, and has not written yet.
Overtakes(s, o) ==
    \E z \in Sessions \ {s} :
      \/ call[z].at = "handle" /\ users[call[z].user].org = o
      \/ call[z].at = "ranking" /\ call[z].org = o

SetRole(s) ==
    LET c == call[s]
    IN  /\ c.at = "ranking"
        /\ users' = [users EXCEPT ![c.target].role = c.role]
        /\ excused' = excused \cup {o \in {c.org} : c.panel \/ Overtakes(s, o)}
        /\ Goes(s, Idle)
        /\ UNCHANGED <<invites, orgs, crowded>>

\* An account is suspended, or restored, but never one's own: what is written
\* does not depend on what was read.
AdminStatus(s) ==
    /\ call[s].at = "handle" /\ call[s].role = "admin"
    /\ \E t \in DOMAIN users, active \in BOOLEAN :
         /\ t = call[s].user => active
         /\ users' = [users EXCEPT ![t].active = active]
    /\ Goes(s, Idle)
    /\ UNCHANGED <<invites, orgs, excused, crowded>>

\* Any other endpoint, and any refusal.
Return(s) ==
    /\ call[s].at = "handle" /\ Goes(s, Idle)
    /\ UNCHANGED <<users, invites, orgs, excused, crowded>>

\* The database or the connection fails before the commit: nothing is written.
RequestAborts(s) ==
    /\ call[s].at \notin {"idle", "unavailable", "handle"} /\ Goes(s, Idle)
    /\ UNCHANGED <<users, invites, orgs, excused, crowded>>

IdentityNext ==
    \/ \E s \in Sessions :
         \/ Arrive(s) \/ CommitLogin(s) \/ CommitJoin(s) \/ CommitFound(s)
         \/ Invite(s) \/ FindPending(s) \/ CountMembers(s) \/ ListPending(s)
         \/ CreateInvite(s) \/ Revoke(s) \/ CommitRevoke(s)
         \/ ChangeRole(s) \/ AdminRole(s) \/ SetRole(s) \/ AdminStatus(s)
         \/ Return(s) \/ RequestAborts(s)
    \/ \E v \in DOMAIN invites : Expire(v)

IdentitySpec == IdentityInit /\ [][IdentityNext]_identityVars

(******************************** properties ********************************)
\* Every row and every request is of its kind.
IdentityTypeOK ==
    /\ users \in Seq(User) /\ Len(users) <= MaxUsers
    /\ invites \in Seq(Invitation) /\ Len(invites) <= MaxInvites
    /\ orgs \in 0..MaxUsers /\ excused \subseteq 1..orgs
    /\ crowded \subseteq 1..orgs
    /\ call \in [Sessions -> Call]

\* endpoints/users.py: no organization is left without anyone of an owner's
\* rank, whoever gives a role up or takes one away, unless two requests that
\* were let in before either wrote cross each other, or the platform
\* administrator does it from the panel.
Governed ==
    \A o \in (1..orgs) \ excused : \E u \in Members(o) : Rank[users[u].role] >= Rank["owner"]

\* crud/invitation.py: an invitation admits one person, to its organization
\* only, and is accepted exactly when it has admitted someone, through
\* cancellations, late answers of the mail service and refused inserts.
InviteAdmitsOne ==
    /\ \A u, w \in DOMAIN users : u # w /\ users[u].via # 0 => users[u].via # users[w].via
    /\ \A u \in DOMAIN users : users[u].via # 0 =>
         /\ invites[users[u].via].org = users[u].org
         /\ invites[users[u].via].status # "pending"
    /\ \A v \in DOMAIN invites : invites[v].status = "accepted" =>
         \E u \in DOMAIN users : users[u].via = v

SeatsUsed(o) == Cardinality(Members(o))
    + Cardinality({v \in DOMAIN invites :
                     invites[v].org = o /\ invites[v].status = "pending"})
\* endpoints/invitations.py: members and pending invitations keep within the
\* seats of the plan, through cancellations, expiry, refused inserts and people
\* who arrive while others are invited, unless two invitations passed the check
\* together, or one was accepted while it was cancelled or between the two lists
\* that the check adds up.
SeatsHeld == Seats # 0 => \A o \in (1..orgs) \ crowded : SeatsUsed(o) <= Seats

\* What the endpoint's docstring says without these exceptions: "a Free
\* workspace cannot quietly grow into a team of ten".  Requests that cross
\* break it.
SeatsNeverExceeded == Seats # 0 => \A o \in 1..orgs : SeatsUsed(o) <= Seats

\* crud/user.py: of two first requests that race, the loser is served too: a
\* request is only turned away as unavailable when its address belongs to an
\* account of another provider.  Stated of the step that turns it away.
RacersAreServed ==
    [][\A s \in Sessions :
         /\ call[s].at \in {"join", "found", "login"}
         /\ call'[s].at = "unavailable"
         => \E u \in ByEmail(call[s].who.email) : users[u].uid # call[s].who.uid]_identityVars
=============================================================================
