--------------------------- MODULE IdentityProofs ---------------------------
(* Proofs about Identity, for any number of requests, identities, users,       *)
(* invitations and seats.                                                      *)
EXTENDS Identity, FiniteSetTheorems, WellFoundedInduction, TLAPS

\* Whatever a request or a row refers to is there, and organizations are as
\* many as their founders at most.
Asking == {"asked", "counting", "listing", "inviting"}
RefersToRows ==
    /\ orgs <= Len(users)
    /\ \A u \in DOMAIN users : users[u].org \in 1..orgs
    /\ \A v \in DOMAIN invites : invites[v].org \in 1..orgs
    /\ \A s \in Sessions :
         /\ call[s].at \in {"login", "handle"} => call[s].user \in DOMAIN users
         /\ call[s].at \in {"join", "revoking"} => call[s].inv \in DOMAIN invites
         /\ call[s].at \in Asking => call[s].org \in 1..orgs
         /\ call[s].at = "ranking" =>
              /\ call[s].target \in DOMAIN users
              /\ users[call[s].target].org = call[s].org

RowsInv == IdentityTypeOK /\ RefersToRows

(****************************** shapes ***************************************)
Uids == {i.uid : i \in Identities}

LEMMA UserShape ==
    ASSUME IdentityTypeOK, NEW u \in DOMAIN users
    PROVE  /\ users[u] \in User /\ users[u].uid \in Uids /\ users[u].email \in Emails
           /\ users[u].role \in Role /\ users[u].org \in 1..MaxUsers
           /\ users[u].active \in BOOLEAN /\ users[u].via \in 0..MaxInvites
<1> DEFINE R == User
<1>1. users[u] \in R
  <2>1. users \in Seq(R)
    BY DEF IdentityTypeOK
  <2> HIDE DEF R
  <2> QED BY <2>1
<1>2. QED
  BY <1>1, SMT DEF User, Uids

LEMMA InviteShape ==
    ASSUME IdentityTypeOK, NEW v \in DOMAIN invites
    PROVE  /\ invites[v] \in Invitation /\ invites[v].org \in 1..MaxUsers
           /\ invites[v].email \in Emails /\ invites[v].role \in Role
           /\ invites[v].live \in BOOLEAN
           /\ invites[v].status \in {"pending", "accepted", "revoked"}
<1> DEFINE R == Invitation
<1>1. invites[v] \in R
  <2>1. invites \in Seq(R)
    BY DEF IdentityTypeOK
  <2> HIDE DEF R
  <2> QED BY <2>1
<1>2. QED
  BY <1>1, SMT DEF Invitation

LEMMA Lengths ==
    ASSUME IdentityTypeOK
    PROVE  /\ Len(users) \in Nat /\ DOMAIN users = 1..Len(users) /\ Len(users) <= MaxUsers
           /\ Len(invites) \in Nat /\ DOMAIN invites = 1..Len(invites)
           /\ Len(invites) <= MaxInvites
           /\ DOMAIN users \subseteq 1..MaxUsers /\ DOMAIN invites \subseteq 1..MaxInvites
           /\ orgs \in Nat
<1> DEFINE R == User
           Q == Invitation
<1>1. /\ users \in Seq(R) /\ invites \in Seq(Q)
      /\ Len(users) <= MaxUsers /\ Len(invites) <= MaxInvites /\ orgs \in Nat
  BY IdentityAssumption DEF IdentityTypeOK
<1> HIDE DEF R, Q
<1>2. QED
  BY <1>1, IdentityAssumption

LEMMA CallShape ==
    ASSUME IdentityTypeOK, NEW s \in Sessions
    PROVE  /\ call[s] \in Call
           /\ call[s].at \in {"idle", "unavailable", "found", "join", "login", "handle",
                              "asked", "counting", "listing", "inviting", "revoking",
                              "ranking"}
           /\ call[s].at \in {"found", "join", "login"} => call[s].who \in Identities
           /\ call[s].at = "join" => call[s].inv \in 1..MaxInvites
           /\ call[s].at = "login" => call[s].user \in 1..MaxUsers
           /\ call[s].at = "handle" => call[s].user \in 1..MaxUsers /\ call[s].role \in Role
           /\ call[s].at \in Asking =>
                /\ call[s].org \in 1..MaxUsers /\ call[s].email \in Emails
                /\ call[s].role \in Role
           /\ call[s].at = "listing" => call[s].members \in 0..MaxUsers
           /\ call[s].at = "ranking" =>
                /\ call[s].org \in 1..MaxUsers /\ call[s].target \in 1..MaxUsers
                /\ call[s].role \in Role /\ call[s].panel \in BOOLEAN
<1>1. call[s] \in Call
  BY DEF IdentityTypeOK
<1>2. QED
  BY <1>1, SMT DEF Call, Asking

LEMMA IdleShape == Idle \in Call /\ Idle.at = "idle" /\ [at |-> "unavailable"] \in Call
BY DEF Idle, Call

(****************************** rows *****************************************)
LEMMA UserAppended ==
    ASSUME IdentityTypeOK, NEW row \in User, users' = Append(users, row),
           Len(users) < MaxUsers
    PROVE  /\ users' \in Seq(User) /\ Len(users') = Len(users) + 1
           /\ Len(users') <= MaxUsers
           /\ DOMAIN users' = DOMAIN users \cup {Len(users) + 1}
           /\ Len(users) + 1 \notin DOMAIN users
           /\ users'[Len(users) + 1] = row
           /\ \A u \in DOMAIN users : users'[u] = users[u]
<1> DEFINE R == User
<1>1. users \in Seq(R) /\ row \in R
  BY DEF IdentityTypeOK
<1> HIDE DEF R
<1>2. users' \in Seq(R)
  BY <1>1
<1>3. /\ Len(users') = Len(users) + 1 /\ Len(users) \in Nat
      /\ DOMAIN users' = 1..(Len(users) + 1) /\ DOMAIN users = 1..Len(users)
      /\ users'[Len(users) + 1] = row
      /\ \A u \in 1..Len(users) : users'[u] = users[u]
  BY <1>1
<1>4. /\ DOMAIN users' = DOMAIN users \cup {Len(users) + 1}
      /\ Len(users) + 1 \notin DOMAIN users /\ Len(users') <= MaxUsers
  BY <1>3, IdentityAssumption
<1>5. QED
  BY <1>2, <1>3, <1>4 DEF R

LEMMA InviteAppended ==
    ASSUME IdentityTypeOK, NEW row \in Invitation, invites' = Append(invites, row),
           Len(invites) < MaxInvites
    PROVE  /\ invites' \in Seq(Invitation) /\ Len(invites') = Len(invites) + 1
           /\ Len(invites') <= MaxInvites
           /\ DOMAIN invites' = DOMAIN invites \cup {Len(invites) + 1}
           /\ Len(invites) + 1 \notin DOMAIN invites
           /\ invites'[Len(invites) + 1] = row
           /\ \A v \in DOMAIN invites : invites'[v] = invites[v]
<1> DEFINE R == Invitation
<1>1. invites \in Seq(R) /\ row \in R
  BY DEF IdentityTypeOK
<1> HIDE DEF R
<1>2. invites' \in Seq(R)
  BY <1>1
<1>3. /\ Len(invites') = Len(invites) + 1 /\ Len(invites) \in Nat
      /\ DOMAIN invites' = 1..(Len(invites) + 1) /\ DOMAIN invites = 1..Len(invites)
      /\ invites'[Len(invites) + 1] = row
      /\ \A v \in 1..Len(invites) : invites'[v] = invites[v]
  BY <1>1
<1>4. /\ DOMAIN invites' = DOMAIN invites \cup {Len(invites) + 1}
      /\ Len(invites) + 1 \notin DOMAIN invites /\ Len(invites') <= MaxInvites
  BY <1>3, IdentityAssumption
<1>5. QED
  BY <1>2, <1>3, <1>4 DEF R

LEMMA UserReplaced ==
    ASSUME IdentityTypeOK, NEW t \in DOMAIN users, NEW row \in User,
           users' = [users EXCEPT ![t] = row]
    PROVE  /\ users' \in Seq(User) /\ Len(users') = Len(users)
           /\ DOMAIN users' = DOMAIN users /\ users'[t] = row
           /\ \A u \in DOMAIN users \ {t} : users'[u] = users[u]
<1> DEFINE R == User
<1>1. users \in Seq(R) /\ row \in R
  BY DEF IdentityTypeOK
<1> HIDE DEF R
<1>2. users' \in Seq(R) /\ Len(users') = Len(users) /\ DOMAIN users' = DOMAIN users
  BY <1>1
<1>3. users'[t] = row /\ \A u \in DOMAIN users \ {t} : users'[u] = users[u]
  BY <1>1
<1>4. QED
  BY <1>2, <1>3 DEF R

\* An invitation that is closed, or expires, keeps everything else it says.
LEMMA InviteReplaced ==
    ASSUME IdentityTypeOK, NEW v \in DOMAIN invites, NEW row \in Invitation,
           invites' = [invites EXCEPT ![v] = row]
    PROVE  /\ invites' \in Seq(Invitation) /\ Len(invites') = Len(invites)
           /\ DOMAIN invites' = DOMAIN invites /\ invites'[v] = row
           /\ \A w \in DOMAIN invites \ {v} : invites'[w] = invites[w]
<1> DEFINE R == Invitation
<1>1. invites \in Seq(R) /\ row \in R
  BY DEF IdentityTypeOK
<1> HIDE DEF R
<1>2. invites' \in Seq(R) /\ Len(invites') = Len(invites) /\ DOMAIN invites' = DOMAIN invites
  BY <1>1
<1>3. invites'[v] = row /\ \A w \in DOMAIN invites \ {v} : invites'[w] = invites[w]
  BY <1>1
<1>4. QED
  BY <1>2, <1>3 DEF R

LEMMA InviteClosed ==
    ASSUME IdentityTypeOK, NEW v \in DOMAIN invites,
           NEW st \in {"pending", "accepted", "revoked"}, invites' = Closed(v, st)
    PROVE  /\ invites' \in Seq(Invitation) /\ Len(invites') = Len(invites)
           /\ DOMAIN invites' = DOMAIN invites
           /\ invites'[v].status = st /\ invites'[v].org = invites[v].org
           /\ invites'[v].email = invites[v].email
           /\ \A w \in DOMAIN invites \ {v} : invites'[w] = invites[w]
<1> DEFINE r == invites[v]
           row == [r EXCEPT !.status = st, !.live = FALSE]
<1>1. invites' = [invites EXCEPT ![v] = row]
  BY DEF Closed
<1>2. r \in Invitation
  BY InviteShape
<1> HIDE DEF r
<1>3. row \in Invitation
  BY <1>2 DEF Invitation
<1>4. row.status = st /\ row.org = r.org /\ row.email = r.email
  BY <1>2 DEF Invitation
<1> HIDE DEF row
<1>5. QED
  BY <1>1, <1>3, <1>4, InviteReplaced DEF r

LEMMA InviteExpired ==
    ASSUME IdentityTypeOK, NEW v \in DOMAIN invites,
           invites' = [invites EXCEPT ![v].live = FALSE]
    PROVE  /\ invites' \in Seq(Invitation) /\ Len(invites') = Len(invites)
           /\ DOMAIN invites' = DOMAIN invites
           /\ \A w \in DOMAIN invites :
                /\ invites'[w].status = invites[w].status /\ invites'[w].org = invites[w].org
                /\ invites'[w].email = invites[w].email
<1> DEFINE r == invites[v]
           row == [r EXCEPT !.live = FALSE]
<1>1. invites' = [invites EXCEPT ![v] = row]
  OBVIOUS
<1>2. r \in Invitation
  BY InviteShape
<1> HIDE DEF r
<1>3. row \in Invitation
  BY <1>2 DEF Invitation
<1>4. row.status = r.status /\ row.org = r.org /\ row.email = r.email
  BY <1>2 DEF Invitation
<1> HIDE DEF row
<1>5. /\ invites' \in Seq(Invitation) /\ Len(invites') = Len(invites)
      /\ DOMAIN invites' = DOMAIN invites /\ invites'[v] = row
      /\ \A w \in DOMAIN invites \ {v} : invites'[w] = invites[w]
  BY <1>1, <1>3, InviteReplaced
<1>6. QED
  BY <1>4, <1>5 DEF r

(****************************** steps ****************************************)
\* A step that changes no table: the request s goes on to c, which is what it
\* has just read.
Reads(s, c) ==
    /\ Goes(s, c) /\ UNCHANGED <<users, invites, orgs, excused, crowded>>
    /\ c.at = "login" =>
         /\ c.user \in DOMAIN users /\ c.set = Changes(c.who, c.user)
         /\ \/ users[c.user].uid = c.who.uid
            \/ ByUid(c.who.uid) = {} /\ users[c.user].email = c.who.email
    /\ c.at = "join" => c.inv \in DOMAIN invites /\ invites[c.inv].email = c.who.email
    /\ c.at = "handle" => c.user \in DOMAIN users /\ c.role = users[c.user].role
    /\ c.at \in Asking => c.org \in 1..orgs
    /\ c.at = "listing" => c.members = Cardinality(Members(c.org))
    /\ c.at = "inviting" =>
         /\ call[s].at = "listing" /\ c.org = call[s].org
         /\ Seats = 0 \/ call[s].members + Cardinality(Pending(c.org)) < Seats
    /\ c.at = "revoking" => c.inv \in DOMAIN invites
    /\ c.at = "ranking" =>
         /\ c.target \in DOMAIN users /\ c.org = users[c.target].org
         /\ c.panel \/ (Requires(s, "owner") /\ MayRank(s, c.target, c.role))
\* A request that is turned away finds an account of its address, of another
\* provider, or wanted a uid or an address that another account has.
TurnedAway(s, c) ==
    c.at = "unavailable" =>
      \/ call[s].at \in {"join", "found"} /\ Taken(call[s].who) /\ ByUid(call[s].who.uid) = {}
      \/ call[s].at = "login"
         /\ \E w \in DOMAIN users \ {call[s].user} :
              \/ users[w].uid \in {users[call[s].user].uid, call[s].who.uid}
              \/ users[w].email \in {users[call[s].user].email, call[s].who.email}

\* The request goes on as the account u, or is refused.
Enters(c, u, row) ==
    c.at = "idle" \/ (c.at = "handle" /\ c.user = u /\ c.role = row.role)

\* A known account signs in, and keeps everything but its uid, its address and
\* perhaps its role.
LogsIn(s, row, c) ==
    LET u == call[s].user
        i == call[s].who
    IN  /\ call[s].at = "login" /\ u \in DOMAIN users
        /\ users' = [users EXCEPT ![u] = row] /\ Goes(s, c) /\ Enters(c, u, row)
        /\ row.uid \in {users[u].uid, i.uid} /\ row.email \in {users[u].email, i.email}
        /\ row.role \in {users[u].role, "admin"}
        /\ row.org = users[u].org /\ row.via = users[u].via
        /\ \A w \in DOMAIN users \ {u} : users[w].uid # row.uid /\ users[w].email # row.email
        /\ UNCHANGED <<invites, orgs, excused, crowded>>
Joins(s, row, c) ==
    LET i == call[s].who
        v == call[s].inv
    IN  /\ call[s].at = "join" /\ ~Taken(i) /\ Len(users) < MaxUsers
        /\ users' = Append(users, row) /\ invites' = Closed(v, "accepted")
        /\ row.uid = i.uid /\ row.email = i.email
        /\ row.org = invites[v].org /\ row.via = v
        /\ crowded' = crowded \cup {o \in {row.org} :
             \/ invites[v].status # "pending"
             \/ \E z \in Sessions : call[z].at = "listing" /\ call[z].org = o}
        /\ Goes(s, c) /\ Enters(c, Len(users) + 1, row)
        /\ UNCHANGED <<orgs, excused>>
Founds(s, row, c) ==
    LET i == call[s].who
    IN  /\ call[s].at = "found" /\ ~Taken(i) /\ Len(users) < MaxUsers
        /\ users' = Append(users, row) /\ orgs' = orgs + 1
        /\ row.uid = i.uid /\ row.email = i.email
        /\ row.org = orgs + 1 /\ row.via = 0 /\ row.role \in {"owner", "admin"}
        /\ Goes(s, c) /\ Enters(c, Len(users) + 1, row)
        /\ UNCHANGED <<invites, excused, crowded>>

LEMMA GoesOn ==
    ASSUME IdentityTypeOK, NEW s \in Sessions, NEW c \in Call, Goes(s, c)
    PROVE  /\ call' \in [Sessions -> Call] /\ call'[s] = c
           /\ \A z \in Sessions \ {s} : call'[z] = call[z]
BY DEF IdentityTypeOK, Goes

LEMMA AdmitEnters ==
    ASSUME NEW s, NEW u \in 1..MaxUsers, NEW row \in User, Admit(s, u, row)
    PROVE  \E c \in Call : Goes(s, c) /\ Enters(c, u, row)
<1>1. row.role \in Role
  BY DEF User
<1>2. CASE row.active
  <2> DEFINE c == [at |-> "handle", user |-> u, role |-> row.role]
  <2>1. c \in Call /\ c.at = "handle" /\ c.user = u /\ c.role = row.role
    BY <1>1 DEF Call
  <2>2. Goes(s, c)
    BY <1>2 DEF Admit
  <2> HIDE DEF c
  <2> QED BY <2>1, <2>2 DEF Enters
<1>3. CASE ~row.active
  BY <1>3, IdleShape DEF Admit, Enters
<1>4. QED
  BY <1>2, <1>3

\* The oldest of some rows is one of them.
LEMMA OldestIsOne ==
    ASSUME NEW S \in SUBSET Nat, S # {}
    PROVE  OldestFirst(S) \in S
<1>1. PICK x \in S : \A y \in S : ~(<<y, x>> \in OpToRel(<, Nat))
  BY NatLessThanWellFounded, WFMin
<1>2. \A y \in S : ~(y < x)
  BY <1>1 DEF OpToRel
<1>3. \A y \in S : x <= y
  BY <1>2
<1>4. QED
  BY <1>3 DEF OldestFirst

LEMMA ExistingIsUsed ==
    ASSUME RowsInv, NEW s \in Sessions, NEW i \in Identities, UseExisting(s, i),
           UNCHANGED excused, Taken(i), call[s].at \in {"join", "found"}, call[s].who = i
    PROVE  \E c \in Call : Reads(s, c) /\ TurnedAway(s, c)
<1>1. CASE \E u \in ByUid(i.uid) : Admit(s, u, users[u])
  <2>1. PICK u \in DOMAIN users : Admit(s, u, users[u])
    BY <1>1 DEF ByUid
  <2>2. u \in 1..MaxUsers /\ users[u] \in User
    BY UserShape, Lengths DEF RowsInv
  <2>3. PICK c \in Call : Goes(s, c) /\ Enters(c, u, users[u])
    BY <2>1, <2>2, AdmitEnters
  <2>4. Reads(s, c) /\ TurnedAway(s, c)
    BY <2>3 DEF Reads, Asking, Enters, UseExisting, TurnedAway
  <2> QED BY <2>4
<1>2. CASE ByUid(i.uid) = {} /\ Goes(s, [at |-> "unavailable"])
  <2> DEFINE c == [at |-> "unavailable"]
  <2>1. c \in Call /\ c.at = "unavailable" /\ Goes(s, c)
    BY <1>2, IdleShape
  <2> HIDE DEF c
  <2>2. Reads(s, c) /\ TurnedAway(s, c)
    BY <1>2, <2>1 DEF Reads, Asking, UseExisting, TurnedAway
  <2> QED BY <2>1, <2>2
<1>3. QED
  BY <1>1, <1>2 DEF UseExisting

LEMMA ArriveReads ==
    ASSUME RowsInv, NEW s \in Sessions, Arrive(s)
    PROVE  \E c \in Call : Reads(s, c) /\ c.at # "unavailable"
<1> DEFINE known(i) == IF ByUid(i.uid) # {} THEN ByUid(i.uid) ELSE ByEmail(i.email)
<1>1. PICK i \in Identities :
        \/ \E u \in known(i) :
             Goes(s, [at |-> "login", who |-> i, user |-> u, set |-> Changes(i, u)])
        \/ /\ known(i) = {} /\ Acceptable(i.email) # {}
           /\ Goes(s, [at |-> "join", who |-> i, inv |-> OldestFirst(Acceptable(i.email))])
        \/ Goes(s, [at |-> "found", who |-> i])
  BY DEF Arrive
<1>2. UNCHANGED <<users, invites, orgs, excused, crowded>>
  BY DEF Arrive
<1>3. ASSUME NEW u \in known(i),
             Goes(s, [at |-> "login", who |-> i, user |-> u, set |-> Changes(i, u)])
      PROVE  \E c \in Call : Reads(s, c) /\ c.at # "unavailable"
  <2> DEFINE c == [at |-> "login", who |-> i, user |-> u, set |-> Changes(i, u)]
  <2>1. /\ u \in DOMAIN users
        /\ \/ users[u].uid = i.uid
           \/ ByUid(i.uid) = {} /\ users[u].email = i.email
    BY DEF ByUid, ByEmail
  <2>2. Changes(i, u) \in SUBSET {"uid", "email", "role"}
    BY DEF Changes
  <2>3. u \in 1..MaxUsers
    BY <2>1, Lengths DEF RowsInv
  <2>4. /\ c \in Call /\ c.at = "login" /\ c.who = i /\ c.user = u
        /\ c.set = Changes(i, u)
    BY <2>2, <2>3 DEF Call
  <2>5. Goes(s, c)
    BY <1>3
  <2> HIDE DEF c
  <2>6. Reads(s, c)
    BY <1>2, <2>1, <2>4, <2>5 DEF Reads, Asking
  <2> QED BY <2>4, <2>6
<1>4. ASSUME Acceptable(i.email) # {},
             Goes(s, [at |-> "join", who |-> i, inv |-> OldestFirst(Acceptable(i.email))])
      PROVE  \E c \in Call : Reads(s, c) /\ c.at # "unavailable"
  <2> DEFINE v == OldestFirst(Acceptable(i.email))
             c == [at |-> "join", who |-> i, inv |-> v]
  <2>1. Acceptable(i.email) \in SUBSET Nat
    BY Lengths DEF Acceptable, RowsInv
  <2>2. v \in Acceptable(i.email)
    BY <1>4, <2>1, OldestIsOne
  <2>3. Goes(s, c)
    BY <1>4
  <2> HIDE DEF v
  <2>4. v \in DOMAIN invites /\ v \in 1..MaxInvites /\ invites[v].email = i.email
    BY <2>2, Lengths DEF Acceptable, RowsInv
  <2>5. c \in Call /\ c.at = "join" /\ c.who = i /\ c.inv = v
    BY <2>4 DEF Call
  <2> HIDE DEF c
  <2>6. Reads(s, c)
    BY <1>2, <2>3, <2>4, <2>5 DEF Reads, Asking
  <2> QED BY <2>5, <2>6
<1>5. ASSUME Goes(s, [at |-> "found", who |-> i])
      PROVE  \E c \in Call : Reads(s, c) /\ c.at # "unavailable"
  <2> DEFINE c == [at |-> "found", who |-> i]
  <2>1. c \in Call /\ c.at = "found" /\ Goes(s, c)
    BY <1>5 DEF Call
  <2> HIDE DEF c
  <2>2. Reads(s, c)
    BY <1>2, <2>1 DEF Reads, Asking
  <2> QED BY <2>1, <2>2
<1>6. QED
  BY <1>1, <1>3, <1>4, <1>5

LEMMA MembersFit ==
    ASSUME IdentityTypeOK, NEW o
    PROVE  Cardinality(Members(o)) \in 0..MaxUsers
<1>1. /\ IsFiniteSet(1..MaxUsers) /\ Cardinality(1..MaxUsers) = MaxUsers
  BY FS_Interval, IdentityAssumption
<1>2. Members(o) \subseteq 1..MaxUsers
  BY Lengths DEF Members
<1>3. /\ IsFiniteSet(Members(o))
      /\ Cardinality(Members(o)) <= Cardinality(1..MaxUsers)
  BY <1>1, <1>2, FS_Subset
<1>4. Cardinality(Members(o)) \in Nat
  BY <1>3, FS_CardinalityType
<1>5. QED
  BY <1>1, <1>3, <1>4, IdentityAssumption

LEMMA EndpointReads ==
    ASSUME RowsInv, NEW s \in Sessions,
           \/ Invite(s) \/ FindPending(s) \/ CountMembers(s) \/ ListPending(s)
           \/ Revoke(s) \/ ChangeRole(s) \/ AdminRole(s)
           \/ Return(s) \/ RequestAborts(s)
    PROVE  \E c \in Call : Reads(s, c) /\ c.at # "unavailable"
<1>1. UNCHANGED <<users, invites, orgs, excused, crowded>>
  BY DEF Invite, FindPending, CountMembers, ListPending, Revoke, ChangeRole, AdminRole,
         Return, RequestAborts
<1>2. ASSUME Goes(s, Idle) PROVE \E c \in Call : Reads(s, c) /\ c.at # "unavailable"
  <2>1. Reads(s, Idle)
    BY <1>1, <1>2, IdleShape DEF Reads, Asking
  <2> QED BY <2>1, IdleShape
<1>3. ASSUME Invite(s) PROVE \E c \in Call : Reads(s, c) /\ c.at # "unavailable"
  <2>1. PICK e \in Emails, r \in Offered :
          \/ Goes(s, [at |-> "asked", org |-> OrgOf(s), email |-> e, role |-> r])
          \/ Goes(s, Idle)
    BY <1>3 DEF Invite
  <2>2. ASSUME Goes(s, [at |-> "asked", org |-> OrgOf(s), email |-> e, role |-> r])
        PROVE  \E c \in Call : Reads(s, c) /\ c.at # "unavailable"
    <3> DEFINE o == OrgOf(s)
               c == [at |-> "asked", org |-> o, email |-> e, role |-> r]
    <3>1. call[s].user \in DOMAIN users
      BY <1>3 DEF Invite, Requires, RowsInv, RefersToRows
    <3>2. o \in 1..MaxUsers /\ o \in 1..orgs
      BY <3>1, UserShape DEF OrgOf, RowsInv, RefersToRows
    <3>3. Goes(s, c)
      BY <2>2
    <3> HIDE DEF o
    <3>4. c \in Call /\ c.at = "asked" /\ c.org = o
      BY <3>2, IdentityAssumption DEF Call
    <3> HIDE DEF c
    <3>5. Reads(s, c)
      BY <1>1, <3>2, <3>3, <3>4 DEF Reads, Asking
    <3> QED BY <3>4, <3>5
  <2> QED BY <1>2, <2>1, <2>2
<1>9. ASSUME call[s].at \in {"asked", "counting", "listing"}
      PROVE  /\ call[s].org \in 1..orgs /\ call[s].org \in 1..MaxUsers
             /\ call[s].email \in Emails /\ call[s].role \in Role
  BY <1>9, CallShape DEF RowsInv, RefersToRows, Asking
<1>10. ASSUME FindPending(s) PROVE \E c \in Call : Reads(s, c) /\ c.at # "unavailable"
  <2> DEFINE q == call[s]
             c == [at |-> "counting", org |-> q.org, email |-> q.email, role |-> q.role]
  <2>1. q.at = "asked" /\ (Goes(s, c) \/ Goes(s, Idle))
    BY <1>10 DEF FindPending, Onward
  <2>2. q.org \in 1..orgs /\ q.org \in 1..MaxUsers /\ q.email \in Emails /\ q.role \in Role
    BY <1>9, <2>1
  <2> HIDE DEF q
  <2>3. c \in Call /\ c.at = "counting" /\ c.org = q.org
    BY <2>2 DEF Call
  <2> HIDE DEF c
  <2>4. Goes(s, c) => Reads(s, c)
    BY <1>1, <2>2, <2>3 DEF Reads, Asking
  <2> QED BY <1>2, <2>1, <2>3, <2>4
<1>11. ASSUME CountMembers(s) PROVE \E c \in Call : Reads(s, c) /\ c.at # "unavailable"
  <2> DEFINE q == call[s]
             k == Cardinality(Members(q.org))
             c == [at |-> "listing", org |-> q.org, email |-> q.email, role |-> q.role,
                   members |-> k]
  <2>1. q.at = "counting" /\ Goes(s, c)
    BY <1>11 DEF CountMembers
  <2>2. q.org \in 1..orgs /\ q.org \in 1..MaxUsers /\ q.email \in Emails /\ q.role \in Role
    BY <1>9, <2>1
  <2>3. k \in 0..MaxUsers
    BY MembersFit DEF RowsInv
  <2> DEFINE o == q.org
  <2>4. k = Cardinality(Members(o))
    OBVIOUS
  <2> HIDE DEF q, k
  <2>5. c \in Call /\ c.at = "listing" /\ c.org = o /\ c.members = k
    BY <2>2, <2>3 DEF Call
  <2> HIDE DEF c
  <2>6. Reads(s, c)
    BY <1>1, <2>1, <2>2, <2>4, <2>5 DEF Reads, Asking
  <2> QED BY <2>5, <2>6
<1>12. ASSUME ListPending(s) PROVE \E c \in Call : Reads(s, c) /\ c.at # "unavailable"
  <2> DEFINE q == call[s]
             c == [at |-> "inviting", org |-> q.org, email |-> q.email, role |-> q.role]
             fits == Seats = 0 \/ q.members + Cardinality(Pending(q.org)) < Seats
  <2>1. q.at = "listing" /\ ((fits /\ Goes(s, c)) \/ Goes(s, Idle))
    BY <1>12 DEF ListPending, Onward
  <2>2. q.org \in 1..orgs /\ q.org \in 1..MaxUsers /\ q.email \in Emails /\ q.role \in Role
    BY <1>9, <2>1
  <2> DEFINE o == q.org
  <2>3. c \in Call /\ c.at = "inviting" /\ c.org = o
    BY <2>2 DEF Call
  <2> HIDE DEF c
  <2>4. Goes(s, c) /\ fits => Reads(s, c)
    BY <1>1, <2>1, <2>2, <2>3 DEF Reads, Asking
  <2> QED BY <1>2, <2>1, <2>3, <2>4
<1>4. ASSUME Revoke(s) PROVE \E c \in Call : Reads(s, c) /\ c.at # "unavailable"
  <2>1. PICK v \in Pending(OrgOf(s)) : Goes(s, [at |-> "revoking", inv |-> v])
    BY <1>4 DEF Revoke
  <2> DEFINE c == [at |-> "revoking", inv |-> v]
  <2>2. v \in DOMAIN invites /\ v \in 1..MaxInvites
    BY Lengths DEF Pending, RowsInv
  <2>3. c \in Call /\ c.at = "revoking" /\ c.inv = v /\ Goes(s, c)
    BY <2>1, <2>2 DEF Call
  <2> HIDE DEF c
  <2>4. Reads(s, c)
    BY <1>1, <2>2, <2>3 DEF Reads, Asking
  <2> QED BY <2>3, <2>4
<1>5. ASSUME NEW t \in DOMAIN users, NEW r \in Grantable, NEW panel \in BOOLEAN,
             panel \/ (Requires(s, "owner") /\ MayRank(s, t, r)),
             Goes(s, [at |-> "ranking", org |-> users[t].org, target |-> t, role |-> r,
                      panel |-> panel])
      PROVE  \E c \in Call : Reads(s, c) /\ c.at # "unavailable"
  <2> DEFINE o == users[t].org
             c == [at |-> "ranking", org |-> o, target |-> t, role |-> r, panel |-> panel]
  <2>1. o \in 1..MaxUsers /\ t \in 1..MaxUsers /\ r \in Role
    BY UserShape, Lengths, IdentityAssumption DEF RowsInv
  <2>2. Goes(s, c)
    BY <1>5
  <2> HIDE DEF o
  <2>3. /\ c \in Call /\ c.at = "ranking" /\ c.org = o /\ c.target = t
        /\ c.role = r /\ c.panel = panel
    BY <2>1 DEF Call
  <2> HIDE DEF c
  <2>4. Reads(s, c)
    BY <1>1, <1>5, <2>2, <2>3 DEF Reads, Asking, o
  <2> QED BY <2>3, <2>4
<1>6. ASSUME ChangeRole(s) PROVE \E c \in Call : Reads(s, c) /\ c.at # "unavailable"
  BY <1>5, <1>6 DEF ChangeRole
<1>7. ASSUME AdminRole(s) PROVE \E c \in Call : Reads(s, c) /\ c.at # "unavailable"
  BY <1>5, <1>7 DEF AdminRole
<1>8. QED
  BY <1>2, <1>3, <1>4, <1>6, <1>7, <1>10, <1>11, <1>12 DEF Return, RequestAborts

LEMMA LoginReadsOrWrites ==
    ASSUME RowsInv, NEW s \in Sessions, CommitLogin(s)
    PROVE  \/ \E c \in Call : Reads(s, c) /\ TurnedAway(s, c)
           \/ \E row \in User, c \in Call : LogsIn(s, row, c)
<1> DEFINE u == call[s].user
           i == call[s].who
           a == IF "uid" \in call[s].set THEN i.uid ELSE users[u].uid
           b == IF "email" \in call[s].set THEN i.email ELSE users[u].email
           d == IF "role" \in call[s].set THEN "admin" ELSE users[u].role
           row == [users[u] EXCEPT !.uid = a, !.email = b, !.role = d]
           clash == \E w \in DOMAIN users \ {u} : users[w].uid = row.uid \/ users[w].email = row.email
<1>1. /\ call[s].at = "login" /\ UNCHANGED <<invites, orgs, excused, crowded>>
      /\ \/ clash /\ Goes(s, [at |-> "unavailable"]) /\ UNCHANGED users
         \/ ~clash /\ users' = [users EXCEPT ![u] = row] /\ Admit(s, u, row)
  BY DEF CommitLogin
<1>2. u \in DOMAIN users /\ u \in 1..MaxUsers /\ i \in Identities
  BY <1>1, Lengths, CallShape DEF RowsInv, RefersToRows
<1>3. /\ users[u] \in User /\ a \in {users[u].uid, i.uid} /\ b \in {users[u].email, i.email}
      /\ d \in {users[u].role, "admin"}
  BY <1>2, UserShape DEF RowsInv
<1>4. a \in Uids /\ b \in Emails /\ d \in Role
  BY <1>2, <1>3, UserShape DEF RowsInv, Uids, Emails, Role
<1>5. /\ row \in User /\ row.uid = a /\ row.email = b /\ row.role = d
      /\ row.org = users[u].org /\ row.via = users[u].via
  <2> DEFINE r == users[u]
  <2>1. row = [r EXCEPT !.uid = a, !.email = b, !.role = d] /\ r \in User
    BY <1>3
  <2> HIDE DEF r, a, b, d, row
  <2>2. row \in User
    BY <1>4, <2>1 DEF User, Uids
  <2>3. row.uid = a /\ row.email = b /\ row.role = d /\ row.org = r.org /\ row.via = r.via
    BY <1>4, <2>1 DEF User
  <2> QED BY <2>2, <2>3 DEF r
<1> HIDE DEF row, u, i, a, b, d
<1>6. CASE clash /\ Goes(s, [at |-> "unavailable"]) /\ UNCHANGED users
  <2> DEFINE c == [at |-> "unavailable"]
  <2>1. c \in Call /\ c.at = "unavailable" /\ Goes(s, c)
    BY <1>6, IdleShape
  <2> HIDE DEF c
  <2>2. Reads(s, c)
    BY <1>1, <1>6, <2>1 DEF Reads, Asking
  <2>3. PICK w \in DOMAIN users \ {u} : users[w].uid = a \/ users[w].email = b
    BY <1>5, <1>6
  <2>4. TurnedAway(s, c)
    BY <1>1, <1>3, <2>3 DEF TurnedAway, u, i
  <2> QED BY <2>1, <2>2, <2>4
<1>7. CASE ~clash /\ users' = [users EXCEPT ![u] = row] /\ Admit(s, u, row)
  <2>1. PICK c \in Call : Goes(s, c) /\ Enters(c, u, row)
    BY <1>2, <1>5, <1>7, AdmitEnters
  <2>2. LogsIn(s, row, c)
    BY <1>1, <1>2, <1>3, <1>5, <1>7, <2>1 DEF LogsIn, u, i
  <2> QED BY <1>5, <2>2
<1>8. QED
  BY <1>1, <1>6, <1>7

LEMMA JoinReadsOrWrites ==
    ASSUME RowsInv, NEW s \in Sessions, CommitJoin(s)
    PROVE  \/ \E c \in Call : Reads(s, c) /\ TurnedAway(s, c)
           \/ \E row \in User, c \in Call : Joins(s, row, c)
<1> DEFINE i == call[s].who
           v == call[s].inv
           row == [uid |-> i.uid, email |-> i.email, role |-> invites[v].role,
                   org |-> invites[v].org, active |-> TRUE, via |-> v]
<1>1. /\ call[s].at = "join" /\ UNCHANGED excused
      /\ \/ Taken(i) /\ UseExisting(s, i)
         \/ /\ ~Taken(i) /\ Len(users) < MaxUsers
            /\ users' = Append(users, row)
            /\ invites' = Closed(v, "accepted")
            /\ crowded' = crowded \cup {o \in {row.org} :
             \/ invites[v].status # "pending"
             \/ \E z \in Sessions : call[z].at = "listing" /\ call[z].org = o}
            /\ Admit(s, Len(users) + 1, row)
            /\ UNCHANGED orgs
  BY DEF CommitJoin
<1>2. v \in DOMAIN invites /\ v \in 1..MaxInvites /\ i \in Identities
  BY <1>1, Lengths, CallShape DEF RowsInv, RefersToRows
<1>3. CASE Taken(i) /\ UseExisting(s, i)
  BY <1>1, <1>2, <1>3, ExistingIsUsed
<1>4. CASE ~(Taken(i) /\ UseExisting(s, i))
  <2>1. i.uid \in Uids /\ i.email \in Emails
    BY <1>2 DEF Uids, Emails
  <2>2. invites[v].role \in Role /\ invites[v].org \in 1..MaxUsers
    BY <1>2, InviteShape DEF RowsInv
  <2>3. row \in User
    BY <1>2, <2>1, <2>2 DEF User, Uids
  <2>4. /\ row.uid = i.uid /\ row.email = i.email /\ row.org = invites[v].org /\ row.via = v
    OBVIOUS
  <2> HIDE DEF row
  <2>5. Len(users) + 1 \in 1..MaxUsers
    BY <1>1, <1>4, Lengths, IdentityAssumption DEF RowsInv
  <2>6. PICK c \in Call : Goes(s, c) /\ Enters(c, Len(users) + 1, row)
    BY <1>1, <1>4, <2>3, <2>5, AdmitEnters
  <2>7. Joins(s, row, c)
    BY <1>1, <1>4, <2>4, <2>6 DEF Joins
  <2> QED BY <2>3, <2>7
<1>5. QED
  BY <1>3, <1>4

LEMMA FoundReadsOrWrites ==
    ASSUME RowsInv, NEW s \in Sessions, CommitFound(s)
    PROVE  \/ \E c \in Call : Reads(s, c) /\ TurnedAway(s, c)
           \/ \E row \in User, c \in Call : Founds(s, row, c)
<1> DEFINE i == call[s].who
           d == IF i.email = AdminEmail THEN "admin" ELSE "owner"
           row == [uid |-> i.uid, email |-> i.email, org |-> orgs + 1, role |-> d,
                   active |-> TRUE, via |-> 0]
<1>1. /\ call[s].at = "found" /\ UNCHANGED excused
      /\ \/ Taken(i) /\ UseExisting(s, i)
         \/ /\ ~Taken(i) /\ Len(users) < MaxUsers
            /\ users' = Append(users, row)
            /\ orgs' = orgs + 1
            /\ Admit(s, Len(users) + 1, row)
            /\ UNCHANGED <<invites, crowded>>
  BY DEF CommitFound
<1>2. i \in Identities
  BY <1>1, CallShape DEF RowsInv
<1>3. CASE Taken(i) /\ UseExisting(s, i)
  BY <1>1, <1>2, <1>3, ExistingIsUsed
<1>4. CASE ~(Taken(i) /\ UseExisting(s, i))
  <2>1. i.uid \in Uids /\ i.email \in Emails /\ d \in {"owner", "admin"} /\ d \in Role
    BY <1>2 DEF Uids, Emails, Role
  <2>2. /\ orgs + 1 \in 1..MaxUsers /\ Len(users) + 1 \in 1..MaxUsers
        /\ 0 \in 0..MaxInvites
    BY <1>1, <1>4, Lengths, IdentityAssumption DEF RowsInv, RefersToRows
  <2> HIDE DEF d
  <2>3. row \in User
    BY <2>1, <2>2 DEF User, Uids
  <2>4. /\ row.uid = i.uid /\ row.email = i.email /\ row.org = orgs + 1 /\ row.via = 0
        /\ row.role = d
    OBVIOUS
  <2> HIDE DEF row
  <2>5. PICK c \in Call : Goes(s, c) /\ Enters(c, Len(users) + 1, row)
    BY <1>1, <1>4, <2>2, <2>3, AdmitEnters
  <2>6. Founds(s, row, c)
    BY <1>1, <1>4, <2>1, <2>4, <2>5 DEF Founds
  <2> QED BY <2>3, <2>6
<1>5. QED
  BY <1>3, <1>4

\* Every step reads, or writes in one of these ways.
LEMMA StepIsOneOf ==
    ASSUME RowsInv, IdentityNext
    PROVE  \/ \E s \in Sessions, c \in Call : Reads(s, c) /\ TurnedAway(s, c)
           \/ \E s \in Sessions, row \in User, c \in Call :
                LogsIn(s, row, c) \/ Joins(s, row, c) \/ Founds(s, row, c)
           \/ \E s \in Sessions :
                CreateInvite(s) \/ CommitRevoke(s) \/ SetRole(s) \/ AdminStatus(s)
           \/ \E v \in DOMAIN invites : Expire(v)
<1>1. ASSUME NEW s \in Sessions, NEW c \in Call, Reads(s, c), c.at # "unavailable"
      PROVE  Reads(s, c) /\ TurnedAway(s, c)
  BY <1>1 DEF TurnedAway
<1>2. QED
  BY <1>1, ArriveReads, EndpointReads, LoginReadsOrWrites, JoinReadsOrWrites,
     FoundReadsOrWrites DEF IdentityNext

(****************************** the rows *************************************)
LEMMA RowsInit == IdentityInit => RowsInv
<1>1. SUFFICES ASSUME IdentityInit PROVE RowsInv
  OBVIOUS
<1>2. /\ users = <<>> /\ invites = <<>> /\ orgs = 0 /\ excused = {} /\ crowded = {}
      /\ \A s \in Sessions : call[s] = Idle
  BY <1>1 DEF IdentityInit
<1>3. Len(users) = 0 /\ Len(invites) = 0 /\ DOMAIN users = {} /\ DOMAIN invites = {}
  BY <1>2
<1>4. call \in [Sessions -> Call]
  BY <1>1, IdleShape DEF IdentityInit
<1>5. IdentityTypeOK
  BY <1>2, <1>3, <1>4, IdentityAssumption DEF IdentityTypeOK
<1>6. RefersToRows
  BY <1>2, <1>3, IdleShape DEF RefersToRows, Asking
<1>7. QED
  BY <1>5, <1>6 DEF RowsInv

\* References stay good while rows keep their organization and none goes away.
LEMMA RefersKept ==
    ASSUME RowsInv, NEW s \in Sessions, NEW c \in Call, Goes(s, c),
           DOMAIN users \subseteq DOMAIN users', DOMAIN invites \subseteq DOMAIN invites',
           orgs <= orgs', orgs' \in Nat, orgs' <= Len(users'),
           \A u \in DOMAIN users : users'[u].org = users[u].org,
           \A u \in DOMAIN users' \ DOMAIN users : users'[u].org \in 1..orgs',
           \A v \in DOMAIN invites : invites'[v].org = invites[v].org,
           \A v \in DOMAIN invites' \ DOMAIN invites : invites'[v].org \in 1..orgs',
           c.at \in {"login", "handle"} => c.user \in DOMAIN users',
           c.at \in {"join", "revoking"} => c.inv \in DOMAIN invites',
           c.at \in Asking => c.org \in 1..orgs',
           c.at = "ranking" => c.target \in DOMAIN users /\ users[c.target].org = c.org
    PROVE  RefersToRows'
<1>1. /\ call'[s] = c /\ \A z \in Sessions \ {s} : call'[z] = call[z]
  BY GoesOn DEF RowsInv
<1>2. orgs \in Nat /\ \A o \in 1..orgs : o \in 1..orgs'
  BY Lengths DEF RowsInv
<1>3. \A u \in DOMAIN users' : users'[u].org \in 1..orgs'
  BY <1>2 DEF RowsInv, RefersToRows
<1>4. \A v \in DOMAIN invites' : invites'[v].org \in 1..orgs'
  BY <1>2 DEF RowsInv, RefersToRows
<1>5. ASSUME NEW z \in Sessions
      PROVE  /\ call'[z].at \in {"login", "handle"} => call'[z].user \in DOMAIN users'
             /\ call'[z].at \in {"join", "revoking"} => call'[z].inv \in DOMAIN invites'
             /\ call'[z].at \in Asking => call'[z].org \in 1..orgs'
             /\ call'[z].at = "ranking" =>
                  /\ call'[z].target \in DOMAIN users'
                  /\ users'[call'[z].target].org = call'[z].org
  <2>1. CASE z = s
    BY <1>1, <2>1
  <2>2. CASE z # s
    <3>1. call'[z] = call[z]
      BY <1>1, <2>2
    <3> QED BY <1>2, <3>1 DEF RowsInv, RefersToRows
  <2> QED BY <2>1, <2>2
<1>6. QED
  BY <1>3, <1>4, <1>5 DEF RefersToRows

LEMMA RowsNext == RowsInv /\ [IdentityNext]_identityVars => RowsInv'
<1>1. SUFFICES ASSUME RowsInv, [IdentityNext]_identityVars PROVE RowsInv'
  OBVIOUS
<1> USE DEF RowsInv
<1>2. CASE UNCHANGED identityVars
  BY <1>1, <1>2 DEF identityVars, IdentityTypeOK, RefersToRows
<1>3. ASSUME NEW s \in Sessions, NEW c \in Call, Reads(s, c) PROVE RowsInv'
  <2>1. /\ Goes(s, c) /\ UNCHANGED <<users, invites, orgs, excused, crowded>>
        /\ c.at \in {"login", "handle"} => c.user \in DOMAIN users
        /\ c.at \in {"join", "revoking"} => c.inv \in DOMAIN invites
        /\ c.at = "ranking" => c.target \in DOMAIN users /\ users[c.target].org = c.org
        /\ c.at \in Asking => c.org \in 1..orgs
    BY <1>3 DEF Reads
  <2>3. IdentityTypeOK'
    BY <1>1, <2>1, GoesOn DEF IdentityTypeOK
  <2>4. orgs \in Nat /\ orgs <= Len(users)
    BY <1>1, Lengths DEF RefersToRows
  <2>5. RefersToRows'
    BY <1>1, <2>1, <2>4, RefersKept
  <2> QED BY <2>3, <2>5
<1>4. ASSUME NEW s \in Sessions, NEW row \in User, NEW c \in Call, LogsIn(s, row, c)
      PROVE  RowsInv'
  <2>1. PICK u \in DOMAIN users : u = call[s].user
    BY <1>4 DEF LogsIn
  <2>2. /\ users' = [users EXCEPT ![u] = row] /\ Goes(s, c) /\ Enters(c, u, row)
        /\ row.org = users[u].org /\ UNCHANGED <<invites, orgs, excused, crowded>>
    BY <1>4, <2>1 DEF LogsIn
  <2>3. /\ users' \in Seq(User) /\ Len(users') = Len(users) /\ DOMAIN users' = DOMAIN users
        /\ users'[u] = row /\ \A w \in DOMAIN users \ {u} : users'[w] = users[w]
    BY <1>1, <2>2, UserReplaced
  <2>4. IdentityTypeOK'
    BY <1>1, <2>2, <2>3, GoesOn DEF IdentityTypeOK
  <2>5. orgs \in Nat /\ orgs <= Len(users)
    BY <1>1, Lengths DEF RefersToRows
  <2>6. \A w \in DOMAIN users : users'[w].org = users[w].org
    BY <2>2, <2>3
  <2>7. /\ c.at \in {"idle", "handle"}
        /\ c.at = "handle" => c.user \in DOMAIN users'
    BY <2>2, <2>3 DEF Enters
  <2>8. RefersToRows'
    BY <1>1, <2>2, <2>3, <2>5, <2>6, <2>7, RefersKept DEF Asking
  <2> QED BY <2>4, <2>8
<1>5. ASSUME NEW s \in Sessions, NEW row \in User, NEW c \in Call, Joins(s, row, c)
      PROVE  RowsInv'
  <2>1. PICK v \in DOMAIN invites : v = call[s].inv
    BY <1>1, <1>5 DEF Joins, RefersToRows
  <2>2. /\ users' = Append(users, row) /\ Len(users) < MaxUsers
        /\ invites' = Closed(v, "accepted") /\ Goes(s, c) /\ Enters(c, Len(users) + 1, row)
        /\ row.org = invites[v].org /\ UNCHANGED <<orgs, excused>>
        /\ crowded' = crowded \cup {o \in {row.org} :
             \/ invites[v].status # "pending"
             \/ \E z \in Sessions : call[z].at = "listing" /\ call[z].org = o}
    BY <1>5, <2>1 DEF Joins
  <2>3. /\ users' \in Seq(User) /\ Len(users') = Len(users) + 1 /\ Len(users') <= MaxUsers
        /\ DOMAIN users' = DOMAIN users \cup {Len(users) + 1}
        /\ users'[Len(users) + 1] = row /\ \A w \in DOMAIN users : users'[w] = users[w]
    BY <1>1, <2>2, UserAppended
  <2>4. /\ invites' \in Seq(Invitation) /\ Len(invites') = Len(invites)
        /\ DOMAIN invites' = DOMAIN invites /\ invites'[v].org = invites[v].org
        /\ \A w \in DOMAIN invites \ {v} : invites'[w] = invites[w]
    BY <1>1, <2>2, InviteClosed
  <2>5. /\ orgs \in Nat /\ orgs <= Len(users) /\ Len(users) \in Nat
        /\ row.org \in 1..orgs
    BY <1>1, <2>1, <2>2, Lengths DEF RefersToRows
  <2>6. IdentityTypeOK'
    BY <1>1, <2>2, <2>3, <2>4, <2>5, GoesOn DEF IdentityTypeOK
  <2>7. /\ c.at \in {"idle", "handle"}
        /\ c.at = "handle" => c.user \in DOMAIN users'
    BY <2>2, <2>3 DEF Enters
  <2>8. \A w \in DOMAIN invites : invites'[w].org = invites[w].org
    BY <2>4
  <2>9. /\ DOMAIN users \subseteq DOMAIN users' /\ DOMAIN invites \subseteq DOMAIN invites'
        /\ orgs <= orgs' /\ orgs' \in Nat /\ orgs' <= Len(users')
        /\ \A u \in DOMAIN users : users'[u].org = users[u].org
        /\ \A u \in DOMAIN users' \ DOMAIN users : users'[u].org \in 1..orgs'
        /\ \A w \in DOMAIN invites' \ DOMAIN invites : invites'[w].org \in 1..orgs'
    BY <2>2, <2>3, <2>4, <2>5
  <2>10. /\ Goes(s, c) /\ (c.at \in {"login", "handle"} => c.user \in DOMAIN users')
         /\ c.at \notin {"join", "revoking", "ranking"} /\ c.at \notin Asking
    BY <2>2, <2>7 DEF Asking
  <2>11. RefersToRows'
    BY <1>1, <2>8, <2>9, <2>10, RefersKept
  <2> QED BY <2>6, <2>11
<1>6. ASSUME NEW s \in Sessions, NEW row \in User, NEW c \in Call, Founds(s, row, c)
      PROVE  RowsInv'
  <2>2. /\ users' = Append(users, row) /\ Len(users) < MaxUsers
        /\ Goes(s, c) /\ Enters(c, Len(users) + 1, row)
        /\ row.org = orgs + 1 /\ orgs' = orgs + 1 /\ UNCHANGED <<invites, excused, crowded>>
    BY <1>6 DEF Founds
  <2>3. /\ users' \in Seq(User) /\ Len(users') = Len(users) + 1 /\ Len(users') <= MaxUsers
        /\ DOMAIN users' = DOMAIN users \cup {Len(users) + 1}
        /\ users'[Len(users) + 1] = row /\ \A w \in DOMAIN users : users'[w] = users[w]
    BY <1>1, <2>2, UserAppended
  <2>5. /\ orgs \in Nat /\ orgs <= Len(users) /\ Len(users) \in Nat /\ MaxUsers \in Nat
    BY <1>1, <2>2, Lengths, IdentityAssumption DEF RefersToRows
  <2>6. IdentityTypeOK'
    <3>1. orgs' \in 0..MaxUsers /\ 1..orgs \subseteq 1..orgs'
      BY <2>2, <2>5
    <3>2. excused' \subseteq 1..orgs' /\ crowded' \subseteq 1..orgs'
      BY <1>1, <2>2, <3>1 DEF IdentityTypeOK
    <3> QED BY <1>1, <2>2, <2>3, <3>1, <3>2, GoesOn DEF IdentityTypeOK
  <2>7. /\ c.at \in {"idle", "handle"}
        /\ c.at = "handle" => c.user \in DOMAIN users'
    BY <2>2, <2>3 DEF Enters
  <2>9. /\ DOMAIN users \subseteq DOMAIN users' /\ orgs' <= Len(users') /\ orgs <= orgs'
        /\ orgs' \in Nat
        /\ \A u \in DOMAIN users' \ DOMAIN users : users'[u].org \in 1..orgs'
    BY <2>2, <2>3, <2>5
  <2>10. RefersToRows'
    BY <1>1, <2>2, <2>3, <2>7, <2>9, RefersKept DEF Asking
  <2> QED BY <2>6, <2>10
<1>7. ASSUME NEW s \in Sessions, CreateInvite(s) PROVE RowsInv'
  <2> DEFINE q == call[s]
             row == [org |-> q.org, email |-> q.email, role |-> q.role, live |-> TRUE,
                     status |-> "pending"]
  <2>1. /\ q.at = "inviting" /\ Len(invites) < MaxInvites
        /\ invites' = Append(invites, row) /\ Goes(s, Idle)
        /\ UNCHANGED <<users, orgs, excused>>
        /\ crowded' \subseteq crowded \cup {q.org}
    BY <1>7 DEF CreateInvite
  <2>2. q.org \in 1..orgs /\ q.org \in 1..MaxUsers /\ q.email \in Emails /\ q.role \in Role
    BY <1>1, <2>1, CallShape DEF RefersToRows, Asking
  <2> HIDE DEF q
  <2>3. row \in Invitation /\ row.org = q.org
    BY <2>2 DEF Invitation
  <2> HIDE DEF row
  <2>4. /\ invites' \in Seq(Invitation) /\ Len(invites') = Len(invites) + 1
        /\ Len(invites') <= MaxInvites
        /\ DOMAIN invites' = DOMAIN invites \cup {Len(invites) + 1}
        /\ invites'[Len(invites) + 1] = row
        /\ \A w \in DOMAIN invites : invites'[w] = invites[w]
    BY <1>1, <2>1, <2>3, InviteAppended
  <2>5. orgs \in Nat /\ orgs <= Len(users)
    BY <1>1, Lengths DEF RefersToRows
  <2>6. IdentityTypeOK'
    BY <1>1, <2>1, <2>2, <2>4, IdleShape, GoesOn DEF IdentityTypeOK
  <2>7. /\ DOMAIN invites \subseteq DOMAIN invites'
        /\ \A w \in DOMAIN invites' \ DOMAIN invites : invites'[w].org \in 1..orgs'
        /\ \A w \in DOMAIN invites : invites'[w].org = invites[w].org
    BY <2>1, <2>2, <2>3, <2>4
  <2>8. RefersToRows'
    BY <1>1, <2>1, <2>5, <2>7, IdleShape, RefersKept DEF Asking
  <2> QED BY <2>6, <2>8
<1>8. ASSUME NEW s \in Sessions, CommitRevoke(s) PROVE RowsInv'
  <2>1. PICK v \in DOMAIN invites : v = call[s].inv
    BY <1>1, <1>8 DEF CommitRevoke, RefersToRows
  <2>2. /\ invites' = Closed(v, "revoked") /\ Goes(s, Idle)
        /\ UNCHANGED <<users, orgs, excused, crowded>>
    BY <1>8, <2>1 DEF CommitRevoke
  <2>4. /\ invites' \in Seq(Invitation) /\ Len(invites') = Len(invites)
        /\ DOMAIN invites' = DOMAIN invites /\ invites'[v].org = invites[v].org
        /\ \A w \in DOMAIN invites \ {v} : invites'[w] = invites[w]
    BY <1>1, <2>2, InviteClosed
  <2>5. orgs \in Nat /\ orgs <= Len(users)
    BY <1>1, Lengths DEF RefersToRows
  <2>6. IdentityTypeOK'
    BY <1>1, <2>2, <2>4, IdleShape, GoesOn DEF IdentityTypeOK
  <2>7. \A w \in DOMAIN invites : invites'[w].org = invites[w].org
    BY <2>4
  <2>8. RefersToRows'
    BY <1>1, <2>2, <2>4, <2>5, <2>7, IdleShape, RefersKept DEF Asking
  <2> QED BY <2>6, <2>8
<1>9. ASSUME NEW s \in Sessions, SetRole(s) PROVE RowsInv'
  <2> DEFINE q == call[s]
  <2>1. PICK t \in DOMAIN users : t = q.target /\ users[t].org = q.org
    BY <1>1, <1>9 DEF SetRole, RefersToRows
  <2> DEFINE row == [users[t] EXCEPT !.role = q.role]
  <2>2. /\ users' = [users EXCEPT ![t] = row] /\ q.at = "ranking" /\ Goes(s, Idle)
        /\ excused' \subseteq excused \cup {q.org} /\ UNCHANGED <<invites, orgs, crowded>>
    BY <1>9, <2>1 DEF SetRole
  <2>3. q.role \in Role /\ q.org \in 1..orgs /\ users[t] \in User
    BY <1>1, <2>1, <2>2, CallShape, UserShape DEF RefersToRows
  <2> HIDE DEF q
  <2>4. row \in User /\ row.org = users[t].org
    <3> DEFINE r == users[t]
    <3>1. row = [r EXCEPT !.role = q.role] /\ r \in User
      BY <2>3
    <3> HIDE DEF r, row
    <3>2. row \in User
      BY <2>3, <3>1 DEF User
    <3>3. row.org = r.org
      BY <2>3, <3>1 DEF User
    <3> QED BY <3>2, <3>3 DEF r
  <2> HIDE DEF row
  <2>5. /\ users' \in Seq(User) /\ Len(users') = Len(users) /\ DOMAIN users' = DOMAIN users
        /\ users'[t] = row /\ \A w \in DOMAIN users \ {t} : users'[w] = users[w]
    BY <1>1, <2>2, <2>4, UserReplaced
  <2>6. IdentityTypeOK'
    BY <1>1, <2>2, <2>3, <2>5, IdleShape, GoesOn DEF IdentityTypeOK
  <2>7. orgs \in Nat /\ orgs <= Len(users)
    BY <1>1, Lengths DEF RefersToRows
  <2>8. \A w \in DOMAIN users : users'[w].org = users[w].org
    BY <2>4, <2>5
  <2>9. RefersToRows'
    BY <1>1, <2>2, <2>5, <2>7, <2>8, IdleShape, RefersKept DEF Asking
  <2> QED BY <2>6, <2>9
<1>10. ASSUME NEW s \in Sessions, AdminStatus(s) PROVE RowsInv'
  <2>1. PICK t \in DOMAIN users, active \in BOOLEAN :
          users' = [users EXCEPT ![t].active = active]
    BY <1>10 DEF AdminStatus
  <2> DEFINE row == [users[t] EXCEPT !.active = active]
  <2>2. /\ users' = [users EXCEPT ![t] = row] /\ Goes(s, Idle)
        /\ UNCHANGED <<invites, orgs, excused, crowded>>
    BY <1>10, <2>1 DEF AdminStatus
  <2>4. row \in User /\ row.org = users[t].org
    <3> DEFINE r == users[t]
    <3>1. row = [r EXCEPT !.active = active] /\ r \in User
      BY <1>1, UserShape
    <3> HIDE DEF r, row
    <3>2. row \in User
      BY <3>1 DEF User
    <3>3. row.org = r.org
      BY <3>1 DEF User
    <3> QED BY <3>2, <3>3 DEF r
  <2> HIDE DEF row
  <2>5. /\ users' \in Seq(User) /\ Len(users') = Len(users) /\ DOMAIN users' = DOMAIN users
        /\ users'[t] = row /\ \A w \in DOMAIN users \ {t} : users'[w] = users[w]
    BY <1>1, <2>2, <2>4, UserReplaced
  <2>6. IdentityTypeOK'
    BY <1>1, <2>2, <2>5, IdleShape, GoesOn DEF IdentityTypeOK
  <2>7. orgs \in Nat /\ orgs <= Len(users)
    BY <1>1, Lengths DEF RefersToRows
  <2>8. \A w \in DOMAIN users : users'[w].org = users[w].org
    BY <2>4, <2>5
  <2>9. RefersToRows'
    BY <1>1, <2>2, <2>5, <2>7, <2>8, IdleShape, RefersKept DEF Asking
  <2> QED BY <2>6, <2>9
<1>11. ASSUME NEW v \in DOMAIN invites, Expire(v) PROVE RowsInv'
  <2>1. /\ invites' = [invites EXCEPT ![v].live = FALSE]
        /\ UNCHANGED <<users, orgs, call, excused, crowded>>
    BY <1>11 DEF Expire
  <2>2. /\ invites' \in Seq(Invitation) /\ Len(invites') = Len(invites)
        /\ DOMAIN invites' = DOMAIN invites
        /\ \A w \in DOMAIN invites : invites'[w].org = invites[w].org
    BY <1>1, <2>1, InviteExpired
  <2>3. IdentityTypeOK'
    BY <1>1, <2>1, <2>2 DEF IdentityTypeOK
  <2>4. RefersToRows'
    BY <1>1, <2>1, <2>2 DEF RefersToRows
  <2> QED BY <2>3, <2>4
<1>12. QED
  BY <1>1, <1>2, <1>3, <1>4, <1>5, <1>6, <1>7, <1>8, <1>9, <1>10, <1>11, StepIsOneOf

\* Every row and every request stays of its kind.
THEOREM IdentityTypeCorrect == IdentitySpec => []IdentityTypeOK
<1>1. RowsInv => IdentityTypeOK
  BY DEF RowsInv
<1>2. QED
  BY <1>1, RowsInit, RowsNext, PTL DEF IdentitySpec

(****************************** owners ***************************************)
Chief(role) == role \in {"owner", "admin"}

\* Organization o keeps a chief whatever becomes of account t.
LeavesChief(o, t) ==
    \E w \in DOMAIN users : w # t /\ users[w].org = o /\ Chief(users[w].role)
\* A request that was let in as a chief is one still, unless its organization
\* is excused.
ChiefsHandle ==
    \A s \in Sessions :
      /\ call[s].at = "handle" /\ users[call[s].user].org \notin excused
      /\ Chief(call[s].role)
      => Chief(users[call[s].user].role)
\* A request that is about to take a role away leaves another chief.
RankersLeaveChief ==
    \A s \in Sessions :
      /\ call[s].at = "ranking" /\ ~call[s].panel /\ call[s].org \notin excused
      /\ ~Chief(call[s].role)
      => LeavesChief(call[s].org, call[s].target)
ChiefInEach ==
    \A o \in (1..orgs) \ excused :
      \E u \in DOMAIN users : users[u].org = o /\ Chief(users[u].role)

GovernInv == ChiefsHandle /\ RankersLeaveChief /\ ChiefInEach

LEMMA Ranks ==
    ASSUME NEW r \in Role
    PROVE  Rank[r] >= Rank["owner"] <=> Chief(r)
<1>1. /\ Rank["viewer"] = 0 /\ Rank["analyst"] = 1 /\ Rank["owner"] = 2 /\ Rank["admin"] = 3
  BY DEF Rank, Role
<1>2. r \in {"viewer", "analyst", "owner", "admin"}
  BY DEF Role
<1>3. QED
  BY <1>1, <1>2 DEF Chief

\* More than one is one, and another.
LEMMA AnotherOne ==
    ASSUME NEW S, IsFiniteSet(S), Cardinality(S) > 1, NEW t
    PROVE  \E w \in S : w # t
<1>1. SUFFICES ASSUME \A w \in S : w = t PROVE FALSE
  OBVIOUS
<1>2. S \subseteq {t}
  BY <1>1
<1>3. IsFiniteSet({t}) /\ Cardinality({t}) = 1
  BY FS_Singleton
<1>4. Cardinality(S) <= 1
  BY <1>2, <1>3, FS_Subset
<1>5. Cardinality(S) \in Nat
  BY FS_CardinalityType
<1>6. QED
  BY <1>4, <1>5

LEMMA RankingLeavesChief ==
    ASSUME RowsInv, GovernInv, NEW s \in Sessions, Requires(s, "owner"),
           NEW t \in DOMAIN users, NEW r \in Role, MayRank(s, t, r),
           users[t].org \notin excused, ~Chief(r)
    PROVE  LeavesChief(users[t].org, t)
<1> DEFINE u == call[s].user
<1>1. /\ call[s].at = "handle" /\ u \in DOMAIN users /\ users[u].org = users[t].org
      /\ Rank[call[s].role] >= Rank["owner"] /\ call[s].role \in Role
  BY CallShape DEF Requires, MayRank, OrgOf, RowsInv, RefersToRows
<1>2. Chief(call[s].role)
  BY <1>1, Ranks
<1>3. CASE t = u
  <2>1. Cardinality(Owners(users[t].org)) > 1
    BY <1>1, <1>3 DEF MayRank, OrgOf, Chief
  <2>2. IsFiniteSet(Owners(users[t].org))
    <3>1. IsFiniteSet(DOMAIN users)
      BY Lengths, FS_Interval DEF RowsInv
    <3>2. Owners(users[t].org) \subseteq DOMAIN users
      BY DEF Owners, Members
    <3> QED BY <3>1, <3>2, FS_Subset
  <2>3. PICK w \in Owners(users[t].org) : w # t
    BY <2>1, <2>2, AnotherOne
  <2> QED BY <2>3 DEF Owners, Members, LeavesChief, Chief
<1>4. CASE t # u
  <2>1. Chief(users[u].role)
    BY <1>1, <1>2 DEF GovernInv, ChiefsHandle
  <2> QED BY <1>1, <1>4, <2>1 DEF LeavesChief
<1>5. QED
  BY <1>3, <1>4

\* Chiefs are kept by every step that takes nobody's rank away.
LEMMA GovernKept ==
    ASSUME RowsInv, GovernInv, NEW s \in Sessions, NEW c \in Call, Goes(s, c),
           excused' = excused, DOMAIN users \subseteq DOMAIN users',
           \A u \in DOMAIN users :
             /\ users'[u].org = users[u].org
             /\ Chief(users[u].role) => Chief(users'[u].role),
           \A o \in (1..orgs') \ (1..orgs) :
             \E u \in DOMAIN users' : users'[u].org = o /\ Chief(users'[u].role),
           c.at = "handle" /\ users'[c.user].org \notin excused /\ Chief(c.role)
             => Chief(users'[c.user].role),
           c.at = "ranking" /\ ~c.panel /\ c.org \notin excused /\ ~Chief(c.role)
             => LeavesChief(c.org, c.target)
    PROVE  GovernInv'
<1>1. /\ call'[s] = c /\ \A z \in Sessions \ {s} : call'[z] = call[z]
  BY GoesOn DEF RowsInv
<1>2. ChiefsHandle'
  <2>1. SUFFICES ASSUME NEW z \in Sessions, call'[z].at = "handle",
                        users'[call'[z].user].org \notin excused, Chief(call'[z].role)
                 PROVE  Chief(users'[call'[z].user].role)
    BY DEF ChiefsHandle, Chief
  <2>2. CASE z = s
    BY <1>1, <2>1, <2>2
  <2>3. CASE z # s
    <3>1. call'[z] = call[z] /\ call[z].user \in DOMAIN users
      BY <1>1, <2>1, <2>3 DEF RowsInv, RefersToRows
    <3> QED BY <2>1, <3>1 DEF GovernInv, ChiefsHandle
  <2> QED BY <2>2, <2>3
<1>3. ASSUME NEW o, NEW t, LeavesChief(o, t)
      PROVE  \E w \in DOMAIN users' : w # t /\ users'[w].org = o /\ Chief(users'[w].role)
  BY <1>3 DEF LeavesChief
<1>4. RankersLeaveChief'
  <2>1. SUFFICES ASSUME NEW z \in Sessions, call'[z].at = "ranking", ~call'[z].panel,
                        call'[z].org \notin excused, ~Chief(call'[z].role)
                 PROVE  \E w \in DOMAIN users' : /\ w # call'[z].target
                                                 /\ users'[w].org = call'[z].org
                                                 /\ Chief(users'[w].role)
    BY DEF RankersLeaveChief, LeavesChief, Chief
  <2>2. LeavesChief(call'[z].org, call'[z].target)
    BY <1>1, <2>1 DEF GovernInv, RankersLeaveChief
  <2> QED BY <1>3, <2>2
<1>5. ChiefInEach'
  <2>1. SUFFICES ASSUME NEW o \in 1..orgs', o \notin excused
                 PROVE  \E u \in DOMAIN users' : users'[u].org = o /\ Chief(users'[u].role)
    BY DEF ChiefInEach, Chief
  <2>2. CASE o \in 1..orgs
    BY <2>1, <2>2 DEF GovernInv, ChiefInEach
  <2> QED BY <2>1, <2>2
<1>6. QED
  BY <1>2, <1>4, <1>5 DEF GovernInv

\* Whoever sets a role leaves a chief, or excuses the organization; and any
\* other request of the organization is excused with it.
LEMMA SetRoleGoverns ==
    ASSUME RowsInv, GovernInv, NEW s \in Sessions, SetRole(s)
    PROVE  GovernInv'
<1> DEFINE q == call[s]
<1>1. PICK t \in DOMAIN users : t = q.target /\ users[t].org = q.org
  BY DEF SetRole, RowsInv, RefersToRows
<1> DEFINE row == [users[t] EXCEPT !.role = q.role]
<1>2. /\ users' = [users EXCEPT ![t] = row] /\ q.at = "ranking" /\ Goes(s, Idle)
      /\ excused' = excused \cup {o \in {q.org} : q.panel \/ Overtakes(s, o)}
      /\ UNCHANGED <<invites, orgs, crowded>>
  BY <1>1 DEF SetRole
<1>3. q.role \in Role /\ users[t] \in User
  BY <1>1, <1>2, CallShape, UserShape DEF RowsInv
<1>4. row \in User /\ row.org = users[t].org /\ row.role = q.role
  <2> DEFINE r == users[t]
             d == q.role
  <2>1. row = [r EXCEPT !.role = d] /\ r \in User /\ d \in Role
    BY <1>3
  <2> HIDE DEF r, row, d
  <2>2. row \in User
    BY <2>1 DEF User
  <2>3. row.org = r.org /\ row.role = d
    BY <2>1 DEF User
  <2> QED BY <2>2, <2>3 DEF r, d
<1> HIDE DEF row, q
<1>5. /\ DOMAIN users' = DOMAIN users /\ users'[t] = row
      /\ \A w \in DOMAIN users \ {t} : users'[w] = users[w]
  BY <1>2, <1>4, UserReplaced DEF RowsInv
<1>6. /\ call'[s] = Idle /\ \A z \in Sessions \ {s} : call'[z] = call[z]
  BY <1>2, IdleShape, GoesOn DEF RowsInv
<1>7. \A w \in DOMAIN users : users'[w].org = users[w].org
  BY <1>4, <1>5
<1>8. excused \subseteq excused'
  BY <1>2
<1>9. ChiefsHandle'
  <2>1. SUFFICES ASSUME NEW z \in Sessions, call'[z].at = "handle",
                        users'[call'[z].user].org \notin excused', Chief(call'[z].role)
                 PROVE  Chief(users'[call'[z].user].role)
    BY DEF ChiefsHandle, Chief
  <2>2. z # s /\ call'[z] = call[z] /\ call[z].user \in DOMAIN users
    BY <1>6, <2>1, IdleShape DEF RowsInv, RefersToRows
  <2>3. users[call[z].user].org # q.org
    BY <1>2, <1>7, <2>1, <2>2 DEF Overtakes
  <2>4. call[z].user # t
    BY <1>1, <2>3
  <2>5. Chief(users[call[z].user].role)
    BY <1>7, <1>8, <2>1, <2>2 DEF GovernInv, ChiefsHandle
  <2> QED BY <1>5, <2>2, <2>4, <2>5
<1>10. RankersLeaveChief'
  <2>1. SUFFICES ASSUME NEW z \in Sessions, call'[z].at = "ranking", ~call'[z].panel,
                        call'[z].org \notin excused', ~Chief(call'[z].role)
                 PROVE  \E w \in DOMAIN users' : /\ w # call'[z].target
                                                 /\ users'[w].org = call'[z].org
                                                 /\ Chief(users'[w].role)
    BY DEF RankersLeaveChief, LeavesChief, Chief
  <2>2. z # s /\ call'[z] = call[z]
    BY <1>6, <2>1, IdleShape
  <2>3. call[z].org # q.org
    BY <1>2, <2>1, <2>2 DEF Overtakes
  <2>4. PICK w \in DOMAIN users : /\ w # call[z].target /\ users[w].org = call[z].org
                                  /\ Chief(users[w].role)
    BY <1>8, <2>1, <2>2 DEF GovernInv, RankersLeaveChief, LeavesChief
  <2>5. w # t
    BY <1>1, <2>3, <2>4
  <2> QED BY <1>5, <2>2, <2>4, <2>5
<1>11. ChiefInEach'
  <2>1. SUFFICES ASSUME NEW o \in 1..orgs, o \notin excused'
                 PROVE  \E u \in DOMAIN users' : users'[u].org = o /\ Chief(users'[u].role)
    BY <1>2 DEF ChiefInEach, Chief
  <2>2. CASE o # q.org
    <3>1. PICK w \in DOMAIN users : users[w].org = o /\ Chief(users[w].role)
      BY <1>8, <2>1 DEF GovernInv, ChiefInEach
    <3>2. w # t
      BY <1>1, <2>2, <3>1
    <3> QED BY <1>5, <3>1, <3>2
  <2>3. CASE o = q.org /\ Chief(q.role)
    BY <1>1, <1>4, <1>5, <2>3
  <2>4. CASE o = q.org /\ ~Chief(q.role)
    <3>1. ~q.panel /\ o \notin excused
      BY <1>2, <1>8, <2>1, <2>4
    <3>2. PICK w \in DOMAIN users : w # t /\ users[w].org = o /\ Chief(users[w].role)
      BY <1>1, <1>2, <2>4, <3>1 DEF GovernInv, RankersLeaveChief, LeavesChief, q
    <3> QED BY <1>5, <3>2
  <2> QED BY <2>2, <2>3, <2>4
<1>12. QED
  BY <1>9, <1>10, <1>11 DEF GovernInv

LEMMA GovernInit == IdentityInit => GovernInv
BY IdleShape DEF IdentityInit, GovernInv, ChiefsHandle, RankersLeaveChief, ChiefInEach

LEMMA GovernNext == RowsInv /\ GovernInv /\ [IdentityNext]_identityVars => GovernInv'
<1>1. SUFFICES ASSUME RowsInv, GovernInv, [IdentityNext]_identityVars PROVE GovernInv'
  OBVIOUS
<1>0. orgs \in Nat /\ IdentityTypeOK /\ RefersToRows
  BY <1>1, Lengths DEF RowsInv
<1>2. CASE UNCHANGED identityVars
  BY <1>1, <1>2 DEF identityVars, GovernInv, ChiefsHandle, RankersLeaveChief, ChiefInEach,
     LeavesChief, Chief
<1>3. ASSUME NEW s \in Sessions, NEW c \in Call, Reads(s, c) PROVE GovernInv'
  <2>1. /\ Goes(s, c) /\ UNCHANGED <<users, orgs, excused>>
        /\ c.at = "handle" => c.user \in DOMAIN users /\ c.role = users[c.user].role
    BY <1>3 DEF Reads
  <2>2. ASSUME c.at = "ranking", ~c.panel, c.org \notin excused, ~Chief(c.role)
        PROVE  LeavesChief(c.org, c.target)
    <3>1. /\ c.target \in DOMAIN users /\ c.org = users[c.target].org
          /\ Requires(s, "owner") /\ MayRank(s, c.target, c.role)
      BY <1>3, <2>2 DEF Reads
    <3>2. c.role \in Role
      <4>1. c \in [at : {"ranking"}, org : 1..MaxUsers, target : 1..MaxUsers, role : Role,
                   panel : BOOLEAN]
        BY <2>2, SMT DEF Call
      <4> QED BY <4>1
    <3> QED BY <1>1, <2>2, <3>1, <3>2, RankingLeavesChief
  <2> QED BY <1>1, <2>1, <2>2, GovernKept
<1>4. ASSUME NEW s \in Sessions, NEW row \in User, NEW c \in Call, LogsIn(s, row, c)
      PROVE  GovernInv'
  <2>1. PICK u \in DOMAIN users : u = call[s].user
    BY <1>4 DEF LogsIn
  <2>2. /\ users' = [users EXCEPT ![u] = row] /\ Goes(s, c) /\ Enters(c, u, row)
        /\ row.org = users[u].org /\ row.role \in {users[u].role, "admin"}
        /\ UNCHANGED <<orgs, excused>>
    BY <1>4, <2>1 DEF LogsIn
  <2>3. /\ DOMAIN users' = DOMAIN users /\ users'[u] = row
        /\ \A w \in DOMAIN users \ {u} : users'[w] = users[w]
    BY <1>0, <2>2, UserReplaced
  <2>4. \A w \in DOMAIN users :
          /\ users'[w].org = users[w].org
          /\ Chief(users[w].role) => Chief(users'[w].role)
    BY <2>2, <2>3 DEF Chief
  <2>5. /\ c.at # "ranking"
        /\ c.at = "handle" /\ Chief(c.role) => Chief(users'[c.user].role)
    BY <2>2, <2>3 DEF Enters
  <2> QED BY <1>1, <2>2, <2>3, <2>4, <2>5, GovernKept
<1>5. ASSUME NEW s \in Sessions, NEW row \in User, NEW c \in Call,
             Joins(s, row, c) \/ Founds(s, row, c)
      PROVE  GovernInv'
  <2>1. /\ users' = Append(users, row) /\ Len(users) < MaxUsers
        /\ Goes(s, c) /\ Enters(c, Len(users) + 1, row) /\ excused' = excused
        /\ \/ orgs' = orgs
           \/ orgs' = orgs + 1 /\ row.org = orgs + 1 /\ Chief(row.role)
    BY <1>5 DEF Joins, Founds, Chief
  <2>2. /\ DOMAIN users' = DOMAIN users \cup {Len(users) + 1}
        /\ users'[Len(users) + 1] = row /\ \A w \in DOMAIN users : users'[w] = users[w]
    BY <1>0, <2>1, UserAppended
  <2>3. /\ c.at # "ranking"
        /\ c.at = "handle" /\ Chief(c.role) => Chief(users'[c.user].role)
    BY <2>1, <2>2 DEF Enters
  <2>4. \A o \in (1..orgs') \ (1..orgs) :
          \E u \in DOMAIN users' : users'[u].org = o /\ Chief(users'[u].role)
    <3>1. CASE orgs' = orgs
      BY <3>1
    <3>2. CASE orgs' = orgs + 1 /\ row.org = orgs + 1 /\ Chief(row.role)
      <4>1. \A o \in (1..orgs') \ (1..orgs) : o = row.org
        BY <1>0, <3>2
      <4> QED BY <2>2, <3>2, <4>1
    <3> QED BY <2>1, <3>1, <3>2
  <2> QED BY <1>1, <2>1, <2>2, <2>3, <2>4, GovernKept
<1>6. ASSUME NEW s \in Sessions, CreateInvite(s) \/ CommitRevoke(s) PROVE GovernInv'
  <2>1. Goes(s, Idle) /\ UNCHANGED <<users, orgs, excused>>
    BY <1>6 DEF CreateInvite, CommitRevoke
  <2> QED BY <1>1, <2>1, IdleShape, GovernKept
<1>7. ASSUME NEW s \in Sessions, AdminStatus(s) PROVE GovernInv'
  <2>1. PICK t \in DOMAIN users, active \in BOOLEAN :
          users' = [users EXCEPT ![t].active = active]
    BY <1>7 DEF AdminStatus
  <2> DEFINE r == users[t]
             row == [r EXCEPT !.active = active]
  <2>2. users' = [users EXCEPT ![t] = row] /\ Goes(s, Idle) /\ UNCHANGED <<orgs, excused>>
    BY <1>7, <2>1 DEF AdminStatus
  <2>3. r \in User
    BY <1>0, UserShape
  <2> HIDE DEF r
  <2>4. row \in User
    BY <2>3 DEF User
  <2>5. row.org = r.org /\ row.role = r.role
    BY <2>3 DEF User
  <2> HIDE DEF row
  <2>6. /\ DOMAIN users' = DOMAIN users /\ users'[t] = row
        /\ \A w \in DOMAIN users \ {t} : users'[w] = users[w]
    BY <1>0, <2>2, <2>4, UserReplaced
  <2>7. \A w \in DOMAIN users : users'[w].org = users[w].org /\ users'[w].role = users[w].role
    BY <2>5, <2>6 DEF r
  <2> QED BY <1>1, <2>2, <2>6, <2>7, IdleShape, GovernKept
<1>8. ASSUME NEW v \in DOMAIN invites, Expire(v) PROVE GovernInv'
  BY <1>1, <1>8 DEF Expire, GovernInv, ChiefsHandle, RankersLeaveChief, ChiefInEach,
     LeavesChief, Chief
<1>9. QED
  BY <1>1, <1>2, <1>3, <1>4, <1>5, <1>6, <1>7, <1>8, SetRoleGoverns, StepIsOneOf

\* No organization loses its last owner while its own requests come one after
\* another.
THEOREM GovernedThm == IdentitySpec => []Governed
<1>1. RowsInv /\ GovernInv => Governed
  <2>1. SUFFICES ASSUME RowsInv, GovernInv, NEW o \in (1..orgs) \ excused
                 PROVE  \E u \in Members(o) : Rank[users[u].role] >= Rank["owner"]
    BY DEF Governed
  <2>2. PICK u \in DOMAIN users : users[u].org = o /\ Chief(users[u].role)
    BY <2>1 DEF GovernInv, ChiefInEach
  <2>3. users[u].role \in Role
    BY <2>1, UserShape DEF RowsInv
  <2> QED BY <2>2, <2>3, Ranks DEF Members
<1>2. QED
  BY <1>1, RowsInit, RowsNext, GovernInit, GovernNext, PTL DEF IdentitySpec

(****************************** seats ****************************************)
SeatsTaken(o) == Cardinality(Members(o)) + Cardinality(Pending(o))

\* A request that is about to add an invitation has a seat left for it.
InvitersHaveSeat ==
    \A s \in Sessions :
      call[s].at = "inviting" /\ call[s].org \notin crowded => SeatsTaken(call[s].org) < Seats
SeatInv ==
    Seats # 0 => /\ InvitersHaveSeat
                 /\ \A o \in (1..orgs) \ crowded : SeatsTaken(o) <= Seats

\* Whoever counted the members still has their number, while the organization
\* is not crowded.
CountsHold ==
    \A s \in Sessions :
      call[s].at = "listing" /\ call[s].org \notin crowded
      => call[s].members = Cardinality(Members(call[s].org))

LEMMA SeatsAreFinite ==
    ASSUME IdentityTypeOK, NEW o
    PROVE  /\ IsFiniteSet(Members(o)) /\ IsFiniteSet(Pending(o))
           /\ Cardinality(Members(o)) \in Nat /\ Cardinality(Pending(o)) \in Nat
           /\ SeatsTaken(o) \in Nat
<1>1. IsFiniteSet(DOMAIN users) /\ IsFiniteSet(DOMAIN invites)
  BY Lengths, FS_Interval
<1>2. Members(o) \subseteq DOMAIN users /\ Pending(o) \subseteq DOMAIN invites
  BY DEF Members, Pending
<1>3. IsFiniteSet(Members(o)) /\ IsFiniteSet(Pending(o))
  BY <1>1, <1>2, FS_Subset
<1>4. Cardinality(Members(o)) \in Nat /\ Cardinality(Pending(o)) \in Nat
  BY <1>3, FS_CardinalityType
<1>5. QED
  BY <1>3, <1>4 DEF SeatsTaken

\* Seats hold through every step that takes no seat in an organization, or only
\* one that the request had.
LEMMA SeatsKept ==
    ASSUME RowsInv, SeatInv, NEW s \in Sessions, NEW c \in Call, Goes(s, c),
           crowded \subseteq crowded', Seats # 0,
           \A o \in (1..orgs) \ crowded' :
             \/ SeatsTaken(o)' <= SeatsTaken(o)
             \/ /\ SeatsTaken(o)' <= Seats
                /\ \A z \in Sessions \ {s} : call[z].at = "inviting" => call[z].org # o,
           \A o \in (1..orgs') \ (1..orgs) : SeatsTaken(o)' <= Seats,
           \A o \in 1..orgs : SeatsTaken(o)' \in Nat,
           c.at = "inviting" =>
             /\ c.org \in 1..orgs
             /\ c.org \notin crowded' => SeatsTaken(c.org)' < Seats
    PROVE  SeatInv'
<1>1. /\ call'[s] = c /\ \A z \in Sessions \ {s} : call'[z] = call[z]
  BY GoesOn DEF RowsInv
<1>2. \A o \in 1..orgs : SeatsTaken(o) \in Nat
  BY SeatsAreFinite DEF RowsInv
<1>3. InvitersHaveSeat'
  <2>1. SUFFICES ASSUME NEW z \in Sessions, call'[z].at = "inviting",
                        call'[z].org \notin crowded'
                 PROVE  SeatsTaken(call[z].org)' < Seats
    BY DEF InvitersHaveSeat
  <2>2. CASE z = s
    BY <1>1, <2>1, <2>2
  <2>3. CASE z # s
    <3>1. PICK o \in 1..orgs : o = call[z].org /\ call'[z] = call[z]
      BY <1>1, <2>1, <2>3 DEF RowsInv, RefersToRows, Asking
    <3>2. o \notin crowded /\ SeatsTaken(o) < Seats
      BY <2>1, <3>1 DEF SeatInv, InvitersHaveSeat
    <3>3. SeatsTaken(o)' <= SeatsTaken(o)
      BY <2>1, <2>3, <3>1
    <3>4. SeatsTaken(o)' < Seats
      BY <1>2, <3>2, <3>3, IdentityAssumption
    <3> QED BY <3>1, <3>4
  <2> QED BY <2>2, <2>3
<1>4. ASSUME NEW o \in (1..orgs') \ crowded' PROVE SeatsTaken(o)' <= Seats
  <2>1. CASE o \in 1..orgs
    BY <1>2, <2>1, IdentityAssumption DEF SeatInv
  <2> QED BY <2>1
<1>5. QED
  BY <1>3, <1>4 DEF SeatInv

\* Where no row changes its organization and no invitation its status, no seat
\* is taken.
LEMMA SeatsStay ==
    ASSUME NEW o, DOMAIN users' = DOMAIN users, DOMAIN invites' = DOMAIN invites,
           \A u \in DOMAIN users : users'[u].org = users[u].org,
           \A v \in DOMAIN invites : /\ invites'[v].org = invites[v].org
                                     /\ invites'[v].status = invites[v].status
    PROVE  SeatsTaken(o)' = SeatsTaken(o)
<1>1. Members(o)' = Members(o) /\ Pending(o)' = Pending(o)
  BY DEF Members, Pending
<1>2. QED
  BY <1>1 DEF SeatsTaken

\* A new account takes a seat in its organization.
LEMMA MembersGrow ==
    ASSUME RowsInv, NEW o, NEW row \in User, users' = Append(users, row),
           Len(users) < MaxUsers
    PROVE  Cardinality(Members(o))' = Cardinality(Members(o))
                                      + (IF row.org = o THEN 1 ELSE 0)
<1>1. /\ DOMAIN users' = DOMAIN users \cup {Len(users) + 1}
      /\ Len(users) + 1 \notin DOMAIN users
      /\ users'[Len(users) + 1] = row /\ \A u \in DOMAIN users : users'[u] = users[u]
  BY UserAppended DEF RowsInv
<1>2. IsFiniteSet(Members(o)) /\ Cardinality(Members(o)) \in Nat
  BY SeatsAreFinite DEF RowsInv
<1>3. CASE row.org = o
  <2>1. Members(o)' = Members(o) \cup {Len(users) + 1} /\ Len(users) + 1 \notin Members(o)
    BY <1>1, <1>3 DEF Members
  <2>2. Cardinality(Members(o) \cup {Len(users) + 1}) = Cardinality(Members(o)) + 1
    BY <1>2, <2>1, FS_AddElement
  <2> QED BY <1>3, <2>1, <2>2
<1>4. CASE row.org # o
  <2>1. Members(o)' = Members(o)
    BY <1>1, <1>4 DEF Members
  <2> QED BY <1>2, <1>4, <2>1
<1>5. QED
  BY <1>3, <1>4

\* An invitation that is closed gives its seat back.
LEMMA PendingShrinks ==
    ASSUME RowsInv, NEW o, NEW v \in DOMAIN invites, NEW st \in {"accepted", "revoked"},
           invites' = Closed(v, st)
    PROVE  /\ Cardinality(Pending(o))' \in Nat
           /\ Cardinality(Pending(o))' <= Cardinality(Pending(o))
           /\ v \in Pending(o) => Cardinality(Pending(o))' = Cardinality(Pending(o)) - 1
<1>1. /\ DOMAIN invites' = DOMAIN invites /\ invites'[v].status = st
      /\ \A w \in DOMAIN invites \ {v} : invites'[w] = invites[w]
  BY InviteClosed DEF RowsInv
<1>2. Pending(o)' = Pending(o) \ {v}
  BY <1>1 DEF Pending
<1>3. IsFiniteSet(Pending(o)) /\ Cardinality(Pending(o)) \in Nat
  BY SeatsAreFinite DEF RowsInv
<1>4. Pending(o) \ {v} \subseteq Pending(o)
  OBVIOUS
<1>5. /\ IsFiniteSet(Pending(o) \ {v})
      /\ Cardinality(Pending(o) \ {v}) <= Cardinality(Pending(o))
  BY <1>3, <1>4, FS_Subset
<1>6. Cardinality(Pending(o) \ {v}) \in Nat
  BY <1>5, FS_CardinalityType
<1>7. v \in Pending(o) => Cardinality(Pending(o) \ {v}) = Cardinality(Pending(o)) - 1
  BY <1>3, FS_RemoveElement
<1>8. QED
  BY <1>2, <1>5, <1>6, <1>7

\* A new invitation takes one in its own.
LEMMA PendingGrows ==
    ASSUME RowsInv, NEW o, NEW row \in Invitation, invites' = Append(invites, row),
           Len(invites) < MaxInvites, row.status = "pending"
    PROVE  Cardinality(Pending(o))' = Cardinality(Pending(o))
                                      + (IF row.org = o THEN 1 ELSE 0)
<1>1. /\ DOMAIN invites' = DOMAIN invites \cup {Len(invites) + 1}
      /\ Len(invites) + 1 \notin DOMAIN invites
      /\ invites'[Len(invites) + 1] = row
      /\ \A v \in DOMAIN invites : invites'[v] = invites[v]
  BY InviteAppended DEF RowsInv
<1>2. IsFiniteSet(Pending(o)) /\ Cardinality(Pending(o)) \in Nat
  BY SeatsAreFinite DEF RowsInv
<1>3. CASE row.org = o
  <2>1. Pending(o)' = Pending(o) \cup {Len(invites) + 1} /\ Len(invites) + 1 \notin Pending(o)
    BY <1>1, <1>3 DEF Pending
  <2>2. Cardinality(Pending(o) \cup {Len(invites) + 1}) = Cardinality(Pending(o)) + 1
    BY <1>2, <2>1, FS_AddElement
  <2> QED BY <1>3, <2>1, <2>2
<1>4. CASE row.org # o
  <2>1. Pending(o)' = Pending(o)
    BY <1>1, <1>4 DEF Pending
  <2> QED BY <1>2, <1>4, <2>1
<1>5. QED
  BY <1>3, <1>4

\* Writing a role, or suspending an account, changes nothing else of it.
LEMMA FieldKeepsRest ==
    ASSUME IdentityTypeOK, NEW t \in DOMAIN users, NEW x,
           \/ users' = [users EXCEPT ![t].role = x]
           \/ users' = [users EXCEPT ![t].active = x]
    PROVE  /\ DOMAIN users' = DOMAIN users
           /\ \A w \in DOMAIN users :
                /\ users'[w].uid = users[w].uid /\ users'[w].email = users[w].email
                /\ users'[w].org = users[w].org /\ users'[w].via = users[w].via
<1>1. users[t] \in User
  BY UserShape
<1> DEFINE r == users[t]
<1>2. DOMAIN users' = DOMAIN users /\ \A w \in DOMAIN users \ {t} : users'[w] = users[w]
  OBVIOUS
<1>3. users'[t] \in {[r EXCEPT !.role = x], [r EXCEPT !.active = x]}
  OBVIOUS
<1>4. r \in User
  BY <1>1
<1> HIDE DEF r
<1>5. ASSUME NEW row \in {[r EXCEPT !.role = x], [r EXCEPT !.active = x]}
      PROVE  row.uid = r.uid /\ row.email = r.email /\ row.org = r.org /\ row.via = r.via
  BY <1>4 DEF User
<1>6. QED
  BY <1>2, <1>3, <1>5 DEF r

LEMMA SeatInit == IdentityInit => SeatInv
<1>1. SUFFICES ASSUME IdentityInit PROVE SeatInv
  OBVIOUS
<1>2. orgs = 0 /\ \A s \in Sessions : call[s] = Idle
  BY <1>1 DEF IdentityInit
<1>3. 1..orgs = {}
  BY <1>2
<1>4. QED
  BY <1>2, <1>3, IdleShape DEF SeatInv, InvitersHaveSeat

\* A count stays right while the members of its organization do.
LEMMA CountsKept ==
    ASSUME RowsInv, CountsHold, NEW s \in Sessions, NEW c \in Call, Goes(s, c),
           crowded \subseteq crowded',
           \A o \in (1..orgs) \ crowded' :
             \/ Members(o)' = Members(o)
             \/ ~\E z \in Sessions : call[z].at = "listing" /\ call[z].org = o,
           c.at = "listing" =>
             /\ c.org \in 1..orgs /\ Members(c.org)' = Members(c.org)
             /\ c.members = Cardinality(Members(c.org))
    PROVE  CountsHold'
<1>1. /\ call'[s] = c /\ \A z \in Sessions \ {s} : call'[z] = call[z]
  BY GoesOn DEF RowsInv
<1>2. SUFFICES ASSUME NEW z \in Sessions, call'[z].at = "listing", call'[z].org \notin crowded'
               PROVE  call'[z].members
                        = Cardinality({u \in DOMAIN users' : users'[u].org = call'[z].org})
  BY DEF CountsHold, Members
<1>3. CASE z = s
  <2>1. Members(c.org)' = Members(c.org) /\ c.members = Cardinality(Members(c.org))
    BY <1>1, <1>2, <1>3
  <2>2. {u \in DOMAIN users' : users'[u].org = c.org} = Members(c.org)
    BY <2>1 DEF Members
  <2> QED BY <1>1, <1>3, <2>1, <2>2
<1>4. CASE z # s
  <2>1. PICK o \in 1..orgs : o = call[z].org /\ call'[z] = call[z]
    BY <1>1, <1>2, <1>4 DEF RowsInv, RefersToRows, Asking
  <2>2. o \notin crowded' /\ call[z].at = "listing"
    BY <1>2, <2>1
  <2>3. Members(o)' = Members(o) /\ o \notin crowded
    BY <2>1, <2>2
  <2>4. call[z].members = Cardinality(Members(o))
    BY <2>1, <2>2, <2>3 DEF CountsHold
  <2>5. {u \in DOMAIN users' : users'[u].org = o} = Members(o)
    BY <2>3 DEF Members
  <2> QED BY <2>1, <2>4, <2>5
<1>5. QED
  BY <1>3, <1>4

LEMMA CountsInit == IdentityInit => CountsHold
BY IdleShape DEF IdentityInit, CountsHold

LEMMA CountsNext == RowsInv /\ CountsHold /\ [IdentityNext]_identityVars => CountsHold'
<1>1. SUFFICES ASSUME RowsInv, CountsHold, [IdentityNext]_identityVars PROVE CountsHold'
  OBVIOUS
<1>2. CASE UNCHANGED identityVars
  BY <1>1, <1>2 DEF identityVars, CountsHold, Members
<1>3. ASSUME NEW s \in Sessions, NEW c \in Call, Reads(s, c) PROVE CountsHold'
  <2>1. Goes(s, c) /\ UNCHANGED <<users, crowded>>
    BY <1>3 DEF Reads
  <2>2. \A o : Members(o)' = Members(o)
    BY <2>1 DEF Members
  <2>3. c.at = "listing" => c.org \in 1..orgs /\ c.members = Cardinality(Members(c.org))
    BY <1>3 DEF Reads, Asking
  <2> QED BY <1>1, <2>1, <2>2, <2>3, CountsKept
<1>4. ASSUME NEW s \in Sessions, NEW c \in Call, Goes(s, c), c.at # "listing",
             crowded \subseteq crowded', \A o \in 1..orgs : Members(o)' = Members(o)
      PROVE  CountsHold'
  BY <1>1, <1>4, CountsKept
<1>5. ASSUME NEW s \in Sessions, NEW row \in User, NEW c \in Call, LogsIn(s, row, c)
      PROVE  CountsHold'
  <2>1. PICK u \in DOMAIN users : u = call[s].user
    BY <1>5 DEF LogsIn
  <2>2. /\ users' = [users EXCEPT ![u] = row] /\ Goes(s, c) /\ c.at # "listing"
        /\ row.org = users[u].org /\ crowded' = crowded
    BY <1>5, <2>1 DEF LogsIn, Enters
  <2>3. /\ DOMAIN users' = DOMAIN users /\ users'[u] = row
        /\ \A w \in DOMAIN users \ {u} : users'[w] = users[w]
    BY <1>1, <2>2, UserReplaced DEF RowsInv
  <2>4. \A w \in DOMAIN users : users'[w].org = users[w].org
    BY <2>2, <2>3
  <2>5. \A o : Members(o)' = Members(o)
    BY <2>3, <2>4 DEF Members
  <2> QED BY <1>4, <2>2, <2>5
<1>6. ASSUME NEW s \in Sessions, NEW row \in User, NEW c \in Call, Joins(s, row, c)
      PROVE  CountsHold'
  <2>1. /\ users' = Append(users, row) /\ Len(users) < MaxUsers
        /\ Goes(s, c) /\ c.at # "listing" /\ crowded \subseteq crowded'
        /\ (\E z \in Sessions : call[z].at = "listing" /\ call[z].org = row.org)
             => row.org \in crowded'
    BY <1>6 DEF Joins, Enters
  <2>2. /\ DOMAIN users' = DOMAIN users \cup {Len(users) + 1}
        /\ users'[Len(users) + 1] = row /\ \A u \in DOMAIN users : users'[u] = users[u]
    BY <1>1, <2>1, UserAppended DEF RowsInv
  <2>3. \A o : o # row.org => Members(o)' = Members(o)
    BY <2>2 DEF Members
  <2> QED BY <1>1, <2>1, <2>3, CountsKept
<1>7. ASSUME NEW s \in Sessions, NEW row \in User, NEW c \in Call, Founds(s, row, c)
      PROVE  CountsHold'
  <2>1. /\ users' = Append(users, row) /\ Len(users) < MaxUsers
        /\ Goes(s, c) /\ c.at # "listing" /\ crowded' = crowded /\ row.org = orgs + 1
    BY <1>7 DEF Founds, Enters
  <2>2. /\ DOMAIN users' = DOMAIN users \cup {Len(users) + 1}
        /\ users'[Len(users) + 1] = row /\ \A u \in DOMAIN users : users'[u] = users[u]
    BY <1>1, <2>1, UserAppended DEF RowsInv
  <2>3. \A o \in 1..orgs : o # row.org
    BY <1>1, <2>1, Lengths DEF RowsInv
  <2>4. \A o \in 1..orgs : Members(o)' = Members(o)
    BY <2>2, <2>3 DEF Members
  <2> QED BY <1>4, <2>1, <2>4
<1>8. ASSUME NEW s \in Sessions, CreateInvite(s) \/ CommitRevoke(s) PROVE CountsHold'
  <2>1. Goes(s, Idle) /\ users' = users /\ crowded \subseteq crowded'
    BY <1>8 DEF CreateInvite, CommitRevoke
  <2>2. \A o : Members(o)' = Members(o)
    BY <2>1 DEF Members
  <2> QED BY <1>4, <2>1, <2>2, IdleShape
<1>9. ASSUME NEW s \in Sessions, SetRole(s) \/ AdminStatus(s) PROVE CountsHold'
  <2>1. Goes(s, Idle) /\ crowded' = crowded
    BY <1>9 DEF SetRole, AdminStatus
  <2>2. /\ DOMAIN users' = DOMAIN users
        /\ \A w \in DOMAIN users : users'[w].org = users[w].org
    <3>1. CASE SetRole(s)
      BY <1>1, <3>1, FieldKeepsRest DEF SetRole, RowsInv, RefersToRows
    <3>2. CASE AdminStatus(s)
      BY <1>1, <3>2, FieldKeepsRest DEF AdminStatus, RowsInv
    <3> QED BY <1>9, <3>1, <3>2
  <2>3. \A o : Members(o)' = Members(o)
    BY <2>2 DEF Members
  <2> QED BY <1>4, <2>1, <2>3, IdleShape
<1>10. ASSUME NEW v \in DOMAIN invites, Expire(v) PROVE CountsHold'
  BY <1>1, <1>10 DEF Expire, CountsHold, Members
<1>11. QED
  BY <1>1, <1>2, <1>3, <1>5, <1>6, <1>7, <1>8, <1>9, <1>10, StepIsOneOf

LEMMA SeatNext ==
    RowsInv /\ CountsHold /\ SeatInv /\ [IdentityNext]_identityVars => SeatInv'
<1>1. SUFFICES ASSUME RowsInv, CountsHold, SeatInv, [IdentityNext]_identityVars, Seats # 0
               PROVE  SeatInv'
  BY DEF SeatInv
<1>0. /\ orgs \in Nat /\ 1..orgs' \subseteq Int /\ Seats \in Nat
      /\ \A o : /\ Cardinality(Members(o)) \in Nat /\ Cardinality(Pending(o)) \in Nat
                /\ SeatsTaken(o) \in Nat
  BY <1>1, SeatsAreFinite, Lengths, IdentityAssumption DEF RowsInv
<1>2. CASE UNCHANGED identityVars
  BY <1>1, <1>2 DEF identityVars, SeatInv, InvitersHaveSeat, SeatsTaken, Members, Pending
<1>3. ASSUME NEW s \in Sessions, NEW c \in Call, Reads(s, c) PROVE SeatInv'
  <2>1. Goes(s, c) /\ UNCHANGED <<users, invites, orgs, excused, crowded>>
    BY <1>3 DEF Reads
  <2>2. \A o : SeatsTaken(o)' = SeatsTaken(o)
    BY <2>1 DEF SeatsTaken, Members, Pending
  <2>3. c.at = "inviting" => /\ c.org \in 1..orgs
                             /\ c.org \notin crowded => SeatsTaken(c.org) < Seats
    <3>1. c.at = "inviting" =>
            /\ c.org \in 1..orgs /\ call[s].at = "listing" /\ c.org = call[s].org
            /\ call[s].members + Cardinality(Pending(c.org)) < Seats
      BY <1>1, <1>3 DEF Reads, Asking
    <3> QED BY <1>1, <3>1 DEF CountsHold, SeatsTaken
  <2>4. /\ \A o \in (1..orgs) \ crowded' : SeatsTaken(o)' <= SeatsTaken(o)
        /\ \A o \in 1..orgs : SeatsTaken(o)' \in Nat
    BY <1>0, <2>2
  <2>5. (1..orgs') \ (1..orgs) = {} /\ crowded \subseteq crowded'
    BY <2>1
  <2>6. c.at = "inviting" => /\ c.org \in 1..orgs
                             /\ (c.org \notin crowded' => SeatsTaken(c.org)' < Seats)
    BY <2>1, <2>2, <2>3
  <2> QED BY <1>1, <2>1, <2>4, <2>5, <2>6, SeatsKept
<1>4. ASSUME NEW s \in Sessions, Goes(s, Idle), UNCHANGED <<orgs, crowded>>,
             \A o : SeatsTaken(o)' = SeatsTaken(o)
      PROVE  SeatInv'
  <2>1. /\ \A o \in (1..orgs) \ crowded' : SeatsTaken(o)' <= SeatsTaken(o)
        /\ \A o \in 1..orgs : SeatsTaken(o)' \in Nat
        /\ (1..orgs') \ (1..orgs) = {} /\ crowded \subseteq crowded'
    BY <1>0, <1>4
  <2> QED BY <1>1, <1>4, <2>1, IdleShape, SeatsKept
<1>5. ASSUME NEW s \in Sessions, NEW row \in User, NEW c \in Call, LogsIn(s, row, c)
      PROVE  SeatInv'
  <2>1. PICK u \in DOMAIN users : u = call[s].user
    BY <1>5 DEF LogsIn
  <2>2. /\ users' = [users EXCEPT ![u] = row] /\ Goes(s, c) /\ Enters(c, u, row)
        /\ row.org = users[u].org /\ UNCHANGED <<invites, orgs, crowded>>
    BY <1>5, <2>1 DEF LogsIn
  <2>3. /\ DOMAIN users' = DOMAIN users /\ users'[u] = row
        /\ \A w \in DOMAIN users \ {u} : users'[w] = users[w]
    BY <1>1, <2>2, UserReplaced DEF RowsInv
  <2>4. \A w \in DOMAIN users : users'[w].org = users[w].org
    BY <2>2, <2>3
  <2>5. \A o : SeatsTaken(o)' = SeatsTaken(o)
    BY <2>2, <2>3, <2>4, SeatsStay
  <2>6. /\ \A o \in (1..orgs) \ crowded' : SeatsTaken(o)' <= SeatsTaken(o)
        /\ \A o \in 1..orgs : SeatsTaken(o)' \in Nat
        /\ (1..orgs') \ (1..orgs) = {} /\ crowded \subseteq crowded'
    BY <1>0, <2>2, <2>5
  <2>7. c.at # "inviting"
    BY <2>2 DEF Enters
  <2> QED BY <1>1, <2>2, <2>6, <2>7, SeatsKept
<1>6. ASSUME NEW s \in Sessions, NEW row \in User, NEW c \in Call, Joins(s, row, c)
      PROVE  SeatInv'
  <2>1. PICK v \in DOMAIN invites : v = call[s].inv
    BY <1>1, <1>6 DEF Joins, RowsInv, RefersToRows
  <2>2. /\ users' = Append(users, row) /\ Len(users) < MaxUsers
        /\ invites' = Closed(v, "accepted") /\ Goes(s, c) /\ Enters(c, Len(users) + 1, row)
        /\ row.org = invites[v].org /\ orgs' = orgs
        /\ crowded' = crowded \cup {o \in {row.org} :
             \/ invites[v].status # "pending"
             \/ \E z \in Sessions : call[z].at = "listing" /\ call[z].org = o}
    BY <1>6, <2>1 DEF Joins
  <2>3. \A o : /\ Cardinality(Members(o))' = Cardinality(Members(o))
                                             + (IF row.org = o THEN 1 ELSE 0)
               /\ Cardinality(Pending(o))' \in Nat
               /\ Cardinality(Pending(o))' <= Cardinality(Pending(o))
               /\ v \in Pending(o) => Cardinality(Pending(o))' = Cardinality(Pending(o)) - 1
    BY <1>1, <2>2, MembersGrow, PendingShrinks
  <2>4. ASSUME NEW o \in 1..orgs
        PROVE  /\ SeatsTaken(o)' \in Nat
               /\ o \notin crowded' => SeatsTaken(o)' <= SeatsTaken(o)
    <3>1. SeatsTaken(o)' \in Nat
      BY <1>0, <2>3 DEF SeatsTaken
    <3>2. CASE row.org # o
      BY <1>0, <2>3, <3>1, <3>2 DEF SeatsTaken
    <3>3. CASE row.org = o /\ o \notin crowded'
      <4>1. v \in Pending(o)
        BY <2>2, <3>3 DEF Pending
      <4> QED BY <1>0, <2>3, <3>1, <3>3, <4>1 DEF SeatsTaken
    <3> QED BY <3>1, <3>2, <3>3
  <2>5. /\ \A o \in (1..orgs) \ crowded' : SeatsTaken(o)' <= SeatsTaken(o)
        /\ \A o \in 1..orgs : SeatsTaken(o)' \in Nat
        /\ (1..orgs') \ (1..orgs) = {} /\ crowded \subseteq crowded'
    BY <2>2, <2>4
  <2>6. c.at # "inviting"
    BY <2>2 DEF Enters
  <2> QED BY <1>1, <2>2, <2>5, <2>6, SeatsKept
<1>7. ASSUME NEW s \in Sessions, NEW row \in User, NEW c \in Call, Founds(s, row, c)
      PROVE  SeatInv'
  <2>1. /\ users' = Append(users, row) /\ Len(users) < MaxUsers /\ Goes(s, c)
        /\ Enters(c, Len(users) + 1, row) /\ row.org = orgs + 1 /\ orgs' = orgs + 1
        /\ invites' = invites /\ crowded' = crowded
    BY <1>7 DEF Founds
  <2>2. \A o : /\ Cardinality(Members(o))' = Cardinality(Members(o))
                                             + (IF row.org = o THEN 1 ELSE 0)
               /\ Cardinality(Pending(o))' = Cardinality(Pending(o))
    BY <1>1, <2>1, MembersGrow DEF Pending
  <2>3. \A o \in 1..orgs : SeatsTaken(o)' = SeatsTaken(o)
    <3>1. SUFFICES ASSUME NEW o \in 1..orgs PROVE SeatsTaken(o)' = SeatsTaken(o)
      OBVIOUS
    <3>2. row.org # o
      BY <1>0, <2>1
    <3>3. Cardinality(Members(o))' = Cardinality(Members(o)) + 0
      BY <2>2, <3>2
    <3> QED BY <1>0, <2>2, <3>3 DEF SeatsTaken
  <2>4. ASSUME NEW o \in {orgs + 1} PROVE SeatsTaken(o)' <= Seats
    <3>1. Members(o) = {} /\ Pending(o) = {}
      BY <1>0, <1>1 DEF Members, Pending, RowsInv, RefersToRows
    <3>2. Cardinality(Members(o)) = 0 /\ Cardinality(Pending(o)) = 0
      BY <3>1, FS_EmptySet
    <3>3. row.org = o
      BY <2>1
    <3>4. Cardinality(Members(o))' = 1 /\ Cardinality(Pending(o))' = 0
      BY <2>2, <3>2, <3>3
    <3> QED BY <1>0, <1>1, <3>4 DEF SeatsTaken
  <2>5. /\ \A o \in (1..orgs) \ crowded' : SeatsTaken(o)' <= SeatsTaken(o)
        /\ \A o \in 1..orgs : SeatsTaken(o)' \in Nat
        /\ crowded \subseteq crowded'
    BY <1>0, <2>1, <2>3
  <2>6. \A o \in (1..orgs') \ (1..orgs) : SeatsTaken(o)' <= Seats
    <3>1. (1..orgs') \ (1..orgs) = {orgs + 1}
      BY <1>0, <2>1
    <3> QED BY <2>4, <3>1
  <2>7. c.at # "inviting"
    BY <2>1 DEF Enters
  <2> QED BY <1>1, <2>1, <2>5, <2>6, <2>7, SeatsKept
<1>8. ASSUME NEW s \in Sessions, CreateInvite(s) PROVE SeatInv'
  <2> DEFINE q == call[s]
             row == [org |-> q.org, email |-> q.email, role |-> q.role, live |-> TRUE,
                     status |-> "pending"]
             others == \E z \in Sessions \ {s} : call[z].at = "inviting" /\ call[z].org = q.org
  <2>1. /\ q.at = "inviting" /\ Len(invites) < MaxInvites
        /\ invites' = Append(invites, row) /\ Goes(s, Idle) /\ UNCHANGED <<users, orgs>>
        /\ crowded \subseteq crowded' /\ (others => q.org \in crowded')
    BY <1>8 DEF CreateInvite
  <2>2. /\ q.org \in 1..orgs /\ q.org \in 1..MaxUsers /\ q.email \in Emails /\ q.role \in Role
    BY <1>1, <2>1, CallShape DEF RowsInv, RefersToRows, Asking
  <2>3. q.org \notin crowded => SeatsTaken(q.org) < Seats
    BY <1>1, <2>1 DEF SeatInv, InvitersHaveSeat
  <2> HIDE DEF q
  <2>4. row \in Invitation
    BY <2>2 DEF Invitation
  <2>5. row.org = q.org /\ row.status = "pending"
    OBVIOUS
  <2> HIDE DEF row
  <2>6. \A o : /\ Cardinality(Pending(o))' = Cardinality(Pending(o))
                                             + (IF row.org = o THEN 1 ELSE 0)
               /\ Cardinality(Members(o))' = Cardinality(Members(o))
    BY <1>1, <2>1, <2>4, <2>5, PendingGrows DEF Members
  <2>7. ASSUME NEW o \in 1..orgs
        PROVE  /\ SeatsTaken(o)' \in Nat
               /\ o # q.org => SeatsTaken(o)' <= SeatsTaken(o)
               /\ o = q.org => SeatsTaken(o)' = SeatsTaken(o) + 1
    <3>1. CASE row.org = o
      BY <1>0, <2>5, <2>6, <3>1 DEF SeatsTaken
    <3>2. CASE row.org # o
      BY <1>0, <2>5, <2>6, <3>2 DEF SeatsTaken
    <3> QED BY <3>1, <3>2
  <2>8. \A o \in (1..orgs) \ crowded' :
          \/ SeatsTaken(o)' <= SeatsTaken(o)
          \/ /\ SeatsTaken(o)' <= Seats
             /\ \A z \in Sessions \ {s} : call[z].at = "inviting" => call[z].org # o
    <3>1. SUFFICES ASSUME NEW o \in (1..orgs) \ crowded', o = q.org
                   PROVE  /\ SeatsTaken(o)' <= Seats
                          /\ \A z \in Sessions \ {s} : call[z].at = "inviting" => call[z].org # o
      BY <2>7
    <3>2. SeatsTaken(o) < Seats /\ ~others
      BY <2>1, <2>3, <3>1
    <3>3. SeatsTaken(o)' <= Seats
      BY <1>0, <2>7, <3>1, <3>2
    <3> QED BY <3>1, <3>2, <3>3
  <2>9. /\ \A o \in 1..orgs : SeatsTaken(o)' \in Nat
        /\ (1..orgs') \ (1..orgs) = {}
    BY <2>1, <2>7
  <2> QED BY <1>1, <2>1, <2>8, <2>9, IdleShape, SeatsKept
<1>9. ASSUME NEW s \in Sessions, CommitRevoke(s) PROVE SeatInv'
  <2>1. PICK v \in DOMAIN invites : v = call[s].inv
    BY <1>1, <1>9 DEF CommitRevoke, RowsInv, RefersToRows
  <2>2. /\ invites' = Closed(v, "revoked") /\ Goes(s, Idle)
        /\ UNCHANGED <<users, orgs, crowded>>
    BY <1>9, <2>1 DEF CommitRevoke
  <2>3. \A o : /\ Cardinality(Members(o))' = Cardinality(Members(o))
               /\ Cardinality(Pending(o))' \in Nat
               /\ Cardinality(Pending(o))' <= Cardinality(Pending(o))
    BY <1>1, <2>2, PendingShrinks DEF Members
  <2>4. \A o : SeatsTaken(o)' \in Nat /\ SeatsTaken(o)' <= SeatsTaken(o)
    BY <1>0, <2>3 DEF SeatsTaken
  <2>5. (1..orgs') \ (1..orgs) = {} /\ crowded \subseteq crowded'
    BY <2>2
  <2> QED BY <1>1, <2>2, <2>4, <2>5, IdleShape, SeatsKept
<1>10. ASSUME NEW s \in Sessions, SetRole(s) PROVE SeatInv'
  <2>1. PICK t \in DOMAIN users : t = call[s].target
    BY <1>1, <1>10 DEF SetRole, RowsInv, RefersToRows
  <2>2. /\ users' = [users EXCEPT ![t].role = call[s].role] /\ Goes(s, Idle)
        /\ UNCHANGED <<invites, orgs, crowded>>
    BY <1>10, <2>1 DEF SetRole
  <2>3. /\ DOMAIN users' = DOMAIN users
        /\ \A w \in DOMAIN users : users'[w].org = users[w].org
    BY <1>1, <2>1, <2>2, FieldKeepsRest DEF RowsInv
  <2>4. \A o : SeatsTaken(o)' = SeatsTaken(o)
    BY <2>2, <2>3, SeatsStay
  <2> QED BY <1>4, <2>2, <2>4
<1>11. ASSUME NEW s \in Sessions, AdminStatus(s) PROVE SeatInv'
  <2>1. PICK t \in DOMAIN users, active \in BOOLEAN :
          users' = [users EXCEPT ![t].active = active]
    BY <1>11 DEF AdminStatus
  <2>2. Goes(s, Idle) /\ UNCHANGED <<invites, orgs, crowded>>
    BY <1>11 DEF AdminStatus
  <2>3. /\ DOMAIN users' = DOMAIN users
        /\ \A w \in DOMAIN users : users'[w].org = users[w].org
    BY <1>1, <2>1, <2>2, FieldKeepsRest DEF RowsInv
  <2>4. \A o : SeatsTaken(o)' = SeatsTaken(o)
    BY <2>2, <2>3, SeatsStay
  <2> QED BY <1>4, <2>2, <2>4
<1>12. ASSUME NEW v \in DOMAIN invites, Expire(v) PROVE SeatInv'
  <2>1. /\ invites' = [invites EXCEPT ![v].live = FALSE]
        /\ UNCHANGED <<users, orgs, call, excused, crowded>>
    BY <1>12 DEF Expire
  <2>2. /\ DOMAIN invites' = DOMAIN invites
        /\ \A w \in DOMAIN invites : /\ invites'[w].org = invites[w].org
                                     /\ invites'[w].status = invites[w].status
    BY <1>1, <2>1, InviteExpired DEF RowsInv
  <2>3. \A o : SeatsTaken(o)' = SeatsTaken(o)
    BY <2>1, <2>2, SeatsStay
  <2> QED BY <1>1, <2>1, <2>3 DEF SeatInv, InvitersHaveSeat
<1>13. QED
  BY <1>1, <1>2, <1>3, <1>5, <1>6, <1>7, <1>8, <1>9, <1>10, <1>11, <1>12, StepIsOneOf

\* Members and pending invitations keep within the seats of the plan.
THEOREM SeatsHeldThm == IdentitySpec => []SeatsHeld
<1>1. SeatInv => SeatsHeld
  BY DEF SeatInv, SeatsHeld, SeatsUsed, SeatsTaken, Pending
<1>2. QED
  BY <1>1, RowsInit, RowsNext, CountsInit, CountsNext, SeatInit, SeatNext, PTL
     DEF IdentitySpec

(****************************** admission ************************************)
\* An address has one account at most, as the unique index has it, and every
\* account is one that a token named.
OneAccountEach ==
    /\ \A u, w \in DOMAIN users : users[u].email = users[w].email => u = w
    /\ \A u \in DOMAIN users :
         \E i \in Identities : i.uid = users[u].uid /\ i.email = users[u].email
\* A request only writes the row, or accepts the invitation, of its own address.
ActsForItself ==
    \A s \in Sessions :
      /\ call[s].at = "login" => users[call[s].user].email = call[s].who.email
      /\ call[s].at = "join" => invites[call[s].inv].email = call[s].who.email
\* Who was admitted has the address that was invited, and belongs where it says.
AdmittedAsInvited ==
    \A u \in DOMAIN users : users[u].via # 0 =>
      /\ users[u].via \in DOMAIN invites
      /\ invites[users[u].via].email = users[u].email
      /\ invites[users[u].via].org = users[u].org
      /\ invites[users[u].via].status # "pending"
AcceptedAdmits ==
    \A v \in DOMAIN invites : invites[v].status = "accepted" =>
      \E u \in DOMAIN users : users[u].via = v

AdmitInv == OneAddress /\ OneAccountEach /\ ActsForItself /\ AdmittedAsInvited /\ AcceptedAdmits

LEMMA AdmitInit == IdentityInit /\ OneAddress => AdmitInv
<1>1. SUFFICES ASSUME IdentityInit, OneAddress PROVE AdmitInv
  OBVIOUS
<1>2. users = <<>> /\ invites = <<>> /\ \A s \in Sessions : call[s] = Idle
  BY <1>1 DEF IdentityInit
<1>3. DOMAIN users = {} /\ DOMAIN invites = {}
  BY <1>2
<1>4. QED
  BY <1>1, <1>2, <1>3, IdleShape DEF AdmitInv, OneAccountEach, ActsForItself,
     AdmittedAsInvited, AcceptedAdmits

\* What the requests are about stays theirs while addresses stay.
LEMMA ActsKept ==
    ASSUME RowsInv, ActsForItself, NEW s \in Sessions, NEW c \in Call, Goes(s, c),
           \A u \in DOMAIN users : users'[u].email = users[u].email,
           \A v \in DOMAIN invites : invites'[v].email = invites[v].email,
           c.at = "login" => users'[c.user].email = c.who.email,
           c.at = "join" => invites'[c.inv].email = c.who.email
    PROVE  ActsForItself'
<1>1. /\ call'[s] = c /\ \A z \in Sessions \ {s} : call'[z] = call[z]
  BY GoesOn DEF RowsInv
<1>2. SUFFICES ASSUME NEW z \in Sessions
               PROVE  /\ call'[z].at = "login" => users'[call'[z].user].email = call'[z].who.email
                      /\ call'[z].at = "join" => invites'[call'[z].inv].email = call'[z].who.email
  BY DEF ActsForItself
<1>3. CASE z = s
  BY <1>1, <1>3
<1>4. CASE z # s
  <2>1. call'[z] = call[z]
    BY <1>1, <1>4
  <2> QED BY <2>1 DEF ActsForItself, RowsInv, RefersToRows
<1>5. QED
  BY <1>3, <1>4

\* Rows and invitations that keep what admission is about.
LEMMA AdmissionKept ==
    ASSUME AdmitInv, DOMAIN users' = DOMAIN users, DOMAIN invites' = DOMAIN invites,
           \A u \in DOMAIN users :
             /\ users'[u].email = users[u].email /\ users'[u].org = users[u].org
             /\ users'[u].via = users[u].via
             /\ \E i \in Identities : i.uid = users'[u].uid /\ i.email = users'[u].email,
           \A v \in DOMAIN invites :
             /\ invites'[v].email = invites[v].email /\ invites'[v].org = invites[v].org
             /\ invites'[v].status \in {invites[v].status, "revoked"}
    PROVE  OneAccountEach' /\ AdmittedAsInvited' /\ AcceptedAdmits'
<1>1. OneAccountEach'
  BY DEF AdmitInv, OneAccountEach
<1>2. AdmittedAsInvited'
  <2>1. SUFFICES ASSUME NEW u \in DOMAIN users, users[u].via # 0
                 PROVE  /\ users[u].via \in DOMAIN invites
                        /\ invites'[users[u].via].email = users[u].email
                        /\ invites'[users[u].via].org = users[u].org
                        /\ invites'[users[u].via].status # "pending"
    BY DEF AdmittedAsInvited
  <2>2. PICK v \in DOMAIN invites :
          /\ v = users[u].via /\ invites[v].email = users[u].email
          /\ invites[v].org = users[u].org /\ invites[v].status # "pending"
    BY <2>1 DEF AdmitInv, AdmittedAsInvited
  <2> QED BY <2>2
<1>3. AcceptedAdmits'
  BY DEF AdmitInv, AcceptedAdmits
<1>4. QED
  BY <1>1, <1>2, <1>3

\* A new account, at an address nobody has.
LEMMA AccountAdded ==
    ASSUME RowsInv, AdmitInv, NEW s \in Sessions, call[s].who \in Identities,
           NEW row \in User, NEW c \in Call, Goes(s, c), c.at \notin {"login", "join"},
           ~Taken(call[s].who), Len(users) < MaxUsers, users' = Append(users, row),
           row.uid = call[s].who.uid, row.email = call[s].who.email
    PROVE  /\ OneAccountEach'
           /\ DOMAIN users' = DOMAIN users \cup {Len(users) + 1}
           /\ users'[Len(users) + 1] = row
           /\ \A u \in DOMAIN users : users'[u] = users[u]
<1>1. /\ DOMAIN users' = DOMAIN users \cup {Len(users) + 1}
      /\ users'[Len(users) + 1] = row /\ \A u \in DOMAIN users : users'[u] = users[u]
  BY UserAppended DEF RowsInv
<1>2. \A u \in DOMAIN users : users[u].email # row.email
  BY DEF Taken, ByEmail
<1>3. \A u, w \in DOMAIN users' : users'[u].email = users'[w].email => u = w
  BY <1>1, <1>2 DEF AdmitInv, OneAccountEach
<1>4. \A u \in DOMAIN users' :
        \E i \in Identities : i.uid = users'[u].uid /\ i.email = users'[u].email
  BY <1>1 DEF AdmitInv, OneAccountEach
<1>5. QED
  BY <1>1, <1>3, <1>4 DEF OneAccountEach

LEMMA AdmitNext == RowsInv /\ AdmitInv /\ [IdentityNext]_identityVars => AdmitInv'
<1>1. SUFFICES ASSUME RowsInv, AdmitInv, [IdentityNext]_identityVars PROVE AdmitInv'
  OBVIOUS
<1>0. IdentityTypeOK /\ OneAddress' /\ ActsForItself
  BY <1>1 DEF RowsInv, AdmitInv, OneAddress
<1>2. CASE UNCHANGED identityVars
  BY <1>0, <1>1, <1>2 DEF identityVars, AdmitInv, OneAccountEach, ActsForItself,
     AdmittedAsInvited, AcceptedAdmits
<1>3. ASSUME NEW s \in Sessions, NEW c \in Call, Reads(s, c) PROVE AdmitInv'
  <2>1. Goes(s, c) /\ UNCHANGED <<users, invites>>
    BY <1>3 DEF Reads
  <2>2. c.at = "login" => users'[c.user].email = c.who.email
    <3>1. SUFFICES ASSUME c.at = "login" PROVE users[c.user].email = c.who.email
      BY <2>1
    <3>2. /\ c.user \in DOMAIN users
          /\ users[c.user].uid = c.who.uid \/ users[c.user].email = c.who.email
      BY <1>3, <3>1 DEF Reads
    <3>3. c.who \in Identities
      BY <3>1, SMT DEF Call
    <3>4. PICK i \in Identities : i.uid = users[c.user].uid /\ i.email = users[c.user].email
      BY <1>1, <3>2 DEF AdmitInv, OneAccountEach
    <3> QED BY <1>1, <3>2, <3>3, <3>4 DEF AdmitInv, OneAddress
  <2>3. c.at = "join" => invites'[c.inv].email = c.who.email
    BY <1>3, <2>1 DEF Reads
  <2>4. ActsForItself'
    BY <1>0, <1>1, <2>1, <2>2, <2>3, ActsKept
  <2>5. OneAccountEach' /\ AdmittedAsInvited' /\ AcceptedAdmits'
    BY <1>1, <2>1 DEF AdmitInv, OneAccountEach, AdmittedAsInvited, AcceptedAdmits
  <2> QED BY <1>0, <2>4, <2>5 DEF AdmitInv
<1>4. ASSUME NEW s \in Sessions, NEW row \in User, NEW c \in Call, LogsIn(s, row, c)
      PROVE  AdmitInv'
  <2>1. PICK u \in DOMAIN users : u = call[s].user
    BY <1>4 DEF LogsIn
  <2>2. PICK i \in Identities : i = call[s].who
    BY <1>0, <1>4, CallShape DEF LogsIn
  <2>3. /\ users' = [users EXCEPT ![u] = row] /\ Goes(s, c) /\ Enters(c, u, row)
        /\ row.uid \in {users[u].uid, i.uid} /\ row.email \in {users[u].email, i.email}
        /\ row.org = users[u].org /\ row.via = users[u].via
        /\ invites' = invites /\ call[s].at = "login"
    BY <1>4, <2>1, <2>2 DEF LogsIn
  <2>4. users[u].email = i.email
    BY <1>0, <2>1, <2>2, <2>3 DEF ActsForItself
  <2>5. /\ DOMAIN users' = DOMAIN users /\ users'[u] = row
        /\ \A w \in DOMAIN users \ {u} : users'[w] = users[w]
    BY <1>0, <2>3, UserReplaced
  <2>6. \E j \in Identities : j.uid = row.uid /\ j.email = row.email
    BY <1>1, <2>3, <2>4 DEF AdmitInv, OneAccountEach
  <2>7. \A w \in DOMAIN users :
          /\ users'[w].email = users[w].email /\ users'[w].org = users[w].org
          /\ users'[w].via = users[w].via
    BY <2>3, <2>4, <2>5
  <2>8. \A w \in DOMAIN users :
          \E j \in Identities : j.uid = users'[w].uid /\ j.email = users'[w].email
    BY <1>1, <2>5, <2>6 DEF AdmitInv, OneAccountEach
  <2>9. OneAccountEach' /\ AdmittedAsInvited' /\ AcceptedAdmits'
    BY <1>1, <2>3, <2>5, <2>7, <2>8, AdmissionKept
  <2>10. ActsForItself'
    BY <1>0, <1>1, <2>3, <2>7, ActsKept DEF Enters
  <2> QED BY <1>0, <2>9, <2>10 DEF AdmitInv
<1>5. ASSUME NEW s \in Sessions, NEW row \in User, NEW c \in Call, Joins(s, row, c)
      PROVE  AdmitInv'
  <2>1. PICK v \in DOMAIN invites : v = call[s].inv
    BY <1>1, <1>5 DEF Joins, RowsInv, RefersToRows
  <2>2. /\ users' = Append(users, row) /\ Len(users) < MaxUsers /\ ~Taken(call[s].who)
        /\ invites' = Closed(v, "accepted") /\ Goes(s, c) /\ Enters(c, Len(users) + 1, row)
        /\ row.uid = call[s].who.uid /\ row.email = call[s].who.email
        /\ row.org = invites[v].org /\ row.via = v /\ call[s].at = "join"
    BY <1>5, <2>1 DEF Joins
  <2>3. call[s].who \in Identities /\ c.at \notin {"login", "join"}
    BY <1>0, <2>2, CallShape DEF Enters
  <2>4. /\ OneAccountEach' /\ DOMAIN users' = DOMAIN users \cup {Len(users) + 1}
        /\ users'[Len(users) + 1] = row /\ \A u \in DOMAIN users : users'[u] = users[u]
    BY <1>1, <2>2, <2>3, AccountAdded
  <2>5. /\ DOMAIN invites' = DOMAIN invites /\ invites'[v].status = "accepted"
        /\ invites'[v].org = invites[v].org /\ invites'[v].email = invites[v].email
        /\ \A w \in DOMAIN invites \ {v} : invites'[w] = invites[w]
    BY <1>0, <2>2, InviteClosed
  <2>6. invites[v].email = row.email
    BY <1>0, <2>1, <2>2 DEF ActsForItself
  <2>7. AdmittedAsInvited'
    <3>1. SUFFICES ASSUME NEW u \in DOMAIN users', users'[u].via # 0
                   PROVE  /\ users'[u].via \in DOMAIN invites'
                          /\ invites'[users'[u].via].email = users'[u].email
                          /\ invites'[users'[u].via].org = users'[u].org
                          /\ invites'[users'[u].via].status # "pending"
      BY DEF AdmittedAsInvited
    <3>2. CASE u = Len(users) + 1
      BY <2>2, <2>4, <2>5, <2>6, <3>2
    <3>3. CASE u # Len(users) + 1
      <4>1. u \in DOMAIN users /\ users'[u] = users[u]
        BY <2>4, <3>1, <3>3
      <4>2. PICK w \in DOMAIN invites :
              /\ w = users[u].via /\ invites[w].email = users[u].email
              /\ invites[w].org = users[u].org /\ invites[w].status # "pending"
        BY <1>1, <3>1, <4>1 DEF AdmitInv, AdmittedAsInvited
      <4> QED BY <2>5, <4>1, <4>2
    <3> QED BY <3>2, <3>3
  <2>8. AcceptedAdmits'
    <3>1. SUFFICES ASSUME NEW w \in DOMAIN invites, invites'[w].status = "accepted"
                   PROVE  \E u \in DOMAIN users' : users'[u].via = w
      BY <2>5 DEF AcceptedAdmits
    <3>2. CASE w = v
      BY <2>2, <2>4, <3>2
    <3>3. CASE w # v
      <4>1. PICK u \in DOMAIN users : users[u].via = w
        BY <1>1, <2>5, <3>1, <3>3 DEF AdmitInv, AcceptedAdmits
      <4> QED BY <2>4, <4>1
    <3> QED BY <3>2, <3>3
  <2>9. /\ \A u \in DOMAIN users : users'[u].email = users[u].email
        /\ \A w \in DOMAIN invites : invites'[w].email = invites[w].email
    BY <2>4, <2>5
  <2>10. ActsForItself'
    BY <1>0, <1>1, <2>2, <2>3, <2>9, ActsKept
  <2> QED BY <1>0, <2>4, <2>7, <2>8, <2>10 DEF AdmitInv
<1>6. ASSUME NEW s \in Sessions, NEW row \in User, NEW c \in Call, Founds(s, row, c)
      PROVE  AdmitInv'
  <2>2. /\ users' = Append(users, row) /\ Len(users) < MaxUsers /\ ~Taken(call[s].who)
        /\ Goes(s, c) /\ Enters(c, Len(users) + 1, row)
        /\ row.uid = call[s].who.uid /\ row.email = call[s].who.email
        /\ row.via = 0 /\ call[s].at = "found" /\ invites' = invites
    BY <1>6 DEF Founds
  <2>3. call[s].who \in Identities /\ c.at \notin {"login", "join"}
    BY <1>0, <2>2, CallShape DEF Enters
  <2>4. /\ OneAccountEach' /\ DOMAIN users' = DOMAIN users \cup {Len(users) + 1}
        /\ users'[Len(users) + 1] = row /\ \A u \in DOMAIN users : users'[u] = users[u]
    BY <1>1, <2>2, <2>3, AccountAdded
  <2>7. AdmittedAsInvited'
    BY <1>1, <2>2, <2>4 DEF AdmitInv, AdmittedAsInvited
  <2>8. AcceptedAdmits'
    BY <1>1, <2>2, <2>4 DEF AdmitInv, AcceptedAdmits
  <2>9. /\ \A u \in DOMAIN users : users'[u].email = users[u].email
        /\ \A w \in DOMAIN invites : invites'[w].email = invites[w].email
    BY <2>2, <2>4
  <2>10. ActsForItself'
    BY <1>0, <1>1, <2>2, <2>3, <2>9, ActsKept
  <2> QED BY <1>0, <2>4, <2>7, <2>8, <2>10 DEF AdmitInv
<1>7. ASSUME NEW s \in Sessions, CreateInvite(s) PROVE AdmitInv'
  <2> DEFINE q == call[s]
             row == [org |-> q.org, email |-> q.email, role |-> q.role, live |-> TRUE,
                     status |-> "pending"]
  <2>1. /\ q.at = "inviting" /\ Len(invites) < MaxInvites
        /\ invites' = Append(invites, row) /\ Goes(s, Idle) /\ UNCHANGED users
    BY <1>7 DEF CreateInvite
  <2>2. q.org \in 1..MaxUsers /\ q.email \in Emails /\ q.role \in Role
    BY <1>0, <2>1, CallShape DEF Asking
  <2> HIDE DEF q
  <2>3. row \in Invitation
    BY <2>2 DEF Invitation
  <2>4. row.status = "pending"
    OBVIOUS
  <2> HIDE DEF row
  <2>5. /\ DOMAIN invites' = DOMAIN invites \cup {Len(invites) + 1}
        /\ invites'[Len(invites) + 1] = row
        /\ \A w \in DOMAIN invites : invites'[w] = invites[w]
    BY <1>0, <2>1, <2>3, InviteAppended
  <2>6. OneAccountEach'
    BY <1>1, <2>1 DEF AdmitInv, OneAccountEach
  <2>7. AdmittedAsInvited'
    BY <1>1, <2>1, <2>5 DEF AdmitInv, AdmittedAsInvited
  <2>8. AcceptedAdmits'
    BY <1>1, <2>1, <2>4, <2>5 DEF AdmitInv, AcceptedAdmits
  <2>9. ActsForItself'
    BY <1>0, <1>1, <2>1, <2>5, IdleShape, ActsKept
  <2> QED BY <1>0, <2>6, <2>7, <2>8, <2>9 DEF AdmitInv
<1>8. ASSUME NEW s \in Sessions, CommitRevoke(s) PROVE AdmitInv'
  <2>1. PICK v \in DOMAIN invites : v = call[s].inv
    BY <1>1, <1>8 DEF CommitRevoke, RowsInv, RefersToRows
  <2>2. invites' = Closed(v, "revoked") /\ Goes(s, Idle) /\ UNCHANGED users
    BY <1>8, <2>1 DEF CommitRevoke
  <2>3. /\ DOMAIN invites' = DOMAIN invites /\ invites'[v].status = "revoked"
        /\ invites'[v].org = invites[v].org /\ invites'[v].email = invites[v].email
        /\ \A w \in DOMAIN invites \ {v} : invites'[w] = invites[w]
    BY <1>0, <2>2, InviteClosed
  <2>4. \A w \in DOMAIN invites :
          /\ invites'[w].email = invites[w].email /\ invites'[w].org = invites[w].org
          /\ invites'[w].status \in {invites[w].status, "revoked"}
    BY <2>3
  <2>5. \A u \in DOMAIN users :
          \E i \in Identities : i.uid = users'[u].uid /\ i.email = users'[u].email
    BY <1>1, <2>2 DEF AdmitInv, OneAccountEach
  <2>6. OneAccountEach' /\ AdmittedAsInvited' /\ AcceptedAdmits'
    BY <1>1, <2>2, <2>3, <2>4, <2>5, AdmissionKept
  <2>7. ActsForItself'
    BY <1>0, <1>1, <2>2, <2>4, IdleShape, ActsKept
  <2> QED BY <1>0, <2>6, <2>7 DEF AdmitInv
<1>9. ASSUME NEW s \in Sessions, NEW t \in DOMAIN users, NEW x, Goes(s, Idle),
             invites' = invites,
             \/ users' = [users EXCEPT ![t].role = x]
             \/ users' = [users EXCEPT ![t].active = x]
      PROVE  AdmitInv'
  <2>1. /\ DOMAIN users' = DOMAIN users
        /\ \A u \in DOMAIN users :
             /\ users'[u].uid = users[u].uid /\ users'[u].email = users[u].email
             /\ users'[u].org = users[u].org /\ users'[u].via = users[u].via
    BY <1>0, <1>9, FieldKeepsRest
  <2>2. \A u \in DOMAIN users :
          \E i \in Identities : i.uid = users'[u].uid /\ i.email = users'[u].email
    BY <1>1, <2>1 DEF AdmitInv, OneAccountEach
  <2>3. OneAccountEach' /\ AdmittedAsInvited' /\ AcceptedAdmits'
    BY <1>1, <1>9, <2>1, <2>2, AdmissionKept
  <2>4. ActsForItself'
    BY <1>0, <1>1, <1>9, <2>1, IdleShape, ActsKept
  <2> QED BY <1>0, <2>3, <2>4 DEF AdmitInv
<1>10. ASSUME NEW s \in Sessions, SetRole(s) PROVE AdmitInv'
  <2>1. call[s].target \in DOMAIN users
    BY <1>1, <1>10 DEF SetRole, RowsInv, RefersToRows
  <2> QED BY <1>9, <1>10, <2>1 DEF SetRole
<1>11. ASSUME NEW s \in Sessions, AdminStatus(s) PROVE AdmitInv'
  BY <1>9, <1>11 DEF AdminStatus
<1>12. ASSUME NEW v \in DOMAIN invites, Expire(v) PROVE AdmitInv'
  <2>1. invites' = [invites EXCEPT ![v].live = FALSE] /\ UNCHANGED <<users, call>>
    BY <1>12 DEF Expire
  <2>2. /\ DOMAIN invites' = DOMAIN invites
        /\ \A w \in DOMAIN invites :
             /\ invites'[w].status = invites[w].status /\ invites'[w].org = invites[w].org
             /\ invites'[w].email = invites[w].email
    BY <1>0, <2>1, InviteExpired
  <2>3. \A u \in DOMAIN users :
          \E i \in Identities : i.uid = users'[u].uid /\ i.email = users'[u].email
    BY <1>1, <2>1 DEF AdmitInv, OneAccountEach
  <2>4. OneAccountEach' /\ AdmittedAsInvited' /\ AcceptedAdmits'
    BY <1>1, <2>1, <2>2, <2>3, AdmissionKept
  <2>5. ActsForItself'
    BY <1>0, <1>1, <2>1, <2>2 DEF ActsForItself, RowsInv, RefersToRows
  <2> QED BY <1>0, <2>4, <2>5 DEF AdmitInv
<1>13. QED
  BY <1>1, <1>2, <1>3, <1>4, <1>5, <1>6, <1>7, <1>8, <1>10, <1>11, <1>12, StepIsOneOf

\* An invitation admits one person, to its organization only, and is accepted
\* only when it has: for accounts that do not change their address meanwhile.
THEOREM InviteAdmitsOneThm == IdentitySpec /\ OneAddress => []InviteAdmitsOne
<1>1. RowsInv /\ AdmitInv => InviteAdmitsOne
  <2>1. SUFFICES ASSUME RowsInv, AdmitInv PROVE InviteAdmitsOne
    OBVIOUS
  <2>2. ASSUME NEW u \in DOMAIN users, NEW w \in DOMAIN users, users[u].via # 0,
               users[u].via = users[w].via
        PROVE  u = w
    <3>1. users[u].email = users[w].email
      BY <2>1, <2>2 DEF AdmitInv, AdmittedAsInvited
    <3> QED BY <2>1, <3>1 DEF AdmitInv, OneAccountEach
  <2> QED BY <2>1, <2>2 DEF InviteAdmitsOne, AdmitInv, AdmittedAsInvited, AcceptedAdmits
<1>2. QED
  BY <1>1, RowsInit, RowsNext, AdmitInit, AdmitNext, PTL DEF IdentitySpec

\* A request is only turned away when its address belongs to an account of
\* another provider.
LEMMA TurnedAwayRightly ==
    ASSUME RowsInv, AdmitInv, NEW s \in Sessions, NEW c \in Call, TurnedAway(s, c),
           c.at = "unavailable", call[s].at \in {"join", "found", "login"}
    PROVE  \E u \in ByEmail(call[s].who.email) : users[u].uid # call[s].who.uid
<1>1. CASE call[s].at \in {"join", "found"}
  BY <1>1 DEF TurnedAway, Taken, ByUid, ByEmail
<1>2. CASE call[s].at = "login"
  <2>1. PICK t \in DOMAIN users : t = call[s].user
    BY <1>2 DEF RowsInv, RefersToRows
  <2>2. PICK i \in Identities : i = call[s].who
    BY <1>2, CallShape DEF RowsInv
  <2>3. PICK w \in DOMAIN users \ {t} :
          users[w].uid \in {users[t].uid, i.uid} \/ users[w].email \in {users[t].email, i.email}
    BY <1>2, <2>1, <2>2 DEF TurnedAway
  <2>4. users[t].email = i.email
    BY <1>2, <2>1, <2>2 DEF AdmitInv, ActsForItself
  <2>5. PICK j \in Identities : j.uid = users[w].uid /\ j.email = users[w].email
    BY <2>3 DEF AdmitInv, OneAccountEach
  <2>6. PICK k \in Identities : k.uid = users[t].uid /\ k.email = users[t].email
    BY DEF AdmitInv, OneAccountEach
  <2>7. users[w].email = users[t].email
    BY <2>3, <2>4, <2>5, <2>6 DEF AdmitInv, OneAddress
  <2>8. w = t
    BY <2>3, <2>7 DEF AdmitInv, OneAccountEach
  <2> QED BY <2>3, <2>8
<1>3. QED
  BY <1>1, <1>2

LEMMA RacersStep ==
    ASSUME RowsInv, AdmitInv, [IdentityNext]_identityVars, NEW z \in Sessions,
           call[z].at \in {"join", "found", "login"}, call'[z].at = "unavailable"
    PROVE  \E u \in ByEmail(call[z].who.email) : users[u].uid # call[z].who.uid
<1>1. IdentityTypeOK /\ IdentityNext
  BY DEF RowsInv, identityVars
<1>2. ASSUME NEW s \in Sessions, NEW c \in Call, Goes(s, c) PROVE z = s /\ c.at = "unavailable"
  BY <1>1, <1>2, GoesOn
<1>3. ASSUME NEW s \in Sessions, NEW c \in Call, Reads(s, c), TurnedAway(s, c)
      PROVE  \E u \in ByEmail(call[z].who.email) : users[u].uid # call[z].who.uid
  <2>1. z = s /\ c.at = "unavailable"
    BY <1>2, <1>3 DEF Reads
  <2> QED BY <1>3, <2>1, TurnedAwayRightly
<1>4. ASSUME NEW s \in Sessions, NEW row \in User, NEW c \in Call,
             LogsIn(s, row, c) \/ Joins(s, row, c) \/ Founds(s, row, c)
      PROVE  FALSE
  BY <1>2, <1>4 DEF LogsIn, Joins, Founds, Enters
<1>5. ASSUME NEW s \in Sessions,
             CreateInvite(s) \/ CommitRevoke(s) \/ SetRole(s) \/ AdminStatus(s)
      PROVE  FALSE
  <2>1. Goes(s, Idle)
    BY <1>5 DEF CreateInvite, CommitRevoke, SetRole, AdminStatus
  <2> QED BY <1>2, <2>1, IdleShape
<1>6. ASSUME NEW v \in DOMAIN invites, Expire(v) PROVE FALSE
  BY <1>6 DEF Expire
<1>7. QED
  BY <1>1, <1>3, <1>4, <1>5, <1>6, StepIsOneOf

\* Of two first requests that race, the loser is served too: for accounts that
\* do not change their address meanwhile.
THEOREM RacersAreServedThm == IdentitySpec /\ OneAddress => RacersAreServed
<1>1. RowsInv /\ AdmitInv /\ [IdentityNext]_identityVars =>
        [\A s \in Sessions :
           /\ call[s].at \in {"join", "found", "login"}
           /\ call'[s].at = "unavailable"
           => \E u \in ByEmail(call[s].who.email) : users[u].uid # call[s].who.uid]_identityVars
  BY RacersStep
<1>2. QED
  BY <1>1, RowsInit, RowsNext, AdmitInit, AdmitNext, PTL DEF IdentitySpec, RacersAreServed
=============================================================================
