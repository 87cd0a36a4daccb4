------------------------------- MODULE SignIn -------------------------------
(* From a Firebase token to a session: the certificates the token is checked   *)
(* with (core/firebase.py), the session endpoint, and the second factor        *)
(* (core/mfa.py), whose codes live in the memory of the process.               *)
(*                                                                            *)
(* A request is interrupted where the code awaits: while the certificates are  *)
(* downloaded, and while the account is read or written.  Between those the    *)
(* event loop runs one request at a time.                                      *)
EXTENDS Naturals, FiniteSets

CONSTANTS Clients,        \* the requests in flight
          People,         \* the accounts
          LastKey,        \* Google signs with the keys 1, 2, ... LastKey in
                          \* turn, and serves the last two
          MaxTries,       \* settings.otp_max_attempts
          Lifetime,       \* settings.otp_ttl_minutes
          MaxLive,        \* how many challenges an account may have at once
          MaxMade, MaxClock  \* bounds of the model

ASSUME SignInAssumption ==
    /\ LastKey \in Nat \ {0} /\ MaxTries \in Nat /\ Lifetime \in Nat
    /\ MaxLive \in Nat /\ MaxMade \in Nat /\ MaxClock \in Nat

VARIABLES signing,    \* the key Google signs with
          certs,      \* _certs: the keys of the last download
          fresh,      \* the download has not reached its max-age
          clock,
          made,       \* how many challenges were made
          store,      \* _otp_store
          mfa,        \* the accounts with a second factor
          visit,      \* what each request is doing
          tries, wins \* answers and right answers given to each challenge
                      \* (not in the code)

signInVars == <<signing, certs, fresh, clock, made, store, mfa, visit, tries, wins>>
googleVars == <<signing, certs, fresh>>
storeVars == <<clock, made, store, tries, wins>>

Challenges == 1..MaxMade
Away == [at |-> "away"]
Visit == [at : {"away"}]
    \cup [at : {"fetching", "refetching"}, key : 1..LastKey, since : 1..LastKey,
              who : People]
    \cup [at : {"verified"}, who : People]
    \cup [at : {"toggling"}, who : People, on : BOOLEAN]

SignInInit ==
    /\ signing = 1 /\ certs = {} /\ fresh = FALSE
    /\ clock = 0 /\ made = 0 /\ store = [t \in {} |-> 0] /\ mfa \in SUBSET People
    /\ visit = [c \in Clients |-> Away]
    /\ tries = [t \in Challenges |-> 0] /\ wins = [t \in Challenges |-> 0]

Now(c, v) == visit' = [visit EXCEPT ![c] = v]

(****************************** certificates ********************************)
Served(k) == {k} \cup ({k - 1} \ {0})

Rotate ==
    /\ signing < LastKey /\ signing' = signing + 1
    /\ UNCHANGED <<certs, fresh, mfa, visit>> /\ UNCHANGED storeVars
MaxAgePasses ==
    /\ fresh /\ fresh' = FALSE
    /\ UNCHANGED <<signing, certs, mfa, visit>> /\ UNCHANGED storeVars

Cached == certs # {} /\ fresh

\* A key that is not among the certificates is looked for once more.  The
\* second look is served from the cache, unless what was searched are old
\* certificates kept for want of an answer.
Verified(c, who) == Now(c, [at |-> "verified", who |-> who])
Download(c, at, key, who) ==
    Now(c, [at |-> at, key |-> key, since |-> signing, who |-> who])

Present(c) ==
    /\ visit[c] = Away
    /\ \E key \in 1..signing, who \in People :
         \/ Cached /\ key \in certs /\ Verified(c, who)
         \/ Cached /\ key \notin certs /\ Now(c, Away)
         \/ ~Cached /\ Download(c, "fetching", key, who)
    /\ UNCHANGED mfa /\ UNCHANGED googleVars /\ UNCHANGED storeVars

\* The answer says what was served at some time since the request for it.
Waits(c) == visit[c].at \in {"fetching", "refetching"}
FetchCerts(c) ==
    /\ Waits(c)
    /\ \E g \in visit[c].since..signing :
         /\ certs' = Served(g) /\ fresh' = TRUE
         /\ \/ visit[c].key \in Served(g) /\ Verified(c, visit[c].who)
            \/ visit[c].key \notin Served(g) /\ Now(c, Away)
    /\ UNCHANGED <<signing, mfa>> /\ UNCHANGED storeVars

\* Without an answer from Google the old certificates serve, if there are any.
\* Mutant: a failed download is an error.
FallbackNone == {}
Fallback == certs
FetchFails(c) ==
    /\ Waits(c)
    /\ LET v == visit[c]
       IN  \/ v.key \in Fallback /\ Verified(c, v.who)
           \/ /\ v.key \notin Fallback /\ Fallback # {} /\ v.at = "fetching"
              /\ IF fresh THEN Now(c, Away) ELSE Download(c, "refetching", v.key, v.who)
           \/ /\ v.key \notin Fallback /\ (Fallback = {} \/ v.at = "refetching")
              /\ Now(c, Away)
    /\ UNCHANGED mfa /\ UNCHANGED googleVars /\ UNCHANGED storeVars

(****************************** second factor *******************************)
Lapsed(t) == store[t].expires < clock
Kept(S) == [t \in S |-> store[t]]

\* The lapsed challenges are dropped, and one is added unless the account has
\* enough of them.
CreateChallenge(who) ==
    LET live == {t \in DOMAIN store : ~Lapsed(t)}
    IN  \/ /\ Cardinality({t \in live : store[t].who = who}) >= MaxLive
           /\ store' = Kept(live) /\ UNCHANGED made
        \/ /\ Cardinality({t \in live : store[t].who = who}) < MaxLive /\ made < MaxMade
           /\ made' = made + 1
           /\ store' = [t \in live \cup {made + 1} |->
                IF t \in live THEN store[t]
                ELSE [who |-> who, expires |-> clock + Lifetime, tries |-> 0]]

Drop(t) == store' = Kept(DOMAIN store \ {t})
\* An answer to a challenge: too late or one too many drops it unread; a right
\* one uses it up; the last wrong one drops it.
Spent(t) == Lapsed(t) \/ store[t].tries >= MaxTries
\* Mutant: the right answer leaves the challenge in the store.
AnswerKept(t, right) ==
    \/ Spent(t) /\ Drop(t) /\ UNCHANGED <<tries, wins>>
    \/ /\ ~Spent(t)
       /\ tries' = [tries EXCEPT ![t] = @ + 1]
       /\ wins' = [wins EXCEPT ![t] = IF right THEN @ + 1 ELSE @]
       /\ IF store[t].tries + 1 >= MaxTries
          THEN Drop(t)
          ELSE store' = [store EXCEPT ![t].tries = store[t].tries + 1]
Answer(t, right) ==
    \/ Spent(t) /\ Drop(t) /\ UNCHANGED <<tries, wins>>
    \/ /\ ~Spent(t)
       /\ tries' = [tries EXCEPT ![t] = @ + 1]
       /\ wins' = [wins EXCEPT ![t] = IF right THEN @ + 1 ELSE @]
       /\ IF right \/ store[t].tries + 1 >= MaxTries
          THEN Drop(t)
          ELSE store' = [store EXCEPT ![t].tries = store[t].tries + 1]
Opens(t, right) == ~Spent(t) /\ right

\* The session is opened, or waits for the answer to a challenge.
CreateSession(c) ==
    /\ visit[c].at = "verified"
    /\ \/ visit[c].who \notin mfa /\ UNCHANGED <<made, store>>
       \/ visit[c].who \in mfa /\ CreateChallenge(visit[c].who)
    /\ Now(c, Away)
    /\ UNCHANGED <<clock, mfa, tries, wins>> /\ UNCHANGED googleVars

\* The second step of signing in carries the challenge, and no token.
VerifyMfa ==
    /\ \E t \in DOMAIN store, right \in BOOLEAN : Answer(t, right)
    /\ UNCHANGED <<clock, made, mfa, visit>> /\ UNCHANGED googleVars

RequestToggle(c) ==
    /\ visit[c].at = "verified" /\ CreateChallenge(visit[c].who)
    /\ Now(c, Away)
    /\ UNCHANGED <<clock, mfa, tries, wins>> /\ UNCHANGED googleVars

VerifyToggle(c) ==
    /\ visit[c].at = "verified"
    /\ \E t \in DOMAIN store, right, on \in BOOLEAN :
         /\ Answer(t, right)
         /\ Now(c, IF Opens(t, right) /\ store[t].who = visit[c].who
                   THEN [at |-> "toggling", who |-> visit[c].who, on |-> on] ELSE Away)
    /\ UNCHANGED <<clock, made, mfa>> /\ UNCHANGED googleVars

Toggle(c) ==
    /\ visit[c].at = "toggling"
    /\ mfa' = IF visit[c].on THEN mfa \cup {visit[c].who} ELSE mfa \ {visit[c].who}
    /\ Now(c, Away) /\ UNCHANGED googleVars /\ UNCHANGED storeVars

Leave(c) ==
    /\ visit[c].at \in {"verified", "toggling"} /\ Now(c, Away)
    /\ UNCHANGED mfa /\ UNCHANGED googleVars /\ UNCHANGED storeVars

\* The store is memory: a restart empties it.
Restart ==
    /\ store' = Kept({}) /\ certs' = {} /\ fresh' = FALSE
    /\ visit' = [c \in Clients |-> Away]
    /\ UNCHANGED <<signing, clock, made, mfa, tries, wins>>
Passes ==
    /\ clock < MaxClock /\ clock' = clock + 1
    /\ UNCHANGED <<made, store, mfa, visit, tries, wins>> /\ UNCHANGED googleVars

SignInNext ==
    \/ \E c \in Clients :
         \/ Present(c) \/ FetchCerts(c) \/ FetchFails(c) \/ CreateSession(c)
         \/ RequestToggle(c) \/ VerifyToggle(c) \/ Toggle(c) \/ Leave(c)
    \/ VerifyMfa \/ Rotate \/ MaxAgePasses \/ Restart \/ Passes

SignInSpec == SignInInit /\ [][SignInNext]_signInVars

(******************************** properties ********************************)
SignInTypeOK ==
    /\ signing \in 1..LastKey /\ certs \subseteq 1..LastKey /\ fresh \in BOOLEAN
    /\ clock \in 0..MaxClock /\ made \in 0..MaxMade /\ mfa \subseteq People
    /\ DOMAIN store \subseteq 1..made
    /\ \A t \in DOMAIN store : store[t] \in [who : People, expires : Nat, tries : Nat]
    /\ visit \in [Clients -> Visit]
    /\ tries \in [Challenges -> Nat] /\ wins \in [Challenges -> Nat]

\* core/mfa.py: a challenge is answered at most otp_max_attempts times and
\* opens one door, however sign-ins, toggles, expiry and restarts fall; and an
\* account never has more than its share of challenges that could be answered.
ChallengeBudget ==
    /\ \A t \in Challenges : tries[t] <= MaxTries /\ wins[t] <= 1
    /\ \A p \in People :
         Cardinality({t \in DOMAIN store : store[t].who = p /\ ~Lapsed(t)}) <= MaxLive

\* core/firebase.py: while Google cannot be reached, nobody is turned away whose
\* key was in the last download of the process: only newer certificates, or a
\* restart, turn such a request away.
OutageSpares ==
    [][\A c \in Clients :
         Waits(c) /\ visit[c].key \in certs /\ visit'[c] = Away => certs' # certs]_signInVars
=============================================================================
