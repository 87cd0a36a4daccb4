--------------------------- MODULE NextDnsProofs ---------------------------
(***************************************************************************)
(* What holds of NextDnsPoller for any number of organizations, requests,   *)
(* entries and removals, and for every combination of faults.               *)
(***************************************************************************)
EXTENDS NextDnsPoller, SequenceTheorems, FiniteSetTheorems, WellFoundedInduction, TLAPS

\* The log is in order of time, and nothing in it is of the future.
LogInv(o) ==
    /\ \A i \in DOMAIN Log(o) : 0 < Log(o)[i].ts /\ Log(o)[i].ts <= now
    /\ \A i, j \in DOMAIN Log(o) : i < j => Log(o)[i].ts <= Log(o)[j].ts

\* No entry of time t that is still to come is the first of its time.
Settled(o, t) ==
    t <= now /\ (prof[o].id = NoId \/ t < now \/ \E i \in DOMAIN Log(o) : Log(o)[i].ts = t)

Numbers(o) ==
    /\ prof[o] # NoProfile => prof[o].id \in 1..last[o].prof
    /\ row[o] # NoRow => /\ row[o].id \in 1..last[o].row
                         /\ row[o].profile \in 1..last[o].prof
    /\ 0 < last[o].row /\ 0 < last[o].prof

\* What the cursor of a row has passed is stored, whichever profile the row
\* names: it may name another one for a while.
RowInv(o) ==
    row[o] # NoRow /\ row[o].cursor # Never =>
        /\ Settled(o, row[o].cursor)
        /\ \A i \in DOMAIN Log(o) :
              Log(o)[i].named /\ IsFirstOfItsTime(o, i)
              /\ row[o].start <= Log(o)[i].ts /\ Log(o)[i].ts <= row[o].cursor
              => Log(o)[i].copies > 0

\* The poller knows rows by numbers they had, and their cursors as they are.
TodoInv ==
    /\ \A c \in poll.todo :
          /\ c.org \in Orgs /\ c.id \in 1..last[c.org].row /\ c.profile \in 1..last[c.org].prof
          /\ row[c.org].id = c.id => row[c.org].cursor = c.cursor
    /\ \A c, d \in poll.todo : c.org = d.org => c = d
    /\ poll.pc \in {"fetch", "ingest", "mark"} => poll.cfg \in poll.todo
    /\ poll.pc \in {"next", "fetch"} => poll.newest = Never
    /\ poll.pc = "sleep" => poll.todo = {}

\* What was fetched is about to be stored, then is; what is older than it is
\* stored, or was on the pages.
FetchedInv ==
    LET c == poll.cfg
        o == c.org
    IN  poll.pc \in {"ingest", "mark"} /\ poll.newest # Never =>
          /\ Settled(o, poll.newest)
          /\ c.cursor # Never => poll.from <= c.cursor
          /\ \A i \in DOMAIN Log(o) :
               /\ Log(o)[i].named /\ IsFirstOfItsTime(o, i)
               /\ poll.from <= Log(o)[i].ts /\ Log(o)[i].ts <= poll.newest
               /\ c.cursor < Log(o)[i].ts
               => \/ poll.pc = "ingest" /\ i \in poll.events /\ prof[o].id = c.profile
                  \/ poll.pc = "mark" /\ (row[o].id = c.id => Log(o)[i].copies > 0)

ReqInv ==
    \A r \in Requests :
        /\ req[r] # Idle => req[r].org \in Orgs
        /\ req[r].pc \in {"upsert", "commit", "remote"} =>
              req[r].profile \in 1..last[req[r].org].prof
        /\ req[r].pc \in {"commit"} => req[r].id \in 1..last[req[r].org].row

OrgInv(o) == LogInv(o) /\ Numbers(o) /\ RowInv(o)

StoredInv ==
    /\ TypeOK /\ 0 < now
    /\ \A o \in Orgs : OrgInv(o)
    /\ TodoInv /\ FetchedInv /\ ReqInv

(****************************** types ****************************************)
LEMMA OrgTypes ==
    ASSUME TypeOK, NEW o \in Orgs
    PROVE  /\ now \in Nat /\ prof[o] \in Profile /\ prof[o].id \in Nat
           /\ Log(o) \in Seq(Entry) /\ Len(Log(o)) \in Nat /\ DOMAIN Log(o) = 1..Len(Log(o))
           /\ row[o] \in Row /\ row[o].id \in Nat /\ row[o].profile \in Nat
           /\ row[o].cursor \in Nat /\ row[o].start \in Nat
           /\ last[o] \in [row : Nat, prof : Nat, removed : Nat]
           /\ last[o].row \in Nat /\ last[o].prof \in Nat /\ last[o].removed \in Nat
<1>1. now \in Nat /\ prof[o] \in Profile /\ row[o] \in Row
      /\ last[o] \in [row : Nat, prof : Nat, removed : Nat]
  BY DEF TypeOK
<1>2. prof[o].id \in Nat /\ prof[o].log \in Seq(Entry)
  BY <1>1 DEF Profile
<1>3. row[o].id \in Nat /\ row[o].profile \in Nat /\ row[o].cursor \in Nat /\ row[o].start \in Nat
  BY <1>1 DEF Row
<1>4. last[o].row \in Nat /\ last[o].prof \in Nat /\ last[o].removed \in Nat
  BY <1>1
<1>5. Log(o) \in Seq(Entry)
  BY <1>2 DEF Log
<1>6. Len(Log(o)) \in Nat /\ DOMAIN Log(o) = 1..Len(Log(o))
  BY <1>5
<1>7. QED
  BY <1>1, <1>2, <1>3, <1>4, <1>5, <1>6

LEMMA EntryTypes ==
    ASSUME TypeOK, NEW o \in Orgs, NEW i \in DOMAIN Log(o)
    PROVE  /\ Log(o)[i] \in Entry /\ Log(o)[i].ts \in Nat /\ Log(o)[i].named \in BOOLEAN
           /\ Log(o)[i].copies \in 0..2 /\ i \in Nat /\ 0 < i
<1>1. Log(o) \in Seq(Entry) /\ i \in 1..Len(Log(o)) /\ Len(Log(o)) \in Nat
  BY OrgTypes
<1>2. Log(o)[i] \in Entry /\ i \in Nat /\ 0 < i
  BY <1>1
<1>3. QED
  BY <1>2 DEF Entry

LEMMA PollTypes ==
    ASSUME TypeOK
    PROVE  /\ poll.pc \in {"sleep", "next", "fetch", "ingest", "mark"}
           /\ poll.todo \subseteq Config /\ poll.cfg \in Config
           /\ poll.from \in Nat /\ poll.events \subseteq Nat /\ poll.newest \in Nat
BY DEF TypeOK, Poller

LEMMA ConfigTypes ==
    ASSUME NEW c \in Config
    PROVE  /\ c.org \in Orgs \cup {NoOrg} /\ c.id \in Nat /\ c.profile \in Nat
           /\ c.cursor \in Nat
BY DEF Config

LEMMA ReqTypes ==
    ASSUME TypeOK, NEW r \in Requests
    PROVE  /\ req[r] \in Request /\ req[r].id \in Nat /\ req[r].profile \in Nat
           /\ req[r].org \in Orgs \cup {NoOrg}
<1>1. req[r] \in Request
  BY DEF TypeOK
<1>2. QED
  BY <1>1 DEF Request

(****************************** steps that leave much alone ******************)
\* What was settled remains so.
LEMMA SettledStays ==
    ASSUME NEW o \in Orgs, NEW t \in Nat, Settled(o, t), now \in Nat, now' \in Nat, now <= now',
           prof'[o].id = prof[o].id, (DOMAIN Log(o))' = DOMAIN Log(o),
           \A i \in DOMAIN Log(o) : (Log(o)[i].ts)' = Log(o)[i].ts
    PROVE  Settled(o, t)'
BY DEF Settled

\* An organization that a step leaves alone, but for the time that passes.
LEMMA OrgStays ==
    ASSUME TypeOK, NEW o \in Orgs, OrgInv(o), prof'[o] = prof[o], row'[o] = row[o],
           last'[o] = last[o], now' \in Nat, now <= now'
    PROVE  OrgInv(o)'
<1>1. Log(o)' = Log(o)
  BY DEF Log
<1>2. LogInv(o)'
  <2>1. ASSUME NEW i \in DOMAIN Log(o) PROVE 0 < Log(o)[i].ts /\ Log(o)[i].ts <= now'
    <3>1. Log(o)[i].ts \in Nat /\ now \in Nat
      BY EntryTypes, OrgTypes
    <3>2. QED
      BY <3>1 DEF OrgInv, LogInv
  <2>2. QED
    BY <1>1, <2>1 DEF OrgInv, LogInv
<1>3. Numbers(o)'
  BY DEF OrgInv, Numbers
<1>4. \A i : IsFirstOfItsTime(o, i)' <=> IsFirstOfItsTime(o, i)
  BY <1>1 DEF IsFirstOfItsTime
<1>5. ASSUME row[o] # NoRow, row[o].cursor # Never PROVE Settled(o, row[o].cursor)'
  <2>1. row[o].cursor \in Nat /\ now \in Nat
    BY OrgTypes
  <2>2. Settled(o, row[o].cursor)
    BY <1>5 DEF OrgInv, RowInv
  <2>3. PICK t \in Nat : t = row[o].cursor
    BY <2>1
  <2>4. Settled(o, t)'
    BY <1>1, <2>1, <2>2, <2>3, SettledStays
  <2>5. QED
    BY <2>3, <2>4
<1>6. RowInv(o)'
  BY <1>1, <1>4, <1>5 DEF OrgInv, RowInv
<1>7. QED
  BY <1>2, <1>3, <1>6 DEF OrgInv

\* A step of the poller alone.
LEMMA PollStep ==
    ASSUME StoredInv, UNCHANGED <<now, prof, row, last, req>>,
           poll' \in Poller, TodoInv', FetchedInv'
    PROVE  StoredInv'
<1>1. TypeOK' /\ 0 < now'
  BY DEF StoredInv, TypeOK
<1>2. ASSUME NEW o \in Orgs PROVE OrgInv(o)'
  <2>1. now \in Nat /\ now <= now
    BY DEF StoredInv, TypeOK
  <2>2. QED
    BY <2>1, OrgStays DEF StoredInv
<1>3. ReqInv'
  BY DEF StoredInv, ReqInv
<1>4. QED
  BY <1>1, <1>2, <1>3 DEF StoredInv

\* The rows of the poller, when a step leaves it alone: a row it knows has the
\* cursor it had, or has gone.
RowStays(o) ==
    /\ last'[o].row \in Nat /\ last[o].row <= last'[o].row
    /\ last'[o].prof \in Nat /\ last[o].prof <= last'[o].prof
    /\ \/ row'[o].id = row[o].id /\ row'[o].cursor = row[o].cursor
       \/ row'[o].id \notin 1..last[o].row

LEMMA TodoStays ==
    ASSUME StoredInv, poll' = poll, \A o \in Orgs : RowStays(o)
    PROVE  TodoInv'
<1>1. ASSUME NEW c \in poll.todo
      PROVE  /\ c.org \in Orgs /\ c.id \in 1..last'[c.org].row
             /\ c.profile \in 1..last'[c.org].prof
             /\ row'[c.org].id = c.id => row'[c.org].cursor = c.cursor
  <2>1. /\ c.org \in Orgs /\ c.id \in 1..last[c.org].row /\ c.profile \in 1..last[c.org].prof
        /\ row[c.org].id = c.id => row[c.org].cursor = c.cursor
    BY DEF StoredInv, TodoInv
  <2>2. RowStays(c.org) /\ last[c.org].row \in Nat /\ last[c.org].prof \in Nat
    BY <2>1, OrgTypes DEF StoredInv
  <2>3. QED
    BY <2>1, <2>2 DEF RowStays
<1>2. QED
  BY <1>1 DEF StoredInv, TodoInv

\* The configuration the poller is about.
LEMMA CurrentConfig ==
    ASSUME StoredInv, poll.pc \in {"fetch", "ingest", "mark"}
    PROVE  /\ poll.cfg \in poll.todo /\ poll.cfg.org \in Orgs
           /\ poll.cfg.id \in 1..last[poll.cfg.org].row
           /\ poll.cfg.profile \in 1..last[poll.cfg.org].prof
           /\ poll.cfg.cursor \in Nat
<1>1. poll.cfg \in poll.todo
  BY DEF StoredInv, TodoInv
<1>2. poll.cfg \in Config
  BY PollTypes DEF StoredInv
<1>3. QED
  BY <1>1, <1>2, ConfigTypes DEF StoredInv, TodoInv

LEMMA FetchedStays ==
    ASSUME StoredInv, poll' = poll, now' \in Nat, now <= now', \A o \in Orgs : RowStays(o),
           \A o \in Orgs : o = poll.cfg.org => prof'[o] = prof[o]
    PROVE  FetchedInv'
<1>1. SUFFICES ASSUME poll.pc \in {"ingest", "mark"}, poll.newest # Never
               PROVE  FetchedInv'
  BY DEF FetchedInv
<1>2. PICK c : c = poll.cfg
  OBVIOUS
<1>3. PICK o \in Orgs : o = c.org
  BY <1>1, <1>2, CurrentConfig
<1>4. Log(o)' = Log(o) /\ prof'[o] = prof[o]
  BY <1>2, <1>3 DEF Log
<1>5. \A i : IsFirstOfItsTime(o, i)' <=> IsFirstOfItsTime(o, i)
  BY <1>4 DEF IsFirstOfItsTime
<1>6. c.id \in 1..last[o].row
  BY <1>1, <1>2, <1>3, CurrentConfig
<1>7. row'[o].id = c.id => row[o].id = c.id
  BY <1>6 DEF RowStays
<1>8. PICK t \in Nat : t = poll.newest
  BY PollTypes DEF StoredInv
<1>9. Settled(o, t)'
  <2>1. Settled(o, t) /\ now \in Nat
    BY <1>1, <1>2, <1>3, <1>8 DEF StoredInv, TypeOK, FetchedInv
  <2>2. QED
    BY <1>4, <2>1, SettledStays
<1>10. QED
  BY <1>1, <1>2, <1>3, <1>4, <1>5, <1>7, <1>8, <1>9 DEF StoredInv, FetchedInv

\* The poller has nothing in its hands.
LEMMA NothingFetched ==
    ASSUME poll'.newest = Never \/ poll'.pc \notin {"ingest", "mark"}
    PROVE  FetchedInv'
BY DEF FetchedInv

LEMMA AsleepOK == Asleep \in Poller /\ NoConfig \in Config
<1>1. NoConfig \in Config
  BY DEF NoConfig, Config, Never, NoId
<1>2. QED
  BY <1>1 DEF Asleep, Poller, Never

LEMMA SleepKeeps ==
    ASSUME StoredInv, UNCHANGED <<now, prof, row, last, req>>, poll' = Asleep
    PROVE  StoredInv'
<1>1. poll'.pc = "sleep" /\ poll'.todo = {} /\ poll'.newest = Never
  BY DEF Asleep
<1>2. TodoInv'
  BY <1>1 DEF TodoInv
<1>3. FetchedInv'
  BY <1>1, NothingFetched
<1>4. QED
  BY <1>2, <1>3, PollStep, AsleepOK

(****************************** the poller's steps ***************************)
LEMMA ConfigsOK ==
    ASSUME StoredInv
    PROVE  /\ Configs \subseteq Config
           /\ \A c \in Configs : /\ c.org \in Orgs /\ c.id \in 1..last[c.org].row
                                 /\ c.profile \in 1..last[c.org].prof
                                 /\ row[c.org].cursor = c.cursor
           /\ \A c, d \in Configs : c.org = d.org => c = d
<1> DEFINE C(o) == [org |-> o, id |-> row[o].id, profile |-> row[o].profile,
                    cursor |-> row[o].cursor]
<1>1. \A c \in Configs : \E o \in Orgs : row[o] # NoRow /\ c = C(o)
  BY DEF Configs
<1>2. ASSUME NEW o \in Orgs, row[o] # NoRow
      PROVE  /\ C(o) \in Config /\ C(o).org = o /\ C(o).cursor = row[o].cursor
             /\ C(o).id \in 1..last[o].row /\ C(o).profile \in 1..last[o].prof
  <2>1. row[o].id \in Nat /\ row[o].profile \in Nat /\ row[o].cursor \in Nat
    BY OrgTypes DEF StoredInv
  <2>2. row[o].id \in 1..last[o].row /\ row[o].profile \in 1..last[o].prof
    BY <1>2 DEF StoredInv, OrgInv, Numbers
  <2>3. C(o) \in Config
    BY <2>1 DEF Config
  <2>4. QED
    BY <2>2, <2>3
<1> HIDE DEF C
<1>3. \A c \in Configs : c = C(c.org) /\ c.org \in Orgs /\ row[c.org] # NoRow
  BY <1>1, <1>2
<1>4. QED
  BY <1>2, <1>3

LEMMA StartTickKeeps ==
    ASSUME StoredInv, StartTick
    PROVE  StoredInv'
<1>1. UNCHANGED <<now, prof, row, last, req>>
      /\ poll' = [Asleep EXCEPT !.pc = "next", !.todo = Configs]
  BY DEF StartTick
<1>2. poll'.pc = "next" /\ poll'.todo = Configs /\ poll'.newest = Never
  BY <1>1 DEF Asleep
<1>3. poll' \in Poller
  BY <1>1, ConfigsOK, AsleepOK DEF Poller
<1>4. TodoInv'
  BY <1>1, <1>2, ConfigsOK DEF TodoInv
<1>5. FetchedInv'
  BY <1>2, NothingFetched
<1>6. QED
  BY <1>1, <1>3, <1>4, <1>5, PollStep

LEMMA PickKeeps ==
    ASSUME StoredInv, Pick
    PROVE  StoredInv'
<1>1. PICK c \in poll.todo : poll' = [poll EXCEPT !.pc = "fetch", !.cfg = c]
  BY DEF Pick
<1>2. UNCHANGED <<now, prof, row, last, req>> /\ poll.pc = "next"
  BY DEF Pick
<1>3. poll \in Poller /\ c \in Config
  BY <1>1, PollTypes DEF StoredInv, TypeOK
<1>4. /\ poll' \in Poller /\ poll'.pc = "fetch" /\ poll'.cfg = c
      /\ poll'.todo = poll.todo /\ poll'.newest = poll.newest
  BY <1>1, <1>3 DEF Poller
<1>5. TodoInv'
  BY <1>1, <1>2, <1>4 DEF TodoInv, StoredInv
<1>6. FetchedInv'
  BY <1>4, NothingFetched
<1>7. QED
  BY <1>2, <1>4, <1>5, <1>6, PollStep

LEMMA FetchRefusedKeeps ==
    ASSUME StoredInv, FetchRefused
    PROVE  StoredInv'
<1>1. /\ UNCHANGED <<now, prof, row, last, req>> /\ poll.pc = "fetch"
      /\ poll' = [poll EXCEPT !.pc = "mark"] /\ poll \in Poller
  BY DEF FetchRefused, StoredInv, TypeOK
<1>2. /\ poll' \in Poller /\ poll'.pc = "mark" /\ poll'.cfg = poll.cfg
      /\ poll'.todo = poll.todo /\ poll'.newest = poll.newest
  BY <1>1 DEF Poller
<1>3. poll.newest = Never /\ TodoInv'
  BY <1>1, <1>2 DEF TodoInv, StoredInv
<1>4. FetchedInv'
  BY <1>2, <1>3, NothingFetched
<1>5. QED
  BY <1>1, <1>2, <1>3, <1>4, PollStep

\* The query starts at the cursor's second, and not after the cursor.
LEMMA FromBelow ==
    ASSUME TypeOK, NEW cursor \in Nat
    PROVE  From(cursor) \in Nat /\ (cursor # Never => From(cursor) <= cursor)
<1>1. cursor % Second \in Nat /\ cursor % Second <= cursor
  BY SizeAssumption
<1>2. now \in Nat /\ Backlog \in Nat
  BY SizeAssumption DEF TypeOK
<1>3. QED
  BY <1>1, <1>2 DEF From, Never

\* The newest of a page is one of it.
LEMMA NewestIsThere ==
    ASSUME TypeOK, NEW o \in Orgs, LogInv(o), NEW page \in SUBSET DOMAIN Log(o), page # {}
    PROVE  /\ \E i \in page : Newest(Log(o), page) = Log(o)[i].ts
           /\ \A i \in page : Log(o)[i].ts <= Newest(Log(o), page)
<1> DEFINE T == {now - Log(o)[i].ts : i \in page}
           S == {Log(o)[i].ts : i \in page}
<1>1. now \in Nat
  BY DEF TypeOK
<1>2. ASSUME NEW i \in page PROVE Log(o)[i].ts \in Nat /\ now - Log(o)[i].ts \in Nat
  <2>1. Log(o)[i].ts \in Nat
    BY EntryTypes
  <2>2. Log(o)[i].ts <= now
    BY DEF LogInv
  <2>3. QED
    BY <1>1, <2>1, <2>2
<1>3. T \subseteq Nat /\ T # {}
  BY <1>2
<1>4. PICK x \in T : \A y \in T : ~(<<y, x>> \in OpToRel(<, Nat))
  <2> HIDE DEF T
  <2> QED BY <1>3, NatLessThanWellFounded, WFMin
<1>5. \A y \in T : ~(y < x)
  BY <1>3, <1>4 DEF OpToRel
<1>6. PICK k \in page : x = now - Log(o)[k].ts
  OBVIOUS
<1>7. ASSUME NEW i \in page PROVE Log(o)[i].ts <= Log(o)[k].ts
  <2>1. ~(now - Log(o)[i].ts < now - Log(o)[k].ts)
    BY <1>5, <1>6
  <2>2. Log(o)[i].ts \in Nat /\ Log(o)[k].ts \in Nat
    BY <1>2
  <2>3. QED
    BY <1>1, <2>1, <2>2
<1>8. Newest(Log(o), page) = CHOOSE t \in S : \A i \in page : Log(o)[i].ts <= t
  BY DEF Newest
<1>9. Log(o)[k].ts \in S /\ \A i \in page : Log(o)[i].ts <= Log(o)[k].ts
  BY <1>7
<1>10. Newest(Log(o), page) \in S /\ \A i \in page : Log(o)[i].ts <= Newest(Log(o), page)
  <2> HIDE DEF S
  <2> QED BY <1>8, <1>9
<1>11. QED
  BY <1>10

\* A page is a beginning of what is asked for.
LEMMA PageIsBeginning ==
    ASSUME TypeOK, NEW o \in Orgs, LogInv(o), NEW from \in Nat
    PROVE  LET page == Page(Log(o), from)
           IN  /\ page \subseteq DOMAIN Log(o)
               /\ \A i \in DOMAIN Log(o) \ page : Log(o)[i].ts >= from =>
                     \A k \in page : k < i
<1> DEFINE InRange == {i \in DOMAIN Log(o) : Log(o)[i].ts >= from}
           page == Page(Log(o), from)
<1>1. page = {i \in InRange : ~(i > Limit /\ i - Limit \in InRange)}
  BY DEF Page
<1>2. ASSUME NEW i \in DOMAIN Log(o) \ page, Log(o)[i].ts >= from, NEW k \in page
      PROVE  k < i
  <2>1. i > Limit /\ i - Limit \in InRange /\ k \in InRange
    BY <1>1, <1>2
  <2>2. i \in Nat /\ k \in Nat /\ Limit \in Nat \ {0}
    BY <1>1, EntryTypes, SizeAssumption
  <2>3. SUFFICES ASSUME k >= i PROVE FALSE
    BY <2>2
  <2>4. DOMAIN Log(o) = 1..Len(Log(o)) /\ Len(Log(o)) \in Nat
    BY OrgTypes
  <2>5. i - Limit \in DOMAIN Log(o) /\ k \in DOMAIN Log(o)
    BY <2>1
  <2>6. k - Limit \in DOMAIN Log(o) /\ i - Limit <= k - Limit /\ k > Limit
    BY <2>1, <2>2, <2>3, <2>4, <2>5
  <2>7. Log(o)[k - Limit].ts >= Log(o)[i - Limit].ts
    <3>1. CASE k = i
      <4>1. Log(o)[i - Limit].ts \in Nat
        BY <2>5, EntryTypes
      <4>2. QED
        BY <3>1, <4>1
    <3>2. CASE k # i
      <4>1. i - Limit < k - Limit
        BY <2>2, <2>3, <3>2
      <4>2. Log(o)[i - Limit].ts <= Log(o)[k - Limit].ts
        BY <2>5, <2>6, <4>1 DEF LogInv
      <4>3. Log(o)[i - Limit].ts \in Nat /\ Log(o)[k - Limit].ts \in Nat
        BY <2>5, <2>6, EntryTypes
      <4>4. QED
        BY <4>2, <4>3
    <3>3. QED
      BY <3>1, <3>2
  <2>8. Log(o)[i - Limit].ts >= from
    BY <2>1
  <2>9. Log(o)[i - Limit].ts \in Nat /\ Log(o)[k - Limit].ts \in Nat
    BY <2>5, <2>6, EntryTypes
  <2>10. Log(o)[k - Limit].ts >= from
    BY <2>7, <2>8, <2>9
  <2>11. k - Limit \in InRange
    BY <2>6, <2>10
  <2>12. QED
    BY <1>1, <2>6, <2>11
<1>3. QED
  BY <1>1, <1>2

\* What is as old as the newest of a page, and the first of its time, is on it.
LEMMA OnThePage ==
    ASSUME TypeOK, NEW o \in Orgs, LogInv(o), NEW from \in Nat,
           NEW i \in DOMAIN Log(o), IsFirstOfItsTime(o, i), from <= Log(o)[i].ts,
           Log(o)[i].ts <= Newest(Log(o), Page(Log(o), from)), Page(Log(o), from) # {}
    PROVE  i \in Page(Log(o), from)
<1> DEFINE page == Page(Log(o), from)
<1>1. page \in SUBSET DOMAIN Log(o)
  BY PageIsBeginning
<1>2. PICK k \in page : Newest(Log(o), page) = Log(o)[k].ts
  BY <1>1, NewestIsThere
<1>3. SUFFICES ASSUME i \notin page PROVE FALSE
  OBVIOUS
<1>4. k \in DOMAIN Log(o) /\ Log(o)[k].ts \in Nat /\ Log(o)[i].ts \in Nat
  BY <1>1, EntryTypes
<1>5. Log(o)[i].ts >= from
  BY <1>4
<1>6. k < i
  BY <1>3, <1>5, PageIsBeginning
<1>7. Log(o)[k].ts <= Log(o)[i].ts
  BY <1>4, <1>6 DEF LogInv
<1>8. Log(o)[k].ts = Log(o)[i].ts
  BY <1>2, <1>4, <1>7
<1>9. QED
  BY <1>4, <1>6, <1>8 DEF IsFirstOfItsTime

LEMMA FetchKeeps ==
    ASSUME StoredInv, NEW o \in Orgs, Fetch(o)
    PROVE  StoredInv'
<1> DEFINE c == poll.cfg
           from == From(c.cursor)
           page == Page(Log(o), from)
           events == New(Log(o), page, c.cursor)
<1>1. /\ poll.pc = "fetch" /\ c.org = o /\ c.profile = prof[o].id
      /\ poll' = [poll EXCEPT !.pc = IF events = {} THEN "mark" ELSE "ingest",
                              !.from = from, !.events = events,
                              !.newest = Newest(Log(o), page)]
      /\ UNCHANGED <<now, prof, row, last, req>>
  BY DEF Fetch, Log
<1>2. TypeOK /\ OrgInv(o) /\ LogInv(o) /\ TodoInv
  BY DEF StoredInv, OrgInv
<1>3. poll \in Poller /\ c \in Config /\ c.cursor \in Nat
  BY <1>2, PollTypes, ConfigTypes DEF TypeOK
<1>4. from \in Nat /\ (c.cursor # Never => from <= c.cursor)
  BY <1>2, <1>3, FromBelow
<1>5. page \in SUBSET DOMAIN Log(o)
  BY <1>2, <1>4, PageIsBeginning
<1>6. events = {i \in page : Log(o)[i].ts > c.cursor /\ Log(o)[i].named}
  BY DEF New
<1>7. events \subseteq Nat
  BY <1>2, <1>5, <1>6, OrgTypes
<1>8. Newest(Log(o), page) \in Nat
      /\ (page = {} => Newest(Log(o), page) = Never)
  <2>1. CASE page = {}
    BY <2>1 DEF Newest, Never
  <2>2. CASE page # {}
    <3>1. PICK i \in page : Newest(Log(o), page) = Log(o)[i].ts
      BY <1>2, <1>5, <2>2, NewestIsThere
    <3>2. i \in DOMAIN Log(o)
      BY <1>5
    <3>3. Log(o)[i].ts \in Nat
      BY <1>2, <3>2, EntryTypes
    <3>4. QED
      BY <2>2, <3>1, <3>3
  <2>3. QED
    BY <2>1, <2>2
<1> HIDE DEF from, page, events
<1>9. /\ poll'.pc = IF events = {} THEN "mark" ELSE "ingest"
      /\ poll'.from = from /\ poll'.events = events /\ poll'.newest = Newest(Log(o), page)
      /\ poll'.cfg = c /\ poll'.todo = poll.todo
  BY <1>1, <1>3 DEF Poller
<1>10. poll' \in Poller
  BY <1>1, <1>3, <1>4, <1>7, <1>8 DEF Poller
<1>11. TodoInv'
  BY <1>1, <1>2, <1>9 DEF TodoInv
<1>12. FetchedInv'
  <2>1. SUFFICES ASSUME Newest(Log(o), page) # Never PROVE FetchedInv'
    BY <1>9, NothingFetched
  <2>2. page # {}
    BY <1>8, <2>1
  <2>3. Log(o)' = Log(o) /\ prof' = prof /\ row' = row /\ now' = now
    BY <1>1 DEF Log
  <2>4. PICK k \in DOMAIN Log(o) : Newest(Log(o), page) = Log(o)[k].ts
    BY <1>2, <1>5, <2>2, NewestIsThere
  <2>5. Settled(o, Newest(Log(o), page))
    BY <1>2, <2>4 DEF Settled, LogInv
  <2>6. ASSUME NEW i \in DOMAIN Log(o), Log(o)[i].named, IsFirstOfItsTime(o, i),
               from <= Log(o)[i].ts, Log(o)[i].ts <= Newest(Log(o), page),
               c.cursor < Log(o)[i].ts
        PROVE  i \in events
    <3>1. i \in page
      BY <1>2, <1>4, <2>2, <2>6, OnThePage DEF page
    <3>2. Log(o)[i].ts \in Nat
      BY <1>2, EntryTypes
    <3>3. Log(o)[i].ts > c.cursor
      BY <1>3, <2>6, <3>2
    <3>4. QED
      BY <1>6, <2>6, <3>1, <3>3
  <2>7. Settled(o, poll.newest)'
    BY <1>9, <2>3, <2>5 DEF Settled
  <2>8. \A i \in DOMAIN Log(o) : IsFirstOfItsTime(o, i)' <=> IsFirstOfItsTime(o, i)
    BY <2>3 DEF IsFirstOfItsTime
  <2>9. /\ (poll.cfg.org)' = o /\ (poll.cfg.profile)' = (prof[o].id)'
        /\ (poll.cfg.cursor)' = c.cursor
    BY <1>1, <1>9
  <2>10. (poll.cfg.cursor # Never => poll.from <= poll.cfg.cursor)'
    BY <1>4, <1>9, <2>9
  <2>11. ASSUME NEW i \in (DOMAIN Log(o))', (Log(o)[i].named /\ IsFirstOfItsTime(o, i)
                   /\ poll.from <= Log(o)[i].ts /\ Log(o)[i].ts <= poll.newest
                   /\ poll.cfg.cursor < Log(o)[i].ts)'
         PROVE  (poll.pc = "ingest" /\ i \in poll.events /\ prof[o].id = poll.cfg.profile)'
    <3>1. i \in events
      BY <1>9, <2>3, <2>6, <2>8, <2>9, <2>11
    <3>2. QED
      BY <1>9, <2>9, <3>1
  <2>12. QED
    BY <2>7, <2>9, <2>10, <2>11 DEF FetchedInv
<1>13. QED
  BY <1>1, <1>10, <1>11, <1>12, PollStep

(****************************** the clock and the requests *******************)
\* An organization that a step leaves alone does not surprise the poller.
LEMMA RowStaysAlone ==
    ASSUME TypeOK, NEW o \in Orgs, row'[o] = row[o],
           last'[o].row = last[o].row, last'[o].prof = last[o].prof
    PROVE  RowStays(o)
<1>1. last[o].row \in Nat /\ last[o].prof \in Nat
  BY OrgTypes
<1>2. QED
  BY <1>1 DEF RowStays

LEMMA TickKeeps ==
    ASSUME StoredInv, Tick
    PROVE  StoredInv'
<1>1. now' = now + 1 /\ now \in Nat /\ 0 < now /\ UNCHANGED <<prof, row, last, poll, req>>
  BY DEF Tick, StoredInv, TypeOK
<1>2. now' \in Nat /\ now <= now' /\ 0 < now'
  BY <1>1
<1>3. TypeOK'
  BY <1>1, <1>2 DEF StoredInv, TypeOK
<1>4. \A o \in Orgs : OrgInv(o)'
  BY <1>1, <1>2, OrgStays DEF StoredInv
<1>5. \A o \in Orgs : RowStays(o)
  BY <1>1, RowStaysAlone DEF StoredInv
<1>6. TodoInv' /\ FetchedInv'
  BY <1>1, <1>2, <1>5, TodoStays, FetchedStays
<1>7. ReqInv'
  BY <1>1 DEF StoredInv, ReqInv
<1>8. QED
  BY <1>2, <1>3, <1>4, <1>6, <1>7 DEF StoredInv

\* What request r says of the numbers in use.
RequestInv(r) ==
    /\ req[r] # Idle => req[r].org \in Orgs
    /\ req[r].pc \in {"upsert", "commit", "remote"} =>
          req[r].profile \in 1..last[req[r].org].prof
    /\ req[r].pc \in {"commit"} => req[r].id \in 1..last[req[r].org].row

\* The request is over, or goes on; the others are where they were.
LEMMA ReqMoves ==
    ASSUME StoredInv, NEW r \in Requests, NEW q \in Request, req' = [req EXCEPT ![r] = q],
           RequestInv(r)', \A o \in Orgs : RowStays(o)
    PROVE  req' \in [Requests -> Request] /\ ReqInv'
<1>1. TypeOK /\ req \in [Requests -> Request] /\ ReqInv
  BY DEF StoredInv, TypeOK
<1>2. req' \in [Requests -> Request]
  BY <1>1
<1>3. ASSUME NEW z \in Requests PROVE RequestInv(z)'
  <2>1. CASE z = r
    BY <2>1
  <2>2. CASE z # r
    <3>1. req'[z] = req[z]
      BY <1>1, <2>2
    <3>2. CASE req[z] = Idle
      BY <3>1, <3>2 DEF RequestInv, Idle
    <3>3. CASE req[z] # Idle
      <4>1. PICK o \in Orgs : o = req[z].org
        BY <1>1, <3>3 DEF ReqInv
      <4>2. /\ last'[o].row \in Nat /\ last[o].row <= last'[o].row /\ last[o].row \in Nat
            /\ last'[o].prof \in Nat /\ last[o].prof <= last'[o].prof /\ last[o].prof \in Nat
        BY <1>1, OrgTypes DEF RowStays
      <4>3. /\ req[z].pc \in {"upsert", "commit", "remote"} => req[z].profile \in 1..last[o].prof
            /\ req[z].pc \in {"commit"} => req[z].id \in 1..last[o].row
        BY <1>1, <4>1 DEF ReqInv
      <4>4. /\ req[z].pc \in {"upsert", "commit", "remote"} => req[z].profile \in 1..last'[o].prof
            /\ req[z].pc \in {"commit"} => req[z].id \in 1..last'[o].row
        BY <4>2, <4>3
      <4>5. QED
        BY <3>1, <4>1, <4>4 DEF RequestInv
    <3>4. QED
      BY <3>2, <3>3
  <2>3. QED
    BY <2>1, <2>2
<1>4. QED
  BY <1>2, <1>3 DEF ReqInv, RequestInv

\* A step of request r alone, which may count a removal.
LEMMA RequestStep ==
    ASSUME StoredInv, NEW r \in Requests, UNCHANGED <<now, prof, row, poll>>,
           NEW q \in Request, req' = [req EXCEPT ![r] = q], RequestInv(r)',
           last' = last \/ \E o \in Orgs : last' = [last EXCEPT ![o].removed = @ + 1]
    PROVE  StoredInv'
<1>1. TypeOK /\ now \in Nat /\ now <= now /\ ReqInv
  BY DEF StoredInv, TypeOK
<1>2. last \in [Orgs -> [row : Nat, prof : Nat, removed : Nat]] /\ req \in [Requests -> Request]
  BY <1>1 DEF TypeOK
<1>3. /\ last' \in [Orgs -> [row : Nat, prof : Nat, removed : Nat]]
      /\ \A o \in Orgs : last'[o].row = last[o].row /\ last'[o].prof = last[o].prof
  BY <1>2
<1>4. \A o \in Orgs : RowStays(o)
  BY <1>1, <1>3, RowStaysAlone
<1>5. req' \in [Requests -> Request] /\ ReqInv'
  BY <1>4, ReqMoves
<1>6. TypeOK' /\ 0 < now'
  BY <1>3, <1>5 DEF StoredInv, TypeOK
<1>7. ASSUME NEW o \in Orgs PROVE OrgInv(o)'
  <2>1. LogInv(o)' /\ RowInv(o)'
    BY DEF StoredInv, OrgInv, LogInv, RowInv, Settled, Log, IsFirstOfItsTime
  <2>2. Numbers(o)'
    BY <1>3 DEF StoredInv, OrgInv, Numbers
  <2>3. QED
    BY <2>1, <2>2 DEF OrgInv
<1>8. TodoInv' /\ FetchedInv'
  BY <1>1, <1>4, TodoStays, FetchedStays
<1>9. QED
  BY <1>5, <1>6, <1>7, <1>8 DEF StoredInv

LEMMA IdleOK == Idle \in Request /\ Idle.pc = "idle"
BY DEF Idle, Request, NoId

LEMMA RequestFailsKeeps ==
    ASSUME StoredInv, NEW r \in Requests, RequestFails(r)
    PROVE  StoredInv'
<1>1. req' = [req EXCEPT ![r] = Idle] /\ UNCHANGED <<now, prof, row, last, poll>>
  BY DEF RequestFails
<1>2. req'[r] = Idle
  BY <1>1 DEF StoredInv, TypeOK
<1>3. RequestInv(r)'
  BY <1>2, IdleOK DEF RequestInv
<1>4. QED
  BY <1>1, <1>3, IdleOK, RequestStep

LEMMA ProvisionBeginKeeps ==
    ASSUME StoredInv, NEW r \in Requests, NEW o \in Orgs, ProvisionBegin(r, o)
    PROVE  StoredInv'
<1> DEFINE q == [Idle EXCEPT !.pc = "create", !.op = "provision", !.org = o]
<1>1. req' = [req EXCEPT ![r] = q] /\ UNCHANGED <<now, prof, row, last, poll>>
  BY DEF ProvisionBegin
<1>2. q \in Request /\ q.pc = "create" /\ q.org = o
  BY DEF Idle, Request, AllOps, NoId
<1> HIDE DEF q
<1>3. req'[r] = q
  BY <1>1 DEF StoredInv, TypeOK
<1>4. RequestInv(r)'
  BY <1>2, <1>3 DEF RequestInv
<1>5. QED
  BY <1>1, <1>2, <1>4, RequestStep

LEMMA RemoveBeginKeeps ==
    ASSUME StoredInv, NEW r \in Requests, NEW o \in Orgs, RemoveBegin(r, o)
    PROVE  StoredInv'
<1>1. PICK op \in Ops \ {"provision"} :
        /\ row[o] # NoRow
        /\ last' = [last EXCEPT ![o].removed = @ + 1]
        /\ req' = [req EXCEPT ![r] = [pc |-> "commit", op |-> op, org |-> o,
                                      id |-> row[o].id, profile |-> row[o].profile]]
        /\ UNCHANGED <<now, prof, row, poll>>
  BY DEF RemoveBegin
<1> DEFINE q == [pc |-> "commit", op |-> op, org |-> o,
                 id |-> row[o].id, profile |-> row[o].profile]
<1>2. row[o].id \in Nat /\ row[o].profile \in Nat
  BY OrgTypes DEF StoredInv
<1>3. q \in Request
  BY <1>2, InstanceAssumption DEF Request
<1>4. q.pc = "commit" /\ q.org = o /\ q.id = row[o].id /\ q.profile = row[o].profile
  OBVIOUS
<1> HIDE DEF q
<1>5. req' = [req EXCEPT ![r] = q]
  BY <1>1 DEF q
<1>6. req'[r] = q
  BY <1>5 DEF StoredInv, TypeOK
<1>7. row[o].id \in 1..last[o].row /\ row[o].profile \in 1..last[o].prof
  BY <1>1 DEF StoredInv, OrgInv, Numbers
<1>8. last'[o].row = last[o].row /\ last'[o].prof = last[o].prof
  BY <1>1 DEF StoredInv, TypeOK
<1>9. RequestInv(r)'
  BY <1>4, <1>6, <1>7, <1>8 DEF RequestInv
<1>10. QED
  BY <1>1, <1>3, <1>5, <1>9, RequestStep

(****************************** what NextDNS logs ****************************)
LEMMA Appended ==
    ASSUME TypeOK, NEW o \in Orgs, NEW e \in Entry, prof' = [prof EXCEPT ![o].log = Append(@, e)]
    PROVE  /\ prof' \in [Orgs -> Profile] /\ prof'[o].id = prof[o].id
           /\ \A z \in Orgs : z # o => prof'[z] = prof[z]
           /\ (DOMAIN Log(o))' = 1..(Len(Log(o)) + 1)
           /\ \A i \in DOMAIN Log(o) : Log(o)'[i] = Log(o)[i]
           /\ Log(o)'[Len(Log(o)) + 1] = e
<1>1. Log(o) \in Seq(Entry) /\ Len(Log(o)) \in Nat /\ DOMAIN Log(o) = 1..Len(Log(o))
      /\ prof[o] \in Profile
  BY OrgTypes
<1>2. PICK l : l = Append(Log(o), e)
  OBVIOUS
<1>3. l \in Seq(Entry) /\ DOMAIN l = 1..(Len(Log(o)) + 1) /\ l[Len(Log(o)) + 1] = e
  BY <1>1, <1>2
<1>4. \A i \in DOMAIN Log(o) : l[i] = Log(o)[i]
  BY <1>1, <1>2
<1>5. prof' = [prof EXCEPT ![o].log = l]
  BY <1>2 DEF Log
<1>6. prof'[o].log = l /\ prof'[o].id = prof[o].id /\ prof'[o] \in Profile
      /\ \A z \in Orgs : z # o => prof'[z] = prof[z]
  BY <1>1, <1>3, <1>5 DEF TypeOK, Profile
<1>7. prof' \in [Orgs -> Profile]
  BY <1>5, <1>6 DEF TypeOK
<1>8. Log(o)' = l
  BY <1>6 DEF Log
<1>9. QED
  BY <1>3, <1>4, <1>6, <1>7, <1>8

LEMMA LogQueryKeeps ==
    ASSUME StoredInv, NEW o \in Orgs, LogQuery(o)
    PROVE  StoredInv'
<1>1. PICK named \in BOOLEAN :
        prof' = [prof EXCEPT ![o].log = Append(@, [ts |-> now, named |-> named, copies |-> 0])]
  BY DEF LogQuery
<1>2. prof[o] # NoProfile /\ UNCHANGED <<now, row, last, poll, req>>
  BY DEF LogQuery
<1> DEFINE e == [ts |-> now, named |-> named, copies |-> 0]
<1>3. TypeOK /\ now \in Nat /\ 0 < now /\ OrgInv(o)
  BY DEF StoredInv, TypeOK
<1>4. e \in Entry /\ e.ts = now
  BY <1>3 DEF Entry
<1>5. prof' = [prof EXCEPT ![o].log = Append(@, e)]
  BY <1>1
<1> HIDE DEF e
<1>6. PICK n \in Nat : n = Len(Log(o)) /\ DOMAIN Log(o) = 1..n
  BY <1>3, OrgTypes
<1>7. /\ prof' \in [Orgs -> Profile] /\ prof'[o].id = prof[o].id
      /\ \A z \in Orgs : z # o => prof'[z] = prof[z]
      /\ (DOMAIN Log(o))' = 1..(n + 1)
      /\ \A i \in 1..n : Log(o)'[i] = Log(o)[i]
      /\ Log(o)'[n + 1] = e
  BY <1>3, <1>4, <1>5, <1>6, Appended
<1>8. TypeOK'
  BY <1>2, <1>3, <1>7 DEF TypeOK
<1>9. \A i \in 1..n : Log(o)[i].ts \in Nat /\ 0 < Log(o)[i].ts /\ Log(o)[i].ts <= now
  BY <1>3, <1>6, EntryTypes DEF OrgInv, LogInv
<1>10. LogInv(o)'
  <2>1. ASSUME NEW i \in 1..(n + 1)
        PROVE  0 < Log(o)'[i].ts /\ Log(o)'[i].ts <= now
    <3>1. CASE i = n + 1
      BY <1>3, <1>4, <1>7, <3>1
    <3>2. CASE i # n + 1
      BY <1>7, <1>9, <3>2
    <3>3. QED
      BY <3>1, <3>2
  <2>2. ASSUME NEW i \in 1..(n + 1), NEW j \in 1..(n + 1), i < j
        PROVE  Log(o)'[i].ts <= Log(o)'[j].ts
    <3>1. i \in 1..n
      BY <2>2
    <3>2. CASE j = n + 1
      BY <1>4, <1>7, <1>9, <3>1, <3>2
    <3>3. CASE j # n + 1
      <4>1. j \in 1..n
        BY <3>3
      <4>2. Log(o)[i].ts <= Log(o)[j].ts
        BY <1>3, <1>6, <2>2, <3>1, <4>1 DEF OrgInv, LogInv
      <4>3. QED
        BY <1>7, <3>1, <4>1, <4>2
    <3>4. QED
      BY <3>2, <3>3
  <2>3. QED
    BY <1>2, <1>7, <2>1, <2>2 DEF LogInv
<1>11. Numbers(o)'
  BY <1>2, <1>3, <1>7 DEF OrgInv, Numbers
<1>12. prof[o].id # NoId
  <2>1. prof[o].id \in 1..last[o].prof
    BY <1>2, <1>3 DEF OrgInv, Numbers
  <2>2. QED
    BY <2>1 DEF NoId
\* Nothing settled changes: the new entry is younger, or not the first of its time.
<1>13. ASSUME NEW t \in Nat, Settled(o, t)
       PROVE  /\ Settled(o, t)'
              /\ \A i \in (DOMAIN Log(o))' :
                    IsFirstOfItsTime(o, i)' /\ Log(o)'[i].ts <= t
                    => i \in 1..n /\ IsFirstOfItsTime(o, i)
  <2>1. t <= now /\ (t < now \/ \E i \in 1..n : Log(o)[i].ts = t)
    BY <1>6, <1>12, <1>13 DEF Settled
  <2>2. t < now \/ \E i \in 1..(n + 1) : Log(o)'[i].ts = t
    BY <1>7, <2>1
  <2>3. Settled(o, t)'
    BY <1>2, <1>7, <2>1, <2>2 DEF Settled
  <2>4. ASSUME NEW i \in 1..(n + 1), IsFirstOfItsTime(o, i)', Log(o)'[i].ts <= t
        PROVE  i \in 1..n /\ IsFirstOfItsTime(o, i)
    <3>1. \A j \in 1..(n + 1) : j < i => Log(o)'[j].ts # Log(o)'[i].ts
      BY <1>7, <2>4 DEF IsFirstOfItsTime
    <3>2. i # n + 1
      <4>1. SUFFICES ASSUME i = n + 1 PROVE FALSE
        OBVIOUS
      <4>2. Log(o)'[i].ts = now
        BY <1>4, <1>7, <4>1
      <4>3. t = now
        BY <1>3, <2>1, <2>4, <4>2
      <4>4. PICK j \in 1..n : Log(o)[j].ts = now
        BY <1>3, <2>1, <4>3
      <4>5. j < i /\ j \in 1..(n + 1) /\ Log(o)'[j].ts = now
        BY <1>7, <4>1, <4>4
      <4>6. QED
        BY <3>1, <4>2, <4>5
    <3>3. i \in 1..n
      BY <3>2
    <3>4. \A j \in 1..n : j < i => Log(o)[j].ts # Log(o)[i].ts
      BY <1>7, <3>1, <3>3
    <3>5. QED
      BY <1>6, <3>3, <3>4 DEF IsFirstOfItsTime
  <2>5. QED
    BY <1>7, <2>3, <2>4
<1>14. RowInv(o)'
  <2>1. SUFFICES ASSUME row[o] # NoRow, row[o].cursor # Never PROVE RowInv(o)'
    BY <1>2 DEF RowInv
  <2>2. PICK t \in Nat : t = row[o].cursor
    BY <1>3, OrgTypes
  <2>3. Settled(o, t)
    BY <1>3, <2>1, <2>2 DEF OrgInv, RowInv
  <2>4. ASSUME NEW i \in (DOMAIN Log(o))',
               Log(o)'[i].named, IsFirstOfItsTime(o, i)', row[o].start <= Log(o)'[i].ts,
               Log(o)'[i].ts <= t
        PROVE  Log(o)'[i].copies > 0
    <3>1. i \in 1..n /\ IsFirstOfItsTime(o, i) /\ Log(o)'[i] = Log(o)[i]
      BY <1>7, <1>13, <2>3, <2>4
    <3>2. QED
      BY <1>3, <1>6, <2>1, <2>2, <2>4, <3>1 DEF OrgInv, RowInv
  <2>5. QED
    BY <1>2, <1>13, <2>2, <2>3, <2>4 DEF RowInv
<1>15. ASSUME NEW z \in Orgs PROVE OrgInv(z)'
  <2>1. CASE z = o
    BY <1>10, <1>11, <1>14, <2>1 DEF OrgInv
  <2>2. CASE z # o
    <3>1. now' \in Nat /\ now <= now' /\ prof'[z] = prof[z]
      BY <1>2, <1>3, <1>7, <2>2
    <3>2. QED
      BY <1>2, <1>3, <3>1, OrgStays DEF StoredInv
  <2>3. QED
    BY <2>1, <2>2
<1>16. \A z \in Orgs : RowStays(z)
  BY <1>2, <1>3, RowStaysAlone
<1>17. TodoInv'
  BY <1>2, <1>16, TodoStays
<1>18. FetchedInv'
  <2>1. CASE poll.cfg.org # o
    BY <1>2, <1>3, <1>7, <1>16, <2>1, FetchedStays
  <2>2. CASE poll.cfg.org = o
    <3>1. SUFFICES ASSUME poll.pc \in {"ingest", "mark"}, poll.newest # Never
                   PROVE  FetchedInv'
      BY <1>2 DEF FetchedInv
    <3>2. PICK c : c = poll.cfg /\ c.org = o
      BY <2>2
    <3>3. PICK t \in Nat : t = poll.newest
      BY <1>3, PollTypes
    <3>4. Settled(o, t) /\ (c.cursor # Never => poll.from <= c.cursor)
      BY <3>1, <3>2, <3>3 DEF StoredInv, FetchedInv
    <3>5. ASSUME NEW i \in (DOMAIN Log(o))',
                 Log(o)'[i].named, IsFirstOfItsTime(o, i)', poll.from <= Log(o)'[i].ts,
                 Log(o)'[i].ts <= t, c.cursor < Log(o)'[i].ts
          PROVE  \/ poll.pc = "ingest" /\ i \in poll.events /\ prof[o].id = c.profile
                 \/ poll.pc = "mark" /\ (row[o].id = c.id => Log(o)'[i].copies > 0)
      <4>1. i \in 1..n /\ IsFirstOfItsTime(o, i) /\ Log(o)'[i] = Log(o)[i]
        BY <1>7, <1>13, <3>4, <3>5
      <4>2. QED
        BY <1>6, <3>1, <3>2, <3>3, <3>5, <4>1 DEF StoredInv, FetchedInv
    <3>6. Settled(o, t)'
      BY <1>13, <3>4
    <3>7. QED
      BY <1>2, <1>7, <3>2, <3>3, <3>4, <3>5, <3>6 DEF FetchedInv
  <2>3. QED
    BY <2>1, <2>2
<1>19. ReqInv'
  BY <1>2 DEF StoredInv, ReqInv
<1>20. QED
  BY <1>2, <1>3, <1>8, <1>15, <1>17, <1>18, <1>19 DEF StoredInv

(****************************** what is stored of it *************************)
\* A step that changes only how often the entries of o are stored.
Recounted(o) ==
    /\ prof' \in [Orgs -> Profile] /\ prof'[o].id = prof[o].id
    /\ \A z \in Orgs : z # o => prof'[z] = prof[z]
    /\ (DOMAIN Log(o))' = DOMAIN Log(o)
    /\ \A i \in DOMAIN Log(o) : /\ Log(o)'[i].ts = Log(o)[i].ts
                                /\ Log(o)'[i].named = Log(o)[i].named

LEMMA RecountedTimes ==
    ASSUME StoredInv, NEW o \in Orgs, Recounted(o), UNCHANGED <<now, last>>
    PROVE  /\ \A i \in DOMAIN Log(o) : IsFirstOfItsTime(o, i)' <=> IsFirstOfItsTime(o, i)
           /\ \A t \in Nat : Settled(o, t) => Settled(o, t)'
           /\ LogInv(o)' /\ TypeOK /\ prof' \in [Orgs -> Profile] /\ now \in Nat /\ 0 < now
<1>1. TypeOK /\ now \in Nat /\ now' = now /\ now <= now' /\ LogInv(o) /\ 0 < now
  BY DEF StoredInv, OrgInv, TypeOK
<1>2. \A i \in DOMAIN Log(o) : IsFirstOfItsTime(o, i)' <=> IsFirstOfItsTime(o, i)
  BY DEF Recounted, IsFirstOfItsTime
<1>3. ASSUME NEW t \in Nat, Settled(o, t) PROVE Settled(o, t)'
  BY <1>1, <1>3, SettledStays DEF Recounted
<1>4. LogInv(o)'
  BY <1>1 DEF LogInv, Recounted
<1>5. QED
  BY <1>1, <1>2, <1>3, <1>4 DEF Recounted

LEMMA StoredOK ==
    ASSUME NEW e \in Entry
    PROVE  /\ Stored(e) \in Entry /\ Stored(e).ts = e.ts /\ Stored(e).named = e.named
           /\ Stored(e).copies > 0
BY DEF Entry, Stored

LEMMA IngestKeeps ==
    ASSUME StoredInv, Ingest
    PROVE  StoredInv'
<1>1. PICK c : c = poll.cfg
  OBVIOUS
<1>2. /\ poll.pc = "ingest" /\ poll' = [poll EXCEPT !.pc = "mark"]
      /\ UNCHANGED <<now, row, last, req>>
  BY DEF Ingest
<1>3. PICK o \in Orgs : o = c.org
  BY <1>1, <1>2, CurrentConfig
<1>4. TypeOK /\ poll \in Poller /\ poll.newest \in Nat /\ c.profile \in 1..last[o].prof
  BY <1>1, <1>2, <1>3, PollTypes, CurrentConfig DEF StoredInv, TypeOK
<1>5. /\ poll' \in Poller /\ poll'.pc = "mark" /\ poll'.cfg = c /\ poll'.from = poll.from
      /\ poll'.newest = poll.newest /\ poll'.todo = poll.todo
  BY <1>1, <1>2, <1>4 DEF Poller
<1>6. Log(o) \in Seq(Entry) /\ prof[o] \in Profile /\ DOMAIN Log(o) = 1..Len(Log(o))
      /\ Len(Log(o)) \in Nat
  BY <1>4, OrgTypes
<1> DEFINE stored == [i \in DOMAIN Log(o) |->
                        IF i \in poll.events THEN Stored(Log(o)[i]) ELSE Log(o)[i]]
<1>7. prof' = IF c.profile # prof[o].id THEN prof ELSE [prof EXCEPT ![o].log = stored]
  BY <1>1, <1>3 DEF Ingest, Log
<1>8. \A i \in DOMAIN Log(o) : stored[i] \in Entry /\ stored[i].ts = Log(o)[i].ts
         /\ stored[i].named = Log(o)[i].named
         /\ (i \in poll.events \/ Log(o)[i].copies > 0 => stored[i].copies > 0)
  BY <1>4, EntryTypes, StoredOK
<1>9. stored \in Seq(Entry) /\ DOMAIN stored = DOMAIN Log(o)
  <2>1. stored \in [1..Len(Log(o)) -> Entry]
    BY <1>6, <1>8
  <2>2. QED
    BY <1>6, <2>1
<1> HIDE DEF stored
<1>10. /\ prof' \in [Orgs -> Profile] /\ prof'[o].id = prof[o].id
       /\ \A z \in Orgs : z # o => prof'[z] = prof[z]
       /\ prof'[o].log = IF c.profile # prof[o].id THEN Log(o) ELSE stored
  BY <1>4, <1>6, <1>7, <1>9 DEF TypeOK, Profile, Log
<1>11. Log(o)' = IF c.profile # prof[o].id THEN Log(o) ELSE stored
  BY <1>10 DEF Log
<1>12. Recounted(o)
  BY <1>8, <1>9, <1>10, <1>11 DEF Recounted
<1>13. \A i \in DOMAIN Log(o) : Log(o)[i].copies > 0 => Log(o)'[i].copies > 0
  BY <1>8, <1>11
<1>14. /\ \A i \in DOMAIN Log(o) : IsFirstOfItsTime(o, i)' <=> IsFirstOfItsTime(o, i)
       /\ \A t \in Nat : Settled(o, t) => Settled(o, t)'
       /\ LogInv(o)' /\ now \in Nat /\ 0 < now
  BY <1>2, <1>12, RecountedTimes
<1>15. Numbers(o)'
  <2>1. CASE c.profile # prof[o].id
    BY <1>2, <1>10, <2>1, <1>7 DEF StoredInv, OrgInv, Numbers
  <2>2. CASE c.profile = prof[o].id
    BY <1>2, <1>4, <1>10, <2>2 DEF StoredInv, OrgInv, Numbers
  <2>3. QED
    BY <2>1, <2>2
<1>16. RowInv(o)'
  <2>1. SUFFICES ASSUME row[o] # NoRow, row[o].cursor # Never PROVE RowInv(o)'
    BY <1>2 DEF RowInv
  <2>2. PICK t \in Nat : t = row[o].cursor
    BY <1>4, OrgTypes
  <2>3. Settled(o, t)'
    BY <1>14, <2>1, <2>2 DEF StoredInv, OrgInv, RowInv
  <2>4. QED
    BY <1>2, <1>12, <1>13, <1>14, <2>1, <2>2, <2>3
       DEF StoredInv, OrgInv, RowInv, Recounted
<1>17. ASSUME NEW z \in Orgs PROVE OrgInv(z)'
  <2>1. CASE z = o
    BY <1>14, <1>15, <1>16, <2>1 DEF OrgInv
  <2>2. CASE z # o
    <3>1. now' \in Nat /\ now <= now' /\ prof'[z] = prof[z]
      BY <1>2, <1>10, <1>14, <2>2
    <3>2. QED
      BY <1>2, <1>4, <3>1, OrgStays DEF StoredInv
  <2>3. QED
    BY <2>1, <2>2
<1>18. TodoInv'
  BY <1>1, <1>2, <1>5 DEF StoredInv, TodoInv
<1>19. FetchedInv'
  <2>1. SUFFICES ASSUME poll.newest # Never PROVE FetchedInv'
    BY <1>5, NothingFetched
  <2>2. PICK t \in Nat : t = poll.newest
    BY <1>4
  <2>3. Settled(o, t)' /\ (c.cursor # Never => poll.from <= c.cursor)
    BY <1>1, <1>2, <1>3, <1>14, <2>1, <2>2 DEF StoredInv, FetchedInv
  <2>4. ASSUME NEW i \in DOMAIN Log(o), Log(o)[i].named, IsFirstOfItsTime(o, i),
               poll.from <= Log(o)[i].ts, Log(o)[i].ts <= t, c.cursor < Log(o)[i].ts
        PROVE  Log(o)'[i].copies > 0
    <3>1. i \in poll.events /\ prof[o].id = c.profile
      BY <1>1, <1>2, <1>3, <2>1, <2>2, <2>4 DEF StoredInv, FetchedInv
    <3>2. QED
      BY <1>8, <1>11, <3>1
  <2>5. (DOMAIN Log(o))' = DOMAIN Log(o)
        /\ \A i \in DOMAIN Log(o) : /\ Log(o)'[i].ts = Log(o)[i].ts
                                    /\ Log(o)'[i].named = Log(o)[i].named
    BY <1>12 DEF Recounted
  <2>6. QED
    BY <1>3, <1>5, <1>14, <2>2, <2>3, <2>4, <2>5 DEF FetchedInv
<1>20. TypeOK'
  BY <1>2, <1>4, <1>5, <1>10 DEF TypeOK
<1>21. ReqInv'
  BY <1>2 DEF StoredInv, ReqInv
<1>22. QED
  BY <1>2, <1>14, <1>17, <1>18, <1>19, <1>20, <1>21 DEF StoredInv

\* The cursor moves to what was fetched: above the old one it was stored just
\* now, up to the old one it was stored before.
LEMMA MarkKeeps ==
    ASSUME StoredInv, Mark
    PROVE  StoredInv'
<1>1. PICK c : c = poll.cfg
  OBVIOUS
<1>2. poll.pc = "mark" /\ UNCHANGED <<now, prof, last, req>>
  BY DEF Mark
<1>3. PICK o \in Orgs : o = c.org
  BY <1>1, <1>2, CurrentConfig
<1>4. TypeOK /\ now \in Nat /\ poll \in Poller /\ poll.newest \in Nat /\ poll.from \in Nat
  BY PollTypes DEF StoredInv, TypeOK
<1>5. /\ c \in poll.todo /\ c.id \in 1..last[o].row /\ c.cursor \in Nat
      /\ row[o].id = c.id => row[o].cursor = c.cursor
  BY <1>1, <1>2, <1>3, CurrentConfig DEF StoredInv, TodoInv
<1>6. row[o] \in Row /\ row \in [Orgs -> Row]
  BY <1>4 DEF TypeOK
<1>7. /\ row' = IF row[o].id = c.id THEN [row EXCEPT ![o] = Synced(@)] ELSE row
      /\ \/ poll' = Asleep
         \/ row[o].id = c.id /\ poll' = [Asleep EXCEPT !.pc = "next", !.todo = poll.todo \ {c}]
  BY <1>1, <1>3 DEF Mark
<1> DEFINE synced == Synced(row[o])
<1>8. /\ synced \in Row /\ synced.id = row[o].id /\ synced.profile = row[o].profile
      /\ synced.cursor = (IF poll.newest # Never THEN poll.newest ELSE row[o].cursor)
      /\ synced.start = (IF c.cursor = Never /\ poll.newest # Never THEN poll.from ELSE row[o].start)
  BY <1>1, <1>4, <1>6 DEF Row, Synced
<1>9. row' = IF row[o].id = c.id THEN [row EXCEPT ![o] = synced] ELSE row
  BY <1>7
<1> HIDE DEF synced
<1>10. /\ row' \in [Orgs -> Row] /\ \A z \in Orgs : z # o => row'[z] = row[z]
       /\ row'[o] = IF row[o].id = c.id THEN synced ELSE row[o]
  BY <1>6, <1>8, <1>9
<1>11. /\ poll'.newest = Never /\ poll' \in Poller
       /\ \/ poll'.todo = {} /\ poll'.pc = "sleep"
          \/ poll'.todo = poll.todo \ {c} /\ poll'.pc = "next"
  <2>1. CASE poll' = Asleep
    BY <2>1, AsleepOK DEF Asleep
  <2>2. CASE poll' = [Asleep EXCEPT !.pc = "next", !.todo = poll.todo \ {c}]
    <3>1. poll.todo \ {c} \in SUBSET Config
      BY <1>4 DEF Poller
    <3>2. QED
      BY <2>2, <3>1, AsleepOK DEF Asleep, Poller
  <2>3. QED
    BY <1>7, <2>1, <2>2
<1>12. TypeOK'
  BY <1>2, <1>4, <1>10, <1>11 DEF TypeOK
<1>13. TodoInv'
  <2>1. ASSUME NEW d \in poll.todo \ {c} PROVE d.org # o
    BY <1>3, <1>5 DEF StoredInv, TodoInv
  <2>2. ASSUME NEW d \in poll'.todo
        PROVE  /\ d.org \in Orgs /\ d.id \in 1..last'[d.org].row
               /\ d.profile \in 1..last'[d.org].prof
               /\ row'[d.org].id = d.id => row'[d.org].cursor = d.cursor
    <3>1. d \in poll.todo \ {c}
      BY <1>11
    <3>2. d.org # o /\ d.org \in Orgs
      BY <2>1, <3>1 DEF StoredInv, TodoInv
    <3>3. row'[d.org] = row[d.org]
      BY <1>10, <3>2
    <3>4. QED
      BY <1>2, <3>1, <3>2, <3>3 DEF StoredInv, TodoInv
  <2>3. \A d, e \in poll'.todo : d.org = e.org => d = e
    BY <1>11 DEF StoredInv, TodoInv
  <2>4. QED
    BY <1>11, <2>2, <2>3 DEF TodoInv
<1>14. FetchedInv'
  BY <1>11, NothingFetched
<1>15. OrgInv(o)'
  <2>1. Log(o)' = Log(o) /\ OrgInv(o)
    BY <1>2 DEF Log, StoredInv
  <2>2. LogInv(o)'
    BY <1>2, <2>1 DEF OrgInv, LogInv
  <2>3. \A i : IsFirstOfItsTime(o, i)' <=> IsFirstOfItsTime(o, i)
    BY <2>1 DEF IsFirstOfItsTime
  <2>4. \A t \in Nat : Settled(o, t) => Settled(o, t)'
    BY <1>2, <2>1 DEF Settled
  <2>5. PICK r \in Row : r = row[o]
    BY <1>6
  <2>6. r.cursor \in Nat /\ r.start \in Nat
    BY DEF Row
  <2>7. CASE row[o].id # c.id \/ poll.newest = Never
    <3>1. /\ row'[o].id = r.id /\ row'[o].profile = r.profile
          /\ row'[o].cursor = r.cursor
          /\ row'[o].start = r.start
      BY <1>8, <1>10, <2>5, <2>7
    <3>2. row'[o] \in Row /\ r \in Row
      BY <1>10
    <3>3. row'[o] = r
      BY <3>1, <3>2 DEF Row
    <3>4. Numbers(o)'
      BY <1>2, <2>1, <2>5, <3>3 DEF OrgInv, Numbers
    <3>5. RowInv(o)'
      BY <2>1, <2>3, <2>4, <2>5, <2>6, <3>3 DEF OrgInv, RowInv
    <3>6. QED
      BY <2>2, <3>4, <3>5 DEF OrgInv
  <2>8. CASE row[o].id = c.id /\ poll.newest # Never
    <3>1. row'[o] = synced /\ r.cursor = c.cursor
      BY <1>5, <1>10, <2>5, <2>8
    <3>2. row[o] # NoRow
      BY <1>5, <2>8 DEF NoRow, NoId
    <3>3. Numbers(o)'
      BY <1>2, <1>8, <2>1, <3>1, <3>2 DEF OrgInv, Numbers
    <3>4. PICK t \in Nat : t = poll.newest
      BY <1>4
    <3>5. Settled(o, t) /\ (c.cursor # Never => poll.from <= c.cursor)
      BY <1>1, <1>2, <1>3, <2>8, <3>4 DEF StoredInv, FetchedInv
    <3>6. row'[o].cursor = t
          /\ row'[o].start = IF c.cursor = Never THEN poll.from ELSE r.start
      BY <1>8, <2>5, <2>8, <3>1, <3>4
    <3>7. ASSUME NEW i \in DOMAIN Log(o), Log(o)[i].named, IsFirstOfItsTime(o, i),
                 row'[o].start <= Log(o)[i].ts, Log(o)[i].ts <= t
          PROVE  Log(o)[i].copies > 0
      <4>1. Log(o)[i].ts \in Nat
        BY <1>4, EntryTypes
      <4>2. CASE c.cursor < Log(o)[i].ts
        <5>1. poll.from <= Log(o)[i].ts
          <6>1. CASE c.cursor = Never
            BY <3>6, <3>7, <6>1
          <6>2. CASE c.cursor # Never
            BY <1>4, <1>5, <3>5, <4>1, <4>2, <6>2
          <6>3. QED
            BY <6>1, <6>2
        <5>2. QED
          BY <1>1, <1>2, <1>3, <2>8, <3>4, <3>7, <4>2, <5>1 DEF StoredInv, FetchedInv
      <4>3. CASE Log(o)[i].ts <= c.cursor
        <5>1. c.cursor # Never
          <6>1. 0 < Log(o)[i].ts
            BY <2>1 DEF OrgInv, LogInv
          <6>2. QED
            BY <1>5, <4>1, <4>3, <6>1 DEF Never
        <5>2. r.start <= Log(o)[i].ts
          BY <3>6, <3>7, <5>1
        <5>3. row[o].cursor # Never /\ row[o].cursor = c.cursor /\ row[o].start = r.start
          BY <2>5, <3>1, <5>1
        <5>4. QED
          BY <2>1, <3>2, <3>7, <4>3, <5>2, <5>3 DEF OrgInv, RowInv
      <4>4. QED
        BY <1>5, <4>1, <4>2, <4>3
    <3>8. Settled(o, t)'
      BY <2>4, <3>5
    <3>9. RowInv(o)'
      BY <2>1, <2>3, <3>6, <3>7, <3>8 DEF RowInv
    <3>10. QED
      BY <2>2, <3>3, <3>9 DEF OrgInv
  <2>9. QED
    BY <2>7, <2>8
<1>16. ASSUME NEW z \in Orgs PROVE OrgInv(z)'
  <2>1. CASE z = o
    BY <1>15, <2>1
  <2>2. CASE z # o
    <3>1. now' \in Nat /\ now <= now' /\ prof'[z] = prof[z] /\ row'[z] = row[z]
      BY <1>2, <1>4, <1>10, <2>2
    <3>2. QED
      BY <1>2, <1>4, <3>1, OrgStays DEF StoredInv
  <2>3. QED
    BY <2>1, <2>2
<1>17. ReqInv'
  BY <1>2 DEF StoredInv, ReqInv
<1>18. QED
  BY <1>2, <1>12, <1>13, <1>14, <1>16, <1>17 DEF StoredInv

(****************************** rows and profiles that come and go ***********)
\* A step that changes the rows of one organization.
LEMMA RowChange ==
    ASSUME StoredInv, NEW o \in Orgs, poll' = poll, now' \in Nat, now <= now',
           prof' \in [Orgs -> Profile],
           row' \in [Orgs -> Row], last' \in [Orgs -> [row : Nat, prof : Nat, removed : Nat]],
           req' \in [Requests -> Request],
           \A z \in Orgs : z # o => /\ prof'[z] = prof[z] /\ row'[z] = row[z]
                                    /\ last'[z] = last[z],
           OrgInv(o)', RowStays(o), ReqInv', o = poll.cfg.org => FetchedInv'
    PROVE  StoredInv'
<1>1. TypeOK /\ now \in Nat /\ 0 < now'
  BY DEF StoredInv, TypeOK
<1>2. TypeOK'
  BY <1>1 DEF TypeOK
<1>3. \A z \in Orgs : OrgInv(z)'
  BY <1>1, OrgStays DEF StoredInv
<1>4. \A z \in Orgs : RowStays(z)
  BY <1>1, RowStaysAlone
<1>5. TodoInv'
  BY <1>4, TodoStays
<1>6. FetchedInv'
  BY <1>1, <1>4, FetchedStays
<1>7. QED
  BY <1>1, <1>2, <1>3, <1>5, <1>6 DEF StoredInv

LEMMA ProvisionCreateKeeps ==
    ASSUME StoredInv, NEW r \in Requests, ProvisionCreate(r)
    PROVE  StoredInv'
<1>1. TypeOK /\ ReqInv /\ now \in Nat /\ req \in [Requests -> Request]
      /\ req[r] \in Request /\ prof \in [Orgs -> Profile] /\ row \in [Orgs -> Row]
      /\ last \in [Orgs -> [row : Nat, prof : Nat, removed : Nat]]
  BY DEF StoredInv, TypeOK
<1>2. req[r].pc = "create" /\ UNCHANGED <<row, poll>>
  BY DEF ProvisionCreate
<1>3. PICK o \in Orgs : o = req[r].org
  BY <1>1, <1>2 DEF ReqInv, Idle
<1>4. req' = [req EXCEPT ![r] = [req[r] EXCEPT !.pc = "upsert", !.profile = prof'[o].id]]
  BY <1>1, <1>3 DEF ProvisionCreate
<1>5. PICK p : p = prof'[o].id
  OBVIOUS
<1> DEFINE q == [req[r] EXCEPT !.pc = "upsert", !.profile = p]
<1>6. req' = [req EXCEPT ![r] = q]
  BY <1>4, <1>5
<1>7. ASSUME p \in Nat PROVE q \in Request /\ q.pc = "upsert" /\ q.org = o /\ q.profile = p
  BY <1>1, <1>3, <1>7 DEF Request
<1> HIDE DEF q
<1>8. req'[r] = q
  BY <1>1, <1>6
<1>9. OrgInv(o) /\ last[o].prof \in Nat /\ last[o].row \in Nat /\ row[o].cursor \in Nat
  BY <1>1, OrgTypes DEF StoredInv
<1>10. CASE prof[o] # NoProfile
  <2>1. UNCHANGED <<now, prof, last>>
    BY <1>3, <1>10 DEF ProvisionCreate
  <2>2. p \in 1..last[o].prof /\ p \in Nat
    BY <1>5, <1>9, <1>10, <2>1 DEF OrgInv, Numbers
  <2>3. q \in Request /\ q.pc = "upsert" /\ q.org = o /\ q.profile = p
    BY <1>7, <2>2
  <2>4. RequestInv(r)'
    BY <1>8, <2>1, <2>2, <2>3 DEF RequestInv
  <2>5. QED
    BY <1>2, <1>6, <2>1, <2>3, <2>4, RequestStep
<1>11. CASE prof[o] = NoProfile
  <2>1. /\ now' = now + 1
        /\ prof' = [prof EXCEPT ![o] = [NoProfile EXCEPT !.id = last[o].prof + 1]]
        /\ last' = [last EXCEPT ![o].prof = last[o].prof + 1]
    BY <1>1, <1>3, <1>11 DEF ProvisionCreate
  <2>2. now' \in Nat /\ now <= now' /\ now < now'
    BY <1>1, <2>1
  <2> DEFINE made == [NoProfile EXCEPT !.id = last[o].prof + 1]
  <2>3. made \in Profile /\ made.id = last[o].prof + 1 /\ made.log = <<>>
    <3>1. <<>> \in Seq(Entry)
      OBVIOUS
    <3>2. PICK n \in Nat : n = last[o].prof + 1
      BY <1>9
    <3>3. made = [id |-> n, log |-> <<>>]
      BY <3>2 DEF NoProfile
    <3>4. QED
      BY <3>1, <3>2, <3>3 DEF Profile
  <2>4. prof' = [prof EXCEPT ![o] = made]
    BY <2>1
  <2> HIDE DEF made
  <2>5. /\ prof' \in [Orgs -> Profile] /\ prof'[o] = made
        /\ last' \in [Orgs -> [row : Nat, prof : Nat, removed : Nat]]
        /\ last'[o].prof = last[o].prof + 1 /\ last'[o].row = last[o].row
        /\ \A z \in Orgs : z # o => prof'[z] = prof[z] /\ row'[z] = row[z] /\ last'[z] = last[z]
    <3>1. prof' \in [Orgs -> Profile] /\ prof'[o] = made
          /\ \A z \in Orgs : z # o => prof'[z] = prof[z]
      BY <1>1, <2>3, <2>4
    <3>2. /\ last' \in [Orgs -> [row : Nat, prof : Nat, removed : Nat]]
          /\ last'[o].prof = last[o].prof + 1 /\ last'[o].row = last[o].row
          /\ \A z \in Orgs : z # o => last'[z] = last[z]
      <4>1. last[o] \in [row : Nat, prof : Nat, removed : Nat]
        BY <1>1
      <4>2. QED
        BY <1>1, <1>9, <2>1, <4>1
    <3>3. QED
      BY <1>2, <3>1, <3>2
  <2>6. (DOMAIN Log(o))' = {}
    BY <2>3, <2>5 DEF Log
  <2>7. ASSUME NEW t \in Nat, Settled(o, t) PROVE Settled(o, t)'
    BY <1>1, <2>2, <2>7 DEF Settled
  <2>8. OrgInv(o)'
    <3>1. LogInv(o)'
      BY <2>6 DEF LogInv
    <3>2. Numbers(o)'
      BY <1>2, <1>9, <2>3, <2>5 DEF OrgInv, Numbers
    <3>3. PICK t \in Nat : t = row[o].cursor
      BY <1>9
    <3>4. RowInv(o)'
      BY <1>2, <1>9, <2>6, <2>7, <3>3 DEF OrgInv, RowInv
    <3>5. QED
      BY <3>1, <3>2, <3>4 DEF OrgInv
  <2>9. ASSUME NEW z \in Orgs PROVE RowStays(z)
    <3>1. CASE z = o
      BY <1>2, <1>9, <2>5, <3>1 DEF RowStays
    <3>2. CASE z # o
      BY <1>1, <2>5, <3>2, RowStaysAlone
    <3>3. QED
      BY <3>1, <3>2
  <2>10. p \in Nat /\ p \in 1..last'[o].prof
    BY <1>5, <1>9, <2>3, <2>5
  <2>11. q \in Request /\ q.pc = "upsert" /\ q.org = o /\ q.profile = p
    BY <1>7, <2>10
  <2>12. RequestInv(r)'
    BY <1>8, <2>10, <2>11 DEF RequestInv
  <2>13. req' \in [Requests -> Request] /\ ReqInv'
    BY <1>6, <2>9, <2>11, <2>12, ReqMoves
  <2>14. ASSUME o = poll.cfg.org PROVE FetchedInv'
    <3>1. PICK t \in Nat : t = poll.newest
      BY <1>1, PollTypes
    <3>2. PICK c : c = poll.cfg /\ c.org = o
      BY <2>14
    <3>3. SUFFICES ASSUME poll.pc \in {"ingest", "mark"}, poll.newest # Never PROVE FetchedInv'
      BY <1>2 DEF FetchedInv
    <3>4. Settled(o, t) /\ (c.cursor # Never => poll.from <= c.cursor)
      BY <3>1, <3>2, <3>3 DEF StoredInv, FetchedInv
    <3>5. Settled(o, t)'
      BY <2>7, <3>4
    <3>6. QED
      BY <1>2, <2>6, <3>1, <3>2, <3>4, <3>5 DEF FetchedInv
  <2>15. row' \in [Orgs -> Row]
    BY <1>1, <1>2
  <2>16. QED
    BY <1>2, <2>2, <2>5, <2>8, <2>9, <2>13, <2>14, <2>15, RowChange
<1>12. QED
  BY <1>10, <1>11

LEMMA UpsertKeeps ==
    ASSUME StoredInv, NEW r \in Requests, Upsert(r)
    PROVE  StoredInv'
<1>1. TypeOK /\ ReqInv /\ now \in Nat /\ req \in [Requests -> Request]
      /\ req[r] \in Request /\ prof \in [Orgs -> Profile] /\ row \in [Orgs -> Row]
      /\ last \in [Orgs -> [row : Nat, prof : Nat, removed : Nat]]
  BY DEF StoredInv, TypeOK
<1>2. req[r].pc = "upsert" /\ UNCHANGED <<now, prof, poll>> /\ req' = [req EXCEPT ![r] = Idle]
  BY DEF Upsert
<1>3. PICK o \in Orgs : o = req[r].org
  BY <1>1, <1>2 DEF ReqInv, Idle
<1>4. req[r].profile \in 1..last[o].prof
  BY <1>1, <1>2, <1>3 DEF ReqInv
<1>5. OrgInv(o) /\ last[o].prof \in Nat /\ last[o].row \in Nat /\ row[o] \in Row
      /\ row[o].id \in Nat /\ last[o] \in [row : Nat, prof : Nat, removed : Nat]
  BY <1>1, OrgTypes DEF StoredInv
<1> DEFINE new == Upserted(o, req[r].profile)
<1>6. /\ row' = [row EXCEPT ![o] = new]
      /\ last' = [last EXCEPT ![o].row = IF row[o] = NoRow THEN last[o].row + 1 ELSE last[o].row]
  BY <1>1, <1>3 DEF Upsert
<1>7. new \in Row /\ new.profile = req[r].profile
      /\ IF row[o] = NoRow
         THEN new.id = last[o].row + 1 /\ new.cursor = Never /\ new.start = 0
         ELSE new.id = row[o].id /\ new.cursor = row[o].cursor /\ new.start = row[o].start
  <2>1. CASE row[o] = NoRow
    <3>1. PICK n \in Nat : n = last[o].row + 1
      BY <1>5
    <3>2. PICK p \in Nat : p = req[r].profile
      BY <1>4
    <3>3. new = [id |-> n, profile |-> p, cursor |-> Never, start |-> 0]
      BY <2>1, <3>1, <3>2 DEF Upserted, NoRow
    <3>4. QED
      BY <2>1, <3>1, <3>2, <3>3 DEF Row, Never
  <2>2. CASE row[o] # NoRow
    BY <1>4, <1>5, <2>2 DEF Upserted, Row
  <2>3. QED
    BY <2>1, <2>2
<1> HIDE DEF new
<1>8. /\ row' \in [Orgs -> Row] /\ row'[o] = new
      /\ last' \in [Orgs -> [row : Nat, prof : Nat, removed : Nat]]
      /\ last'[o].prof = last[o].prof
      /\ last'[o].row = IF row[o] = NoRow THEN last[o].row + 1 ELSE last[o].row
      /\ \A z \in Orgs : z # o => prof'[z] = prof[z] /\ row'[z] = row[z] /\ last'[z] = last[z]
  BY <1>1, <1>2, <1>5, <1>6, <1>7
<1>9. ASSUME NEW z \in Orgs PROVE RowStays(z)
  <2>1. CASE z = o
    BY <1>5, <1>7, <1>8, <2>1 DEF RowStays
  <2>2. CASE z # o
    BY <1>1, <1>8, <2>2, RowStaysAlone
  <2>3. QED
    BY <2>1, <2>2
<1>10. OrgInv(o)'
  <2>1. Log(o)' = Log(o)
    BY <1>2 DEF Log
  <2>2. LogInv(o)'
    BY <1>2, <1>5, <2>1 DEF OrgInv, LogInv
  <2>3. Numbers(o)'
    BY <1>2, <1>4, <1>5, <1>7, <1>8 DEF OrgInv, Numbers
  <2>4. \A i : IsFirstOfItsTime(o, i)' <=> IsFirstOfItsTime(o, i)
    BY <2>1 DEF IsFirstOfItsTime
  <2>5. \A t \in Nat : Settled(o, t) => Settled(o, t)'
    BY <1>2, <2>1 DEF Settled
  <2>6. RowInv(o)'
    <3>1. CASE row[o] = NoRow
      BY <1>7, <1>8, <3>1 DEF RowInv
    <3>2. CASE row[o] # NoRow
      <4>1. PICK t \in Nat : t = row[o].cursor
        BY <1>1, OrgTypes
      <4>2. row'[o].cursor = t /\ row'[o].start = row[o].start
        BY <1>7, <1>8, <3>2, <4>1
      <4>3. QED
        BY <1>5, <2>1, <2>4, <2>5, <3>2, <4>1, <4>2 DEF OrgInv, RowInv
    <3>3. QED
      BY <3>1, <3>2
  <2>7. QED
    BY <2>2, <2>3, <2>6 DEF OrgInv
<1>11. req'[r] = Idle
  BY <1>1, <1>2
<1>12. RequestInv(r)'
  BY <1>11, IdleOK DEF RequestInv
<1>13. req' \in [Requests -> Request] /\ ReqInv'
  BY <1>2, <1>9, <1>12, IdleOK, ReqMoves
<1>14. FetchedInv' /\ now' \in Nat /\ now <= now'
  BY <1>1, <1>2, <1>9, FetchedStays
<1>15. prof' \in [Orgs -> Profile]
  BY <1>1, <1>2
<1>16. QED
  BY <1>2, <1>8, <1>9, <1>10, <1>13, <1>14, <1>15, RowChange

LEMMA RemoveCommitKeeps ==
    ASSUME StoredInv, NEW r \in Requests, RemoveCommit(r)
    PROVE  StoredInv'
<1>1. TypeOK /\ ReqInv /\ now \in Nat /\ req \in [Requests -> Request] /\ now <= now
      /\ req[r] \in Request /\ prof \in [Orgs -> Profile] /\ row \in [Orgs -> Row]
      /\ last \in [Orgs -> [row : Nat, prof : Nat, removed : Nat]]
  BY DEF StoredInv, TypeOK
<1>2. /\ req[r].pc = "commit" /\ UNCHANGED <<now, last, poll>>
      /\ req' = [req EXCEPT ![r] = [req[r] EXCEPT !.pc = "remote"]]
  BY <1>1 DEF RemoveCommit
<1>3. PICK o \in Orgs : o = req[r].org
  BY <1>1, <1>2 DEF ReqInv, Idle
<1>4. req[r].profile \in 1..last[o].prof
  BY <1>1, <1>2, <1>3 DEF ReqInv
<1>5. OrgInv(o) /\ prof[o] \in Profile /\ row[o] \in Row
      /\ Log(o) \in Seq(Entry) /\ Len(Log(o)) \in Nat /\ DOMAIN Log(o) = 1..Len(Log(o))
  BY <1>1, OrgTypes DEF StoredInv
<1> DEFINE wiped == [i \in DOMAIN Log(o) |-> [Log(o)[i] EXCEPT !.copies = 0]]
           gone == req[r].op = "wipe" \/ row[o].id = req[r].id
<1>6. /\ row' = [row EXCEPT ![o] = IF gone THEN NoRow ELSE row[o]]
      /\ prof' = IF req[r].op = "wipe" THEN [prof EXCEPT ![o].log = wiped] ELSE prof
  BY <1>1, <1>3 DEF RemoveCommit, Log
<1>7. \A i \in DOMAIN Log(o) : wiped[i] \in Entry /\ wiped[i].ts = Log(o)[i].ts
                               /\ wiped[i].named = Log(o)[i].named
  <2>1. ASSUME NEW e \in Entry
        PROVE  [e EXCEPT !.copies = 0] \in Entry /\ [e EXCEPT !.copies = 0].ts = e.ts
               /\ [e EXCEPT !.copies = 0].named = e.named
    BY DEF Entry
  <2>2. QED
    BY <1>1, <2>1, EntryTypes
<1>8. DOMAIN wiped = DOMAIN Log(o) /\ wiped \in Seq(Entry)
  <2>1. wiped \in [1..Len(Log(o)) -> Entry]
    BY <1>5, <1>7
  <2>2. QED
    BY <1>5, <2>1
<1>9. Log(o) = <<>> => wiped = <<>>
  <2>1. Log(o) = <<>> => Len(Log(o)) = 0
    OBVIOUS
  <2>2. Len(wiped) = Len(Log(o))
    BY <1>5, <1>8
  <2>3. QED
    BY <1>8, <2>1, <2>2, EmptySeq
<1> HIDE DEF wiped
<1>10. /\ prof' \in [Orgs -> Profile] /\ prof'[o].id = prof[o].id
       /\ prof'[o].log = IF req[r].op = "wipe" THEN wiped ELSE Log(o)
       /\ \A z \in Orgs : z # o => prof'[z] = prof[z]
  BY <1>1, <1>5, <1>6, <1>8 DEF Profile, Log
<1>11. NoRow \in Row /\ NoRow.id = 0
  BY DEF NoRow, Row, NoId, Never
<1>12. /\ row' \in [Orgs -> Row] /\ row'[o] = IF gone THEN NoRow ELSE row[o]
       /\ \A z \in Orgs : z # o => row'[z] = row[z]
  BY <1>1, <1>5, <1>6, <1>11
<1> HIDE DEF gone
<1>13. ASSUME NEW z \in Orgs PROVE RowStays(z)
  <2>1. CASE z = o
    <3>1. last[o].row \in Nat /\ last[o].prof \in Nat
      BY <1>1, OrgTypes
    <3>2. QED
      BY <1>2, <1>11, <1>12, <2>1, <3>1 DEF RowStays
  <2>2. CASE z # o
    BY <1>1, <1>2, <1>12, <2>2, RowStaysAlone
  <2>3. QED
    BY <2>1, <2>2
<1>14. Log(o)' = IF req[r].op = "wipe" THEN wiped ELSE Log(o)
  BY <1>10 DEF Log
<1>15. Recounted(o)
  BY <1>7, <1>8, <1>10, <1>14 DEF Recounted
<1>16. /\ \A i \in DOMAIN Log(o) : IsFirstOfItsTime(o, i)' <=> IsFirstOfItsTime(o, i)
       /\ \A t \in Nat : Settled(o, t) => Settled(o, t)'
       /\ LogInv(o)'
  BY <1>2, <1>15, RecountedTimes
<1>17. Numbers(o)'
  <2>1. prof'[o] # NoProfile => prof[o] # NoProfile
    <3>1. SUFFICES ASSUME prof[o] = NoProfile PROVE prof'[o] = NoProfile
      OBVIOUS
    <3>2. prof[o].log = <<>> /\ prof[o].id = NoId
      BY <3>1 DEF NoProfile
    <3>3. prof'[o].log = <<>>
      BY <1>9, <1>10, <3>2 DEF Log
    <3>4. prof'[o] \in Profile /\ prof'[o].id = NoId
      BY <1>10, <3>2
    <3>5. QED
      BY <3>3, <3>4 DEF Profile, NoProfile
  <2>2. QED
    BY <1>2, <1>5, <1>10, <1>12, <2>1 DEF OrgInv, Numbers
<1>18. ASSUME req[r].op = "wipe" PROVE OrgInv(o)' /\ (o = poll.cfg.org => FetchedInv')
  <2>1. row'[o] = NoRow
    BY <1>12, <1>18 DEF gone
  <2>2. OrgInv(o)'
    BY <1>16, <1>17, <2>1 DEF OrgInv, RowInv
  <2>3. ASSUME o = poll.cfg.org PROVE FetchedInv'
    <3>1. PICK t \in Nat : t = poll.newest
      BY <1>1, PollTypes
    <3>2. PICK c : c = poll.cfg /\ c.org = o
      BY <2>3
    <3>3. SUFFICES ASSUME poll.pc \in {"ingest", "mark"}, poll.newest # Never PROVE FetchedInv'
      BY <1>2 DEF FetchedInv
    <3>4. Settled(o, t) /\ (c.cursor # Never => poll.from <= c.cursor)
      BY <3>1, <3>2, <3>3 DEF StoredInv, FetchedInv
    <3>5. Settled(o, t)' /\ c.id \in 1..last[o].row
      BY <1>16, <3>2, <3>3, <3>4, CurrentConfig
    <3>6. row'[o].id # c.id
      BY <1>11, <2>1, <3>5
    <3>7. ASSUME NEW i \in DOMAIN Log(o), Log(o)[i].named, IsFirstOfItsTime(o, i),
                 poll.from <= Log(o)[i].ts, Log(o)[i].ts <= t, c.cursor < Log(o)[i].ts
          PROVE  \/ poll.pc = "ingest" /\ i \in poll.events /\ prof[o].id = c.profile
                 \/ poll.pc = "mark"
      BY <3>1, <3>2, <3>3, <3>7 DEF StoredInv, FetchedInv
    <3>8. (DOMAIN Log(o))' = DOMAIN Log(o)
          /\ \A i \in DOMAIN Log(o) : /\ Log(o)'[i].ts = Log(o)[i].ts
                                      /\ Log(o)'[i].named = Log(o)[i].named
      BY <1>15 DEF Recounted
    <3>9. QED
      BY <1>2, <1>10, <1>16, <3>1, <3>2, <3>4, <3>5, <3>6, <3>7, <3>8 DEF FetchedInv
  <2>4. QED
    BY <2>2, <2>3
<1>19. ASSUME req[r].op # "wipe" PROVE OrgInv(o)' /\ (o = poll.cfg.org => FetchedInv')
  <2>1. Log(o)' = Log(o) /\ prof' = prof
    BY <1>6, <1>14, <1>19
  <2>2. RowInv(o)'
    <3>1. CASE gone
      BY <1>12, <3>1 DEF RowInv
    <3>2. CASE ~gone
      <4>1. row'[o] = row[o]
        BY <1>12, <3>2
      <4>2. QED
        BY <1>2, <1>5, <2>1, <4>1 DEF OrgInv, RowInv, Settled, Log, IsFirstOfItsTime
    <3>3. QED
      BY <3>1, <3>2
  <2>3. OrgInv(o)'
    BY <1>16, <1>17, <2>2 DEF OrgInv
  <2>4. now' \in Nat /\ now <= now'
    BY <1>1, <1>2
  <2>5. FetchedInv'
    BY <1>2, <1>13, <2>1, <2>4, FetchedStays
  <2>6. QED
    BY <2>3, <2>5
<1>20. OrgInv(o)' /\ (o = poll.cfg.org => FetchedInv')
  BY <1>18, <1>19
<1> DEFINE q == [req[r] EXCEPT !.pc = "remote"]
<1>21. q \in Request /\ q.pc = "remote" /\ q.org = o /\ q.profile = req[r].profile
  BY <1>1, <1>3 DEF Request
<1>22. req' = [req EXCEPT ![r] = q]
  BY <1>2
<1> HIDE DEF q
<1>23. req'[r] = q
  BY <1>1, <1>22
<1>24. RequestInv(r)'
  BY <1>2, <1>4, <1>21, <1>23 DEF RequestInv
<1>25. req' \in [Requests -> Request] /\ ReqInv'
  BY <1>13, <1>21, <1>22, <1>24, ReqMoves
<1>26. now' \in Nat /\ now <= now' /\ last' \in [Orgs -> [row : Nat, prof : Nat, removed : Nat]]
       /\ \A z \in Orgs : last'[z] = last[z]
  BY <1>1, <1>2
<1>27. QED
  BY <1>2, <1>10, <1>12, <1>13, <1>20, <1>25, <1>26, RowChange

LEMMA RemoveRemoteKeeps ==
    ASSUME StoredInv, NEW r \in Requests, RemoveRemote(r)
    PROVE  StoredInv'
<1>1. TypeOK /\ ReqInv /\ now \in Nat /\ req \in [Requests -> Request] /\ now <= now
      /\ req[r] \in Request /\ prof \in [Orgs -> Profile] /\ row \in [Orgs -> Row]
      /\ last \in [Orgs -> [row : Nat, prof : Nat, removed : Nat]]
  BY DEF StoredInv, TypeOK
<1>2. /\ req[r].pc = "remote" /\ UNCHANGED <<now, row, last, poll>>
      /\ req' = [req EXCEPT ![r] = Idle]
  BY DEF RemoveRemote
<1>3. PICK o \in Orgs : o = req[r].org
  BY <1>1, <1>2 DEF ReqInv, Idle
<1>4. req'[r] = Idle
  BY <1>1, <1>2
<1>5. RequestInv(r)'
  BY <1>4, IdleOK DEF RequestInv
<1>6. CASE prof' = prof
  BY <1>2, <1>5, <1>6, IdleOK, RequestStep
<1>7. CASE prof' # prof
  <2>1. prof' = [prof EXCEPT ![o] = IF @.id = req[r].profile THEN NoProfile ELSE @]
    BY <1>3, <1>7 DEF RemoveRemote
  <2>2. prof' = [prof EXCEPT ![o] = NoProfile]
    BY <1>1, <1>7, <2>1
  <2>3. NoProfile \in Profile /\ NoProfile.id = NoId /\ NoProfile.log = <<>>
    <3>1. <<>> \in Seq(Entry)
      OBVIOUS
    <3>2. QED
      BY <3>1 DEF NoProfile, Profile, NoId
  <2>4. prof' \in [Orgs -> Profile] /\ prof'[o] = NoProfile
        /\ \A z \in Orgs : z # o => prof'[z] = prof[z]
    BY <1>1, <2>2, <2>3
  <2>5. (DOMAIN Log(o))' = {}
    BY <2>3, <2>4 DEF Log
  <2>6. ASSUME NEW t \in Nat, Settled(o, t) PROVE Settled(o, t)'
    BY <1>2, <2>3, <2>4, <2>6 DEF Settled
  <2>7. OrgInv(o)'
    <3>1. LogInv(o)'
      BY <2>5 DEF LogInv
    <3>2. Numbers(o)'
      BY <1>2, <2>4 DEF StoredInv, OrgInv, Numbers
    <3>3. PICK t \in Nat : t = row[o].cursor
      BY <1>1, OrgTypes
    <3>4. RowInv(o)'
      BY <1>2, <2>5, <2>6, <3>3 DEF StoredInv, OrgInv, RowInv
    <3>5. QED
      BY <3>1, <3>2, <3>4 DEF OrgInv
  <2>8. \A z \in Orgs : RowStays(z)
    BY <1>1, <1>2, RowStaysAlone
  <2>9. req' \in [Requests -> Request] /\ ReqInv'
    BY <1>2, <1>5, <2>8, IdleOK, ReqMoves
  <2>10. ASSUME o = poll.cfg.org PROVE FetchedInv'
    <3>1. PICK t \in Nat : t = poll.newest
      BY <1>1, PollTypes
    <3>2. PICK c : c = poll.cfg /\ c.org = o
      BY <2>10
    <3>3. SUFFICES ASSUME poll.pc \in {"ingest", "mark"}, poll.newest # Never PROVE FetchedInv'
      BY <1>2 DEF FetchedInv
    <3>4. Settled(o, t) /\ (c.cursor # Never => poll.from <= c.cursor)
      BY <3>1, <3>2, <3>3 DEF StoredInv, FetchedInv
    <3>5. Settled(o, t)'
      BY <2>6, <3>4
    <3>6. QED
      BY <1>2, <2>5, <3>1, <3>2, <3>4, <3>5 DEF FetchedInv
  <2>11. row' \in [Orgs -> Row] /\ last' \in [Orgs -> [row : Nat, prof : Nat, removed : Nat]]
         /\ now' \in Nat /\ now <= now'
         /\ \A z \in Orgs : row'[z] = row[z] /\ last'[z] = last[z]
    BY <1>1, <1>2
  <2>12. QED
    BY <1>2, <2>4, <2>7, <2>8, <2>9, <2>10, <2>11, RowChange
<1>8. QED
  BY <1>6, <1>7

(****************************** the theorems *********************************)
LEMMA StoredInit == Init => StoredInv
<1> SUFFICES ASSUME Init PROVE StoredInv
  OBVIOUS
<1>1. /\ now = 1 /\ poll = Asleep
      /\ \A o \in Orgs : /\ prof[o] = [id |-> 1, log |-> <<>>]
                         /\ row[o] = [id |-> 1, profile |-> 1, cursor |-> Never, start |-> 0]
                         /\ last[o] = [row |-> 1, prof |-> 1, removed |-> 0]
      /\ \A r \in Requests : req[r] = Idle
  BY DEF Init
<1>2. <<>> \in Seq(Entry)
  OBVIOUS
<1>3. [id |-> 1, log |-> <<>>] \in Profile
      /\ [id |-> 1, profile |-> 1, cursor |-> Never, start |-> 0] \in Row
  BY <1>2 DEF Profile, Row, Never
<1>4. TypeOK
  BY <1>3, AsleepOK, IdleOK DEF Init, TypeOK
<1>5. ASSUME NEW o \in Orgs PROVE OrgInv(o)
  <2>1. DOMAIN Log(o) = {}
    BY <1>1 DEF Log
  <2>2. LogInv(o) /\ RowInv(o)
    BY <1>1, <2>1 DEF LogInv, RowInv
  <2>3. Numbers(o)
    BY <1>1 DEF Numbers
  <2>4. QED
    BY <2>2, <2>3 DEF OrgInv
<1>6. TodoInv /\ FetchedInv
  BY <1>1 DEF Asleep, TodoInv, FetchedInv
<1>7. ReqInv
  BY <1>1, IdleOK DEF ReqInv
<1>8. QED
  BY <1>1, <1>4, <1>5, <1>6, <1>7 DEF StoredInv

LEMMA StoredStep == StoredInv /\ [Next]_vars => StoredInv'
<1> SUFFICES ASSUME StoredInv, [Next]_vars PROVE StoredInv'
  OBVIOUS
<1>1. CASE Tick
  BY <1>1, TickKeeps
<1>2. CASE \E o \in Orgs : LogQuery(o)
  BY <1>2, LogQueryKeeps
<1>3. CASE Poll
  <2>1. CASE StartTick
    BY <2>1, StartTickKeeps
  <2>2. CASE Pick
    BY <2>2, PickKeeps
  <2>3. CASE \E o \in Orgs : Fetch(o)
    BY <2>3, FetchKeeps
  <2>4. CASE FetchRefused
    BY <2>4, FetchRefusedKeeps
  <2>5. CASE Ingest
    BY <2>5, IngestKeeps
  <2>6. CASE IngestRaises
    BY <2>6, SleepKeeps DEF IngestRaises
  <2>7. CASE Mark
    BY <2>7, MarkKeeps
  <2>8. QED
    BY <1>3, <2>1, <2>2, <2>3, <2>4, <2>5, <2>6, <2>7 DEF Poll
<1>4. CASE PollFails
  BY <1>4, SleepKeeps DEF PollFails
<1>5. ASSUME NEW r \in Requests, Provision(r) PROVE StoredInv'
  <2>1. CASE \E o \in Orgs : ProvisionBegin(r, o)
    BY <2>1, ProvisionBeginKeeps
  <2>2. CASE ProvisionCreate(r)
    BY <2>2, ProvisionCreateKeeps
  <2>3. CASE Upsert(r)
    BY <2>3, UpsertKeeps
  <2>4. QED
    BY <1>5, <2>1, <2>2, <2>3 DEF Provision
<1>6. ASSUME NEW r \in Requests, Remove(r) PROVE StoredInv'
  <2>1. CASE \E o \in Orgs : RemoveBegin(r, o)
    BY <2>1, RemoveBeginKeeps
  <2>2. CASE RemoveCommit(r)
    BY <2>2, RemoveCommitKeeps
  <2>3. CASE RemoveRemote(r)
    BY <2>3, RemoveRemoteKeeps
  <2>4. QED
    BY <1>6, <2>1, <2>2, <2>3 DEF Remove
<1>7. CASE UNCHANGED vars
  BY <1>7 DEF vars, StoredInv, TypeOK, OrgInv, LogInv, Numbers, RowInv, Settled, Log,
              IsFirstOfItsTime, TodoInv, FetchedInv, ReqInv
<1>8. QED
  BY <1>1, <1>2, <1>3, <1>4, <1>5, <1>6, <1>7, RequestFailsKeeps DEF Next

\* The poller and the handlers keep StoredInv, whatever goes wrong.
THEOREM StoredInvariant == Spec => []StoredInv
<1>1. Init => StoredInv
  BY StoredInit
<1>2. StoredInv /\ [Next]_vars => StoredInv'
  BY StoredStep
<1>3. QED
  BY <1>1, <1>2, PTL DEF Spec

\* Every variable keeps its type: the query of a fetch begins at a time that
\* exists (nextdns_poller.py:56-75), and no entry is half stored.
THEOREM NextDnsTypeCorrect == Spec => []TypeOK
<1>1. StoredInv => TypeOK
  BY DEF StoredInv
<1>2. QED
  BY <1>1, StoredInvariant, PTL

\* What a cursor has passed is stored, for any number of organizations, of
\* requests, of entries and of entries in a page.
THEOREM PassedIsStoredThm == Spec => []PassedIsStored
<1>1. StoredInv => PassedIsStored
  <2>1. SUFFICES ASSUME StoredInv, NEW o \in Orgs, Following(o), NEW i \in DOMAIN Log(o),
                        Log(o)[i].named, IsFirstOfItsTime(o, i),
                        row[o].start <= Log(o)[i].ts, Log(o)[i].ts <= row[o].cursor
                 PROVE  Log(o)[i].copies > 0
    BY DEF PassedIsStored
  <2>2. row[o].cursor # Never
    <3>1. 0 < Log(o)[i].ts /\ Log(o)[i].ts \in Nat /\ row[o].cursor \in Nat
      <4>1. TypeOK /\ LogInv(o)
        BY <2>1 DEF StoredInv, OrgInv
      <4>2. QED
        BY <4>1, OrgTypes, EntryTypes DEF LogInv
    <3>2. QED
      BY <2>1, <3>1 DEF Never
  <2>3. QED
    BY <2>1, <2>2 DEF StoredInv, OrgInv, RowInv, Following
<1>2. QED
  BY <1>1, StoredInvariant, PTL

(****************************** what is passed is final **********************)
\* The entries of one second.
InSecond(o, s) == {i \in DOMAIN Log(o) : Log(o)[i].ts \div Second = s}
CrowdedAt(o, t) == Cardinality(InSecond(o, t \div Second)) > Limit

\* Every entry is younger than t, or one is of time t.
SeenUpTo(o, t) ==
    t <= now /\ ((\E i \in DOMAIN Log(o) : Log(o)[i].ts = t)
                 \/ \A i \in DOMAIN Log(o) : t < Log(o)[i].ts)

\* Every cursor, in a row or in the poller's hands, is a time that was seen.
CursorsSeen ==
    /\ \A o \in Orgs : row[o].cursor # Never => SeenUpTo(o, row[o].cursor)
    /\ \A c \in poll.todo : c.cursor # Never => SeenUpTo(c.org, c.cursor)
    /\ poll.pc \in {"ingest", "mark"} /\ poll.newest # Never =>
          SeenUpTo(poll.cfg.org, poll.newest)

\* A row made since the tick began has no cursor.
NewRows == \A c \in poll.todo : row[c.org].id # c.id => row[c.org].cursor = Never

\* A fetch ends before its cursor only if the cursor's second did not fit on
\* the pages.
FetchAdvances ==
    LET c == poll.cfg
        o == c.org
    IN  poll.pc \in {"ingest", "mark"} /\ poll.newest # Never =>
          \/ c.cursor <= poll.newest
          \/ PerSecond > Limit /\ (prof[o].id = c.profile => CrowdedAt(o, c.cursor))

\* What is about to be stored is younger than the cursor.
EventsAreNew ==
    LET c == poll.cfg
        o == c.org
    IN  poll.pc = "ingest" /\ prof[o].id = c.profile =>
          \A i \in poll.events : i \in DOMAIN Log(o) /\ c.cursor < Log(o)[i].ts

RateHeld == \A o \in Orgs, s \in Nat : Cardinality(InSecond(o, s)) <= PerSecond

FinalInv == CursorsSeen /\ NewRows /\ FetchAdvances /\ EventsAreNew /\ RateHeld

\* The log of o goes on, or is another and empty.
LogGoesOn(o) ==
    /\ prof'[o].id = prof[o].id
    /\ \E n \in Nat : (DOMAIN Log(o))' = 1..n
    /\ DOMAIN Log(o) \subseteq (DOMAIN Log(o))'
    /\ \A i \in DOMAIN Log(o) : Log(o)'[i].ts = Log(o)[i].ts
    /\ \A i \in (DOMAIN Log(o))' \ DOMAIN Log(o) : Log(o)'[i].ts = now
LogIsAnother(o) ==
    (DOMAIN Log(o))' = {} /\ prof'[o].id \notin 1..last[o].prof

LEMMA LogIsFinite ==
    ASSUME TypeOK, NEW o \in Orgs
    PROVE  /\ IsFiniteSet(DOMAIN Log(o))
           /\ \A s : IsFiniteSet(InSecond(o, s)) /\ Cardinality(InSecond(o, s)) \in Nat
<1>1. DOMAIN Log(o) = 1..Len(Log(o)) /\ Len(Log(o)) \in Nat
  BY OrgTypes
<1>2. IsFiniteSet(DOMAIN Log(o))
  BY <1>1, FS_Interval
<1>3. ASSUME NEW s PROVE IsFiniteSet(InSecond(o, s)) /\ Cardinality(InSecond(o, s)) \in Nat
  <2>1. InSecond(o, s) \in SUBSET DOMAIN Log(o)
    BY DEF InSecond
  <2>2. QED
    BY <1>2, <2>1, FS_Subset, FS_CardinalityType
<1>4. QED
  BY <1>2, <1>3

\* What was seen stays seen.
LEMMA SeenStays ==
    ASSUME TypeOK, NEW o \in Orgs, NEW t \in Nat, SeenUpTo(o, t), now' \in Nat, now <= now',
           LogGoesOn(o) \/ (DOMAIN Log(o))' = {}
    PROVE  SeenUpTo(o, t)'
<1>1. t <= now' /\ t <= now /\ now \in Nat
  BY DEF SeenUpTo, TypeOK
<1>2. CASE (DOMAIN Log(o))' = {}
  BY <1>1, <1>2 DEF SeenUpTo
<1>3. CASE LogGoesOn(o)
  <2>1. CASE \E i \in DOMAIN Log(o) : Log(o)[i].ts = t
    BY <1>1, <1>3, <2>1 DEF SeenUpTo, LogGoesOn
  <2>2. CASE \A i \in DOMAIN Log(o) : t < Log(o)[i].ts
    <3>1. CASE t = now /\ (DOMAIN Log(o))' \ DOMAIN Log(o) # {}
      <4>1. PICK i \in (DOMAIN Log(o))' : Log(o)'[i].ts = t
        BY <1>3, <3>1 DEF LogGoesOn
      <4>2. QED
        BY <1>1, <4>1 DEF SeenUpTo
    <3>2. CASE t = now /\ (DOMAIN Log(o))' \ DOMAIN Log(o) = {}
      BY <1>1, <1>3, <2>2, <3>2 DEF SeenUpTo, LogGoesOn
    <3>3. CASE t < now
      BY <1>1, <1>3, <2>2, <3>3 DEF SeenUpTo, LogGoesOn
    <3>4. QED
      BY <1>1, <3>1, <3>2, <3>3
  <2>3. QED
    BY <2>1, <2>2 DEF SeenUpTo
<1>4. QED
  BY <1>2, <1>3

\* A second that is crowded stays so, as long as its log is there.
LEMMA CrowdStays ==
    ASSUME TypeOK, NEW o \in Orgs, NEW t \in Nat, CrowdedAt(o, t), LogGoesOn(o)
    PROVE  CrowdedAt(o, t)'
<1> DEFINE S == InSecond(o, t \div Second)
           T == InSecond(o, t \div Second)'
<1>1. S \subseteq T
  BY DEF LogGoesOn, InSecond
<1>2. PICK n \in Nat : (DOMAIN Log(o))' = 1..n
  BY DEF LogGoesOn
<1>3. T \in SUBSET (1..n)
  BY <1>2 DEF InSecond
<1>4. IsFiniteSet(T)
  <2>1. IsFiniteSet(1..n)
    BY FS_Interval
  <2> HIDE DEF T
  <2>2. QED
    BY <1>3, <2>1, FS_Subset
<1>5. Cardinality(S) <= Cardinality(T) /\ Cardinality(T) \in Nat /\ Cardinality(S) \in Nat
  <2> HIDE DEF S, T
  <2> QED BY <1>1, <1>4, FS_Subset, FS_CardinalityType
<1>6. Cardinality(S) > Limit /\ Limit \in Nat
  BY SizeAssumption DEF CrowdedAt
<1>7. Cardinality(T) > Limit
  <2> HIDE DEF S, T
  <2> QED BY <1>5, <1>6
<1>8. QED
  BY <1>7 DEF CrowdedAt

\* A step that leaves the cursors: it lets the log go on or replaces it, and
\* leaves a row or begins one without a cursor.
CursorsLeft(o) ==
    /\ LogGoesOn(o) \/ LogIsAnother(o)
    /\ \/ row'[o].id = row[o].id /\ row'[o].cursor = row[o].cursor
       \/ row'[o].id # row[o].id /\ row'[o].cursor = Never

\* A step beside the poller stores nothing either.
Beside(o) ==
    /\ CursorsLeft(o)
    /\ prof'[o].id = prof[o].id =>
         \A i \in DOMAIN Log(o) : Log(o)'[i].copies <= Log(o)[i].copies

LEMMA CursorsLeftKeeps ==
    ASSUME StoredInv, FinalInv, now' \in Nat, now <= now', \A o \in Orgs : CursorsLeft(o), RateHeld',
           poll' = poll \/ (poll.pc = "ingest" /\ poll' = [poll EXCEPT !.pc = "mark"])
    PROVE  FinalInv'
<1>1. /\ TypeOK /\ poll'.todo = poll.todo /\ poll'.cfg = poll.cfg
      /\ poll'.newest = poll.newest /\ poll'.events = poll.events
      /\ poll'.pc \in {"ingest", "mark"} => poll.pc \in {"ingest", "mark"}
      /\ poll'.pc = "ingest" => poll.pc = "ingest"
  BY DEF StoredInv, TypeOK, Poller
<1>2. ASSUME NEW o \in Orgs, NEW t \in Nat, SeenUpTo(o, t) PROVE SeenUpTo(o, t)'
  BY <1>1, <1>2, SeenStays DEF CursorsLeft, LogIsAnother
<1>3. ASSUME NEW o \in Orgs, row'[o].cursor # Never PROVE SeenUpTo(o, row[o].cursor)'
  <2>1. PICK t \in Nat : t = row[o].cursor
    BY <1>1, OrgTypes
  <2>2. row'[o].cursor = t /\ SeenUpTo(o, t)
    BY <1>3, <2>1 DEF CursorsLeft, FinalInv, CursorsSeen
  <2>3. SeenUpTo(o, t)'
    BY <1>2, <2>2
  <2>4. QED
    BY <2>2, <2>3
<1>4. ASSUME NEW c \in poll.todo, c.cursor # Never PROVE SeenUpTo(c.org, c.cursor)'
  <2>1. c \in Config /\ c.org \in Orgs
    BY <1>1, PollTypes DEF StoredInv, TodoInv
  <2>2. PICK t \in Nat, o \in Orgs : t = c.cursor /\ o = c.org
    BY <2>1, ConfigTypes
  <2>3. SeenUpTo(o, t)
    BY <1>4, <2>2 DEF FinalInv, CursorsSeen
  <2>4. SeenUpTo(o, t)'
    BY <1>2, <2>3
  <2>5. QED
    BY <2>2, <2>4
<1>5. ASSUME poll.pc \in {"ingest", "mark"}, poll.newest # Never
      PROVE  SeenUpTo(poll.cfg.org, poll.newest)'
  <2>1. PICK t \in Nat, o \in Orgs : t = poll.newest /\ o = poll.cfg.org
    BY <1>1, <1>5, PollTypes, CurrentConfig
  <2>2. SeenUpTo(o, t)
    BY <1>5, <2>1 DEF FinalInv, CursorsSeen
  <2>3. SeenUpTo(o, t)'
    BY <1>2, <2>2
  <2>4. QED
    BY <1>1, <2>1, <2>3
<1>6. CursorsSeen'
  BY <1>1, <1>3, <1>4, <1>5 DEF CursorsSeen
<1>7. NewRows'
  <2>1. ASSUME NEW c \in poll.todo, row'[c.org].id # c.id PROVE row'[c.org].cursor = Never
    <3>1. c.org \in Orgs
      BY DEF StoredInv, TodoInv
    <3>2. QED
      BY <2>1, <3>1 DEF CursorsLeft, FinalInv, NewRows
  <2>2. QED
    BY <1>1, <2>1 DEF NewRows
<1>8. ASSUME poll.pc \in {"ingest", "mark"}
      PROVE  FetchAdvances' /\ EventsAreNew'
  <2>1. PICK c : c = poll.cfg
    OBVIOUS
  <2>2. PICK o \in Orgs : o = c.org
    BY <1>8, <2>1, CurrentConfig
  <2>3. c.profile \in 1..last[o].prof /\ c.cursor \in Nat
    BY <1>8, <2>1, <2>2, CurrentConfig
  <2>4. PICK t \in Nat : t = c.cursor
    BY <2>3
  <2>5. CASE prof'[o].id # c.profile
    <3>1. poll.newest # Never => c.cursor <= poll.newest \/ PerSecond > Limit
      BY <1>8, <2>1 DEF FinalInv, FetchAdvances
    <3>2. QED
      BY <1>1, <2>1, <2>2, <2>5, <3>1 DEF FetchAdvances, EventsAreNew
  <2>6. CASE prof'[o].id = c.profile
    <3>1. LogGoesOn(o) /\ prof[o].id = c.profile
      BY <2>3, <2>6 DEF CursorsLeft, LogIsAnother, LogGoesOn
    <3>2. CrowdedAt(o, t) => CrowdedAt(o, t)'
      BY <1>1, <3>1, CrowdStays
    <3>3. FetchAdvances'
      BY <1>1, <2>1, <2>2, <2>4, <3>1, <3>2 DEF FinalInv, FetchAdvances
    <3>4. EventsAreNew'
      BY <1>1, <2>1, <2>2, <3>1 DEF FinalInv, EventsAreNew, LogGoesOn
    <3>5. QED
      BY <3>3, <3>4
  <2>7. QED
    BY <2>5, <2>6
<1>9. ASSUME poll.pc \notin {"ingest", "mark"}
      PROVE  FetchAdvances' /\ EventsAreNew'
  BY <1>1, <1>9 DEF FetchAdvances, EventsAreNew
<1>10. QED
  BY <1>6, <1>7, <1>8, <1>9 DEF FinalInv

\* A step that logs nothing makes no second fuller.
LogsNothing(o) ==
    \/ (DOMAIN Log(o))' = {}
    \/ /\ (DOMAIN Log(o))' = DOMAIN Log(o)
       /\ \A i \in DOMAIN Log(o) : Log(o)'[i].ts = Log(o)[i].ts

LEMMA RateStays ==
    ASSUME RateHeld, \A o \in Orgs : LogsNothing(o)
    PROVE  RateHeld'
<1>1. ASSUME NEW o \in Orgs, NEW s \in Nat PROVE Cardinality(InSecond(o, s)') <= PerSecond
  <2>1. CASE (DOMAIN Log(o))' = {}
    <3>1. InSecond(o, s)' = {}
      BY <2>1 DEF InSecond
    <3>2. QED
      BY <3>1, FS_EmptySet, SizeAssumption
  <2>2. CASE /\ (DOMAIN Log(o))' = DOMAIN Log(o)
             /\ \A i \in DOMAIN Log(o) : Log(o)'[i].ts = Log(o)[i].ts
    <3>1. InSecond(o, s)' = InSecond(o, s)
      BY <2>2 DEF InSecond
    <3>2. QED
      BY <3>1 DEF RateHeld
  <2>3. QED
    BY <2>1, <2>2 DEF LogsNothing
<1>2. QED
  BY <1>1 DEF RateHeld

LEMMA LogIsSame ==
    ASSUME TypeOK, NEW o \in Orgs, prof'[o] = prof[o]
    PROVE  /\ LogGoesOn(o) /\ LogsNothing(o)
           /\ \A i \in DOMAIN Log(o) : Log(o)'[i].copies <= Log(o)[i].copies
<1>1. Log(o)' = Log(o)
  BY DEF Log
<1>2. DOMAIN Log(o) = 1..Len(Log(o)) /\ Len(Log(o)) \in Nat
  BY OrgTypes
<1>3. \A i \in DOMAIN Log(o) : Log(o)[i].copies <= Log(o)[i].copies
  <2>1. \A i \in DOMAIN Log(o) : Log(o)[i].copies \in 0..2
    BY EntryTypes
  <2>2. QED
    BY <2>1
<1>4. LogGoesOn(o)
  BY <1>1, <1>2 DEF LogGoesOn
<1>5. QED
  BY <1>1, <1>3, <1>4 DEF LogsNothing

\* An organization whose log and row a step leaves alone.
LEMMA AloneIsBeside ==
    ASSUME TypeOK, NEW o \in Orgs, prof'[o] = prof[o],
           row'[o].id = row[o].id, row'[o].cursor = row[o].cursor
    PROVE  Beside(o) /\ LogsNothing(o)
BY LogIsSame DEF Beside, CursorsLeft

LEMMA LogQueryBeside ==
    ASSUME StoredInv, FinalInv, NEW o \in Orgs, LogQuery(o)
    PROVE  (\A z \in Orgs : Beside(z)) /\ RateHeld'
<1>1. PICK named \in BOOLEAN :
        prof' = [prof EXCEPT ![o].log = Append(@, [ts |-> now, named |-> named, copies |-> 0])]
  BY DEF LogQuery
<1> DEFINE e == [ts |-> now, named |-> named, copies |-> 0]
<1>2. /\ UNCHANGED <<now, row, last, poll, req>>
      /\ Cardinality(InSecond(o, now \div Second)) < PerSecond
  BY DEF LogQuery, InSecond, Log
<1>3. TypeOK /\ now \in Nat
  BY DEF StoredInv, TypeOK
<1>4. e \in Entry /\ e.ts = now
  BY <1>3 DEF Entry
<1>5. prof' = [prof EXCEPT ![o].log = Append(@, e)]
  BY <1>1
<1> HIDE DEF e
<1>6. PICK n \in Nat : n = Len(Log(o)) /\ DOMAIN Log(o) = 1..n
  BY <1>3, OrgTypes
<1>7. /\ prof'[o].id = prof[o].id
      /\ \A z \in Orgs : z # o => prof'[z] = prof[z]
      /\ (DOMAIN Log(o))' = 1..(n + 1)
      /\ \A i \in 1..n : Log(o)'[i] = Log(o)[i]
      /\ Log(o)'[n + 1] = e
  BY <1>3, <1>4, <1>5, <1>6, Appended
<1>8. \A i \in 1..n : Log(o)[i].copies \in 0..2
  BY <1>3, <1>6, EntryTypes
<1>9. \A i \in 1..(n + 1) : i \notin 1..n => i = n + 1
  OBVIOUS
<1>10. LogGoesOn(o)
  <2>1. n + 1 \in Nat /\ 1..n \subseteq 1..(n + 1)
    OBVIOUS
  <2>2. QED
    BY <1>4, <1>6, <1>7, <1>9, <2>1 DEF LogGoesOn
<1>11. Beside(o)
  BY <1>2, <1>6, <1>7, <1>8, <1>10 DEF Beside, CursorsLeft
<1>12. ASSUME NEW z \in Orgs, z # o PROVE Beside(z) /\ LogsNothing(z)
  BY <1>2, <1>3, <1>7, <1>12, AloneIsBeside
<1>13. ASSUME NEW z \in Orgs, NEW s \in Nat PROVE Cardinality(InSecond(z, s)') <= PerSecond
  <2>1. CASE z # o
    <3>1. Log(z)' = Log(z)
      BY <1>7, <2>1 DEF Log
    <3>2. InSecond(z, s)' = InSecond(z, s)
      BY <3>1 DEF InSecond
    <3>3. QED
      BY <3>2 DEF FinalInv, RateHeld
  <2>2. CASE z = o
    <3>1. CASE s # now \div Second
      <4>1. InSecond(o, s)' = InSecond(o, s)
        BY <1>4, <1>6, <1>7, <1>9, <3>1 DEF InSecond
      <4>2. QED
        BY <2>2, <4>1 DEF FinalInv, RateHeld
    <3>2. CASE s = now \div Second
      <4>1. InSecond(o, s)' = InSecond(o, s) \cup {n + 1}
        BY <1>4, <1>6, <1>7, <1>9, <3>2 DEF InSecond
      <4>2. PICK S : S = InSecond(o, s)
        OBVIOUS
      <4>3. IsFiniteSet(S) /\ Cardinality(S) \in Nat /\ Cardinality(S) < PerSecond
        BY <1>2, <1>3, <3>2, <4>2, LogIsFinite
      <4>4. Cardinality(S \cup {n + 1}) \in {Cardinality(S), Cardinality(S) + 1}
        BY <4>3, FS_AddElement
      <4>5. QED
        BY <2>2, <4>1, <4>2, <4>3, <4>4, SizeAssumption
    <3>3. QED
      BY <3>1, <3>2
  <2>3. QED
    BY <2>1, <2>2
<1>14. QED
  BY <1>11, <1>12, <1>13 DEF RateHeld

LEMMA CreateBeside ==
    ASSUME StoredInv, NEW r \in Requests, ProvisionCreate(r), NEW o \in Orgs
    PROVE  Beside(o) /\ LogsNothing(o)
<1>1. TypeOK /\ row' = row /\ prof \in [Orgs -> Profile]
  BY DEF StoredInv, TypeOK, ProvisionCreate
<1>2. CASE prof'[o] = prof[o]
  BY <1>1, <1>2, AloneIsBeside
<1>3. CASE prof'[o] # prof[o]
  <2>1. o = req[r].org /\ prof[o] = NoProfile
        /\ prof' = [prof EXCEPT ![o] = [NoProfile EXCEPT !.id = last[o].prof + 1]]
    BY <1>1, <1>3 DEF ProvisionCreate
  <2>2. prof'[o] = [id |-> last[o].prof + 1, log |-> <<>>]
    BY <1>1, <2>1 DEF NoProfile
  <2>3. (DOMAIN Log(o))' = {} /\ DOMAIN Log(o) = {}
    BY <2>1, <2>2 DEF Log, NoProfile
  <2>4. prof'[o].id \notin 1..last[o].prof
    <3>1. last[o].prof \in Nat
      BY <1>1, OrgTypes
    <3>2. QED
      BY <2>2, <3>1
  <2>5. QED
    BY <1>1, <2>3, <2>4 DEF Beside, CursorsLeft, LogIsAnother, LogsNothing
<1>4. QED
  BY <1>2, <1>3

LEMMA UpsertBeside ==
    ASSUME StoredInv, NEW r \in Requests, Upsert(r), NEW o \in Orgs
    PROVE  Beside(o) /\ LogsNothing(o)
<1>1. TypeOK /\ prof' = prof /\ row \in [Orgs -> Row]
  BY DEF StoredInv, TypeOK, Upsert
<1>2. CASE o # req[r].org \/ row[o] # NoRow
  <2>1. row'[o].id = row[o].id /\ row'[o].cursor = row[o].cursor
    BY <1>1, <1>2 DEF Upsert, Upserted, Row
  <2>2. QED
    BY <1>1, <2>1, AloneIsBeside
<1>3. CASE o = req[r].org /\ row[o] = NoRow
  <2>1. row'[o].id = last[o].row + 1 /\ row'[o].cursor = Never
    BY <1>1, <1>3 DEF Upsert, Upserted, NoRow
  <2>2. row[o].id # row'[o].id
    <3>1. last[o].row \in Nat /\ row[o].id = 0
      BY <1>1, <1>3, OrgTypes DEF NoRow, NoId
    <3>2. QED
      BY <2>1, <3>1
  <2>3. LogGoesOn(o) /\ LogsNothing(o)
        /\ \A i \in DOMAIN Log(o) : Log(o)'[i].copies <= Log(o)[i].copies
    BY <1>1, LogIsSame
  <2>4. QED
    BY <2>1, <2>2, <2>3 DEF Beside, CursorsLeft
<1>4. QED
  BY <1>2, <1>3

LEMMA CommitBeside ==
    ASSUME StoredInv, NEW r \in Requests, RemoveCommit(r), NEW o \in Orgs
    PROVE  Beside(o) /\ LogsNothing(o)
<1>1. TypeOK /\ row \in [Orgs -> Row] /\ prof \in [Orgs -> Profile] /\ row[o] \in Row
  BY DEF StoredInv, TypeOK
<1>2. CASE o # req[r].org
  <2>1. prof'[o] = prof[o] /\ row'[o] = row[o]
    BY <1>1, <1>2 DEF RemoveCommit
  <2>2. QED
    BY <1>1, <2>1, AloneIsBeside
<1>3. CASE o = req[r].org
  <2>1. row'[o] \in {NoRow, row[o]}
    BY <1>1, <1>3 DEF RemoveCommit
  <2>2. \/ row'[o].id = row[o].id /\ row'[o].cursor = row[o].cursor
        \/ row'[o].id # row[o].id /\ row'[o].cursor = Never
    <3>1. CASE row[o] = NoRow
      BY <2>1, <3>1
    <3>2. CASE row[o] # NoRow
      <4>1. row[o].id \in 1..last[o].row
        BY <3>2 DEF StoredInv, OrgInv, Numbers
      <4>2. NoRow.id = 0 /\ NoRow.cursor = Never
        BY DEF NoRow, NoId
      <4>3. QED
        BY <2>1, <4>1, <4>2
    <3>3. QED
      BY <3>1, <3>2
  <2>3. prof'[o].id = prof[o].id
    BY <1>1, <1>3 DEF RemoveCommit, Profile
  <2>4. DOMAIN Log(o) = 1..Len(Log(o)) /\ Len(Log(o)) \in Nat
    BY <1>1, OrgTypes
  <2>5. \A i \in DOMAIN Log(o) : Log(o)[i] \in Entry /\ Log(o)[i].copies \in 0..2
    BY <1>1, EntryTypes
  <2>6. /\ (DOMAIN Log(o))' = DOMAIN Log(o)
        /\ \A i \in DOMAIN Log(o) : /\ Log(o)'[i].ts = Log(o)[i].ts
                                    /\ Log(o)'[i].copies <= Log(o)[i].copies
    <3>1. CASE req[r].op = "wipe"
      <4>1. Log(o)' = [i \in DOMAIN Log(o) |-> [Log(o)[i] EXCEPT !.copies = 0]]
        BY <1>1, <1>3, <3>1 DEF RemoveCommit, Log, Profile
      <4>2. \A e \in Entry : [e EXCEPT !.copies = 0].ts = e.ts /\ [e EXCEPT !.copies = 0].copies = 0
        BY DEF Entry
      <4>3. ASSUME NEW i \in DOMAIN Log(o)
            PROVE  Log(o)'[i].ts = Log(o)[i].ts /\ Log(o)'[i].copies <= Log(o)[i].copies
        <5>1. Log(o)'[i] = [Log(o)[i] EXCEPT !.copies = 0]
          BY <4>1
        <5>2. Log(o)'[i].ts = Log(o)[i].ts /\ Log(o)'[i].copies = 0
          BY <2>5, <4>2, <5>1
        <5>3. QED
          BY <2>5, <5>2
      <4>4. (DOMAIN Log(o))' = DOMAIN Log(o)
        BY <4>1
      <4>5. QED
        BY <4>3, <4>4
    <3>2. CASE req[r].op # "wipe"
      <4>1. Log(o)' = Log(o)
        BY <3>2 DEF RemoveCommit, Log
      <4>2. QED
        BY <2>5, <4>1
    <3>3. QED
      BY <3>1, <3>2
  <2>7. LogGoesOn(o)
    BY <2>3, <2>4, <2>6 DEF LogGoesOn
  <2>8. QED
    BY <2>2, <2>6, <2>7 DEF Beside, CursorsLeft, LogsNothing
<1>4. QED
  BY <1>2, <1>3

LEMMA RemoteBeside ==
    ASSUME StoredInv, NEW r \in Requests, RemoveRemote(r), NEW o \in Orgs
    PROVE  Beside(o) /\ LogsNothing(o)
<1>1. TypeOK /\ row' = row /\ prof \in [Orgs -> Profile]
  BY DEF StoredInv, TypeOK, RemoveRemote
<1>2. CASE prof'[o] = prof[o]
  BY <1>1, <1>2, AloneIsBeside
<1>3. CASE prof'[o] # prof[o]
  <2>1. o = req[r].org /\ prof'[o] = NoProfile /\ prof[o].id = req[r].profile
    BY <1>1, <1>3 DEF RemoveRemote
  <2>2. prof[o].id \in 1..last[o].prof
    BY <2>1 DEF StoredInv, ReqInv, RemoveRemote
  <2>3. (DOMAIN Log(o))' = {} /\ prof'[o].id = 0
    BY <2>1 DEF Log, NoProfile, NoId
  <2>4. QED
    BY <1>1, <2>2, <2>3 DEF Beside, CursorsLeft, LogIsAnother, LogsNothing
<1>4. QED
  BY <1>2, <1>3

(****************************** the poller's steps, once more ****************)
\* A step of the poller that changes no log.
LEMMA PollerReads ==
    ASSUME FinalInv, UNCHANGED <<now, prof>>,
           \A o \in Orgs : row'[o].cursor # Never => SeenUpTo(o, row'[o].cursor),
           \A c \in poll'.todo :
              /\ c.cursor # Never => SeenUpTo(c.org, c.cursor)
              /\ row'[c.org].id # c.id => row'[c.org].cursor = Never,
           poll'.pc \in {"ingest", "mark"} /\ poll'.newest # Never =>
              SeenUpTo(poll'.cfg.org, poll'.newest),
           FetchAdvances', EventsAreNew'
    PROVE  FinalInv'
<1>1. CursorsSeen'
  BY DEF CursorsSeen, SeenUpTo, Log
<1>2. NewRows'
  BY DEF NewRows
<1>3. RateHeld'
  BY DEF FinalInv, RateHeld, InSecond, Log
<1>4. QED
  BY <1>1, <1>2, <1>3 DEF FinalInv

\* With nothing fetched, there is nothing to say of it.
LEMMA NothingInHand ==
    ASSUME poll'.newest = Never \/ poll'.pc \notin {"ingest", "mark"}, poll'.pc # "ingest"
    PROVE  FetchAdvances' /\ EventsAreNew'
BY DEF FetchAdvances, EventsAreNew

LEMMA SleepStaysFinal ==
    ASSUME FinalInv, UNCHANGED <<now, prof, row>>, poll' = Asleep
    PROVE  FinalInv'
<1>1. poll'.pc = "sleep" /\ poll'.todo = {}
  BY DEF Asleep
<1>2. FetchAdvances' /\ EventsAreNew'
  BY <1>1, NothingInHand
<1>3. QED
  BY <1>1, <1>2, PollerReads DEF FinalInv, CursorsSeen

LEMMA StartTickStaysFinal ==
    ASSUME StoredInv, FinalInv, StartTick
    PROVE  FinalInv'
<1>1. UNCHANGED <<now, prof, row>> /\ poll'.pc = "next" /\ poll'.todo = Configs
  BY DEF StartTick, Asleep
<1>2. ASSUME NEW c \in Configs
      PROVE  /\ c.cursor # Never => SeenUpTo(c.org, c.cursor)
             /\ row[c.org].id = c.id
  BY DEF Configs, FinalInv, CursorsSeen
<1>3. FetchAdvances' /\ EventsAreNew'
  BY <1>1, NothingInHand
<1>4. QED
  BY <1>1, <1>2, <1>3, PollerReads DEF FinalInv, CursorsSeen

\* A step that takes nothing in the poller's hand, and no configuration more.
LEMMA PickingStaysFinal ==
    ASSUME FinalInv, UNCHANGED <<now, prof, row>>, poll'.todo \subseteq poll.todo,
           poll'.newest = Never \/ poll'.pc \notin {"ingest", "mark"}, poll'.pc # "ingest"
    PROVE  FinalInv'
<1>1. FetchAdvances' /\ EventsAreNew'
  BY NothingInHand
<1>2. QED
  BY <1>1, PollerReads DEF FinalInv, CursorsSeen, NewRows

\* Two times around a second's beginning are of that second.
LEMMA SameSecond ==
    ASSUME NEW t \in Nat, NEW u \in Nat, t - (t % Second) <= u, u <= t
    PROVE  u \div Second = t \div Second
<1> DEFINE q == t \div Second
           r == t % Second
<1>1. Second \in Nat /\ Second > 0
  BY SizeAssumption
<1>2. q \in Int /\ r \in Int /\ 0 <= r /\ r < Second /\ t = Second * q + r
  BY <1>1
<1>3. PICK p \in Int, s \in Int :
        p = u \div Second /\ 0 <= s /\ s < Second /\ u = Second * p + s
  BY <1>1
<1> HIDE DEF q, r
<1>4. Second * q <= Second * p + s /\ Second * p + s <= Second * q + r
  BY <1>1, <1>2, <1>3 DEF r
<1>5. ~(p < q)
  <2>1. SUFFICES ASSUME p + 1 <= q PROVE FALSE
    BY <1>2, <1>3
  <2>2. Second * (p + 1) <= Second * q
    BY <1>1, <1>2, <1>3, <2>1
  <2>3. Second * (p + 1) = Second * p + Second
    BY <1>1, <1>3
  <2>4. QED
    BY <1>1, <1>2, <1>3, <1>4, <2>2, <2>3
<1>6. ~(q < p)
  <2>1. SUFFICES ASSUME q + 1 <= p PROVE FALSE
    BY <1>2, <1>3
  <2>2. Second * (q + 1) <= Second * p
    BY <1>1, <1>2, <1>3, <2>1
  <2>3. Second * (q + 1) = Second * q + Second
    BY <1>1, <1>2
  <2>4. QED
    BY <1>1, <1>2, <1>3, <1>4, <2>2, <2>3
<1>7. QED
  BY <1>2, <1>3, <1>5, <1>6 DEF q

\* A page that ends before the cursor is full of the cursor's second.
LEMMA PageFallsBehind ==
    ASSUME StoredInv, NEW o \in Orgs, NEW t \in Nat, t # Never, SeenUpTo(o, t),
           Page(Log(o), From(t)) # {}, Newest(Log(o), Page(Log(o), From(t))) < t
    PROVE  CrowdedAt(o, t)
<1> DEFINE from == From(t)
           page == Page(Log(o), from)
           InRange == {i \in DOMAIN Log(o) : Log(o)[i].ts >= from}
<1>1. TypeOK /\ LogInv(o)
  BY DEF StoredInv, OrgInv
<1>2. from \in Nat /\ from <= t /\ from = t - (t % Second)
  BY <1>1, FromBelow DEF From
<1>3. page \in SUBSET DOMAIN Log(o) /\ page = {i \in InRange : ~(i > Limit /\ i - Limit \in InRange)}
  BY <1>1, <1>2, PageIsBeginning DEF Page
<1>4. PICK k \in page : Newest(Log(o), page) = Log(o)[k].ts
  BY <1>1, <1>3, NewestIsThere
<1>5. \A i \in DOMAIN Log(o) : Log(o)[i].ts \in Nat
  BY <1>1, EntryTypes
<1>6. PICK i \in DOMAIN Log(o) : Log(o)[i].ts = t
  <2>1. k \in DOMAIN Log(o) /\ Log(o)[k].ts < t /\ Log(o)[k].ts \in Nat
    BY <1>3, <1>4, <1>5
  <2>2. QED
    BY <2>1 DEF SeenUpTo
<1>7. i \notin page
  <2>1. SUFFICES ASSUME i \in page PROVE FALSE
    OBVIOUS
  <2>2. Log(o)[i].ts <= Newest(Log(o), page)
    BY <1>1, <1>3, <2>1, NewestIsThere
  <2>3. k \in DOMAIN Log(o)
    BY <1>3
  <2>4. QED
    BY <1>4, <1>5, <1>6, <2>2, <2>3
<1>8. i \in InRange
  BY <1>2, <1>6
<1>9. i > Limit /\ i - Limit \in InRange
  BY <1>3, <1>7, <1>8
<1>10. i \in Nat /\ Limit \in Nat /\ i - Limit \in DOMAIN Log(o)
       /\ DOMAIN Log(o) = 1..Len(Log(o)) /\ Len(Log(o)) \in Nat
  BY <1>1, <1>9, EntryTypes, OrgTypes, SizeAssumption
<1> HIDE DEF from, page
<1>11. ASSUME NEW j \in (i - Limit)..i PROVE j \in InSecond(o, t \div Second)
  <2>1. j \in DOMAIN Log(o)
    BY <1>10
  <2>2. Log(o)[i - Limit].ts <= Log(o)[j].ts
    <3>1. CASE j = i - Limit
      BY <1>5, <1>10, <3>1
    <3>2. CASE j # i - Limit
      <4>1. i - Limit < j
        BY <1>10, <3>2
      <4>2. QED
        BY <1>1, <1>10, <2>1, <4>1 DEF LogInv
    <3>3. QED
      BY <3>1, <3>2
  <2>3. Log(o)[j].ts <= Log(o)[i].ts
    <3>1. CASE j = i
      BY <1>5, <3>1
    <3>2. CASE j # i
      <4>1. j < i
        BY <1>10, <3>2
      <4>2. QED
        BY <1>1, <2>1, <4>1 DEF LogInv
    <3>3. QED
      BY <3>1, <3>2
  <2>4. PICK u \in Nat : u = Log(o)[j].ts
    BY <1>5, <2>1
  <2>5. from <= u /\ u <= t
    BY <1>2, <1>5, <1>6, <1>9, <1>10, <2>2, <2>3, <2>4
  <2>6. u \div Second = t \div Second
    BY <1>2, <2>5, SameSecond
  <2>7. QED
    BY <2>1, <2>4, <2>6 DEF InSecond
<1>12. PICK S : S = InSecond(o, t \div Second)
  OBVIOUS
<1>13. IsFiniteSet(S) /\ Cardinality(S) \in Nat
  BY <1>1, <1>12, LogIsFinite
<1>14. (i - Limit)..i \in SUBSET S
  BY <1>11, <1>12
<1>15. Cardinality((i - Limit)..i) = Limit + 1
  <2>1. i - Limit \in Int /\ i \in Int /\ ~(i - Limit > i)
    BY <1>10
  <2>2. Cardinality((i - Limit)..i) = i - (i - Limit) + 1
    BY <2>1, FS_Interval
  <2>3. QED
    BY <1>10, <2>2
<1>16. Cardinality((i - Limit)..i) <= Cardinality(S)
  BY <1>13, <1>14, FS_Subset
<1>17. Cardinality(S) > Limit
  BY <1>10, <1>13, <1>15, <1>16
<1>18. QED
  BY <1>12, <1>17 DEF CrowdedAt

LEMMA FetchStaysFinal ==
    ASSUME StoredInv, FinalInv, NEW o \in Orgs, Fetch(o)
    PROVE  FinalInv'
<1> DEFINE from == From(poll.cfg.cursor)
           page == Page(Log(o), from)
           events == New(Log(o), page, poll.cfg.cursor)
<1>1. PICK c : c = poll.cfg
  OBVIOUS
<1>2. /\ poll.pc = "fetch" /\ c.org = o /\ c.profile = prof[o].id
      /\ poll' = [poll EXCEPT !.pc = IF events = {} THEN "mark" ELSE "ingest",
                              !.from = from, !.events = events,
                              !.newest = Newest(Log(o), page)]
      /\ UNCHANGED <<now, prof, row>>
  BY <1>1 DEF Fetch, Log
<1>3. TypeOK /\ LogInv(o) /\ now \in Nat
  BY DEF StoredInv, OrgInv, TypeOK
<1>4. poll \in Poller /\ c \in poll.todo /\ c.cursor \in Nat
  BY <1>1, <1>2, <1>3, CurrentConfig DEF TypeOK
<1>5. from \in Nat /\ page \in SUBSET DOMAIN Log(o)
  BY <1>1, <1>3, <1>4, FromBelow, PageIsBeginning
<1>6. /\ page = {} => Newest(Log(o), page) = Never
      /\ page # {} => \E k \in page : Newest(Log(o), page) = Log(o)[k].ts
  BY <1>3, <1>5, NewestIsThere DEF Newest
<1>7. \A i \in events : i \in DOMAIN Log(o) /\ c.cursor < Log(o)[i].ts
  <2>1. \A i \in events : i \in DOMAIN Log(o) /\ Log(o)[i].ts > c.cursor
    BY <1>1, <1>5 DEF New
  <2>2. \A i \in DOMAIN Log(o) : Log(o)[i].ts \in Nat
    BY <1>3, EntryTypes
  <2>3. QED
    BY <1>4, <2>1, <2>2
<1>8. page # {} => SeenUpTo(o, Newest(Log(o), page))
  BY <1>3, <1>5, <1>6 DEF SeenUpTo, LogInv
<1>9. page # {} => \/ c.cursor <= Newest(Log(o), page)
                   \/ PerSecond > Limit /\ CrowdedAt(o, c.cursor)
  <2>1. SUFFICES ASSUME page # {}, ~(c.cursor <= Newest(Log(o), page))
                 PROVE  PerSecond > Limit /\ CrowdedAt(o, c.cursor)
    OBVIOUS
  <2>2. Newest(Log(o), page) \in Nat
    <3>1. \A i \in DOMAIN Log(o) : Log(o)[i].ts \in Nat
      BY <1>3, EntryTypes
    <3>2. QED
      BY <1>5, <1>6, <2>1, <3>1
  <2>3. Newest(Log(o), page) < c.cursor /\ c.cursor # Never
    BY <1>4, <2>1, <2>2 DEF Never
  <2>4. SeenUpTo(o, c.cursor)
    BY <1>2, <1>4, <2>3 DEF FinalInv, CursorsSeen
  <2>5. CrowdedAt(o, c.cursor)
    BY <1>1, <1>4, <2>1, <2>3, <2>4, PageFallsBehind
  <2>6. PICK s \in Nat : s = c.cursor \div Second
    BY <1>4, SizeAssumption
  <2>7. Cardinality(InSecond(o, s)) <= PerSecond /\ Cardinality(InSecond(o, s)) \in Nat
    BY <1>3, LogIsFinite DEF FinalInv, RateHeld
  <2>8. QED
    BY <2>5, <2>6, <2>7, SizeAssumption DEF CrowdedAt
<1> HIDE DEF from, page, events
<1>10. /\ poll'.pc \in {"mark", "ingest"} /\ (poll'.pc = "ingest" => poll'.events = events)
       /\ poll'.newest = Newest(Log(o), page)
       /\ poll'.cfg = c /\ poll'.todo = poll.todo
  BY <1>1, <1>2, <1>4 DEF Poller
<1>11. poll'.newest # Never => page # {}
  BY <1>6, <1>10
<1>12. FetchAdvances'
  BY <1>2, <1>9, <1>10, <1>11 DEF FetchAdvances, CrowdedAt, InSecond, Log
<1>13. EventsAreNew'
  BY <1>2, <1>7, <1>10 DEF EventsAreNew, Log
<1>14. QED
  BY <1>2, <1>8, <1>10, <1>11, <1>12, <1>13, PollerReads DEF FinalInv, CursorsSeen, NewRows

LEMMA MarkStaysFinal ==
    ASSUME StoredInv, FinalInv, Mark
    PROVE  FinalInv'
<1>1. PICK c : c = poll.cfg
  OBVIOUS
<1>2. poll.pc = "mark" /\ UNCHANGED <<now, prof>>
  BY DEF Mark
<1>3. PICK o \in Orgs : o = c.org
  BY <1>1, <1>2, CurrentConfig
<1>4. TypeOK /\ row[o] \in Row /\ row \in [Orgs -> Row] /\ c \in poll.todo
  BY <1>1, <1>2, CurrentConfig DEF StoredInv, TypeOK
<1>5. /\ \A z \in Orgs : z # o => row'[z] = row[z]
      /\ row'[o].cursor \in {row[o].cursor, poll.newest}
      /\ poll.newest = Never => row'[o].cursor = row[o].cursor
  BY <1>1, <1>3, <1>4 DEF Mark, Synced, Row
<1>6. /\ poll'.pc \in {"next", "sleep"} /\ poll'.todo \subseteq poll.todo \ {c}
  BY <1>1 DEF Mark, Asleep
<1>7. FetchAdvances' /\ EventsAreNew'
  BY <1>6, NothingInHand
<1>8. ASSUME NEW z \in Orgs, row'[z].cursor # Never PROVE SeenUpTo(z, row'[z].cursor)
  <2>1. CASE row'[z].cursor = row[z].cursor
    BY <1>8, <2>1 DEF FinalInv, CursorsSeen
  <2>2. CASE row'[z].cursor # row[z].cursor
    <3>1. z = o /\ row'[z].cursor = poll.newest /\ poll.newest # Never
      BY <1>5, <2>2
    <3>2. QED
      BY <1>1, <1>2, <1>3, <3>1 DEF FinalInv, CursorsSeen
  <2>3. QED
    BY <2>1, <2>2
<1>9. ASSUME NEW d \in poll'.todo PROVE row'[d.org] = row[d.org]
  <2>1. d \in poll.todo /\ d # c
    BY <1>6
  <2>2. d.org # o /\ d.org \in Orgs
    BY <1>3, <1>4, <2>1 DEF StoredInv, TodoInv
  <2>3. QED
    BY <1>5, <2>2
<1>10. \A d \in poll'.todo : /\ d.cursor # Never => SeenUpTo(d.org, d.cursor)
                             /\ row'[d.org].id # d.id => row'[d.org].cursor = Never
  BY <1>6, <1>9 DEF FinalInv, CursorsSeen, NewRows
<1>11. QED
  BY <1>2, <1>6, <1>7, <1>8, <1>10, PollerReads

\* What is stored of a page is younger than the cursor of its row.
LEMMA IngestStores ==
    ASSUME StoredInv, FinalInv, Ingest, NEW o \in Orgs
    PROVE  /\ CursorsLeft(o) /\ LogsNothing(o)
           /\ \A i \in DOMAIN Log(o) :
                 row[o].cursor # Never /\ Log(o)[i].ts <= row[o].cursor =>
                    Log(o)'[i].copies <= Log(o)[i].copies
<1>1. PICK c : c = poll.cfg
  OBVIOUS
<1>2. poll.pc = "ingest" /\ UNCHANGED <<now, row>>
  BY DEF Ingest
<1>3. TypeOK /\ prof \in [Orgs -> Profile] /\ prof[o] \in Profile
      /\ c \in poll.todo /\ c.org \in Orgs /\ c.cursor \in Nat
  BY <1>1, <1>2, CurrentConfig DEF StoredInv, TypeOK
<1>4. CASE prof'[o] = prof[o]
  BY <1>2, <1>3, <1>4, LogIsSame DEF CursorsLeft
<1>5. CASE prof'[o] # prof[o]
  <2>1. o = c.org /\ c.profile = prof[o].id
    BY <1>1, <1>3, <1>5 DEF Ingest
  <2>2. DOMAIN Log(o) = 1..Len(Log(o)) /\ Len(Log(o)) \in Nat
        /\ row[o].cursor \in Nat
    BY <1>3, OrgTypes
  <2>3. /\ prof'[o].id = prof[o].id
        /\ Log(o)' = [i \in DOMAIN Log(o) |->
                        IF i \in poll.events THEN Stored(Log(o)[i]) ELSE Log(o)[i]]
    BY <1>1, <1>3, <2>1 DEF Ingest, Log, Profile
  <2>4. \A i \in DOMAIN Log(o) : /\ Log(o)[i] \in Entry /\ Log(o)[i].ts \in Nat
                                 /\ Log(o)[i].copies \in 0..2
    BY <1>3, EntryTypes
  <2>5. (DOMAIN Log(o))' = DOMAIN Log(o)
        /\ \A i \in DOMAIN Log(o) : Log(o)'[i].ts = Log(o)[i].ts
    BY <2>3, <2>4, StoredOK
  <2>6. CursorsLeft(o) /\ LogsNothing(o)
    BY <1>2, <2>2, <2>3, <2>5 DEF CursorsLeft, LogGoesOn, LogsNothing
  <2>7. ASSUME NEW i \in DOMAIN Log(o), row[o].cursor # Never, Log(o)[i].ts <= row[o].cursor
        PROVE  i \notin poll.events
    <3>1. row[o].id = c.id
      BY <1>3, <2>1, <2>7 DEF FinalInv, NewRows
    <3>2. row[o].cursor = c.cursor
      BY <1>3, <2>1, <3>1 DEF StoredInv, TodoInv
    <3>3. i \in poll.events => c.cursor < Log(o)[i].ts
      BY <1>1, <1>2, <2>1 DEF FinalInv, EventsAreNew
    <3>4. QED
      BY <1>3, <2>4, <2>7, <3>2, <3>3
  <2>8. ASSUME NEW i \in DOMAIN Log(o), row[o].cursor # Never, Log(o)[i].ts <= row[o].cursor
        PROVE  Log(o)'[i].copies <= Log(o)[i].copies
    <3>1. Log(o)'[i] = Log(o)[i]
      BY <2>3, <2>7, <2>8
    <3>2. QED
      BY <2>4, <3>1
  <2>9. QED
    BY <2>6, <2>8
<1>6. QED
  BY <1>4, <1>5

LEMMA IngestStaysFinal ==
    ASSUME StoredInv, FinalInv, Ingest
    PROVE  FinalInv'
<1>1. now' = now /\ now \in Nat /\ poll.pc = "ingest" /\ poll' = [poll EXCEPT !.pc = "mark"]
  BY DEF Ingest, StoredInv, TypeOK
<1>2. now' \in Nat /\ now <= now'
  BY <1>1
<1>3. \A o \in Orgs : CursorsLeft(o) /\ LogsNothing(o)
  BY IngestStores
<1>4. RateHeld'
  BY <1>3, RateStays DEF FinalInv
<1>5. QED
  BY <1>1, <1>2, <1>3, <1>4, CursorsLeftKeeps

\* The steps of the clock, of NextDNS and of the requests.
Outside ==
    \/ Tick \/ (\E o \in Orgs : LogQuery(o))
    \/ \E r \in Requests : Provision(r) \/ Remove(r) \/ RequestFails(r)

LEMMA OutsideIsBeside ==
    ASSUME StoredInv, FinalInv, Outside
    PROVE  /\ poll' = poll /\ now' \in Nat /\ now <= now'
           /\ \A o \in Orgs : Beside(o)
           /\ RateHeld'
<1>1. TypeOK /\ now \in Nat /\ RateHeld
  BY DEF StoredInv, TypeOK, FinalInv
<1>2. now' \in {now, now + 1} /\ poll' = poll
  BY DEF Outside, Tick, LogQuery, Provision, ProvisionBegin, ProvisionCreate, Upsert,
         Remove, RemoveBegin, RemoveCommit, RemoveRemote, RequestFails
<1>3. now' \in Nat /\ now <= now'
  BY <1>1, <1>2
<1>4. CASE UNCHANGED <<prof, row>>
  <2>1. \A o \in Orgs : Beside(o) /\ LogsNothing(o)
    BY <1>1, <1>4, AloneIsBeside
  <2>2. QED
    BY <1>1, <1>2, <1>3, <2>1, RateStays
<1>5. CASE \E o \in Orgs : LogQuery(o)
  BY <1>2, <1>3, <1>5, LogQueryBeside
<1>6. ASSUME NEW r \in Requests,
             ProvisionCreate(r) \/ Upsert(r) \/ RemoveCommit(r) \/ RemoveRemote(r)
      PROVE  (\A o \in Orgs : Beside(o)) /\ RateHeld'
  <2>1. \A o \in Orgs : Beside(o) /\ LogsNothing(o)
    BY <1>6, CreateBeside, UpsertBeside, CommitBeside, RemoteBeside
  <2>2. QED
    BY <1>1, <2>1, RateStays
<1>7. CASE Tick
  BY <1>4, <1>7 DEF Tick
<1>8. ASSUME NEW r \in Requests, Provision(r) \/ Remove(r) \/ RequestFails(r)
      PROVE  (\A o \in Orgs : Beside(o)) /\ RateHeld'
  <2>1. CASE (\E o \in Orgs : ProvisionBegin(r, o) \/ RemoveBegin(r, o)) \/ RequestFails(r)
    BY <1>4, <2>1 DEF ProvisionBegin, RemoveBegin, RequestFails
  <2>2. CASE ProvisionCreate(r) \/ Upsert(r) \/ RemoveCommit(r) \/ RemoveRemote(r)
    BY <1>6, <2>2
  <2>3. QED
    BY <1>8, <2>1, <2>2 DEF Provision, Remove
<1>9. QED
  BY <1>2, <1>3, <1>5, <1>7, <1>8 DEF Outside

LEMMA OutsideStaysFinal ==
    ASSUME StoredInv, FinalInv, Outside
    PROVE  FinalInv'
<1>1. /\ poll' = poll /\ now' \in Nat /\ now <= now' /\ RateHeld'
      /\ \A o \in Orgs : CursorsLeft(o)
  BY OutsideIsBeside DEF Beside
<1>2. QED
  BY <1>1, CursorsLeftKeeps

(****************************** the invariant and the theorems ***************)
LEMMA FinalInit == Init => FinalInv
<1> SUFFICES ASSUME Init PROVE FinalInv
  OBVIOUS
<1>1. /\ poll.pc = "sleep" /\ poll.todo = {}
      /\ \A o \in Orgs : row[o].cursor = Never /\ DOMAIN Log(o) = {}
  BY DEF Init, Asleep, Log
<1>2. \A o \in Orgs, s \in Nat : InSecond(o, s) = {}
  BY <1>1 DEF InSecond
<1>3. RateHeld
  BY <1>2, FS_EmptySet, SizeAssumption DEF RateHeld
<1>4. QED
  BY <1>1, <1>3 DEF FinalInv, CursorsSeen, NewRows, FetchAdvances, EventsAreNew

LEMMA FinalStep == StoredInv /\ FinalInv /\ [Next]_vars => FinalInv'
<1> SUFFICES ASSUME StoredInv, FinalInv, [Next]_vars PROVE FinalInv'
  OBVIOUS
<1>1. CASE StartTick
  BY <1>1, StartTickStaysFinal
<1>2. CASE Pick
  <2>1. UNCHANGED <<now, prof, row>> /\ poll'.todo = poll.todo /\ poll'.pc = "fetch"
    BY <1>2 DEF Pick, StoredInv, TypeOK, Poller
  <2>2. QED
    BY <2>1, PickingStaysFinal
<1>3. CASE \E o \in Orgs : Fetch(o)
  BY <1>3, FetchStaysFinal
<1>4. CASE FetchRefused
  <2>1. /\ UNCHANGED <<now, prof, row>> /\ poll'.todo = poll.todo
        /\ poll'.newest = poll.newest /\ poll'.pc = "mark"
    BY <1>4 DEF FetchRefused, StoredInv, TypeOK, Poller
  <2>2. poll.newest = Never
    BY <1>4 DEF FetchRefused, StoredInv, TodoInv
  <2>3. QED
    BY <2>1, <2>2, PickingStaysFinal
<1>5. CASE Ingest
  BY <1>5, IngestStaysFinal
<1>6. CASE IngestRaises \/ PollFails
  BY <1>6, SleepStaysFinal DEF IngestRaises, PollFails
<1>7. CASE Mark
  BY <1>7, MarkStaysFinal
<1>8. CASE Outside
  BY <1>8, OutsideStaysFinal
<1>9. CASE UNCHANGED vars
  BY <1>9 DEF vars, FinalInv, CursorsSeen, SeenUpTo, NewRows, FetchAdvances, EventsAreNew,
              RateHeld, InSecond, CrowdedAt, Log
<1>10. QED
  BY <1>1, <1>2, <1>3, <1>4, <1>5, <1>6, <1>7, <1>8, <1>9 DEF Next, Poll, Outside

\* A step leaves alone what the cursor of o has passed, unless the cursor's
\* second is crowded, and the cursor, unless the fetched log is another's.
PassedIsFinalOf(o) ==
    Following(o) /\ row'[o].id = row[o].id /\ ~Crowded(o) =>
      /\ row'[o].cursor >= row[o].cursor \/ Outlived(o)
      /\ prof'[o].id = prof[o].id =>
            \A i \in DOMAIN Log(o) : Log(o)[i].ts <= row[o].cursor =>
                prof'[o].log[i].copies <= Log(o)[i].copies

LEMMA FinalOf ==
    ASSUME StoredInv, FinalInv, [Next]_vars, NEW o \in Orgs
    PROVE  PassedIsFinalOf(o)
<1> SUFFICES ASSUME Following(o), row'[o].id = row[o].id, ~Crowded(o)
             PROVE  /\ row'[o].cursor >= row[o].cursor \/ Outlived(o)
                    /\ prof'[o].id = prof[o].id =>
                          \A i \in DOMAIN Log(o) : Log(o)[i].ts <= row[o].cursor =>
                              Log(o)'[i].copies <= Log(o)[i].copies
  BY DEF PassedIsFinalOf, Log
<1>1. TypeOK /\ row[o].cursor \in Nat /\ row[o] \in Row /\ LogInv(o)
  BY OrgTypes DEF StoredInv, OrgInv
<1>2. \A i \in DOMAIN Log(o) : /\ Log(o)[i].copies \in 0..2 /\ Log(o)[i].ts \in Nat
                               /\ 0 < Log(o)[i].ts
  BY <1>1, EntryTypes DEF LogInv
<1>3. CASE UNCHANGED <<prof, row>>
  BY <1>1, <1>2, <1>3 DEF Log
<1>4. CASE Outside
  BY <1>1, <1>4, OutsideIsBeside DEF Beside, CursorsLeft, Never
<1>5. CASE Ingest
  <2>1. row' = row
    BY <1>5 DEF Ingest
  <2>2. \A i \in DOMAIN Log(o) : Log(o)[i].ts <= row[o].cursor => row[o].cursor # Never
    BY <1>1, <1>2 DEF Never
  <2>3. QED
    BY <1>1, <1>5, <2>1, <2>2, IngestStores
<1>6. CASE Mark
  <2>1. PICK c : c = poll.cfg
    OBVIOUS
  <2>2. prof' = prof /\ poll.pc = "mark"
    BY <1>6 DEF Mark
  <2>3. \A i \in DOMAIN Log(o) : Log(o)'[i].copies <= Log(o)[i].copies
    BY <1>2, <2>2 DEF Log
  <2>4. c \in poll.todo /\ c.org \in Orgs /\ c.cursor \in Nat /\ poll.newest \in Nat
    BY <1>1, <2>1, <2>2, CurrentConfig, PollTypes
  <2>5. CASE row'[o].cursor = row[o].cursor
    BY <1>1, <2>3, <2>5
  <2>6. CASE row'[o].cursor # row[o].cursor
    <3>1. o = c.org /\ row[o].id = c.id /\ row'[o].cursor = poll.newest /\ poll.newest # Never
      BY <1>1, <1>6, <2>1, <2>6 DEF Mark, Synced, Row, TypeOK
    <3>2. row[o].cursor = c.cursor
      BY <2>4, <3>1 DEF StoredInv, TodoInv
    <3>3. \/ c.cursor <= poll.newest
          \/ PerSecond > Limit /\ (prof[o].id = c.profile => CrowdedAt(o, c.cursor))
      BY <2>1, <2>2, <3>1 DEF FinalInv, FetchAdvances
    <3>4. ~CrowdedAt(o, c.cursor)
      BY <3>2 DEF Crowded, CrowdedAt, InSecond
    <3>5. PerSecond > Limit /\ prof[o].id # c.profile => Outlived(o)
      BY <2>1, <2>2, <3>1 DEF Outlived
    <3>6. c.cursor <= poll.newest \/ Outlived(o)
      BY <3>3, <3>4, <3>5
    <3>7. QED
      BY <2>3, <2>4, <3>1, <3>2, <3>6
  <2>7. QED
    BY <2>5, <2>6
<1>7. QED
  BY <1>3, <1>4, <1>5, <1>6
     DEF Next, Poll, Outside, vars, StartTick, Pick, Fetch, FetchRefused, IngestRaises, PollFails

LEMMA FinalInvariant == Spec => []FinalInv
<1>1. Init => FinalInv
  BY FinalInit
<1>2. StoredInv /\ FinalInv /\ [Next]_vars => FinalInv'
  BY FinalStep
<1>3. QED
  BY <1>1, <1>2, StoredInvariant, PTL DEF Spec

\* What a cursor has passed is stored no further time and the cursor does not
\* go back, unless its second is crowded, or was in the log that was fetched and
\* has been replaced: for any number of organizations, requests and faults.
THEOREM PassedIsFinalThm == Spec => PassedIsFinal
<1>1. StoredInv /\ FinalInv /\ [Next]_vars =>
        [\A o \in Orgs : Following(o) /\ row'[o].id = row[o].id /\ ~Crowded(o) =>
          /\ row'[o].cursor >= row[o].cursor \/ Outlived(o)
          /\ prof'[o].id = prof[o].id =>
                \A i \in DOMAIN Log(o) : Log(o)[i].ts <= row[o].cursor =>
                    prof'[o].log[i].copies <= Log(o)[i].copies]_vars
  BY FinalOf DEF PassedIsFinalOf
<1>2. QED
  BY <1>1, StoredInvariant, FinalInvariant, PTL DEF Spec, PassedIsFinal
=============================================================================
