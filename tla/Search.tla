------------------------------- MODULE Search -------------------------------
(* The search box (core/querylang.py, crud/monitoring.py: siem_search): a text  *)
(* is cut into terms, and three queries answer it, one for the counts by        *)
(* severity, one for the events and one for the devices.  Events arrive and     *)
(* devices come and go between them.                                          *)
(*                                                                            *)
(* A term is a word, a key with a value, or a key the language does not know.   *)
(* A text holds a value if it is that value; of the columns there are a text    *)
(* everything is searched in, one that only its key is, a number, the time, the *)
(* keys of the raw event and the name of the device.                           *)
EXTENDS Naturals, Sequences, FiniteSets

CONSTANTS Terms,     \* [is, key, neg, value]
          Arriving,  \* [org, domain, country, port, at, keys, host], host a set of at most one
          Hosts,     \* [org, name]: the devices there may be
          PageSize,  \* limit
          MaxTerms, MaxStored  \* bounds of the model

VARIABLES rowsStored,  \* security_events, in the order of creation
          hosts,       \* the table of devices
          search,      \* the text, and what its queries have found
          unsettled    \* the tables changed during the search (not in the code)

searchVars == <<rowsStored, hosts, search, unsettled>>

Own == "own"   \* the organization that searches
Null == "null" \* a column without a value
Texts == UNION {[1..n -> Terms] : n \in 0..MaxTerms}
\* A row may lose its device.
Row == UNION {{[e EXCEPT !.host = d] : d \in SUBSET e.host} : e \in Arriving}
ASSUME SearchAssumption ==
    /\ PageSize \in Nat /\ MaxTerms \in Nat /\ MaxStored \in Nat
    /\ Terms \subseteq [is : {"word", "field", "has", "after", "before"}, key : STRING,
                       neg : BOOLEAN, value : STRING \ {Null}]
    /\ Hosts \subseteq [org : STRING, name : STRING \ {Null}]
    /\ Arriving \subseteq [org : STRING, domain : STRING, country : STRING, port : STRING,
                          at : Nat, keys : SUBSET STRING, host : SUBSET Hosts]
    /\ \A e \in Arriving : \A g, h \in e.host : g = h

SearchInit ==
    /\ rowsStored = <<>> /\ hosts = {} /\ unsettled = FALSE /\ search = [at |-> "none"]

(************************** core/querylang.py ******************************)
Alias == [domain |-> "domain", country |-> "country", port |-> "port",
          dst_port |-> "port", device |-> "device", host |-> "device"]
\* _to_ts: what the texts that are times stand for.
Moment == [early |-> 1, later |-> 2, late |-> 3]

\* The last of the times that are times.
LastTime(text, key) ==
    LET given == {i \in DOMAIN text : text[i].is = key /\ text[i].value \in DOMAIN Moment}
    IN  IF given = {} THEN {} ELSE {Moment[text[CHOOSE i \in given : \A j \in given : j <= i].value]}

\* A key that is no alias is dropped, and so is the minus of has, after and before.
Parse(text) ==
    [free   |-> {text[i].value : i \in {k \in DOMAIN text : text[k].is = "word"}},
     fields |-> {[column |-> Alias[text[i].key], neg |-> text[i].neg, value |-> text[i].value] :
                   i \in {k \in DOMAIN text : text[k].is = "field" /\ text[k].key \in DOMAIN Alias}},
     has    |-> {text[i].value : i \in {k \in DOMAIN text : text[k].is = "has"}},
     after  |-> LastTime(text, "after"),
     before |-> LastTime(text, "before")]
IsEmpty(q) ==
    q.free = {} /\ q.fields = {} /\ q.has = {} /\ q.after = {} /\ q.before = {}

(**************************** crud/monitoring.py ***************************)
NameOfHost(h) == IF h = {} THEN Null ELSE (CHOOSE d \in h : TRUE).name
\* An event as the query sees it, next to a device or to none (h).
Column(e, h, c) == CASE c = "domain" -> e.domain [] c = "country" -> e.country
                     [] c = "port" -> e.port [] c = "device" -> NameOfHost(h)
Numbers == {"53"}

\* SQL keeps a row if the condition is true; the negation of what is unknown is
\* unknown.  "*" asks for a value, and a number that is none for nothing.
\* Mutant: what has no value is not the value.
FieldHoldsLoosely(f, v) ==
    IF f.column = "port" THEN f.value \in Numbers => (v = f.value) # f.neg
    ELSE IF f.value = "*" THEN (v # Null) # f.neg
    ELSE (v = f.value) # f.neg
FieldHolds(f, v) ==
    IF f.column = "port" THEN f.value \in Numbers => v # Null /\ (v = f.value) # f.neg
    ELSE IF f.value = "*" THEN (v # Null) # f.neg
    ELSE v # Null /\ (v = f.value) # f.neg

Where(q, e, h) ==
    /\ e.org = Own
    /\ \A f \in q.fields : FieldHolds(f, Column(e, h, f.column))
    /\ \A t \in q.after : t <= e.at
    /\ \A t \in q.before : e.at <= t
    /\ q.has \subseteq e.keys
    /\ \A w \in q.free : w \in {e.domain, NameOfHost(h)}

\* The counts have no join: a condition on the name of a device goes over all
\* the devices there are, and an event counts once for each.
NeedsDevice(q) == q.free # {} \/ \E f \in q.fields : f.column = "device"
Breakdown(q) ==
    IF NeedsDevice(q)
    THEN Cardinality({m \in (DOMAIN rowsStored) \X hosts : Where(q, rowsStored[m[1]], {m[2]})})
    ELSE Cardinality({i \in DOMAIN rowsStored : Where(q, rowsStored[i], {})})

\* Newest first, up to the limit, with the device of each by an outer join.
Matching(q) == {i \in DOMAIN rowsStored : Where(q, rowsStored[i], rowsStored[i].host)}
Listed(q) ==
    LET found == Matching(q)
        newer(i) == Cardinality({j \in found : j > i})
        size == IF Cardinality(found) < PageSize THEN Cardinality(found) ELSE PageSize
    IN  [k \in 1..size |-> CHOOSE i \in found : newer(i) = k - 1]

\* The fields do not matter to the devices.
DevicesFound(q) ==
    {h \in hosts : h.org = Own /\ (IsEmpty(q) \/ \A w \in q.free : w = h.name)}

BeginSearch ==
    /\ search.at = "none"
    /\ \E text \in Texts :
         search' = [at |-> "counted", text |-> text, count |-> Breakdown(Parse(text))]
    /\ unsettled' = FALSE /\ UNCHANGED <<rowsStored, hosts>>

ListEvents ==
    /\ search.at = "counted"
    /\ search' = [at |-> "listed", text |-> search.text, count |-> search.count,
                  found |-> Listed(Parse(search.text))]
    /\ UNCHANGED <<rowsStored, hosts, unsettled>>

ListDevices ==
    /\ search.at = "listed"
    /\ search' = [at |-> "answered", text |-> search.text, count |-> search.count,
                  found |-> search.found, devices |-> DevicesFound(Parse(search.text))]
    /\ UNCHANGED <<rowsStored, hosts, unsettled>>

AnswerSearch ==
    /\ search.at = "answered" /\ search' = [at |-> "none"] /\ unsettled' = FALSE
    /\ UNCHANGED <<rowsStored, hosts>>

\* Only what happens during a search needs to be known as such.
Unsettles == unsettled' = (search.at # "none")

StoreEvent ==
    /\ Len(rowsStored) < MaxStored
    /\ \E e \in Arriving :
         /\ e.host \subseteq hosts /\ rowsStored' = Append(rowsStored, e)
    /\ Unsettles /\ UNCHANGED <<hosts, search>>

AddHost ==
    /\ \E h \in Hosts \ hosts : hosts' = hosts \cup {h}
    /\ Unsettles /\ UNCHANGED <<rowsStored, search>>

\* security_events.device_id is set to null.
DeleteHost ==
    /\ \E h \in hosts :
         /\ hosts' = hosts \ {h}
         /\ rowsStored' = [i \in DOMAIN rowsStored |->
              [rowsStored[i] EXCEPT !.host = @ \ {h}]]
    /\ Unsettles /\ UNCHANGED search

SearchNext ==
    \/ BeginSearch \/ ListEvents \/ ListDevices \/ AnswerSearch
    \/ StoreEvent \/ AddHost \/ DeleteHost

SearchSpec == SearchInit /\ [][SearchNext]_searchVars

(******************************** properties ********************************)
\* Every row, and the search, are of their kinds.
SearchTypeOK ==
    /\ rowsStored \in Seq(Row) /\ Len(rowsStored) <= MaxStored
    /\ hosts \subseteq Hosts /\ unsettled \in BOOLEAN
    /\ \A i \in DOMAIN rowsStored : rowsStored[i].host \subseteq hosts
    /\ search.at \in {"none", "counted", "listed", "answered"}
    /\ search.at \in {"listed", "answered"} => search.found \in Seq(1..MaxStored)

\* What an event says of itself under a key: nothing, or one value.
Says(e, key) ==
    {v \in CASE key = "domain" -> {e.domain} [] key = "country" -> {e.country}
             [] key \in {"port", "dst_port"} -> {e.port}
             [] key \in {"device", "host"} -> {h.name : h \in e.host}
             [] OTHER -> {} : v # Null}

\* What one term of a text asks of an event, whatever the others are, as the
\* module's docstring has it: a key it does not list is a word.
Meets(e, text, i) ==
    LET t == text[i]
        holds(v) == v \in Says(e, "domain") \cup Says(e, "host")
        overruled == \E j \in DOMAIN text : /\ j > i /\ text[j].is = t.is
                                            /\ text[j].value \in DOMAIN Moment
        said == t.value \in DOMAIN Moment /\ ~overruled
        held == Says(e, t.key)
    IN  CASE t.is = "word" -> holds(t.value)
          [] t.is = "has" -> IF t.neg THEN t.value \notin e.keys ELSE t.value \in e.keys
          [] t.is = "after" -> said => (Moment[t.value] <= e.at) # t.neg
          [] t.is = "before" -> said => (e.at <= Moment[t.value]) # t.neg
          [] t.is = "field" /\ t.key \notin DOMAIN Alias -> holds(t.value)
          [] t.is = "field" /\ t.key \in DOMAIN Alias ->
               \/ Alias[t.key] = "port" /\ t.value \notin Numbers
               \/ t.value = "*" /\ (held = {}) = t.neg
               \/ t.value # "*" /\ \E v \in held : (v = t.value) # t.neg

\* The terms of a text that the code does not read as documented.
Unlisted(text) ==
    {i \in DOMAIN text : text[i].is = "field" /\ text[i].key \notin DOMAIN Alias}
NegatedSpecial(text) ==
    {i \in DOMAIN text : text[i].is \in {"has", "after", "before"} /\ text[i].neg}
Shown == {search.found[k] : k \in DOMAIN search.found}

\* A search in tables that do not change finds the newest of the organization's
\* events that meet every term, each read on its own, and misses none: a term and
\* its negation never find the same event, and neither finds one without a value.
\* The counts are of the same events if no term needs the name of a device
\* (crud/monitoring.py: siem_search, core/querylang.py: parse).  Texts with a key
\* the language does not list, or a negated has, after or before, are not meant:
\* there the code differs from its docstring, as the two properties below show.
SearchFinds ==
    /\ search.at = "answered" /\ ~unsettled
    /\ Unlisted(search.text) = {} /\ NegatedSpecial(search.text) = {}
    => LET text == search.text
           met == {n \in DOMAIN rowsStored :
                     /\ rowsStored[n].org = Own
                     /\ \A i \in DOMAIN text : Meets(rowsStored[n], text, i)}
       IN  /\ Shown \subseteq met
           /\ \A n \in met \ Shown : Len(search.found) = PageSize /\ \A k \in Shown : n < k
           /\ \A k, l \in DOMAIN search.found : k < l => search.found[k] > search.found[l]
           /\ ~NeedsDevice(Parse(text)) => search.count = Cardinality(met)

\* core/querylang.py: "Vigezo visivyotambulika vinachukuliwa maneno huru", a key
\* that is not recognised is taken for a free word.  The code drops it.
UnlistedKeysAreWords ==
    search.at = "answered" /\ ~unsettled =>
      \A n \in Shown, i \in Unlisted(search.text) : Meets(rowsStored[n], search.text, i)

\* core/querylang.py: "-key:value - negation (nje ya)", a negated key leaves out
\* what its value finds.  The minus of has, after and before is dropped.
NegationExcludes ==
    search.at = "answered" /\ ~unsettled =>
      \A n \in Shown, i \in NegatedSpecial(search.text) : Meets(rowsStored[n], search.text, i)
=============================================================================
