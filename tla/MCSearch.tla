------------------------------ MODULE MCSearch ------------------------------
(* The devices, events and terms a search is checked with.                      *)
EXTENDS Search

\* A device of the organization and one of another, events with and without a
\* value in each column, and terms of every kind, with negations and what is none.
MCHosts == {[org |-> o, name |-> "m"] : o \in {"own", "other"}}
MCArriving ==
    LET event(org, domain, country, port, at, keys, host) ==
            [org |-> org, domain |-> domain, country |-> country, port |-> port,
             at |-> at, keys |-> keys, host |-> host]
        ours == [org |-> "own", name |-> "m"]
    IN  {event("own", "a", "tz", "53", 1, {"k"}, {}), event("own", "m", Null, Null, 3, {}, {}),
         event("own", "a", Null, "80", 2, {}, {ours}), event("own", Null, "tz", "53", 2, {}, {ours}),
         event("other", "a", "tz", "53", 2, {"k"}, {})}
MCTerms ==
    LET term(is, key, neg, value) == [is |-> is, key |-> key, neg |-> neg, value |-> value]
    IN  {term("word", "none", FALSE, v) : v \in {"a", "m"}}
        \cup {term("field", "domain", n, "a") : n \in BOOLEAN}
        \cup {term("field", "country", n, "*") : n \in BOOLEAN}
        \cup {term("field", "port", n, "53") : n \in BOOLEAN}
        \cup {term("field", "host", TRUE, "m"), term("field", "dst_port", TRUE, "x"),
              term("field", "unknown", FALSE, "a")}
        \cup {term("has", "none", n, "k") : n \in BOOLEAN}
        \cup {term("after", "none", FALSE, "later"), term("after", "none", FALSE, "x"),
              term("before", "none", FALSE, "early")}
=============================================================================
