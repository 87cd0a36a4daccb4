------------------------------ MODULE Capture ------------------------------
(* An uploaded capture (endpoints/capture.py): the file is kept while two      *)
(* readers go over it, one for the names that were asked for and one for the   *)
(* flows; then OTX is asked about what they found, and the answer names what    *)
(* is suspicious.  The readers are tshark (core/pcap.py), or, where there is     *)
(* none, the program's own (core/pcap_parser.py).                              *)
(*                                                                            *)
(* A packet is the few fields a reader looks at.  All captures are Ethernet;   *)
(* times and sizes are left out, and one upload is looked at at a time.         *)
EXTENDS Naturals, Sequences, FiniteSets

CONSTANTS Packets,     \* [ether, src, dst, port, dns]
          MaxLength,   \* bound of the model: packets in a capture
          MaxPackets,  \* settings.pcap_max_packets
          MaxJumps,    \* max_jumps
          Outside,     \* the addresses that are not private
          MaxNames,    \* _OTX_MAX_DOMAINS
          MaxIps,      \* _OTX_MAX_IPS
          MaxAsking,   \* _OTX_CONCURRENCY
          MaxShown,    \* 500 of the queries in the answer
          MaxRows,     \* 200 of the flows
          Reported,    \* names and addresses in a report of OTX
          Allowed      \* names and addresses on its allow-lists

VARIABLES tool,     \* "tshark" or "parser": what is installed does not change
          upload,   \* the capture, and where its analysis is
          reader,   \* the two readers of this upload
          left,     \* readers of an upload that has ended
          temp,     \* the file is on the disk
          asked,    \* what OTX said, or is being asked
          report    \* what the last upload was answered

captureVars == <<tool, upload, reader, left, temp, asked, report>>

Readers == {"dns", "flows"}
Files == [kind : {"pcap", "pcapng", "other"}, cut : BOOLEAN,
          packets : UNION {[1..n -> Packets] : n \in 0..MaxLength}]
Nothing == [queries |-> <<>>, flows |-> <<>>, truncated |-> FALSE, findings |-> {}]

CaptureInit ==
    /\ tool \in {"tshark", "parser"}
    /\ upload = [at |-> "none"] /\ report = Nothing
    /\ reader = [d \in Readers |-> "off"] /\ left = {}
    /\ temp = FALSE /\ asked = <<>>

(****************************** a DNS payload ******************************)
\* <<>> for a packet without one.  "size": a header and a question, less than
\* that, or two bytes.  "cells" is the name as it is sent: a label, a jump to
\* another cell, or the end; "says" is the name it stands for, <<>> for none.
Label(l) == [is |-> "label", label |-> l]
Jump(c) == [is |-> "jump", to |-> c]
End == [is |-> "end"]

\* Labels up to the end, through jumps; nothing after too many of these.
ParseName(cells) ==
    LET from[c \in 1..Len(cells) + 1, jumps \in 0..MaxJumps] ==
          IF c > Len(cells) \/ cells[c].is = "end" THEN [ok |-> TRUE, name |-> <<>>]
          ELSE IF cells[c].is = "jump"
               THEN IF jumps = MaxJumps THEN [ok |-> FALSE, name |-> <<>>]
                    ELSE from[cells[c].to, jumps + 1]
               ELSE LET rest == from[c + 1, jumps]
                    IN  [rest EXCEPT !.name = <<cells[c].label>> \o @]
    IN  from[1, 0]

HasDns(p) == p.dns # <<>>
IsShort(p) == p.ether = "ipv4" /\ HasDns(p) /\ p.dns.size = "two"
NameOf(p) == ParseName(p.dns.cells)

\* A packet says what its cells spell within max_jumps.
ASSUME CaptureAssumption ==
    /\ MaxLength \in Nat /\ MaxPackets \in Nat /\ MaxRows \in Nat
    /\ MaxNames \in Nat \ {0} /\ MaxIps \in Nat /\ MaxShown \in Nat \ {0}
    /\ \A p \in Packets : HasDns(p) /\ p.dns.flag = "query" /\ p.dns.size = "full" =>
         p.dns.says = IF NameOf(p).ok THEN NameOf(p).name ELSE <<>>

Members(s) == {s[i] : i \in DOMAIN s}
Least(m, n) == IF m < n THEN m ELSE n
FirstOf(s, n) == SubSeq(s, 1, Least(Len(s), n))
\* What a loop over s leaves of start.
Through(step(_, _), start, s) ==
    LET after[n \in 0..Len(s)] == IF n = 0 THEN start ELSE step(after[n - 1], s[n])
    IN  after[Len(s)]

Once(seen, v) == IF v \in Members(seen) THEN seen ELSE Append(seen, v)
\* Each name once for each source.
\* Mutant: each name once.
FreshNames(queries, q) ==
    IF q.name \in {queries[i].name : i \in DOMAIN queries} THEN queries ELSE Append(queries, q)
Fresh(queries, q) == Once(queries, q)

Flow(p) == [src |-> p.src, dst |-> p.dst, port |-> p.port]
\* One packet more of its flow, which is new or has a row.
Tally(rows, p) ==
    LET at == {i \in DOMAIN rows : rows[i].flow = Flow(p)}
    IN  IF p.ether # "ipv4" THEN rows
        ELSE IF at = {} THEN Append(rows, [flow |-> Flow(p), packets |-> 1])
        ELSE [i \in DOMAIN rows |->
               IF i \in at THEN [rows[i] EXCEPT !.packets = @ + 1] ELSE rows[i]]
\* Most packets first, and else the order they came in: list.sort is stable.
Before(rows, i, j) ==
    \/ rows[i].packets > rows[j].packets
    \/ rows[i].packets = rows[j].packets /\ i < j
Sorted(rows) ==
    LET rank(i) == Cardinality({j \in DOMAIN rows : Before(rows, j, i)})
    IN  [k \in DOMAIN rows |-> rows[CHOOSE i \in DOMAIN rows : rank(i) = k - 1]]

\* The first packets, up to the limit.
Kept(f) == FirstOf(f.packets, MaxPackets)
\* The last packet is cut short, and the limit does not come before it.
Torso(f) == f.cut /\ Len(f.packets) \in 1..MaxPackets
Whole(f) == IF Torso(f) THEN FirstOf(f.packets, Len(f.packets) - 1) ELSE Kept(f)

(************************* core/pcap_parser.py *****************************)
\* The magic number of a pcapng is not one it knows.
Opens(f) == f.kind = "pcap"

Asks(p) == p.ether = "ipv4" /\ HasDns(p) /\ p.dns.flag = "query" /\ p.dns.size = "full"

\* dns_data[2] of two bytes raises, and what was found until then is returned.
ParserReads(acc, p) ==
    IF acc.failed THEN acc
    ELSE IF IsShort(p) THEN [acc EXCEPT !.failed = TRUE]
    ELSE IF Asks(p) /\ NameOf(p).ok /\ NameOf(p).name # <<>>
         THEN [acc EXCEPT !.found = Fresh(@, [src |-> p.src, name |-> NameOf(p).name])]
    ELSE acc
ParserDns(f) ==
    IF Opens(f) THEN Through(ParserReads, [found |-> <<>>, failed |-> FALSE], Whole(f)).found
    ELSE <<>>

\* Every packet is counted, the one that is cut short too.
ParserFlows(f) ==
    IF Opens(f) THEN [rows |-> Sorted(Through(Tally, <<>>, Whole(f))), read |-> Len(Kept(f))]
    ELSE [rows |-> <<>>, read |-> 0]

(****************************** core/pcap.py *******************************)
\* tshark itself (external): which packets its filters let through, and what it
\* prints for a name it cannot follow.
Unreadable(f) == f.kind = "other" \/ Torso(f)
ShowsQuery(p) == p.ether # "arp" /\ HasDns(p) /\ p.dns.flag = "query" /\ p.dns.size = "full"
ShowsIp(p) == p.ether = "ipv4"
ShownName(p) == IF p.dns.says = <<>> THEN <<"malformed">> ELSE p.dns.says

TsharkReads(found, p) ==
    IF ShowsQuery(p) THEN Fresh(found, [src |-> p.src, name |-> ShownName(p)]) ELSE found
TsharkDns(f) == Through(TsharkReads, <<>>, Kept(f))

\* Only what passes the filter is counted.
TsharkFlows(f) ==
    [rows |-> Sorted(Through(Tally, <<>>, Kept(f))),
     read |-> Cardinality({i \in DOMAIN Kept(f) : ShowsIp(Kept(f)[i])})]

(************************** endpoints/capture.py ***************************)
Queries(f) == IF tool = "tshark" THEN TsharkDns(f) ELSE ParserDns(f)
Flows(f) == IF tool = "tshark" THEN TsharkFlows(f) ELSE ParserFlows(f)

\* Each once, in the order they come, and the first of these.
ExternalOnce(ips, r) == IF r.flow.dst \in Outside THEN Once(ips, r.flow.dst) ELSE ips
ExternalIps(rows) == Through(ExternalOnce, <<>>, rows)
DomainOnce(names, q) == Once(names, q.name)
Domains(qs) == Through(DomainOnce, <<>>, qs)
Targets(f) ==
    Members(FirstOf(Domains(Queries(f)), MaxNames))
    \cup Members(FirstOf(ExternalIps(Flows(f).rows), MaxIps))

\* A report of OTX is a lead, unless the name is on an allow-list.
VerdictFor(v) ==
    IF v \in Allowed THEN "clean" ELSE IF v \in Reported THEN "suspicious" ELSE "unknown"

Flagged(v) == v \in DOMAIN asked /\ asked[v] = "suspicious"
BuildFindings(qs, rows) ==
    {<<qs[i].src, qs[i].name>> : i \in {k \in DOMAIN qs : Flagged(qs[k].name)}}
    \cup {<<rows[i].flow.src, rows[i].flow.dst>> :
             i \in {k \in DOMAIN rows : Flagged(rows[k].flow.dst)}}
\* The findings are of all queries and flows, whatever is shown of these.
Answer(f) ==
    [queries |-> FirstOf(Queries(f), MaxShown), flows |-> FirstOf(Flows(f).rows, MaxRows),
     truncated |-> Flows(f).read >= MaxPackets,
     findings |-> BuildFindings(Queries(f), Flows(f).rows)]

\* The name ends as it should; the bound keeps two readers of one kind apart.
ReceiveUpload ==
    /\ upload.at = "none" /\ left = {}
    /\ \E f \in Files : upload' = [at |-> "saving", file |-> f]
    /\ temp' = TRUE
    /\ UNCHANGED <<tool, reader, left, asked, report>>

\* Too large, or empty.
RefuseUpload ==
    /\ upload.at = "saving" /\ upload' = [at |-> "none"] /\ temp' = FALSE
    /\ UNCHANGED <<tool, reader, left, asked, report>>

SaveUpload ==
    /\ upload.at = "saving" /\ upload' = [upload EXCEPT !.at = "reading"]
    /\ reader' = [d \in Readers |-> "running"]
    /\ UNCHANGED <<tool, left, temp, asked, report>>

ReaderEnds(d) ==
    /\ reader[d] = "running" /\ (tool = "tshark" => ~Unreadable(upload.file))
    /\ reader' = [reader EXCEPT ![d] = "done"]
    /\ UNCHANGED <<tool, upload, left, temp, asked, report>>

\* tshark is gone, cannot read the file or runs out of time: gather() raises,
\* and leaves the other tshark to itself.
ReaderFails(d) ==
    /\ tool = "tshark" /\ reader[d] = "running"
    /\ upload' = [at |-> "none"] /\ temp' = FALSE
    /\ left' = {e \in Readers \ {d} : reader[e] = "running"}
    /\ reader' = [e \in Readers |-> "off"]
    /\ UNCHANGED <<tool, asked, report>>

LeftEnds ==
    /\ \E d \in left : left' = left \ {d}
    /\ UNCHANGED <<tool, upload, reader, temp, asked, report>>

Analyse ==
    /\ upload.at = "reading" /\ \A d \in Readers : reader[d] = "done"
    /\ reader' = [d \in Readers |-> "off"] /\ temp' = FALSE
    /\ upload' = [upload EXCEPT !.at = "asking"]
    /\ asked' = [v \in Targets(upload.file) |-> "queued"]
    /\ UNCHANGED <<tool, left, report>>

Ask(v) ==
    /\ upload.at = "asking" /\ asked[v] = "queued"
    /\ Cardinality({w \in DOMAIN asked : asked[w] = "asking"}) < MaxAsking
    /\ asked' = [asked EXCEPT ![v] = "asking"]
    /\ UNCHANGED <<tool, upload, reader, left, temp, report>>

\* A failure of OTX leaves the name or the address without a verdict.
Hear(v) ==
    /\ upload.at = "asking" /\ asked[v] = "asking"
    /\ \E a \in {VerdictFor(v), "failed"} : asked' = [asked EXCEPT ![v] = a]
    /\ UNCHANGED <<tool, upload, reader, left, temp, report>>

Respond ==
    /\ upload.at = "asking"
    /\ \A v \in DOMAIN asked : asked[v] \notin {"queued", "asking"}
    /\ report' = Answer(upload.file)
    /\ upload' = [upload EXCEPT !.at = "answered"]
    /\ UNCHANGED <<tool, reader, left, temp, asked>>

TakeAnswer ==
    /\ upload.at = "answered" /\ upload' = [at |-> "none"]
    /\ report' = Nothing /\ asked' = <<>>
    /\ UNCHANGED <<tool, reader, left, temp>>

CaptureNext ==
    \/ ReceiveUpload \/ RefuseUpload \/ SaveUpload \/ LeftEnds \/ Analyse \/ Respond \/ TakeAnswer
    \/ \E d \in Readers : ReaderEnds(d) \/ ReaderFails(d)
    \/ \E v \in DOMAIN asked : Ask(v) \/ Hear(v)

CaptureSpec == CaptureInit /\ [][CaptureNext]_captureVars

(******************************** properties ********************************)
\* The upload, its readers, its file and its answer are of their kinds.
CaptureTypeOK ==
    /\ tool \in {"tshark", "parser"} /\ temp \in BOOLEAN
    /\ upload \in [at : {"none"}]
                 \cup [at : {"saving", "reading", "asking", "answered"}, file : Files]
    /\ reader \in [Readers -> {"off", "running", "done"}] /\ left \subseteq Readers
    /\ \A v \in DOMAIN asked :
         asked[v] \in {"queued", "asking", "failed", "clean", "suspicious", "unknown"}
    /\ report.truncated \in BOOLEAN

\* The limits pcap_parser.py names, and the payloads the two engines are known
\* to differ about.
InReach(p) ==
    IF tool = "tshark" THEN HasDns(p) /\ p.dns.size = "full" => p.dns.says # <<>>
    ELSE ~IsShort(p)
Seen(p) == IF tool = "tshark" THEN p.ether # "arp" ELSE p.ether = "ipv4"
\* What was asked: by the name a packet stands for, not by how it is written.
Means(p) == [src |-> p.src, name |-> p.dns.says]
IsQuestion(p) ==
    Seen(p) /\ HasDns(p) /\ p.dns.flag = "query" /\ p.dns.size = "full" /\ p.dns.says # <<>>

IsOf(p, q) == IsQuestion(p) /\ Means(p) = q
AsksOf(ps) == {Means(p) : p \in {x \in Members(ps) : IsQuestion(x)}}
\* Where it is first asked.
FirstAsk(ps, q) ==
    CHOOSE i \in DOMAIN ps : IsOf(ps[i], q) /\ \A k \in 1..(i - 1) : ~IsOf(ps[k], q)
FlowsOf(ps) == {Flow(p) : p \in {x \in Members(ps) : x.ether = "ipv4"}}
Count(ps, w) == Cardinality({i \in DOMAIN ps : ps[i].ether = "ipv4" /\ Flow(ps[i]) = w})

\* capture.py, pcap.py, pcap_parser.py: whichever of the two read it and however its
\* names are written, the answer about a capture has the questions of its first
\* packets once for each source, in the order they were first asked, and the flows
\* with as many packets as each has, most first; where it is full, what is left out
\* comes later, or has no more packets.  A finding is of a question or a flow that
\* OTX flagged, shown or not, and none is missing for one of the first names, unless
\* OTX failed.
AnswersAreExact ==
    upload.at = "answered" =>
      LET f == upload.file
          ps == Whole(f)
          qs == report.queries
          rows == report.flows
      IN  f.kind = "pcap" /\ (\A p \in Members(ps) : InReach(p)) =>
            /\ Members(qs) \subseteq AsksOf(ps)
            /\ Len(qs) = Least(Cardinality(AsksOf(ps)), MaxShown)
            /\ \A i, j \in DOMAIN qs : i < j => FirstAsk(ps, qs[i]) < FirstAsk(ps, qs[j])
            /\ \A q \in AsksOf(ps) \ Members(qs), i \in DOMAIN qs :
                 FirstAsk(ps, qs[i]) < FirstAsk(ps, q)
            /\ Len(rows) = Least(Cardinality(FlowsOf(ps)), MaxRows)
            /\ \A i \in DOMAIN rows :
                 rows[i].flow \in FlowsOf(ps) /\ rows[i].packets = Count(ps, rows[i].flow)
            /\ \A i, j \in DOMAIN rows : i < j =>
                 rows[i].packets >= rows[j].packets /\ rows[i].flow # rows[j].flow
            /\ \A w \in FlowsOf(ps) \ {r.flow : r \in Members(rows)}, i \in DOMAIN rows :
                 rows[i].packets >= Count(ps, w)
            /\ report.findings \subseteq {<<q.src, q.name>> : q \in AsksOf(ps)}
                                        \cup {<<w.src, w.dst>> : w \in FlowsOf(ps)}
            /\ \A x \in report.findings : x[2] \in Reported \ Allowed
            /\ \A q, y \in AsksOf(ps) :
                 /\ q.name = y.name /\ VerdictFor(q.name) = "suspicious"
                 /\ Cardinality({x.name : x \in {z \in AsksOf(ps) : FirstAsk(ps, z) <= FirstAsk(ps, y)}})
                      <= MaxNames
                 => <<q.src, q.name>> \in report.findings \/ asked[q.name] = "failed"
=============================================================================
