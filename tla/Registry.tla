------------------------------- MODULE Registry -------------------------------
(* The devices and the data sources that requests register as they go          *)
(* (crud/monitoring.py, crud/sources.py): a batch of events and an agent's      *)
(* discovery sweep find the device by its MAC, then by its address, and make    *)
(* one if the MAC is new; a batch finds or makes its source by name.  A device  *)
(* is unique per MAC in the database, a source is unique in no way.             *)
(*                                                                            *)
(* A batch has one event here, a sweep one host.  MACs are normalised.  Of a    *)
(* device only its MAC and last_ip are kept, of a source only its name.         *)
EXTENDS Naturals, Sequences, FiniteSets

CONSTANTS Feeders,     \* requests in flight
          Macs, Ips,
          Sent, Names, \* the names events carry, and those analysts give
          MaxDevices, MaxSources  \* bounds of the model

ASSUME RegistryAssumption ==
    Sent \subseteq Names /\ MaxDevices \in Nat /\ MaxSources \in Nat

VARIABLES devices,    \* rows, in the order they were committed
          sources,    \* the name of each row
          feed,       \* what each request carries and has found
          held,       \* the devices that ever had each address (not in the code)
          shared      \* names that two requests made across each other, or that
                      \* an analyst gave to a source (not in the code)

registryVars == <<devices, sources, feed, held, shared>>

None == "none"
DeviceIds == 1..MaxDevices
SourceIds == 1..MaxSources
Device == [mac : Macs \cup {None}, ip : Ips \cup {None}, gone : BOOLEAN]
Deleted == [mac |-> None, ip |-> None, gone |-> TRUE]
Still == [at |-> "idle"]
\* dev and src: the row found, or 0; read: the address the found device had;
\* make: the row is to be inserted; over: another request committed meanwhile.
Feed == [at : {"match", "enrol", "insert", "source", "commit", "lost"},
         mac : Macs \cup {None}, ip : Ips \cup {None}, name : Names \cup {None},
         dev : 0..MaxDevices, src : 0..MaxSources, read : Ips \cup {None},
         make : BOOLEAN, over : BOOLEAN]

RegistryInit ==
    /\ devices = <<>> /\ sources = <<>> /\ shared = {}
    /\ held = [i \in Ips |-> {}]
    /\ feed = [r \in Feeders |-> Still]

Feeds(r, q) == feed' = [feed EXCEPT ![r] = q]
\* The request ends with an error.
Raises(r, q) == Feeds(r, [q EXCEPT !.at = "lost", !.mac = None, !.dev = 0, !.src = 0,
                                   !.read = None, !.make = FALSE])
Alive == {d \in DOMAIN devices : ~devices[d].gone}
ByMac(m) == {d \in Alive : devices[d].mac = m}
ByIp(i) == {d \in Alive : devices[d].ip = i}
Named(n) == {s \in DOMAIN sources : sources[s] = n}

\* A batch has a device to match and a source, a sweep ("match") and an analyst's
\* registration ("enrol") no source, a source registered by hand no device.
BeginFeed(r) ==
    /\ feed[r] = Still
    /\ \E first \in {"match", "enrol", "source"}, m \in Macs \cup {None},
          i \in Ips \cup {None}, n \in Sent \cup {None} :
         /\ first = "enrol" => n = None
         /\ first = "source" => n # None /\ m = None /\ i = None
         /\ Feeds(r, [at |-> first, mac |-> m, ip |-> i, name |-> n, dev |-> 0,
                      src |-> 0, read |-> None, make |-> FALSE, over |-> FALSE])
    /\ UNCHANGED <<devices, sources, held, shared>>

\* Without a MAC a registration makes a device, the others look the address up.
\* Mutant: the address is looked up before the MAC.
MatchesIpFirst(q) ==
    IF q.ip # None /\ q.at = "match" THEN ByIp(q.ip)
    ELSE IF q.mac # None THEN ByMac(q.mac) ELSE {}
Matches(q) ==
    IF q.mac # None THEN ByMac(q.mac)
    ELSE IF q.ip # None /\ q.at = "match" THEN ByIp(q.ip) ELSE {}
Creates(q) == q.mac # None \/ q.at = "enrol"

Onward(q) == IF q.name # None THEN "source" ELSE "commit"
FindDevice(r) ==
    LET q == feed[r]
    IN  /\ q.at \in {"match", "enrol"}
        /\ \/ /\ Cardinality(Matches(q)) > 1 /\ Raises(r, q)
           \/ /\ Cardinality(Matches(q)) = 1
              /\ \E d \in Matches(q) :
                   Feeds(r, [q EXCEPT !.at = Onward(q), !.dev = d, !.read = devices[d].ip])
           \/ /\ Matches(q) = {}
              /\ Feeds(r, [q EXCEPT !.at = IF Creates(q) THEN "insert" ELSE Onward(q)])
        /\ UNCHANGED <<devices, sources, held, shared>>

\* The row goes to the database, and waits there for another with its MAC.
Inserting(m) == {z \in Feeders : feed[z].at # "idle" /\ feed[z].make /\ feed[z].mac = m}
InsertDevice(r) ==
    LET q == feed[r]
    IN  /\ q.at = "insert"
        /\ q.mac # None => Inserting(q.mac) = {}
        /\ \/ q.mac # None /\ ByMac(q.mac) # {} /\ Raises(r, q)
           \/ /\ q.mac = None \/ ByMac(q.mac) = {}
              /\ Feeds(r, [q EXCEPT !.at = Onward(q), !.make = TRUE])
        /\ UNCHANGED <<devices, sources, held, shared>>

\* ensure_source: the row with this name, a new one, or an error if there are two.
FindSource(r) ==
    LET q == feed[r]
    IN  /\ q.at = "source"
        /\ \/ Cardinality(Named(q.name)) > 1 /\ Raises(r, q)
           \/ Named(q.name) = {} /\ Feeds(r, [q EXCEPT !.at = "commit"])
           \/ /\ Cardinality(Named(q.name)) = 1
              /\ \E s \in Named(q.name) : Feeds(r, [q EXCEPT !.at = "commit", !.src = s])
        /\ UNCHANGED <<devices, sources, held, shared>>

\* The address of a found device is written if it differs from what was read.
LastIp(q) == IF q.ip = None \/ q.ip = q.read THEN devices[q.dev].ip ELSE q.ip
NewSource(q) == q.name # None /\ q.src = 0
Marks(r, q) == [z \in Feeders |->
    IF z = r THEN q ELSE IF feed[z] = Still THEN Still ELSE [feed[z] EXCEPT !.over = TRUE]]

CommitFeed(r) ==
    LET q == feed[r]
        d == IF q.make THEN Len(devices) + 1 ELSE q.dev
    IN  /\ q.at = "commit"
        /\ q.dev > 0 => ~devices[q.dev].gone
        /\ d <= MaxDevices /\ (NewSource(q) => Len(sources) < MaxSources)
        /\ devices' = IF q.make THEN Append(devices, [mac |-> q.mac, ip |-> q.ip, gone |-> FALSE])
                      ELSE IF q.dev > 0 THEN [devices EXCEPT ![q.dev].ip = LastIp(q)]
                      ELSE devices
        /\ sources' = IF NewSource(q) THEN Append(sources, q.name) ELSE sources
        /\ held' = [i \in Ips |-> IF i = q.ip /\ d > 0 THEN held[i] \cup {d} ELSE held[i]]
        /\ shared' = shared \cup {n \in {q.name} : NewSource(q) /\ q.over}
        /\ feed' = Marks(r, Still)

\* The device was deleted meanwhile: its row cannot be updated.
CommitStale(r) ==
    LET q == feed[r]
    IN  /\ q.at = "commit" /\ q.dev > 0 /\ devices[q.dev].gone
        /\ Raises(r, q)
        /\ UNCHANGED <<devices, sources, held, shared>>

\* The answer 500: the caller has it, nothing of the transaction is written.
\* The connection may also end a request anywhere else.
FeedEnds(r) ==
    /\ feed[r] # Still /\ Feeds(r, Still)
    /\ UNCHANGED <<devices, sources, held, shared>>

\* An analyst deletes a device, or renames a source.
RemoveDevice ==
    /\ \E d \in Alive : devices' = [devices EXCEPT ![d] = Deleted]
    /\ feed' = Marks(None, Still)
    /\ UNCHANGED <<sources, held, shared>>
RenameSource ==
    /\ \E s \in DOMAIN sources, n \in Names :
         /\ n # sources[s]
         /\ sources' = [sources EXCEPT ![s] = n]
         /\ shared' = shared \cup {n}
    /\ feed' = Marks(None, Still)
    /\ UNCHANGED <<devices, held>>

RegistryNext ==
    \/ \E r \in Feeders :
         \/ BeginFeed(r) \/ FindDevice(r) \/ InsertDevice(r) \/ FindSource(r)
         \/ CommitFeed(r) \/ CommitStale(r) \/ FeedEnds(r)
    \/ RemoveDevice \/ RenameSource

RegistrySpec == RegistryInit /\ [][RegistryNext]_registryVars

(******************************** properties ********************************)
\* Every row and every request is of its kind.
RegistryTypeOK ==
    /\ devices \in Seq(Device) /\ Len(devices) <= MaxDevices
    /\ sources \in Seq(Names) /\ Len(sources) <= MaxSources
    /\ held \in [Ips -> SUBSET DeviceIds] /\ shared \subseteq Names
    /\ \A r \in Feeders : feed[r] \in {Still} \cup Feed

\* core/ingest.py, crud/monitoring.py: what is registered never makes a later
\* request fail.  One is refused only if another committed while it ran, or its
\* address was that of two devices, or its source's name is one of several
\* rows' through a race or an analyst.
LoneBatchesStored ==
    \A r \in Feeders :
      feed[r].at = "lost" =>
        \/ feed[r].over
        \/ feed[r].ip # None /\ Cardinality(held[feed[r].ip]) > 1
        \/ feed[r].name \in shared

\* models/monitoring.py, Device: addresses change with every lease, and a batch
\* is accepted all the same.  The code does not keep it: a device that leaves its
\* address to another makes every batch from that address without a MAC fail.
LeasesMove ==
    \A r \in Feeders : feed[r].at = "lost" => feed[r].over \/ feed[r].name \in shared
=============================================================================
