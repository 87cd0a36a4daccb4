------------------------------- MODULE MCSiem -------------------------------
(* What becomes of the events a network sends: the devices and sources they    *)
(* register, the alerts they raise, the incidents analysts make of these, the  *)
(* analysis of their owners, the scheduler that reports on it all, and what      *)
(* users upload and search.  Each has its own tables    *)
(* here, so a behaviour is of one of them, and one run looks at all seven.       *)
EXTENDS Alerts, Incidents, Registry, Scheduler, Ueba, Capture, MCSearch, TLC

VARIABLE part
vars == <<part, alertsVars, incidentsVars, registryVars, schedulerVars, uebaVars,
          captureVars, searchVars>>

\* Two sources, two names one of which is written in two ways, a name that goes
\* round in circles, a payload of two bytes, an answer, and what is no query.
MCPackets ==
    LET name == <<Label("a"), Label("b"), End>>
        dns(flag, size, cells, says) ==
            [flag |-> flag, size |-> size, cells |-> cells, says |-> says]
        packet(ether, src, dst, port, payload) ==
            [ether |-> ether, src |-> src, dst |-> dst, port |-> port, dns |-> payload]
        asks(src, cells, says) ==
            packet("ipv4", src, <<"d">>, "53", dns("query", "full", cells, says))
    IN  {asks(<<"s1">>, name, <<"a", "b">>), asks(<<"s2">>, name, <<"a", "b">>),
         asks(<<"s1">>, <<Jump(2)>> \o name, <<"a", "b">>),
         asks(<<"s1">>, <<Label("c"), End>>, <<"c">>),
         asks(<<"s1">>, <<Jump(1)>>, <<>>),
         packet("ipv4", <<"s1">>, <<"d">>, "53", dns("query", "two", <<>>, <<>>)),
         packet("ipv4", <<"d">>, <<"s1">>, "high", dns("answer", "full", name, <<"a", "b">>)),
         packet("ipv6", <<"s1">>, <<"d">>, "53", dns("query", "full", name, <<"a", "b">>)),
         packet("ipv4", <<"s1">>, <<"x">>, "443", <<>>),
         packet("arp", <<"s1">>, <<"s2">>, "none", <<>>)}
MCOutside == {<<"d">>, <<"x">>}
MCReported == {<<"a", "b">>, <<"d">>, <<"x">>}
MCAllowed == {<<"x">>}

\* The requests and the schedules of every part have the same names.
Interchangeable == Permutations(Requests)

Init ==
    /\ part \in {"alerts", "incidents", "registry", "scheduler", "ueba", "capture",
                "search"}
    /\ AlertsInit /\ IncidentsInit /\ RegistryInit /\ SchedulerInit /\ UebaInit
    /\ CaptureInit /\ SearchInit
    /\ part # "capture" => tool = "parser"

Next ==
    \/ /\ part = "alerts" /\ AlertsNext
       /\ UNCHANGED <<part, incidentsVars, registryVars, schedulerVars, uebaVars,
                      captureVars, searchVars>>
    \/ /\ part = "incidents" /\ IncidentsNext
       /\ UNCHANGED <<part, alertsVars, registryVars, schedulerVars, uebaVars,
                      captureVars, searchVars>>
    \/ /\ part = "registry" /\ RegistryNext
       /\ UNCHANGED <<part, alertsVars, incidentsVars, schedulerVars, uebaVars,
                      captureVars, searchVars>>
    \/ /\ part = "scheduler" /\ SchedulerNext
       /\ UNCHANGED <<part, alertsVars, incidentsVars, registryVars, uebaVars,
                      captureVars, searchVars>>
    \/ /\ part = "ueba" /\ UebaNext
       /\ UNCHANGED <<part, alertsVars, incidentsVars, registryVars, schedulerVars,
                      captureVars, searchVars>>
    \/ /\ part = "capture" /\ CaptureNext
       /\ UNCHANGED <<part, alertsVars, incidentsVars, registryVars, schedulerVars, uebaVars,
                      searchVars>>
    \/ /\ part = "search" /\ SearchNext
       /\ UNCHANGED <<part, alertsVars, incidentsVars, registryVars, schedulerVars, uebaVars,
                      captureVars>>

Spec == Init /\ [][Next]_vars

\* Every row and every request is of its kind, in the part that moves.
SiemTypeOK ==
    /\ part = "alerts" => AlertsTypeOK
    /\ part = "incidents" => IncidentsTypeOK
    /\ part = "registry" => RegistryTypeOK
    /\ part = "scheduler" => SchedulerTypeOK
    /\ part = "ueba" => UebaTypeOK
    /\ part = "capture" => CaptureTypeOK
    /\ part = "search" => SearchTypeOK
=============================================================================
