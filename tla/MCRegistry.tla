----------------------------- MODULE MCRegistry -----------------------------
(* Parts of the configuration service and of what talks to it, each in a     *)
(* small instance: PVs and their owners, the health of PVs, the sync of the   *)
(* registry with the worker, and the PVs of a device class.  In a behaviour   *)
(* one of them moves (part).                                                 *)
EXTENDS Naturals, Sequences, TLC

CONSTANTS d1, d2, v1, v2, f1, f2, r1, r2, nobody, missing, unread

VARIABLES
    part,
    up, known, index, alone, rows, store, busy, updates, requests, revived,
    control, posts, service, registered, records, puts, mishaps, tally,
    table, held, reported, prefetched, sync, late, counts, read,
    graph, profile, phase, walked, address, static, live, listed

owning  == <<up, known, index, alone, rows, store, busy, updates, requests, revived>>
health  == <<control, posts, service, registered, records, puts, mishaps, tally>>
syncing == <<table, held, reported, prefetched, sync, late, counts, read>>
classes == <<graph, profile, phase, walked, address, static, live, listed>>
registryVars == <<owning, health, syncing, classes>>

V == INSTANCE PvRegistry WITH
    Device <- {d1, d2}, Pv <- {v1, v2}, Nobody <- nobody, Missing <- missing,
    Profile <- (d1 :> {v1}) @@ (d2 :> missing), MaxRequests <- 4, MaxStarts <- 2,
    devices <- known

Z == INSTANCE PvHealth WITH
    Pv <- {v1}, Report <- {r1, r2}, MaxPuts <- 5, MaxChanges <- 3,
    changes <- mishaps, outcomes <- tally

RowOf(def, active, tag) == [def |-> def, active |-> active, tag |-> tag]

(* An empty registry; one that a sync wrote, with a device disabled later;    *)
(* and one from a profile, that differs from what the worker reports.         *)
Tables == {
    [registry |-> (d1 :> missing) @@ (d2 :> missing), worker |-> (d1 :> f1) @@ (d2 :> f1)],
    [registry |-> (d1 :> RowOf(f1, TRUE, "sync")) @@ (d2 :> RowOf(f2, FALSE, "null")), worker |-> (d1 :> f1) @@ (d2 :> f1)],
    [registry |-> (d1 :> RowOf(f2, TRUE, "null")) @@ (d2 :> missing), worker |-> (d1 :> missing) @@ (d2 :> f1)]}

Y == INSTANCE RegistrySync WITH
    Device <- {d1, d2}, Def <- {f1, f2}, Missing <- missing, Unread <- unread, First <- Tables,
    MaxAttempts <- 2, MaxFaults <- 2, MaxEdits <- 1, MaxSyncs <- 2,
    registry <- table, locked <- held, worker <- reported, seen <- read

(* Class A has the component under test and a plain signal; B is what A may   *)
(* hold; N and K are of ophyd-async, H is not importable.                     *)
Part(kind, cls, suffix, add, form) ==
    [kind |-> kind, cls |-> cls, suffix |-> suffix, add |-> add, form |-> form, scheme |-> "known"]

Plain(suffix) == Part("component", "signal", suffix, TRUE, "none")

Upper == {missing, Part("component", "B", <<"b">>, TRUE, "none"), Part("component", "B", <<"X:">>, FALSE, "none"),
          Part("dynamic", "B", <<>>, TRUE, "none"), Part("formatted", "B", <<"f">>, TRUE, "self"),
          Part("component", "A", <<"a">>, TRUE, "none"), Part("attribute", "A", <<>>, TRUE, "none")}

Lower == {missing, Plain(<<"s">>), Plain(missing), Part("component", "signal", <<"X:", "s">>, FALSE, "none"),
          Part("formatted", "signal", <<"f">>, TRUE, "none"), Part("formatted", "signal", <<"f">>, FALSE, "none"),
          Part("formatted", "signal", <<"f">>, TRUE, "parent"), Part("component", "A", <<"a">>, TRUE, "none")}

ClassSets == {
    [c \in {"A", "B", "N", "H", "K"} |->
        CASE c = "A" -> [x |-> top, y |-> Plain(<<"s", "1">>)]
          [] c = "B" -> [x |-> low, y |-> missing]
          [] OTHER   -> [x |-> Plain(<<"n">>), y |-> [Plain(<<"n">>) EXCEPT !.scheme = "other"]]]
    : top \in Upper, low \in Lower}

U == INSTANCE ClassPaths WITH
    Class <- {"A", "B", "N", "H", "K"}, Attr <- {"x", "y"}, Signal <- "signal",
    Async <- {"N", "K"}, Broken <- {"K"}, Hidden <- {"H"}, Colons <- {"P:", "X:"}, MaxDepth <- 3, None <- missing,
    Graph <- ClassSets,
    Entries <- [cls : {"A", "N", "H", "K"}, like : {"motor", "other"}, arg : {missing, <<"P:">>, <<"p">>}, field : {missing, <<"P:">>}],
    entry <- profile, pvs <- walked

RegistryParts == {"owners", "health", "sync", "classes"}

RegistryInit ==
    /\ V!Init /\ Z!Init
    /\ Y!Init /\ (part # "sync" => table = [d \in {d1, d2} |-> missing])
    /\ IF part = "classes" THEN U!Init
       ELSE /\ graph = << >> /\ profile = missing /\ phase = "start"
            /\ walked = << >> /\ address = << >> /\ static = U!NoAnswer /\ live = U!NoAnswer /\ listed = missing

RegistryNext ==
    \/ part = "owners"  /\ V!Next /\ UNCHANGED <<part, health, syncing, classes>>
    \/ part = "health"  /\ Z!Next /\ UNCHANGED <<part, owning, syncing, classes>>
    \/ part = "sync"    /\ Y!Next /\ UNCHANGED <<part, owning, health, classes>>
    \/ part = "classes" /\ U!Next /\ UNCHANGED <<part, owning, health, syncing>>

(* Who owns a PV, and how healthy it is, is what the requests made of it.    *)
RegistryPvsTrue ==
    /\ part = "owners"  => V!RegistryTrue
    /\ part = "health"  => Z!PvHealthTrue
    /\ part = "classes" => U!ClassPathsTrue

(* A sync writes what its strategy names and says what it wrote.             *)
RegistrySyncTrue == part = "sync" => Y!RegistrySyncTrue
=============================================================================
