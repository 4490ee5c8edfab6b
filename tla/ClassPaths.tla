------------------------------ MODULE ClassPaths ------------------------------
(* From a dotted address to a process variable: the PVs that                  *)
(* configuration_service indexes when it loads a device (loader.py), what its *)
(* resolver answers from the classes alone (path_resolver.py), and what        *)
(* direct control finds on a live object (main.py).  All three walk the same   *)
(* components.  A PV is a sequence of parts; an address a sequence of          *)
(* attributes of a device.                                                    *)
EXTENDS Naturals, Sequences, FiniteSets

CONSTANTS
    Class, Attr,
    Async,          \* classes of ophyd-async
    Broken,         \* classes that raise when they are instantiated
    Hidden,         \* classes that cannot be imported
    Signal,         \* a class of signals: no device
    None,           \* no attribute; no suffix; no prefix
    Colons,         \* parts of PVs with a colon
    Graph,          \* sets of classes: Class -> Attr -> component or None
    Entries,        \* of the happi file: cls, like, arg, field
    MaxDepth        \* of addresses

VARIABLES graph, entry, phase, pvs, address, static, live, listed

vars == <<graph, entry, phase, pvs, address, static, live, listed>>

(* A component: kind, class, suffix, whether the prefix of its owner is added, *)
(* what its format asks for, and the scheme of an ophyd-async source.          *)
Is(c, kind) == c # None /\ c.kind = kind

Paths == UNION {[1..n -> Attr] : n \in 1..MaxDepth}

Fold(Step(_, _), start, path) ==
    LET w[i \in 0..Len(path)] == IF i = 0 THEN start ELSE Step(w[i - 1], path[i])
    IN  w[Len(path)]

At(cls, a) == IF cls \in Class THEN graph[cls][a] ELSE None

-----------------------------------------------------------------------------
(* _resolve_component_pv: the PV of a component, from its class alone.        *)
Static_IgnoresAdd(c, prefix) ==
    CASE c.suffix = None                            -> [outcome |-> "no_such_attr", pv |-> None]
      [] c.suffix # None /\ c.kind = "formatted" /\ c.form # "none" ->
            [outcome |-> "needs_enrichment", pv |-> None]
      [] OTHER                                      -> [outcome |-> "resolved", pv |-> prefix \o c.suffix]

Static(c, prefix) ==
    CASE c.suffix = None                            -> [outcome |-> "no_such_attr", pv |-> None]
      [] c.suffix # None /\ c.kind = "formatted" /\ c.form # "none" ->
            [outcome |-> "needs_enrichment", pv |-> None]
      [] OTHER                                      -> [outcome |-> "resolved",
                                                        pv |-> IF c.add THEN prefix \o c.suffix ELSE c.suffix]

-----------------------------------------------------------------------------
(* The loader enumerates the signals of a class.  It skips what it cannot     *)
(* tell, and refuses a class that comes back on the way to itself.            *)
Enters(s, cls, prefix) ==
    IF cls \in s.visited THEN [s EXCEPT !.at = "cycle"]
    ELSE [s EXCEPT !.cls = cls, !.prefix = prefix, !.visited = @ \cup {cls}]

LoadStep(s, a) ==
    LET c == At(s.cls, a)
    IN  CASE s.at # "inside"                                   -> IF s.at = "cycle" THEN s ELSE [s EXCEPT !.at = "skipped"]
          [] s.at = "inside" /\ (c = None \/ Is(c, "attribute")) -> [s EXCEPT !.at = "skipped"]
          [] s.at = "inside" /\ Is(c, "dynamic")               -> Enters(s, c.cls, s.prefix)
          [] OTHER ->
                LET r == Static(c, s.prefix)
                IN  CASE r.outcome # "resolved"                -> [s EXCEPT !.at = "skipped"]
                      [] r.outcome = "resolved" /\ c.cls = Signal -> [s EXCEPT !.at = "signal", !.prefix = r.pv]
                      [] OTHER                                 -> Enters(s, c.cls, r.pv)

Loaded(cls, prefix, path) ==
    Fold(LoadStep, [at |-> "inside", cls |-> cls, prefix |-> prefix, visited |-> {cls}], path)

Walkable(cls) == cls \notin Hidden \cup Async

Cyclic(cls) == Walkable(cls) /\ \E p \in Paths : Loaded(cls, << >>, p).at = "cycle"

Walked(cls, prefix) ==
    [p \in {q \in Paths : Walkable(cls) /\ Loaded(cls, prefix, q).at = "signal"} |-> Loaded(cls, prefix, p).prefix]

(* The PVs of a device as the pattern of its class says.                      *)
Prefix(pv)  == [p \in {<<"prefix">>} |-> pv]
Colon(pv)   == pv # None /\ \E i \in 1..Len(pv) : pv[i] \in Colons

Derived(e) ==
    CASE e.arg = None                      -> [p \in {} |-> << >>]
      [] e.arg # None /\ e.like = "motor"  -> [p \in {<<"user_setpoint">>, <<"user_readback">>} |->
                                                  IF p = <<"user_setpoint">> THEN e.arg ELSE e.arg \o <<".RBV">>]
      [] e.arg # None /\ e.like = "signal" -> [p \in {<<"readback">>} |-> e.arg]
      [] OTHER                             -> IF Colon(e.arg) THEN Prefix(e.arg) ELSE [p \in {} |-> << >>]

WalkPrefix(e) == IF e.arg # None THEN e.arg ELSE e.field

Walks(e) == WalkPrefix(e) # None /\ DOMAIN Derived(e) \subseteq {<<"prefix">>}

Indexed(e) ==
    LET walked == IF Walks(e) THEN Walked(e.cls, WalkPrefix(e)) ELSE [p \in {} |-> << >>]
        found  == IF DOMAIN walked # {} THEN walked ELSE Derived(e)
    IN  IF DOMAIN found = {} /\ e.field # None THEN Prefix(e.field) ELSE found

-----------------------------------------------------------------------------
(* The prefix that a device was made with, as both services guess it.         *)
Begins(p, s) == Len(p) <= Len(s) /\ SubSeq(s, 1, Len(p)) = p

Common(s) ==
    LET one == CHOOSE pv \in s : TRUE
        n   == CHOOSE k \in 0..Len(one) :
                   /\ \A pv \in s : Begins(SubSeq(one, 1, k), pv)
                   /\ \A j \in (k + 1)..Len(one) : ~ \A pv \in s : Begins(SubSeq(one, 1, j), pv)
    IN  IF n = 0 THEN None ELSE SubSeq(one, 1, n)

GuessedPrefix(e, table) ==
    LET values == {table[p] : p \in DOMAIN table}
    IN  CASE <<"prefix">> \in DOMAIN table                        -> table[<<"prefix">>]
          [] <<"prefix">> \notin DOMAIN table /\ Colon(e.arg)     -> e.arg
          [] OTHER                                                -> IF values = {} THEN None ELSE Common(values)

-----------------------------------------------------------------------------
(* The resolver: from the class, or for ophyd-async from an instance of it.   *)
Answer(outcome, pv) == [outcome |-> outcome, pv |-> pv]

StaticStep(s, a) ==
    LET c == At(s.cls, a)
    IN  CASE s.outcome # "resolved"                                       -> s
          [] s.outcome = "resolved" /\ (c = None \/ Is(c, "attribute"))   -> [s EXCEPT !.outcome = "no_such_attr"]
          [] s.outcome = "resolved" /\ Is(c, "dynamic")                   -> [s EXCEPT !.cls = c.cls, !.leaf = FALSE]
          [] OTHER -> [outcome |-> Static(c, s.prefix).outcome, prefix |-> Static(c, s.prefix).pv,
                       cls |-> c.cls, leaf |-> TRUE]

FromClass(cls, prefix, path) ==
    LET s == Fold(StaticStep, [outcome |-> "resolved", cls |-> cls, prefix |-> prefix, leaf |-> TRUE], path)
    IN  CASE s.outcome = "resolved" /\ s.leaf  -> Answer("resolved", s.prefix)
          [] s.outcome = "resolved" /\ ~s.leaf -> Answer("no_such_attr", None)
          [] OTHER                             -> Answer(s.outcome, None)

(* Signals of ophyd-async tell their source: a scheme, stripped whatever it is. *)
AsyncStep(s, a) ==
    LET c == At(s.cls, a)
    IN  CASE s.outcome # "resolved" \/ c = None -> [s EXCEPT !.outcome = "no_such_attr"]
          [] s.outcome = "resolved" /\ Is(c, "attribute") -> [s EXCEPT !.cls = None, !.source = None]
          [] OTHER -> [s EXCEPT !.cls = c.cls, !.prefix = @ \o c.suffix,
                                !.source = IF c.cls = Signal THEN c.scheme ELSE None]

FromSource(cls, prefix, path) ==
    Fold(AsyncStep, [outcome |-> "resolved", cls |-> cls, prefix |-> prefix, source |-> None], path)

Resolve(e, prefix, path) ==
    CASE e.cls \in Hidden             -> Answer("import_failed", None)
      [] e.cls \in Async \ Hidden     ->
            LET s == FromSource(e.cls, prefix, path)
            IN  CASE e.cls \in Broken                      -> Answer("import_failed", None)
                  [] e.cls \notin Broken /\ (s.outcome # "resolved" \/ s.source = None) -> Answer("no_such_attr", None)
                  [] OTHER                                 -> Answer("resolved", s.prefix)
      [] OTHER                         -> FromClass(e.cls, prefix, path)

(* The registry is read first; the classes are walked in a thread.            *)
Prepared(e, table) ==
    [early |-> IF GuessedPrefix(e, table) = None THEN {Answer("import_failed", None)} ELSE {},
     prefix |-> GuessedPrefix(e, table)]

Executed(e, prepared, path) ==
    IF prepared.early # {} THEN CHOOSE answer \in prepared.early : TRUE ELSE Resolve(e, prepared.prefix, path)

-----------------------------------------------------------------------------
(* A live object of classic ophyd: formats are filled in, and what a format   *)
(* gives is not prefixed.                                                     *)
LivePv(c, s) ==
    CASE c.kind = "formatted" /\ c.add -> (CASE c.form = "self"   -> s.prefix \o c.suffix
                                             [] c.form = "parent" -> s.above \o c.suffix
                                             [] OTHER             -> c.suffix)
      [] c.kind # "formatted" /\ c.add -> s.prefix \o c.suffix
      [] OTHER                         -> c.suffix

LiveStep(s, a) ==
    LET c == At(s.cls, a)
        unformatted == Is(c, "formatted") /\ c.form = "parent" /\ s.above = None
    IN  CASE s.outcome # "resolved" \/ c = None \/ unformatted -> [s EXCEPT !.outcome = "no_such_attr"]
          [] s.outcome = "resolved" /\ Is(c, "attribute")      -> [s EXCEPT !.cls = None]
          [] s.outcome = "resolved" /\ Is(c, "dynamic")        -> [s EXCEPT !.cls = c.cls, !.above = s.prefix]
          [] s.outcome = "resolved" /\ c.suffix = None         -> [s EXCEPT !.cls = None]
          [] OTHER -> [s EXCEPT !.cls = c.cls, !.prefix = LivePv(c, s), !.above = s.prefix]

FromObject(cls, prefix, path) ==
    LET s == Fold(LiveStep, [outcome |-> "resolved", cls |-> cls, prefix |-> prefix, above |-> None], path)
    IN  CASE s.outcome # "resolved"                     -> Answer("no_such_attr", None)
          [] s.outcome = "resolved" /\ s.cls # Signal   -> Answer("not_a_pv_leaf", None)
          [] OTHER                                      -> Answer("resolved", s.prefix)

(* Direct control strips the schemes that it knows.                           *)
Find(e, prefix, path) ==
    CASE prefix = None                                     -> Answer("no_prefix", None)
      [] prefix # None /\ e.cls \in Hidden \cup Broken     -> Answer("instantiation_failed", None)
      [] prefix # None /\ e.cls \in Async \ (Hidden \cup Broken) ->
            LET s == FromSource(e.cls, prefix, path)
            IN  CASE s.outcome # "resolved"                -> Answer("no_such_attr", None)
                  [] s.outcome = "resolved" /\ s.source = None -> Answer("not_a_pv_leaf", None)
                  [] OTHER -> Answer("resolved", IF s.source = "known" THEN s.prefix ELSE <<s.source>> \o s.prefix)
      [] OTHER                                             -> FromObject(e.cls, prefix, path)

-----------------------------------------------------------------------------
NoAnswer == Answer("none", None)

Init ==
    /\ graph \in Graph /\ entry \in Entries /\ phase = "start"
    /\ pvs = [p \in {} |-> << >>] /\ address = << >> /\ static = NoAnswer /\ live = NoAnswer /\ listed = None

(* An entry whose class cannot be walked makes the whole load fail.           *)
Loads ==
    /\ phase = "start"
    /\ IF Walks(entry) /\ Cyclic(entry.cls) THEN phase' = "refused" /\ UNCHANGED pvs
       ELSE phase' = "loaded" /\ pvs' = Indexed(entry)
    /\ UNCHANGED <<graph, entry, address, static, live, listed>>

(* One question in a behaviour: an answer depends on none before it.          *)
Asks(path) ==
    /\ phase = "loaded" /\ static = NoAnswer /\ address' = path
    /\ static' = Executed(entry, Prepared(entry, pvs), path) /\ live' = NoAnswer /\ listed' = None
    /\ UNCHANGED <<graph, entry, phase, pvs>>

(* The same address, asked of direct control.                                *)
AsksLive ==
    /\ static # NoAnswer /\ live = NoAnswer
    /\ live' = Find(entry, GuessedPrefix(entry, pvs), address)
    /\ UNCHANGED <<graph, entry, phase, pvs, address, static, listed>>

(* The components of a device, to a depth (0 is all), and one of them.        *)
Components(table, depth) == {p \in DOMAIN table : depth = 0 \/ Len(p) <= depth}

Component(table, path) == IF path \in DOMAIN table THEN table[path] ELSE None

AsksComponent ==
    /\ live # NoAnswer /\ listed = None
    /\ \E depth \in 0..MaxDepth :
           listed' = [depth |-> depth, all |-> Components(pvs, depth), pv |-> Component(pvs, address)]
    /\ UNCHANGED <<graph, entry, phase, pvs, address, static, live>>

Next == Loads \/ AsksLive \/ AsksComponent \/ \E path \in Paths : Asks(path)

Spec == Init /\ [][Next]_vars

-----------------------------------------------------------------------------
TypeOK ==
    /\ phase \in {"start", "loaded", "refused"}
    /\ static.outcome \in {"none", "resolved", "no_such_attr", "needs_enrichment", "import_failed"}

(* What the loader has indexed is what the resolver answers, if the device    *)
(* says what it was made with (an argument with a colon).                     *)
IndexedResolves ==
    live # NoAnswer /\ Colon(entry.arg) /\ Walks(entry) =>
        IF address \in DOMAIN pvs THEN static = Answer("resolved", pvs[address])
        ELSE static.outcome = "resolved" => live.outcome # "resolved" \/ entry.cls \in Async

(* A component that is listed is one that can be asked for, and the PV that is  *)
(* told for it is the one that the address resolves to.                       *)
ListedResolves ==
    listed # None =>
        /\ address \in listed.all => listed.pv # None
        /\ listed.pv # None /\ Colon(entry.arg) /\ Walks(entry) => static = Answer("resolved", listed.pv)
        /\ Len(address) <= listed.depth /\ address \notin listed.all => listed.pv = None

(* The components on the way whose formats have nothing to fill in.           *)
Fixed(path) ==
    \E i \in 1..Len(path) :
        LET s == Fold(LiveStep, [outcome |-> "resolved", cls |-> entry.cls, prefix |-> << >>, above |-> << >>], SubSeq(path, 1, i - 1))
            c == At(s.cls, path[i])
        IN  Is(c, "formatted") /\ c.form = "none" /\ c.add

Strange(path) == entry.cls \in Async /\ FromSource(entry.cls, << >>, path).source \notin {"known", None}

(* A PV that is told from the class is the one the live device has; and what  *)
(* the class cannot tell is said so, never guessed.                           *)
StaticIsLive ==
    live # NoAnswer /\ ~Fixed(address) /\ ~Strange(address) =>
        /\ static.outcome = "resolved" /\ entry.cls \notin Broken => live = static \/ live.outcome = "not_a_pv_leaf"
        /\ live.outcome = "resolved" => static = live \/ static.outcome = "needs_enrichment"

ClassPathsTrue == TypeOK /\ IndexedResolves /\ ListedResolves /\ StaticIsLive
=============================================================================
