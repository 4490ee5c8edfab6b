------------------------- MODULE DirectControlProofs -------------------------
(***************************************************************************)
(* The parts of MCServices from direct_control that are proved: the gate    *)
(* before a write to a PV (G), for any PVs, devices, statuses, batches and  *)
(* lifetimes of the caches; the commands to a device (D), for any requests,  *)
(* kinds and bounds; and the watch on a PV with its sockets (S), for any      *)
(* clients.                                                                *)
(***************************************************************************)
EXTENDS MCServices, FiniteSetTheorems, TLAPS

-----------------------------------------------------------------------------
(* The gate before a write to a PV.                                        *)

(* Statuses, owners and answers are told apart; "locked" is a status that   *)
(* refuses; there is a device.                                             *)
GateNames ==
    /\ Device # {} /\ none \notin Device \cup {"missing", "down", "no answer"}
    /\ Device \cap {"missing", "down", "no answer"} = {}
    /\ "locked" \in Blocks
    /\ Blocks \cap {"available", "absent", "free", "missing", "down", "ok", "failed", "limit"} = {}
    /\ TTL \in Nat
    /\ \A r \in Request : Batches[r] \subseteq Seq(Pv)

Facts    == Blocks \cup {"free", "missing", "down", "absent"}
GateStep == {"pv", "owner", "check", "put"}
Asking   == [at : GateStep \cup {"none", "done"}, todo : Seq(Pv), n : Nat,
             answer : Device \cup {none, "missing", "down", "no answer"}, target : Device \cup {none},
             stable : BOOLEAN, warned : BOOLEAN, seen : SUBSET Facts]

GateTypes ==
    /\ authority \in [owner : [Pv -> Device \cup {none, "missing"}],
                      status : [Device -> Blocks \cup {"available", "absent"}], up : BOOLEAN]
    /\ time \in Nat /\ moved \in [Pv -> Nat] /\ gone \subseteq Pv
    /\ pvs \in [Pv -> [exists : BOOLEAN, at : Nat]]
    /\ owners \in [Pv -> [owner : Device \cup {none}, at : Nat]]
    /\ req \in [Request -> Asking]

(* What is cached is past, and true if it is younger than the last change   *)
(* of the owner; only a registered device owns.                            *)
CachesTrue ==
    \A v \in Pv :
        /\ moved[v] <= time /\ pvs[v].at <= time /\ owners[v].at <= time
        /\ authority.owner[v] \in Device => authority.status[authority.owner[v]] # "absent"
        /\ moved[v] < pvs[v].at => (pvs[v].exists <=> authority.owner[v] # "missing")
        /\ moved[v] < owners[v].at => owners[v].owner = authority.owner[v]

(* What a request at work knows of the PV it is about.                     *)
Sound(x) ==
    /\ x.todo # << >> <=> x.at \in GateStep
    /\ x.answer # "no answer" => x.at \in {"pv", "owner"}
    /\ x.todo # << >> =>
           /\ G!Conditions(authority, Head(x.todo)) \subseteq x.seen
           /\ x.answer = "down" => "down" \in x.seen
           /\ x.answer \in Device \cup {none, "missing"} =>
                  x.answer = authority.owner[Head(x.todo)] \/ moved[Head(x.todo)] = time
           /\ x.stable =>
                  /\ moved[Head(x.todo)] + TTL < time
                  /\ x.at \in {"owner", "check", "put"} => authority.owner[Head(x.todo)] # "missing"
                  /\ x.at = "check" => x.target = authority.owner[Head(x.todo)]
                  /\ x.at = "put" => "free" \in x.seen

(* A request that began when its PV was known to be gone, and has not been  *)
(* registered since, gets no further than the first look-up.               *)
Hopeless(x) == x.todo # << >> /\ x.warned /\ x.seen \subseteq {"missing", "down"}

HopeLost ==
    \A r \in Request : Hopeless(req[r]) => req[r].at = "pv" /\ ~ pvs[Head(req[r].todo)].exists

GoneKnown == \A v \in gone : authority.owner[v] = "missing" /\ ~ pvs[v].exists

AnswersNew ==
    \A r \in Request :
        req[r].todo # << >> /\ req[r].answer \in Device \cup {none} =>
            /\ Head(req[r].todo) \notin gone
            /\ \A q \in Request : Hopeless(req[q]) => Head(req[q].todo) # Head(req[r].todo)

(* The items of a batch before the present one have been written.          *)
HasWritten(r, n) == \E o \in ended : o.req = r /\ o.n = n /\ o.ok /\ o.landed

EndedTrue == G!WritesAllowed /\ G!RefusalsTrue /\ G!DeletedIsNoticed

GateInv ==
    /\ GateTypes /\ CachesTrue /\ HopeLost /\ GoneKnown /\ AnswersNew /\ EndedTrue
    /\ \A r \in Request : Sound(req[r]) /\ \A n \in 1..req[r].n - 1 : HasWritten(r, n)
    /\ \A o \in ended : \A n \in 1..o.n - 1 : HasWritten(o.req, n)

LEMMA ConditionsAre ==
  ASSUME GateNames, NEW v \in Pv,
         NEW a \in [owner : [Pv -> Device \cup {none, "missing"}],
                    status : [Device -> Blocks \cup {"available", "absent"}], up : BOOLEAN]
  PROVE  /\ G!Conditions(a, v) \subseteq Facts
         /\ a.owner[v] = "missing" => "missing" \in G!Conditions(a, v)
         /\ ~ a.up => "down" \in G!Conditions(a, v)
         /\ a.up /\ a.owner[v] = none => "free" \in G!Conditions(a, v)
         /\ a.owner[v] \in Device =>
                /\ a.up /\ a.status[a.owner[v]] = "available" => "free" \in G!Conditions(a, v)
                /\ a.status[a.owner[v]] \in Blocks => a.status[a.owner[v]] \in G!Conditions(a, v)
         /\ a.up /\ a.owner[v] # "missing" =>
                \E c \in G!Conditions(a, v) : c \notin {"missing", "down"}
<1> USE DEF GateNames
<1> DEFINE f == G!Fact(a, v)
           c == G!Conditions(a, v)
<1>0. \/ a.up /\ c = {f}
      \/ ~ a.up /\ c = {"down"} \cup ({f} \ {"free"})
  BY DEF G!Conditions, G!Down
<1>1. a.owner[v] \in Device \cup {none, "missing"}
  OBVIOUS
<1>2. CASE a.owner[v] = "missing"
  <2>1. f = "missing"
    BY <1>2 DEF G!Fact
  <2> HIDE DEF f, c
  <2>2. QED
    BY <1>0, <1>2, <2>1 DEF Facts, c
<1>3. CASE a.owner[v] = none
  <2>1. f = "free"
    BY <1>3 DEF G!Fact
  <2> HIDE DEF f, c
  <2>2. QED
    BY <1>0, <1>3, <2>1 DEF Facts, c
<1>4. CASE a.owner[v] \in Device
  <2> DEFINE s == a.status[a.owner[v]]
  <2>1. f = IF s = "available" THEN "free" ELSE s
    <3>1. a.owner[v] # "missing" /\ a.owner[v] # none
      BY <1>4
    <3>2. QED
      BY <3>1 DEF G!Fact
  <2>2. s \in Blocks \cup {"available", "absent"} /\ a.owner[v] \notin {none, "missing"}
    BY <1>4
  <2> HIDE DEF f, c, s
  <2>3. /\ c \subseteq Facts /\ (~ a.up => "down" \in c)
        /\ a.up /\ s = "available" => "free" \in c
        /\ s \in Blocks => s \in c
        /\ a.up => \E e \in c : e \notin {"missing", "down"}
    BY <1>0, <2>1, <2>2 DEF Facts
  <2>4. QED
    BY <2>2, <2>3 DEF s, c
<1>5. QED
  BY <1>1, <1>2, <1>3, <1>4

LEMMA HeadIsPv ==
  ASSUME GateTypes
  PROVE  \A r \in Request : req[r] \in Asking /\ (req[r].todo # << >> => Head(req[r].todo) \in Pv)
<1> SUFFICES ASSUME NEW r \in Request
             PROVE  req[r] \in Asking /\ (req[r].todo # << >> => Head(req[r].todo) \in Pv)
  OBVIOUS
<1>1. req[r] \in Asking
  BY DEF GateTypes
<1>2. req[r].todo \in Seq(Pv)
  BY <1>1 DEF Asking
<1>3. QED
  BY <1>1, <1>2

LEMMA GateInitInv == ASSUME GateNames, G!Init PROVE GateInv
<1>1. PICK status \in [Device -> {"available", "locked"}] :
          authority = [owner |-> [p \in Pv |-> CHOOSE d \in Device : TRUE], status |-> status, up |-> TRUE]
  BY DEF G!Init
<1>2. /\ time = TTL + 1 /\ pvs = [v \in Pv |-> G!NoPv] /\ owners = [v \in Pv |-> G!NoOwner]
      /\ req = [r \in Request |-> G!Idle] /\ ended = {} /\ moved = [v \in Pv |-> 0] /\ gone = {}
  BY DEF G!Init
<1>3. GateTypes
  <2>1. (CHOOSE d \in Device : TRUE) \in Device
    BY DEF GateNames
  <2>2. status \in [Device -> Blocks \cup {"available", "absent"}]
    BY DEF GateNames
  <2>3. [p \in Pv |-> CHOOSE d \in Device : TRUE] \in [Pv -> Device \cup {none, "missing"}]
    BY <2>1
  <2>4. authority \in [owner : [Pv -> Device \cup {none, "missing"}],
                       status : [Device -> Blocks \cup {"available", "absent"}], up : BOOLEAN]
    BY <1>1, <2>2, <2>3, Zenon
  <2>5. G!Idle \in Asking
    BY DEF G!Idle, G!NoAnswer, Asking
  <2>6. time \in Nat /\ moved \in [Pv -> Nat] /\ gone \subseteq Pv
    <3>1. TTL \in Nat
      BY DEF GateNames
    <3>2. QED
      BY <1>2, <3>1
  <2>7. pvs \in [Pv -> [exists : BOOLEAN, at : Nat]] /\ owners \in [Pv -> [owner : Device \cup {none}, at : Nat]]
    BY <1>2 DEF G!NoPv, G!NoOwner
  <2>8. req \in [Request -> Asking]
    BY <1>2, <2>5
  <2>9. QED
    BY <2>4, <2>6, <2>7, <2>8 DEF GateTypes
<1>4. CachesTrue
  <2>1. \A v \in Pv : authority.owner[v] \in Device =>
            authority.status[authority.owner[v]] \in {"available", "locked"}
    BY <1>1
  <2>2. \A v \in Pv : moved[v] = 0 /\ pvs[v].at = 0 /\ owners[v].at = 0
    BY <1>2 DEF G!NoPv, G!NoOwner
  <2>3. QED
    BY <1>3, <2>1, <2>2 DEF CachesTrue, GateTypes
<1>5. \A r \in Request : /\ req[r].n = 0 /\ req[r].todo = << >> /\ req[r].at = "none"
                         /\ req[r].answer = "no answer"
  BY <1>2 DEF G!Idle, G!NoAnswer
<1>6. HopeLost /\ GoneKnown /\ AnswersNew /\ \A r \in Request : Sound(req[r])
  BY <1>2, <1>5 DEF HopeLost, GoneKnown, AnswersNew, Hopeless, Sound, GateStep
<1>7. EndedTrue
  BY <1>2 DEF EndedTrue, G!WritesAllowed, G!RefusalsTrue, G!DeletedIsNoticed
<1>8. \A r \in Request : \A n \in 1..req[r].n - 1 : HasWritten(r, n)
  <2> SUFFICES ASSUME NEW r \in Request, NEW n \in 1..req[r].n - 1 PROVE FALSE
    OBVIOUS
  <2>1. req[r].n = 0
    BY <1>5
  <2>2. n \in 1..0 - 1
    BY <2>1
  <2>3. QED
    BY <2>2
<1>9. \A o \in ended : \A n \in 1..o.n - 1 : HasWritten(o.req, n)
  BY <1>2
<1>10. QED
  BY <1>3, <1>4, <1>6, <1>7, <1>8, <1>9 DEF GateInv

(* The authority changes: what was known before is no longer stable.       *)
LEMMA BecomesKeeps ==
  ASSUME GateNames, GateInv,
         NEW a \in [owner : [Pv -> Device \cup {none, "missing"}],
                    status : [Device -> Blocks \cup {"available", "absent"}], up : BOOLEAN],
         G!Becomes(a), \A v \in Pv : a.owner[v] \in Device => a.status[a.owner[v]] # "absent"
  PROVE  GateInv'
<1> DEFINE after_(x) == [x EXCEPT !.stable = @ /\ a.owner[Head(x.todo)] = authority.owner[Head(x.todo)],
                                !.seen = @ \cup G!Conditions(a, Head(x.todo))]
<1>1. /\ authority' = a /\ UNCHANGED <<time, pvs, owners, ended>>
      /\ moved' = [v \in Pv |-> IF a.owner[v] = authority.owner[v] THEN moved[v] ELSE time]
      /\ gone' = {v \in gone : a.owner[v] = "missing"}
      /\ req' = [r \in Request |-> IF req[r].todo = << >> THEN req[r] ELSE after_(req[r])]
  BY DEF G!Becomes, G!Active, G!PvOf
<1>2. GateTypes /\ CachesTrue
  BY DEF GateInv
<1>3. \A r \in Request : req[r] \in Asking /\ (req[r].todo # << >> => Head(req[r].todo) \in Pv)
  BY <1>2, HeadIsPv
<1>4. ASSUME NEW r \in Request
      PROVE  /\ req'[r] \in Asking
             /\ req'[r].at = req[r].at /\ req'[r].todo = req[r].todo /\ req'[r].n = req[r].n
             /\ req'[r].answer = req[r].answer /\ req'[r].target = req[r].target
             /\ req'[r].warned = req[r].warned /\ req[r].seen \subseteq req'[r].seen
             /\ req[r].todo # << >> =>
                   /\ G!Conditions(a, Head(req[r].todo)) \subseteq req'[r].seen
                   /\ req'[r].stable =>
                         req[r].stable /\ a.owner[Head(req[r].todo)] = authority.owner[Head(req[r].todo)]
  <2>1. CASE req[r].todo = << >>
    BY <1>1, <1>3, <2>1
  <2>2. CASE req[r].todo # << >>
    <3> DEFINE c == G!Conditions(a, Head(req[r].todo))
               b == a.owner[Head(req[r].todo)] = authority.owner[Head(req[r].todo)]
    <3>1. c \subseteq Facts
      BY <1>3, <2>2, ConditionsAre
    <3>2. req'[r] = [req[r] EXCEPT !.stable = @ /\ b, !.seen = @ \cup c]
      BY <1>1, <2>2
    <3> DEFINE still == req[r].stable /\ b
               sofar == req[r].seen \cup c
    <3>3. /\ still \in BOOLEAN /\ sofar \in SUBSET Facts
          /\ req'[r] = [req[r] EXCEPT !.stable = still, !.seen = sofar]
      <4>1. req[r].seen \in SUBSET Facts
        BY <1>3 DEF Asking
      <4>2. QED
        BY <3>1, <3>2, <4>1
    <3> HIDE DEF still, sofar
    <3>4. req'[r] \in Asking /\ req'[r].seen = sofar /\ req'[r].stable = still
      BY <1>3, <3>3 DEF Asking
    <3>5. /\ req'[r].at = req[r].at /\ req'[r].todo = req[r].todo /\ req'[r].n = req[r].n
          /\ req'[r].answer = req[r].answer /\ req'[r].target = req[r].target
          /\ req'[r].warned = req[r].warned
      BY <1>3, <3>3 DEF Asking
    <3>6. QED
      BY <2>2, <3>4, <3>5 DEF still, sofar
  <2>3. QED
    BY <2>1, <2>2
<1>5. GateTypes'
  <2>1. moved' \in [Pv -> Nat] /\ gone' \subseteq Pv
    BY <1>1, <1>2 DEF GateTypes
  <2>2. req' \in [Request -> Asking]
    BY <1>1, <1>4
  <2>3. QED
    BY <1>1, <1>2, <2>1, <2>2 DEF GateTypes
<1>6. CachesTrue'
  <2> SUFFICES ASSUME NEW v \in Pv
               PROVE  /\ moved'[v] <= time /\ pvs[v].at <= time /\ owners[v].at <= time
                      /\ a.owner[v] \in Device => a.status[a.owner[v]] # "absent"
                      /\ moved'[v] < pvs[v].at => (pvs[v].exists <=> a.owner[v] # "missing")
                      /\ moved'[v] < owners[v].at => owners[v].owner = a.owner[v]
    BY <1>1 DEF CachesTrue
  <2>1. /\ moved[v] <= time /\ pvs[v].at <= time /\ owners[v].at <= time
        /\ moved[v] < pvs[v].at => (pvs[v].exists <=> authority.owner[v] # "missing")
        /\ moved[v] < owners[v].at => owners[v].owner = authority.owner[v]
        /\ moved[v] \in Nat /\ time \in Nat /\ pvs[v].at \in Nat /\ owners[v].at \in Nat
    BY <1>2 DEF GateTypes, CachesTrue
  <2>2. CASE a.owner[v] = authority.owner[v]
    BY <1>1, <2>1, <2>2
  <2>3. CASE a.owner[v] # authority.owner[v]
    <3>1. moved'[v] = time
      BY <1>1, <2>3
    <3>2. QED
      BY <2>1, <3>1
  <2>4. QED
    BY <2>2, <2>3
<1>7. ASSUME NEW r \in Request
      PROVE  Sound(req[r])'
  <2>1. Sound(req[r])
    BY DEF GateInv
  <2>2. CASE req[r].todo = << >>
    BY <1>4, <2>1, <2>2 DEF Sound
  <2>3. CASE req[r].todo # << >>
    <3> DEFINE v == Head(req[r].todo)
    <3>1. v \in Pv /\ Head(req'[r].todo) = v /\ req'[r].todo # << >>
      BY <1>3, <1>4, <2>3
    <3> HIDE DEF v
    <3>a. moved' = [p \in Pv |-> IF a.owner[p] = authority.owner[p] THEN moved[p] ELSE time]
      BY <1>1
    <3>2. moved'[v] \in {moved[v], time} /\ (a.owner[v] # authority.owner[v] => moved'[v] = time)
          /\ (a.owner[v] = authority.owner[v] => moved'[v] = moved[v])
      BY <3>a, <3>1
    <3>3. moved'[v] = time \/ a.owner[v] = authority.owner[v]
      BY <3>a, <3>1
    <3>4. /\ G!Conditions(a, v) \subseteq req'[r].seen
          /\ req'[r].stable => req[r].stable /\ a.owner[v] = authority.owner[v]
      BY <1>4, <2>3 DEF v
    <3>5. /\ req[r].answer = "down" => "down" \in req[r].seen
          /\ req[r].answer \in Device \cup {none, "missing"} => req[r].answer = authority.owner[v] \/ moved[v] = time
          /\ req[r].stable =>
                  /\ moved[v] + TTL < time
                  /\ req[r].at \in {"owner", "check", "put"} => authority.owner[v] # "missing"
                  /\ req[r].at = "check" => req[r].target = authority.owner[v]
                  /\ req[r].at = "put" => "free" \in req[r].seen
      BY <2>1, <2>3 DEF Sound, v
    <3>6. /\ req'[r].answer = "down" => "down" \in req'[r].seen
          /\ req'[r].answer \in Device \cup {none, "missing"} => req'[r].answer = a.owner[v] \/ moved'[v] = time
      BY <1>4, <3>2, <3>3, <3>5
    <3>7. req'[r].stable =>
                  /\ moved'[v] + TTL < time
                  /\ req'[r].at \in {"owner", "check", "put"} => a.owner[v] # "missing"
                  /\ req'[r].at = "check" => req'[r].target = a.owner[v]
                  /\ req'[r].at = "put" => "free" \in req'[r].seen
      BY <1>4, <3>2, <3>4, <3>5
    <3>8. /\ req'[r].todo # << >> <=> req'[r].at \in GateStep
          /\ req'[r].answer # "no answer" => req'[r].at \in {"pv", "owner"}
      BY <1>4, <2>1 DEF Sound
    <3>9. QED
      BY <1>1, <3>1, <3>4, <3>6, <3>7, <3>8 DEF Sound
  <2>4. QED
    BY <2>2, <2>3
<1>8. \A r \in Request : Hopeless(req'[r]) => Hopeless(req[r])
  BY <1>4 DEF Hopeless
<1>9. HopeLost'
  <2>1. \A r \in Request : Hopeless(req[r])' => Hopeless(req'[r])
    BY DEF Hopeless
  <2>2. QED
    <3> SUFFICES ASSUME NEW r \in Request, Hopeless(req[r])
                 PROVE  req'[r].at = "pv" /\ ~ pvs[Head(req'[r].todo)].exists
      BY <1>1, <1>8, <2>1 DEF HopeLost
    <3>1. req[r].at = "pv" /\ ~ pvs[Head(req[r].todo)].exists
      BY DEF GateInv, HopeLost
    <3>2. QED
      BY <1>4, <3>1
<1>10. GoneKnown'
  BY <1>1 DEF GateInv, GoneKnown
<1>11. AnswersNew'
  <2>1. \A r \in Request : Hopeless(req[r])' => Hopeless(req'[r])
    BY DEF Hopeless
  <2>2. QED
    <3> SUFFICES ASSUME NEW r \in Request, req'[r].todo # << >>, req'[r].answer \in Device \cup {none}
                 PROVE  /\ Head(req'[r].todo) \notin gone'
                        /\ \A q \in Request : Hopeless(req[q]) => Head(req'[q].todo) # Head(req'[r].todo)
      BY <1>8, <2>1 DEF AnswersNew
    <3>1. /\ Head(req[r].todo) \notin gone
          /\ \A q \in Request : Hopeless(req[q]) => Head(req[q].todo) # Head(req[r].todo)
      BY <1>4 DEF GateInv, AnswersNew
    <3>2. /\ req'[r].todo = req[r].todo /\ gone' \subseteq gone
          /\ \A q \in Request : req'[q].todo = req[q].todo
      BY <1>1, <1>4
    <3>3. QED
      BY <3>1, <3>2
<1>12. EndedTrue'
  BY <1>1 DEF GateInv, EndedTrue, G!WritesAllowed, G!RefusalsTrue, G!DeletedIsNoticed
<1>13. /\ \A r \in Request : \A n \in 1..req'[r].n - 1 : HasWritten(r, n)'
       /\ (\A o \in ended : \A n \in 1..o.n - 1 : HasWritten(o.req, n))'
  <2>1. \A r, n : HasWritten(r, n)' <=> HasWritten(r, n)
    BY <1>1 DEF HasWritten
  <2>2. \A r \in Request : req'[r].n = req[r].n
    BY <1>4
  <2>3. QED
    BY <1>1, <2>1, <2>2 DEF GateInv
<1>14. QED
  BY <1>5, <1>6, <1>7, <1>9, <1>10, <1>11, <1>12, <1>13 DEF GateInv

LEMMA ChangesKeep ==
  ASSUME GateNames, GateInv,
         \/ \E d \in Device : G!Deleted(d) \/ \E status \in G!Statuses : G!StatusChanges(d, status)
         \/ \E v \in Pv, to \in Device \cup {none} : G!Registered(v, to)
         \/ G!GoesUpOrDown
  PROVE  GateInv'
<1> DEFINE Authority == [owner : [Pv -> Device \cup {none, "missing"}],
                         status : [Device -> Blocks \cup {"available", "absent"}], up : BOOLEAN]
           Known(a) == a \in Authority /\ \A v \in Pv : a.owner[v] \in Device => a.status[a.owner[v]] # "absent"
<1>1. /\ authority \in Authority
      /\ \A v \in Pv : authority.owner[v] \in Device => authority.status[authority.owner[v]] # "absent"
  BY DEF GateInv, GateTypes, CachesTrue
<1>2. ASSUME NEW d \in Device, NEW status \in G!Statuses, G!StatusChanges(d, status)
      PROVE  GateInv'
  <2> DEFINE a == [authority EXCEPT !.status[d] = status]
  <2>1. status \in Blocks \cup {"available"} /\ G!Becomes(a)
    BY <1>2 DEF G!StatusChanges, G!Statuses
  <2>2. /\ a \in Authority /\ a.owner = authority.owner
        /\ \A e \in Device : a.status[e] \in {authority.status[e], status}
    BY <1>1, <2>1
  <2>3. status # "absent"
    BY <1>2 DEF G!StatusChanges
  <2> HIDE DEF a
  <2>4. Known(a)
    BY <1>1, <2>2, <2>3
  <2>5. QED
    BY <2>1, <2>4, BecomesKeeps
<1>3. ASSUME NEW d \in Device, G!Deleted(d)
      PROVE  GateInv'
  <2> DEFINE own == [v \in Pv |-> IF authority.owner[v] = d THEN "missing" ELSE authority.owner[v]]
             a   == [authority EXCEPT !.status[d] = "absent", !.owner = own]
  <2>1. G!Becomes(a)
    BY <1>3 DEF G!Deleted
  <2>2. /\ own \in [Pv -> Device \cup {none, "missing"}]
        /\ \A v \in Pv : own[v] \in Device => own[v] # d /\ own[v] = authority.owner[v]
    BY <1>1 DEF GateNames
  <2> HIDE DEF own
  <2>3. a \in Authority /\ a.owner = own /\ \A e \in Device \ {d} : a.status[e] = authority.status[e]
    BY <1>1, <2>2
  <2> HIDE DEF a
  <2>4. Known(a)
    BY <1>1, <2>2, <2>3
  <2>5. QED
    BY <2>1, <2>4, BecomesKeeps
<1>4. ASSUME NEW v \in Pv, NEW to \in Device \cup {none}, G!Registered(v, to)
      PROVE  GateInv'
  <2> DEFINE a == [authority EXCEPT !.owner[v] = to]
  <2>1. G!Becomes(a) /\ (to \in Device => authority.status[to] # "absent")
    BY <1>4 DEF G!Registered
  <2>2. /\ a \in Authority /\ a.status = authority.status
        /\ \A w \in Pv : a.owner[w] = IF w = v THEN to ELSE authority.owner[w]
    BY <1>1
  <2> HIDE DEF a
  <2>3. Known(a)
    BY <1>1, <2>1, <2>2
  <2>4. QED
    BY <2>1, <2>3, BecomesKeeps
<1>5. CASE G!GoesUpOrDown
  <2> DEFINE b == ~ authority.up
             a == [authority EXCEPT !.up = b]
  <2>1. G!Becomes(a) /\ b \in BOOLEAN
    BY <1>5 DEF G!GoesUpOrDown
  <2> HIDE DEF b
  <2>2. a \in Authority /\ a.status = authority.status /\ a.owner = authority.owner
    BY <1>1, <2>1
  <2> HIDE DEF a
  <2>3. Known(a)
    BY <1>1, <2>2
  <2>4. QED
    BY <2>1, <2>3, BecomesKeeps
<1>6. QED
  BY <1>2, <1>3, <1>4, <1>5

LEMMA TickKeepsGate == ASSUME GateNames, GateInv, G!Tick PROVE GateInv'
<1>1. /\ UNCHANGED <<authority, pvs, owners, req, ended, moved, gone>>
      /\ time' = time + 1
      /\ \A r \in Request : req[r].answer = "no answer"
  BY DEF G!Tick, G!NoAnswer
<1>a. time' = time + 1
  BY <1>1
<1>2. GateTypes /\ CachesTrue
  BY DEF GateInv
<1>3. GateTypes' /\ time \in Nat
  <2>1. time \in Nat
    BY <1>2 DEF GateTypes
  <2>2. time' \in Nat
    BY <1>a, <2>1
  <2>3. QED
    BY <1>1, <1>2, <2>1, <2>2 DEF GateTypes
<1>4. CachesTrue'
  <2> SUFFICES ASSUME NEW v \in Pv
               PROVE  /\ moved[v] <= time + 1 /\ pvs[v].at <= time + 1 /\ owners[v].at <= time + 1
                      /\ authority.owner[v] \in Device => authority.status[authority.owner[v]] # "absent"
                      /\ moved[v] < pvs[v].at => (pvs[v].exists <=> authority.owner[v] # "missing")
                      /\ moved[v] < owners[v].at => owners[v].owner = authority.owner[v]
    BY <1>1 DEF CachesTrue
  <2>1. moved[v] \in Nat /\ pvs[v].at \in Nat /\ owners[v].at \in Nat
    BY <1>2 DEF GateTypes
  <2>2. QED
    BY <1>2, <1>3, <2>1 DEF CachesTrue
<1>5. ASSUME NEW r \in Request
      PROVE  Sound(req[r])'
  <2>1. Sound(req[r]) /\ req[r].answer = "no answer"
    BY <1>1 DEF GateInv
  <2>2. req[r].todo # << >> => moved[Head(req[r].todo)] \in Nat /\ time \in Nat
    BY <1>2, HeadIsPv DEF GateTypes
  <2>t. TTL \in Nat
    BY DEF GateNames
  <2>3. "no answer" \notin Device \cup {none, "missing"}
    BY DEF GateNames
  <2>4. ASSUME req[r].todo # << >>, req[r].stable
        PROVE  moved[Head(req[r].todo)] + TTL < time'
    <3>1. moved[Head(req[r].todo)] + TTL < time
      BY <2>1, <2>4 DEF Sound
    <3>2. moved[Head(req[r].todo)] \in Nat /\ time \in Nat
      BY <2>2, <2>4
    <3>3. QED
      BY <1>a, <2>t, <3>1, <3>2
  <2>5. QED
    BY <1>1, <2>1, <2>3, <2>4 DEF Sound
<1>6. HopeLost' /\ GoneKnown' /\ AnswersNew'
  BY <1>1 DEF GateInv, HopeLost, GoneKnown, AnswersNew, Hopeless
<1>7. EndedTrue'
  BY <1>1 DEF GateInv, EndedTrue, G!WritesAllowed, G!RefusalsTrue, G!DeletedIsNoticed
<1>8. \A r, n : HasWritten(r, n)' <=> HasWritten(r, n)
  BY <1>1 DEF HasWritten
<1>9. QED
  BY <1>1, <1>3, <1>4, <1>5, <1>6, <1>7, <1>8 DEF GateInv

(* One request moves; the caches may change with it.                       *)
LEMMA StepKeeps ==
  ASSUME GateNames, GateInv, NEW r \in Request, NEW x \in Asking,
         UNCHANGED <<authority, time, moved>>, req' = [req EXCEPT ![r] = x],
         pvs' \in [Pv -> [exists : BOOLEAN, at : Nat]],
         owners' \in [Pv -> [owner : Device \cup {none}, at : Nat]], gone' \subseteq Pv,
         CachesTrue', Sound(x), GoneKnown',
         \A v \in Pv : pvs'[v].exists /\ ~ pvs[v].exists =>
             \A q \in Request \ {r} : Hopeless(req[q]) => Head(req[q].todo) # v,
         Hopeless(x) => /\ x.at = "pv" /\ ~ pvs'[Head(x.todo)].exists /\ x.answer \notin Device \cup {none}
                        /\ \A q \in Request \ {r} :
                              req[q].todo # << >> /\ req[q].answer \in Device \cup {none} =>
                                  Head(req[q].todo) # Head(x.todo),
         x.todo # << >> /\ x.answer \in Device \cup {none} =>
             /\ Head(x.todo) \notin gone'
             /\ \A q \in Request \ {r} : Hopeless(req[q]) => Head(req[q].todo) # Head(x.todo),
         \A q \in Request \ {r} : req[q].todo # << >> /\ req[q].answer \in Device \cup {none} =>
             Head(req[q].todo) \notin gone',
         ended \subseteq ended', EndedTrue',
         \A n \in 1..x.n - 1 : HasWritten(r, n)',
         (\A o \in ended : \A n \in 1..o.n - 1 : HasWritten(o.req, n))'
  PROVE  GateInv'
<1>1. req'[r] = x /\ \A q \in Request \ {r} : req'[q] = req[q]
  BY DEF GateInv, GateTypes
<1>2. GateTypes'
  BY DEF GateInv, GateTypes
<1>3. \A q \in Request : Sound(req[q])'
  <2>1. \A q \in Request : Sound(req'[q])
    BY <1>1 DEF GateInv
  <2>2. \A q \in Request : Sound(req'[q]) => Sound(req[q])'
    BY DEF Sound
  <2>3. QED
    BY <2>1, <2>2
<1>4. \A q \in Request : Hopeless(req[q])' <=> Hopeless(req'[q])
  BY DEF Hopeless
<1>5. HopeLost'
  <2> SUFFICES ASSUME NEW q \in Request, Hopeless(req'[q])
               PROVE  req'[q].at = "pv" /\ ~ pvs'[Head(req'[q].todo)].exists
    BY <1>4 DEF HopeLost
  <2>1. CASE q = r
    BY <1>1, <2>1
  <2>2. CASE q # r
    <3>1. req'[q] = req[q] /\ Hopeless(req[q])
      BY <1>1, <2>2
    <3>2. req[q].at = "pv" /\ ~ pvs[Head(req[q].todo)].exists
      BY <3>1 DEF GateInv, HopeLost
    <3>3. Head(req[q].todo) \in Pv
      BY <3>1, HeadIsPv DEF GateInv, Hopeless
    <3>4. QED
      BY <2>2, <3>1, <3>2, <3>3
  <2>3. QED
    BY <2>1, <2>2
<1>6. AnswersNew'
  <2> SUFFICES ASSUME NEW p \in Request, req'[p].todo # << >>, req'[p].answer \in Device \cup {none}
               PROVE  /\ Head(req'[p].todo) \notin gone'
                      /\ \A q \in Request : Hopeless(req'[q]) => Head(req'[q].todo) # Head(req'[p].todo)
    BY <1>4 DEF AnswersNew
  <2>1. CASE p = r
    <3>1. ~ Hopeless(x)
      BY <1>1, <2>1
    <3>2. QED
      BY <1>1, <2>1, <3>1
  <2>2. CASE p # r
    <3>1. req'[p] = req[p]
      BY <1>1, <2>2
    <3>2. \A q \in Request : Hopeless(req[q]) => Head(req[q].todo) # Head(req[p].todo)
      BY <3>1 DEF GateInv, AnswersNew
    <3>3. \A q \in Request : Hopeless(req'[q]) => Head(req'[q].todo) # Head(req[p].todo)
      BY <1>1, <2>2, <3>1, <3>2
    <3>4. QED
      BY <2>2, <3>1, <3>3
  <2>3. QED
    BY <2>1, <2>2
<1>7. \A q \in Request : \A n \in 1..req'[q].n - 1 : HasWritten(q, n)'
  <2>1. \A q, n : HasWritten(q, n) => HasWritten(q, n)'
    BY DEF HasWritten
  <2>2. ASSUME NEW q \in Request \ {r}, NEW n \in 1..req'[q].n - 1
        PROVE  HasWritten(q, n)'
    BY <1>1, <2>1, <2>2 DEF GateInv
  <2>3. QED
    BY <1>1, <2>2
<1>8. QED
  BY <1>2, <1>3, <1>5, <1>6, <1>7 DEF GateInv

(* An item ends: what is remembered of it fits.                            *)
LEMMA EndIsTrue ==
  ASSUME GateNames, GateInv, NEW r \in Request, NEW code, NEW landed \in BOOLEAN,
         ended' = ended \cup {G!Outcome(r, code, landed)},
         req[r].stable => (IF code \in G!Tried THEN "free" ELSE code) \in req[r].seen,
         landed => ~ Hopeless(req[r]), req[r].todo # << >>
  PROVE  EndedTrue' /\ (\A o \in ended : \A n \in 1..o.n - 1 : HasWritten(o.req, n))'
<1> DEFINE new == G!Outcome(r, code, landed)
<1>1. /\ new.req = r /\ new.n = req[r].n /\ new.landed = landed /\ new.stable = req[r].stable
      /\ new.tried = (code \in G!Tried)
      /\ new.fits = ((IF code \in G!Tried THEN "free" ELSE code) \in req[r].seen)
  BY DEF G!Outcome
<1>2. new.warned => req[r].warned /\ req[r].seen \subseteq {"missing", "down"}
  BY DEF G!Outcome, G!Down
<1>3. (new.stable => new.fits) /\ (new.warned => ~ new.landed)
  BY <1>1, <1>2 DEF Hopeless
<1>4. \A n : HasWritten(r, n) => HasWritten(r, n)'
  BY DEF HasWritten
<1>5. \A o \in ended : \A n : HasWritten(o.req, n) => HasWritten(o.req, n)'
  BY DEF HasWritten
<1> HIDE DEF new
<1>6. \A o \in ended' : o \in ended \/ o = new
  BY DEF new
<1>7. EndedTrue'
  BY <1>3, <1>6 DEF GateInv, EndedTrue, G!WritesAllowed, G!RefusalsTrue, G!DeletedIsNoticed
<1>8. ASSUME NEW o \in ended', NEW n \in 1..o.n - 1
      PROVE  HasWritten(o.req, n)'
  <2>1. CASE o \in ended
    BY <1>5, <1>8, <2>1 DEF GateInv
  <2>2. CASE o = new
    <3>1. o.req = r /\ n \in 1..req[r].n - 1
      BY <1>1, <1>8, <2>2
    <3>2. HasWritten(r, n)
      BY <3>1 DEF GateInv
    <3>3. QED
      BY <1>4, <3>1, <3>2 DEF HasWritten
  <2>3. QED
    BY <1>6, <2>1, <2>2
<1>9. (\A o \in ended : \A n \in 1..o.n - 1 : HasWritten(o.req, n))'
  BY <1>8 DEF HasWritten
<1>10. QED
  BY <1>7, <1>9

(* A request that has ended.                                               *)
LEMMA DoneAsks ==
  LET x == [G!Idle EXCEPT !.at = "done"]
  IN  x \in Asking /\ x.todo = << >> /\ x.n = 0 /\ x.at = "done" /\ x.answer = "no answer"
<1> DEFINE x == [G!Idle EXCEPT !.at = "done"]
<1>1. G!Idle \in Asking
  <2>1. << >> \in Seq(Pv) /\ {} \in SUBSET Facts
    OBVIOUS
  <2>2. QED
    BY <2>1 DEF G!Idle, G!NoAnswer, Asking
<1>2. x \in Asking
  BY <1>1 DEF Asking
<1>3. x.todo = << >> /\ x.n = 0 /\ x.at = "done" /\ x.answer = "no answer"
  BY DEF G!Idle, G!NoAnswer
<1> HIDE DEF x
<1>4. /\ x \in Asking /\ x.todo = << >> /\ x.n = 0 /\ x.at = "done" /\ x.answer = "no answer"
  BY <1>2, <1>3
<1>5. QED
  BY <1>4 DEF x

(* A request ends, with the item it was about.                             *)
LEMMA EndsKeeps ==
  ASSUME GateNames, GateInv, NEW r \in Request, NEW code, NEW landed \in BOOLEAN,
         G!Ends(r, code, landed), UNCHANGED <<authority, time, moved, gone>>,
         pvs' \in [Pv -> [exists : BOOLEAN, at : Nat]],
         owners' \in [Pv -> [owner : Device \cup {none}, at : Nat]],
         CachesTrue', \A v \in Pv : pvs'[v].exists => pvs[v].exists,
         req[r].todo # << >>, landed => ~ Hopeless(req[r]),
         req[r].stable => (IF code \in G!Tried THEN "free" ELSE code) \in req[r].seen
  PROVE  GateInv'
<1> DEFINE x == [G!Idle EXCEPT !.at = "done"]
<1>1. ended' = ended \cup {G!Outcome(r, code, landed)} /\ req' = [req EXCEPT ![r] = x]
  BY DEF G!Ends
<1>2. x.todo = << >> /\ x.n = 0 /\ x.at = "done" /\ x.answer = "no answer" /\ x \in Asking
  BY DoneAsks
<1> HIDE DEF x
<1>3. EndedTrue' /\ (\A o \in ended : \A n \in 1..o.n - 1 : HasWritten(o.req, n))'
  BY <1>1, EndIsTrue
<1>4. Sound(x) /\ ~ Hopeless(x)
  BY <1>2 DEF Sound, Hopeless, GateStep
<1>5. GoneKnown' /\ gone' \subseteq Pv
  BY DEF GateInv, GateTypes, GoneKnown
<1>6. \A q \in Request \ {r} : req[q].todo # << >> /\ req[q].answer \in Device \cup {none} =>
             Head(req[q].todo) \notin gone'
  BY DEF GateInv, AnswersNew
<1>7. \A n \in 1..x.n - 1 : HasWritten(r, n)'
  <2> SUFFICES ASSUME NEW n \in 1..x.n - 1 PROVE FALSE
    OBVIOUS
  <2>1. n \in 1..0 - 1
    BY <1>2
  <2>2. QED
    BY <2>1
<1>8. QED
  BY <1>1, <1>2, <1>3, <1>4, <1>5, <1>6, <1>7, StepKeeps

(* A request takes up an item, or has none left.                           *)
LEMMA TakesUpKeeps ==
  ASSUME GateNames, GateInv, NEW r \in Request, NEW todo \in Seq(Pv), NEW m \in Nat,
         G!TakesUp(r, todo, m), UNCHANGED <<authority, time, moved, gone, pvs, owners>>,
         ended \subseteq ended', EndedTrue', \A n \in 1..m - 1 : HasWritten(r, n)',
         (\A o \in ended : \A n \in 1..o.n - 1 : HasWritten(o.req, n))'
  PROVE  GateInv'
<1>1. CachesTrue' /\ GoneKnown' /\ gone' \subseteq Pv
  BY DEF GateInv, GateTypes, CachesTrue, GoneKnown
<1>2. pvs' \in [Pv -> [exists : BOOLEAN, at : Nat]] /\ owners' \in [Pv -> [owner : Device \cup {none}, at : Nat]]
  BY DEF GateInv, GateTypes
<1>3. \A q \in Request \ {r} : req[q].todo # << >> /\ req[q].answer \in Device \cup {none} =>
             Head(req[q].todo) \notin gone'
  BY DEF GateInv, AnswersNew
<1>4. CASE todo = << >>
  <2> DEFINE x == [G!Idle EXCEPT !.at = "done"]
  <2>1. req' = [req EXCEPT ![r] = x]
    BY <1>4 DEF G!TakesUp
  <2>2. x.todo = << >> /\ x.n = 0 /\ x.at = "done" /\ x.answer = "no answer" /\ x \in Asking
    BY DoneAsks
  <2> HIDE DEF x
  <2>3. Sound(x) /\ ~ Hopeless(x)
    BY <2>2 DEF Sound, Hopeless, GateStep
  <2>4. \A n \in 1..x.n - 1 : HasWritten(r, n)'
    <3> SUFFICES ASSUME NEW n \in 1..x.n - 1 PROVE FALSE
      OBVIOUS
    <3>1. n \in 1..0 - 1
      BY <2>2
    <3>2. QED
      BY <3>1
  <2>5. QED
    BY <1>1, <1>2, <1>3, <2>1, <2>2, <2>3, <2>4, StepKeeps
<1>5. CASE todo # << >>
  <2> DEFINE v      == Head(todo)
             steady == time > moved[v] + TTL
             known_ == v \in gone
             facts  == G!Conditions(authority, v)
             x == [at |-> "pv", todo |-> todo, n |-> m, answer |-> "no answer", target |-> none,
                   stable |-> steady, warned |-> known_, seen |-> facts]
  <2>1. req' = [req EXCEPT ![r] = x]
    BY <1>5 DEF G!TakesUp, G!NoAnswer
  <2>2. v \in Pv /\ facts \subseteq Facts
    <3>1. v \in Pv
      BY <1>5
    <3>2. QED
      BY <3>1, ConditionsAre DEF GateInv, GateTypes
  <2>3. steady \in BOOLEAN /\ known_ \in BOOLEAN /\ (steady => moved[v] + TTL < time) /\ Head(todo) = v
    <3>1. moved[v] \in Nat /\ time \in Nat
      BY <2>2 DEF GateInv, GateTypes
    <3>2. TTL \in Nat
      BY DEF GateNames
    <3>3. QED
      BY <3>1, <3>2
  <2>4. known_ => v \in gone
    OBVIOUS
  <2>5. G!Conditions(authority, v) = facts
    OBVIOUS
  <2> HIDE DEF v, steady, known_, facts
  <2>6. x \in Asking
    BY <2>2, <2>3 DEF Asking, GateStep
  <2>7. /\ x.at = "pv" /\ x.todo = todo /\ x.n = m /\ x.answer = "no answer"
        /\ x.stable = steady /\ x.warned = known_ /\ x.seen = facts
    OBVIOUS
  <2> HIDE DEF x
  <2>8. "no answer" \notin Device \cup {none}
    BY DEF GateNames
  <2>9. Sound(x)
    <3>1. "no answer" \notin Device \cup {none, "missing"}
      BY DEF GateNames
    <3>2. QED
      BY <1>5, <2>3, <2>5, <2>7, <3>1 DEF Sound, GateStep
  <2>10. ~ pvs'[v].exists \/ ~ known_
    BY <2>4 DEF GateInv, GoneKnown
  <2>11. \A q \in Request \ {r} :
             req[q].todo # << >> /\ req[q].answer \in Device \cup {none} => Head(req[q].todo) # v \/ ~ known_
    BY <2>4 DEF GateInv, AnswersNew
  <2>12. Hopeless(x) => known_
    BY <2>7 DEF Hopeless
  <2>13. Hopeless(x) =>
           /\ x.at = "pv" /\ ~ pvs'[Head(x.todo)].exists /\ x.answer \notin Device \cup {none}
           /\ \A q \in Request \ {r} :
                 req[q].todo # << >> /\ req[q].answer \in Device \cup {none} => Head(req[q].todo) # Head(x.todo)
    BY <2>3, <2>7, <2>8, <2>10, <2>11, <2>12
  <2>14. QED
    BY <1>1, <1>2, <1>3, <2>1, <2>6, <2>7, <2>8, <2>9, <2>13, StepKeeps
<1>6. QED
  BY <1>4, <1>5

(* A request goes on with its item.                                        *)
LEMMA GoesOnKeeps ==
  ASSUME GateNames, GateInv, NEW r \in Request, NEW at \in GateStep,
         NEW answer \in Device \cup {none, "missing", "down", "no answer"}, NEW target \in Device \cup {none},
         req' = [req EXCEPT ![r] = [req[r] EXCEPT !.at = at, !.answer = answer, !.target = target]],
         UNCHANGED <<authority, time, moved, ended>>, req[r].todo # << >>,
         pvs' \in [Pv -> [exists : BOOLEAN, at : Nat]],
         owners' \in [Pv -> [owner : Device \cup {none}, at : Nat]],
         gone' \subseteq Pv, CachesTrue', GoneKnown',
         answer # "no answer" => at \in {"pv", "owner"},
         answer = "down" => "down" \in req[r].seen,
         answer \in Device \cup {none, "missing"} =>
             answer = authority.owner[Head(req[r].todo)] \/ moved[Head(req[r].todo)] = time,
         req[r].stable => /\ at \in {"owner", "check", "put"} => authority.owner[Head(req[r].todo)] # "missing"
                          /\ at = "check" => target = authority.owner[Head(req[r].todo)]
                          /\ at = "put" => "free" \in req[r].seen,
         \A v \in Pv : pvs'[v].exists /\ ~ pvs[v].exists =>
             \A q \in Request : Hopeless(req[q]) => Head(req[q].todo) # v,
         Hopeless(req[r]) => at = "pv",
         answer \in Device \cup {none} =>
             /\ Head(req[r].todo) \notin gone'
             /\ \A q \in Request : Hopeless(req[q]) => Head(req[q].todo) # Head(req[r].todo),
         \A q \in Request \ {r} : req[q].todo # << >> /\ req[q].answer \in Device \cup {none} =>
             Head(req[q].todo) \notin gone'
  PROVE  GateInv'
<1> DEFINE x == [req[r] EXCEPT !.at = at, !.answer = answer, !.target = target]
<1>1. req[r] \in Asking /\ Head(req[r].todo) \in Pv /\ Sound(req[r])
  BY HeadIsPv DEF GateInv
<1>2. /\ x \in Asking /\ x.at = at /\ x.answer = answer /\ x.target = target
      /\ x.todo = req[r].todo /\ x.n = req[r].n /\ x.stable = req[r].stable
      /\ x.warned = req[r].warned /\ x.seen = req[r].seen
  BY <1>1 DEF Asking
<1>3. req' = [req EXCEPT ![r] = x]
  OBVIOUS
<1> HIDE DEF x
<1>4. Sound(x)
  <2>1. /\ G!Conditions(authority, Head(req[r].todo)) \subseteq req[r].seen
        /\ req[r].stable => moved[Head(req[r].todo)] + TTL < time
    BY <1>1 DEF Sound
  <2>2. QED
    BY <1>2, <2>1 DEF Sound
<1>5. Hopeless(x) <=> Hopeless(req[r])
  BY <1>2 DEF Hopeless
<1>6. Hopeless(x) =>
         /\ x.at = "pv" /\ ~ pvs'[Head(x.todo)].exists /\ x.answer \notin Device \cup {none}
         /\ \A q \in Request \ {r} :
               req[q].todo # << >> /\ req[q].answer \in Device \cup {none} => Head(req[q].todo) # Head(x.todo)
  <2> SUFFICES ASSUME Hopeless(req[r])
               PROVE  /\ at = "pv" /\ ~ pvs'[Head(req[r].todo)].exists /\ answer \notin Device \cup {none}
                      /\ \A q \in Request \ {r} :
                            req[q].todo # << >> /\ req[q].answer \in Device \cup {none} =>
                                Head(req[q].todo) # Head(req[r].todo)
    BY <1>2, <1>5
  <2>1. ~ pvs[Head(req[r].todo)].exists
    BY DEF GateInv, HopeLost
  <2>2. \A q \in Request \ {r} :
            req[q].todo # << >> /\ req[q].answer \in Device \cup {none} => Head(req[q].todo) # Head(req[r].todo)
    BY DEF GateInv, AnswersNew
  <2>3. QED
    BY <1>1, <2>1, <2>2
<1>u. UNCHANGED ended
  OBVIOUS
<1>w. \A q, n : HasWritten(q, n)' <=> HasWritten(q, n)
  BY <1>u DEF HasWritten
<1>e. EndedTrue'
  BY <1>u DEF GateInv, EndedTrue, G!WritesAllowed, G!RefusalsTrue, G!DeletedIsNoticed
<1>o. \A o \in ended' : \A n \in 1..o.n - 1 : HasWritten(o.req, n)
  BY <1>u DEF GateInv
<1>7. EndedTrue' /\ (\A o \in ended : \A n \in 1..o.n - 1 : HasWritten(o.req, n))'
  <2>1. (\A o \in ended : \A n \in 1..o.n - 1 : HasWritten(o.req, n))'
    BY <1>o, <1>u DEF HasWritten
  <2>2. QED
    BY <1>e, <2>1
<1>8. \A n \in 1..x.n - 1 : HasWritten(r, n)'
  <2>1. \A n \in 1..x.n - 1 : HasWritten(r, n)
    BY <1>2 DEF GateInv
  <2>2. QED
    BY <1>w, <2>1
<1>9. x.todo # << >> /\ x.answer \in Device \cup {none} =>
         /\ Head(x.todo) \notin gone'
         /\ \A q \in Request \ {r} : Hopeless(req[q]) => Head(req[q].todo) # Head(x.todo)
  BY <1>2
<1>10. \A v \in Pv : pvs'[v].exists /\ ~ pvs[v].exists =>
           \A q \in Request \ {r} : Hopeless(req[q]) => Head(req[q].todo) # v
  OBVIOUS
<1>11. x \in Asking /\ ended \subseteq ended'
  BY <1>2
<1>12. QED
  BY <1>3, <1>4, <1>6, <1>7, <1>8, <1>9, <1>10, <1>11, StepKeeps

(* What is known of a request at work.                                     *)
LEMMA AtWork ==
  ASSUME GateNames, GateInv, NEW r \in Request, req[r].at \in GateStep
  PROVE  /\ req[r] \in Asking /\ req[r].todo # << >> /\ Head(req[r].todo) \in Pv
         /\ G!Conditions(authority, Head(req[r].todo)) \subseteq req[r].seen
         /\ req[r].at # "pv" => ~ Hopeless(req[r])
         /\ req[r].stable =>
               /\ G!Fresh(pvs[Head(req[r].todo)]) =>
                     (pvs[Head(req[r].todo)].exists <=> authority.owner[Head(req[r].todo)] # "missing")
               /\ G!Fresh(owners[Head(req[r].todo)]) =>
                     owners[Head(req[r].todo)].owner = authority.owner[Head(req[r].todo)]
<1>1. req[r] \in Asking /\ Sound(req[r]) /\ HopeLost /\ CachesTrue /\ GateTypes
  BY DEF GateInv, GateTypes
<1>2. req[r].todo # << >>
  BY <1>1 DEF Sound
<1> DEFINE v == Head(req[r].todo)
<1>3. v \in Pv
  BY <1>1, <1>2, HeadIsPv
<1>4. G!Conditions(authority, v) \subseteq req[r].seen /\ (req[r].stable => moved[v] + TTL < time)
  BY <1>1, <1>2 DEF Sound
<1>5. req[r].at # "pv" => ~ Hopeless(req[r])
  BY <1>1 DEF HopeLost
<1> HIDE DEF v
<1>6. moved[v] \in Nat /\ time \in Nat /\ pvs[v].at \in Nat /\ owners[v].at \in Nat
  BY <1>1, <1>3 DEF GateTypes
<1>7. TTL \in Nat
  BY DEF GateNames
<1>8. /\ moved[v] < pvs[v].at => (pvs[v].exists <=> authority.owner[v] # "missing")
      /\ moved[v] < owners[v].at => owners[v].owner = authority.owner[v]
  BY <1>1, <1>3 DEF CachesTrue
<1>9. req[r].stable => /\ G!Fresh(pvs[v]) => moved[v] < pvs[v].at
                       /\ G!Fresh(owners[v]) => moved[v] < owners[v].at
  BY <1>4, <1>6, <1>7 DEF G!Fresh
<1>10. req[r].stable => /\ G!Fresh(pvs[v]) => (pvs[v].exists <=> authority.owner[v] # "missing")
                        /\ G!Fresh(owners[v]) => owners[v].owner = authority.owner[v]
  BY <1>8, <1>9
<1>11. QED
  BY <1>1, <1>2, <1>3, <1>4, <1>5, <1>10 DEF v

(* Caches, gone and authority as they were.                                *)
LEMMA CachesStay ==
  ASSUME GateInv, UNCHANGED <<authority, time, moved, pvs, owners, gone>>
  PROVE  /\ pvs' \in [Pv -> [exists : BOOLEAN, at : Nat]]
         /\ owners' \in [Pv -> [owner : Device \cup {none}, at : Nat]]
         /\ gone' \subseteq Pv /\ CachesTrue' /\ GoneKnown'
         /\ \A q \in Request : req[q].todo # << >> /\ req[q].answer \in Device \cup {none} =>
                Head(req[q].todo) \notin gone'
<1>1. GateTypes /\ CachesTrue /\ GoneKnown /\ AnswersNew
  BY DEF GateInv
<1>2. QED
  BY <1>1 DEF GateTypes, CachesTrue, GoneKnown, AnswersNew

(* A question is asked: its answer is what the authority knows now.        *)
LEMMA AsksKeeps ==
  ASSUME GateNames, GateInv, NEW r \in Request, req[r].at \in {"pv", "owner"}, G!Asks(r),
         UNCHANGED <<authority, time, moved, pvs, owners, gone>>
  PROVE  GateInv'
<1> DEFINE v == Head(req[r].todo)
           answer == IF authority.up THEN authority.owner[v] ELSE "down"
<1>1. /\ req[r] \in Asking /\ req[r].todo # << >> /\ v \in Pv
      /\ G!Conditions(authority, v) \subseteq req[r].seen
      /\ req[r].at # "pv" => ~ Hopeless(req[r])
  BY AtWork DEF GateStep
<1>2. ended' = ended /\ req' = [req EXCEPT ![r].answer = answer]
  BY DEF G!Asks, G!PvOf, G!Down
<1>3. authority \in [owner : [Pv -> Device \cup {none, "missing"}],
                     status : [Device -> Blocks \cup {"available", "absent"}], up : BOOLEAN]
  BY DEF GateInv, GateTypes
<1> HIDE DEF v
<1>4. authority.owner[v] \in Device \cup {none, "missing"}
  BY <1>1, <1>3
<1>5. /\ answer \in Device \cup {none, "missing", "down", "no answer"}
      /\ answer \in Device \cup {none, "missing"} => answer = authority.owner[v]
      /\ answer = "down" => ~ authority.up
      /\ answer \in Device \cup {none} => authority.up /\ authority.owner[v] # "missing"
  <2>1. "down" \notin Device \cup {none, "missing"} /\ "missing" \notin Device \cup {none}
    BY DEF GateNames
  <2>2. QED
    BY <1>4, <2>1
<1> HIDE DEF answer
<1>6. answer = "down" => "down" \in req[r].seen
  BY <1>1, <1>3, <1>5, ConditionsAre
<1>7. ASSUME answer \in Device \cup {none}
      PROVE  v \notin gone' /\ \A q \in Request : Hopeless(req[q]) => Head(req[q].todo) # v
  <2>1. authority.up /\ authority.owner[v] # "missing"
    BY <1>5, <1>7
  <2>2. PICK c \in G!Conditions(authority, v) : c \notin {"missing", "down"}
    BY <1>1, <1>3, <2>1, ConditionsAre
  <2>3. v \notin gone'
    BY <2>1 DEF GateInv, GoneKnown
  <2>4. ASSUME NEW q \in Request, Hopeless(req[q]), Head(req[q].todo) = v
        PROVE  FALSE
    <3>1. G!Conditions(authority, v) \subseteq req[q].seen
      BY <2>4 DEF GateInv, Sound, Hopeless
    <3>2. QED
      BY <2>2, <2>4, <3>1 DEF Hopeless
  <2>5. QED
    BY <2>3, <2>4
<1>8. req' = [req EXCEPT ![r] = [req[r] EXCEPT !.at = req[r].at, !.answer = answer, !.target = req[r].target]]
  <2>1. [req[r] EXCEPT !.answer = answer]
          = [req[r] EXCEPT !.at = req[r].at, !.answer = answer, !.target = req[r].target]
    BY <1>1 DEF Asking
  <2>2. req' = [req EXCEPT ![r] = [req[r] EXCEPT !.answer = answer]]
    BY <1>2
  <2>3. QED
    BY <2>1, <2>2
<1>9. /\ req[r].target \in Device \cup {none} /\ req[r].at \in GateStep
      /\ req[r].stable => /\ req[r].at \in {"owner", "check", "put"} => authority.owner[v] # "missing"
                          /\ req[r].at = "check" => req[r].target = authority.owner[v]
                          /\ req[r].at = "put" => "free" \in req[r].seen
  <2>1. Sound(req[r])
    BY DEF GateInv
  <2>2. QED
    BY <1>1, <2>1 DEF Asking, Sound, GateStep, v
<1>10. /\ pvs' = pvs /\ pvs' \in [Pv -> [exists : BOOLEAN, at : Nat]]
       /\ owners' \in [Pv -> [owner : Device \cup {none}, at : Nat]]
       /\ gone' \subseteq Pv /\ CachesTrue' /\ GoneKnown'
       /\ \A q \in Request : req[q].todo # << >> /\ req[q].answer \in Device \cup {none} =>
              Head(req[q].todo) \notin gone'
  BY CachesStay
<1>11. /\ answer \in Device \cup {none, "missing"} =>
              answer = authority.owner[Head(req[r].todo)] \/ moved[Head(req[r].todo)] = time
       /\ req[r].stable =>
              /\ req[r].at \in {"owner", "check", "put"} => authority.owner[Head(req[r].todo)] # "missing"
              /\ req[r].at = "check" => req[r].target = authority.owner[Head(req[r].todo)]
              /\ req[r].at = "put" => "free" \in req[r].seen
       /\ answer \in Device \cup {none} =>
             /\ Head(req[r].todo) \notin gone'
             /\ \A q \in Request : Hopeless(req[q]) => Head(req[q].todo) # Head(req[r].todo)
  BY <1>5, <1>7, <1>9 DEF v
<1>12. /\ req[r].at \in {"pv", "owner"} /\ UNCHANGED <<authority, time, moved, ended>>
       /\ \A w \in Pv : pvs'[w].exists /\ ~ pvs[w].exists =>
             \A q \in Request : Hopeless(req[q]) => Head(req[q].todo) # w
       /\ Hopeless(req[r]) => req[r].at = "pv"
       /\ \A q \in Request \ {r} : req[q].todo # << >> /\ req[q].answer \in Device \cup {none} =>
             Head(req[q].todo) \notin gone'
  BY <1>1, <1>2, <1>10
<1>13. QED
  BY <1>1, <1>5, <1>6, <1>8, <1>9, <1>10, <1>11, <1>12, GoesOnKeeps

(* A request gets to its next step, no question open.                      *)
LEMMA StepsOnKeeps ==
  ASSUME GateNames, GateInv, NEW r \in Request, req[r].at \in GateStep,
         NEW at \in {"owner", "check", "put"}, NEW target \in Device \cup {none},
         \/ G!GoesOn(r, at) /\ target = req[r].target
         \/ G!Checks(r, target) /\ at = "check",
         UNCHANGED <<authority, time, moved>>,
         pvs' \in [Pv -> [exists : BOOLEAN, at : Nat]],
         owners' \in [Pv -> [owner : Device \cup {none}, at : Nat]],
         gone' \subseteq Pv, CachesTrue', GoneKnown',
         req[r].stable => /\ authority.owner[Head(req[r].todo)] # "missing"
                          /\ at = "check" => target = authority.owner[Head(req[r].todo)]
                          /\ at = "put" => "free" \in req[r].seen,
         \A v \in Pv : pvs'[v].exists /\ ~ pvs[v].exists =>
             \A q \in Request : Hopeless(req[q]) => Head(req[q].todo) # v,
         ~ Hopeless(req[r]),
         \A q \in Request \ {r} : req[q].todo # << >> /\ req[q].answer \in Device \cup {none} =>
             Head(req[q].todo) \notin gone'
  PROVE  GateInv'
<1>1. req[r] \in Asking /\ req[r].todo # << >>
  BY AtWork
<1>2. "no answer" \notin Device \cup {none, "missing"}
  BY DEF GateNames
<1>3. UNCHANGED ended
  BY DEF G!GoesOn, G!Checks
<1>4. req' = [req EXCEPT ![r] = [req[r] EXCEPT !.at = at, !.answer = "no answer", !.target = target]]
  <2>1. CASE G!GoesOn(r, at) /\ target = req[r].target
    <3>1. [req[r] EXCEPT !.at = at, !.answer = "no answer"]
             = [req[r] EXCEPT !.at = at, !.answer = "no answer", !.target = target]
      BY <1>1, <2>1 DEF Asking
    <3>2. req' = [req EXCEPT ![r] = [req[r] EXCEPT !.at = at, !.answer = "no answer"]]
      BY <1>1, <2>1 DEF G!GoesOn, G!NoAnswer, GateInv, GateTypes, Asking
    <3>3. QED
      BY <3>1, <3>2
  <2>2. CASE G!Checks(r, target) /\ at = "check"
    BY <1>1, <2>2 DEF G!Checks, G!NoAnswer, GateInv, GateTypes, Asking
  <2>3. QED
    BY <2>1, <2>2
<1>5. /\ at \in GateStep /\ "no answer" \in Device \cup {none, "missing", "down", "no answer"}
      /\ "no answer" # "down" /\ (at \in {"owner", "check", "put"} => TRUE)
  BY DEF GateStep
<1>6. QED
  BY <1>1, <1>2, <1>3, <1>4, <1>5, GoesOnKeeps

LEMMA PvCachedKeeps ==
  ASSUME GateNames, GateInv, NEW r \in Request, G!PvCached(r)
  PROVE  GateInv'
<1> DEFINE v == Head(req[r].todo)
<1>1. /\ req[r].at = "pv" /\ G!Fresh(pvs[v]) /\ UNCHANGED <<authority, time, moved, pvs, owners, gone>>
  BY DEF G!PvCached, G!PvOf, G!Outside
<1>2. /\ req[r] \in Asking /\ req[r].todo # << >> /\ v \in Pv
      /\ G!Conditions(authority, v) \subseteq req[r].seen
      /\ req[r].stable => (pvs[v].exists <=> authority.owner[v] # "missing")
  BY <1>1, AtWork DEF GateStep
<1>3. /\ pvs' \in [Pv -> [exists : BOOLEAN, at : Nat]]
      /\ owners' \in [Pv -> [owner : Device \cup {none}, at : Nat]]
      /\ gone' \subseteq Pv /\ CachesTrue' /\ GoneKnown'
      /\ \A q \in Request : req[q].todo # << >> /\ req[q].answer \in Device \cup {none} =>
             Head(req[q].todo) \notin gone'
  BY <1>1, CachesStay
<1>4. CASE pvs[v].exists
  <2>1. G!GoesOn(r, "owner")
    BY <1>4 DEF G!PvCached, G!PvOf
  <2>2. ~ Hopeless(req[r])
    BY <1>4 DEF GateInv, HopeLost
  <2>3. req[r].target \in Device \cup {none}
    BY <1>2 DEF Asking
  <2>4. req[r].at \in GateStep
    BY <1>1 DEF GateStep
  <2>5. QED
    BY <1>1, <1>2, <1>3, <1>4, <2>1, <2>2, <2>3, <2>4, StepsOnKeeps
<1>5. CASE ~ pvs[v].exists
  <2>1. G!Ends(r, "missing", FALSE)
    BY <1>5 DEF G!PvCached, G!PvOf
  <2>2. req[r].stable => "missing" \in req[r].seen
    BY <1>2, <1>5, ConditionsAre DEF GateInv, GateTypes
  <2>3. req[r].stable => (IF "missing" \in G!Tried THEN "free" ELSE "missing") \in req[r].seen
    BY <2>2 DEF G!Tried
  <2>4. QED
    BY <1>1, <1>2, <1>3, <2>1, <2>3, EndsKeeps
<1>6. QED
  BY <1>4, <1>5

LEMMA OwnerCachedKeeps ==
  ASSUME GateNames, GateInv, NEW r \in Request, G!OwnerCached(r)
  PROVE  GateInv'
<1> DEFINE v == Head(req[r].todo)
<1>1. /\ req[r].at = "owner" /\ G!Fresh(owners[v]) /\ UNCHANGED <<authority, time, moved, pvs, owners, gone>>
      /\ G!Checks(r, owners[v].owner)
  BY DEF G!OwnerCached, G!PvOf, G!Outside
<1>2. /\ req[r] \in Asking /\ req[r].todo # << >> /\ v \in Pv /\ ~ Hopeless(req[r])
      /\ req[r].stable => owners[v].owner = authority.owner[v]
  BY <1>1, AtWork DEF GateStep
<1>3. /\ pvs' \in [Pv -> [exists : BOOLEAN, at : Nat]]
      /\ owners' \in [Pv -> [owner : Device \cup {none}, at : Nat]]
      /\ gone' \subseteq Pv /\ CachesTrue' /\ GoneKnown'
      /\ \A q \in Request : req[q].todo # << >> /\ req[q].answer \in Device \cup {none} =>
             Head(req[q].todo) \notin gone'
  BY <1>1, CachesStay
<1>4. owners[v].owner \in Device \cup {none} /\ req[r].at \in GateStep
  BY <1>1, <1>2 DEF GateInv, GateTypes, GateStep
<1>5. req[r].stable => authority.owner[v] # "missing"
  <2>1. "missing" \notin Device \cup {none}
    BY DEF GateNames
  <2>2. QED
    BY <1>2, <1>4, <2>1
<1>6. QED
  BY <1>1, <1>2, <1>3, <1>4, <1>5, StepsOnKeeps

LEMMA CheckedKeeps ==
  ASSUME GateNames, GateInv, NEW r \in Request, G!Checked(r)
  PROVE  GateInv'
<1> DEFINE v == Head(req[r].todo)
           s == G!Status(req[r].target)
<1>1. req[r].at = "check" /\ UNCHANGED <<authority, time, moved, pvs, owners, gone>>
  BY DEF G!Checked, G!Outside
<1>2. /\ req[r] \in Asking /\ req[r].todo # << >> /\ v \in Pv /\ ~ Hopeless(req[r])
      /\ G!Conditions(authority, v) \subseteq req[r].seen
  BY <1>1, AtWork DEF GateStep
<1>3. /\ pvs' \in [Pv -> [exists : BOOLEAN, at : Nat]]
      /\ owners' \in [Pv -> [owner : Device \cup {none}, at : Nat]]
      /\ gone' \subseteq Pv /\ CachesTrue' /\ GoneKnown'
      /\ \A q \in Request : req[q].todo # << >> /\ req[q].answer \in Device \cup {none} =>
             Head(req[q].todo) \notin gone'
  BY <1>1, CachesStay
<1>4. req[r].stable => authority.owner[v] # "missing" /\ req[r].target = authority.owner[v]
  BY <1>1, <1>2 DEF GateInv, Sound
<1>5. /\ authority \in [owner : [Pv -> Device \cup {none, "missing"}],
                        status : [Device -> Blocks \cup {"available", "absent"}], up : BOOLEAN]
      /\ authority.owner[v] \in Device => authority.status[authority.owner[v]] # "absent"
  BY <1>2 DEF GateInv, GateTypes, CachesTrue
<1>6. /\ s = IF req[r].target = none THEN "absent" ELSE authority.status[req[r].target]
      /\ "absent" \notin Blocks /\ Blocks \cap G!Tried = {} /\ none \notin Device
  BY DEF G!Status, G!Tried, GateNames
<1>7. CASE ~ authority.up
  <2>1. G!Ends(r, "down", FALSE)
    BY <1>7 DEF G!Checked, G!Down
  <2>2. "down" \in req[r].seen
    BY <1>2, <1>5, <1>7, ConditionsAre
  <2>3. (IF "down" \in G!Tried THEN "free" ELSE "down") \in req[r].seen
    BY <2>2 DEF G!Tried
  <2>4. QED
    BY <1>1, <1>2, <1>3, <2>1, <2>3, EndsKeeps
<1>8. CASE authority.up /\ s \in Blocks
  <2>1. G!Ends(r, s, FALSE)
    BY <1>8 DEF G!Checked
  <2>2. req[r].stable => s \in req[r].seen
    <3>1. req[r].target # none
      BY <1>6, <1>8
    <3>2. req[r].stable => authority.owner[v] \in Device /\ s = authority.status[authority.owner[v]]
      BY <1>2, <1>4, <1>6, <3>1 DEF Asking
    <3>3. QED
      BY <1>2, <1>5, <1>8, <3>2, ConditionsAre
  <2>3. req[r].stable => (IF s \in G!Tried THEN "free" ELSE s) \in req[r].seen
    BY <1>6, <1>8, <2>2
  <2>4. QED
    BY <1>1, <1>2, <1>3, <2>1, <2>3, EndsKeeps
<1>9. CASE authority.up /\ s \notin Blocks
  <2>1. G!GoesOn(r, "put")
    BY <1>9 DEF G!Checked
  <2>2. req[r].stable => "free" \in req[r].seen
    <3>1. CASE req[r].target = none
      BY <1>2, <1>4, <1>5, <1>9, <3>1, ConditionsAre
    <3>2. CASE req[r].target # none
      <4>1. req[r].stable => authority.owner[v] \in Device /\ s = authority.status[authority.owner[v]]
        BY <1>2, <1>4, <1>6, <3>2 DEF Asking
      <4>2. req[r].stable => s = "available"
        BY <1>5, <1>9, <4>1
      <4>3. QED
        BY <1>2, <1>5, <1>9, <4>1, <4>2, ConditionsAre
    <3>3. QED
      BY <3>1, <3>2
  <2>3. req[r].target \in Device \cup {none} /\ req[r].at \in GateStep
    BY <1>1, <1>2 DEF Asking, GateStep
  <2>4. QED
    BY <1>1, <1>2, <1>3, <1>4, <2>1, <2>2, <2>3, StepsOnKeeps
<1>10. QED
  BY <1>7, <1>8, <1>9

LEMMA PutFailsKeeps ==
  ASSUME GateNames, GateInv, NEW r \in Request, G!PutFails(r)
  PROVE  GateInv'
<1>1. req[r].at = "put" /\ UNCHANGED <<authority, time, moved, pvs, owners, gone>>
  BY DEF G!PutFails, G!Outside
<1>2. PICK end \in {<<"limit", FALSE>>, <<"failed", FALSE>>, <<"failed", TRUE>>} : G!Ends(r, end[1], end[2])
  BY DEF G!PutFails
<1>3. end[2] \in BOOLEAN /\ end[1] \in G!Tried
  <2>1. CASE end = <<"limit", FALSE>>
    BY <2>1 DEF G!Tried
  <2>2. CASE end = <<"failed", FALSE>>
    BY <2>2 DEF G!Tried
  <2>3. CASE end = <<"failed", TRUE>>
    BY <2>3 DEF G!Tried
  <2>4. QED
    BY <1>2, <2>1, <2>2, <2>3
<1>4. req[r].todo # << >> /\ ~ Hopeless(req[r])
  BY <1>1, AtWork DEF GateStep
<1>5. req[r].stable => "free" \in req[r].seen
  BY <1>1, <1>4 DEF GateInv, Sound
<1>6. /\ pvs' \in [Pv -> [exists : BOOLEAN, at : Nat]]
      /\ owners' \in [Pv -> [owner : Device \cup {none}, at : Nat]]
      /\ CachesTrue'
  BY <1>1, CachesStay
<1> DEFINE code == end[1]
           landed == end[2]
<1>7. /\ G!Ends(r, code, landed) /\ landed \in BOOLEAN
      /\ req[r].stable => (IF code \in G!Tried THEN "free" ELSE code) \in req[r].seen
  BY <1>2, <1>3, <1>5
<1>8. landed => ~ Hopeless(req[r])
  BY <1>4
<1> HIDE DEF code, landed
<1>9. \A v \in Pv : pvs'[v].exists => pvs[v].exists
  BY <1>1
<1>10. QED
  BY <1>1, <1>4, <1>6, <1>7, <1>8, <1>9, EndsKeeps

LEMMA PutDoneKeeps ==
  ASSUME GateNames, GateInv, NEW r \in Request, G!PutDone(r)
  PROVE  GateInv'
<1>1. /\ req[r].at = "put" /\ UNCHANGED <<authority, time, moved, pvs, owners, gone>>
      /\ ended' = ended \cup {G!Outcome(r, "ok", TRUE)}
      /\ G!TakesUp(r, Tail(req[r].todo), req[r].n + 1)
  BY DEF G!PutDone, G!Outside
<1>2. req[r] \in Asking /\ req[r].todo # << >> /\ ~ Hopeless(req[r])
  BY <1>1, AtWork DEF GateStep
<1>3. req[r].stable => (IF "ok" \in G!Tried THEN "free" ELSE "ok") \in req[r].seen
  <2>1. req[r].stable => "free" \in req[r].seen
    BY <1>1, <1>2 DEF GateInv, Sound
  <2>2. QED
    BY <2>1 DEF G!Tried
<1>4. EndedTrue' /\ (\A o \in ended : \A n \in 1..o.n - 1 : HasWritten(o.req, n))'
  BY <1>1, <1>2, <1>3, EndIsTrue
<1>5. req[r].todo \in Seq(Pv) /\ req[r].n \in Nat
  BY <1>2 DEF Asking
<1>6. Tail(req[r].todo) \in Seq(Pv) /\ req[r].n + 1 \in Nat
  BY <1>2, <1>5
<1>7. \A n \in 1..req[r].n : HasWritten(r, n)'
  <2> SUFFICES ASSUME NEW n \in 1..req[r].n PROVE HasWritten(r, n)'
    OBVIOUS
  <2>1. CASE n = req[r].n
    <3> DEFINE new == G!Outcome(r, "ok", TRUE)
    <3>1. new.req = r /\ new.n = n /\ new.ok /\ new.landed
      BY <2>1 DEF G!Outcome
    <3> HIDE DEF new
    <3>2. new \in ended'
      BY <1>1 DEF new
    <3>3. QED
      BY <3>1, <3>2 DEF HasWritten
  <2>2. CASE n # req[r].n
    <3>1. n \in 1..req[r].n - 1
      BY <1>5, <2>2
    <3>2. HasWritten(r, n) /\ ended \subseteq ended'
      BY <1>1, <3>1 DEF GateInv
    <3>3. QED
      BY <3>2 DEF HasWritten
  <2>3. QED
    BY <2>1, <2>2
<1> DEFINE m == req[r].n + 1
<1>8. m \in Nat /\ \A n \in 1..m - 1 : HasWritten(r, n)'
  <2>1. m - 1 = req[r].n
    BY <1>5
  <2>2. QED
    BY <1>6, <1>7, <2>1
<1>9. G!TakesUp(r, Tail(req[r].todo), m) /\ ended \subseteq ended'
  BY <1>1
<1> HIDE DEF m
<1>10. QED
  BY <1>1, <1>4, <1>6, <1>8, <1>9, TakesUpKeeps

LEMMA ArrivesKeeps ==
  ASSUME GateNames, GateInv, NEW r \in Request, NEW batch \in Batches[r], G!Arrives(r, batch)
  PROVE  GateInv'
<1>1. /\ UNCHANGED <<authority, time, moved, pvs, owners, gone, ended>> /\ G!TakesUp(r, batch, 1)
      /\ batch \in Seq(Pv)
  BY DEF G!Arrives, G!Outside, GateNames
<1>2. EndedTrue' /\ (\A o \in ended : \A n \in 1..o.n - 1 : HasWritten(o.req, n))'
  <2>1. EndedTrue'
    BY <1>1 DEF GateInv, EndedTrue, G!WritesAllowed, G!RefusalsTrue, G!DeletedIsNoticed
  <2>2. \A o \in ended' : \A n \in 1..o.n - 1 : HasWritten(o.req, n)
    BY <1>1 DEF GateInv
  <2>3. QED
    BY <1>1, <2>1, <2>2 DEF HasWritten
<1>3. \A n \in 1..1 - 1 : HasWritten(r, n)'
  <2> SUFFICES ASSUME NEW n \in 1..1 - 1 PROVE FALSE
    OBVIOUS
  <2>1. QED
    OBVIOUS
<1>4. 1 \in Nat /\ ended \subseteq ended'
  BY <1>1
<1>5. QED
  BY <1>1, <1>2, <1>3, <1>4, TakesUpKeeps

(* One entry of each cache is written.                                     *)
LEMMA CachesWritten ==
  ASSUME GateInv, NEW v \in Pv, NEW e \in [exists : BOOLEAN, at : Nat],
         NEW o \in [owner : Device \cup {none}, at : Nat],
         UNCHANGED <<authority, time, moved>>, pvs' = [pvs EXCEPT ![v] = e], owners' = [owners EXCEPT ![v] = o],
         e.at <= time, moved[v] < e.at => (e.exists <=> authority.owner[v] # "missing"),
         o.at <= time, moved[v] < o.at => o.owner = authority.owner[v]
  PROVE  /\ pvs' \in [Pv -> [exists : BOOLEAN, at : Nat]]
         /\ owners' \in [Pv -> [owner : Device \cup {none}, at : Nat]]
         /\ CachesTrue' /\ pvs'[v] = e /\ \A w \in Pv \ {v} : pvs'[w] = pvs[w]
<1>1. GateTypes /\ CachesTrue
  BY DEF GateInv
<1>2. /\ pvs' \in [Pv -> [exists : BOOLEAN, at : Nat]]
      /\ owners' \in [Pv -> [owner : Device \cup {none}, at : Nat]]
      /\ pvs'[v] = e /\ owners'[v] = o
      /\ \A w \in Pv \ {v} : pvs'[w] = pvs[w] /\ owners'[w] = owners[w]
  BY <1>1 DEF GateTypes
<1>3. ASSUME NEW w \in Pv
      PROVE  /\ moved[w] <= time /\ pvs'[w].at <= time /\ owners'[w].at <= time
             /\ authority.owner[w] \in Device => authority.status[authority.owner[w]] # "absent"
             /\ moved[w] < pvs'[w].at => (pvs'[w].exists <=> authority.owner[w] # "missing")
             /\ moved[w] < owners'[w].at => owners'[w].owner = authority.owner[w]
  <2>1. CASE w = v
    BY <1>1, <1>2, <2>1 DEF CachesTrue
  <2>2. CASE w # v
    BY <1>1, <1>2, <2>2 DEF CachesTrue
  <2>3. QED
    BY <2>1, <2>2
<1>4. CachesTrue'
  BY <1>3 DEF CachesTrue
<1>5. QED
  BY <1>2, <1>4

LEMMA BeforeIsOther ==
  ASSUME NEW a \in Nat, NEW b \in Nat, NEW t \in Nat
  PROVE  (a + t < b => a # b) /\ (a < b => a # b) /\ ~ (a < 0) /\ 0 <= b
OBVIOUS

(* An answer that arrives is one of the authority's.                       *)
LEMMA AnswerIs ==
  ASSUME GateNames, GateInv, NEW r \in Request, req[r].at \in {"pv", "owner"}, req[r].answer # "no answer"
  PROVE  /\ req[r].answer \in Device \cup {none, "missing", "down"}
         /\ req[r].answer = "down" => "down" \in req[r].seen
         /\ req[r].answer \in Device \cup {none, "missing"} =>
               /\ moved[Head(req[r].todo)] < time => req[r].answer = authority.owner[Head(req[r].todo)]
               /\ req[r].stable => req[r].answer = authority.owner[Head(req[r].todo)]
         /\ time \in Nat /\ moved[Head(req[r].todo)] \in Nat
<1>1. /\ req[r] \in Asking /\ req[r].todo # << >> /\ Head(req[r].todo) \in Pv /\ Sound(req[r])
  BY AtWork DEF GateStep, GateInv
<1>2. req[r].answer \in Device \cup {none, "missing", "down"} /\ (req[r].answer = "down" => "down" \in req[r].seen)
  BY <1>1 DEF Asking, Sound
<1> DEFINE since == moved[Head(req[r].todo)]
<1>3. /\ req[r].answer \in Device \cup {none, "missing"} =>
             req[r].answer = authority.owner[Head(req[r].todo)] \/ since = time
      /\ req[r].stable => since + TTL < time
  BY <1>1 DEF Sound
<1>4. since \in Nat /\ time \in Nat
  BY <1>1 DEF GateInv, GateTypes
<1>5. TTL \in Nat
  BY DEF GateNames
<1> HIDE DEF since
<1>6. (since + TTL < time => since # time) /\ (since < time => since # time)
  BY <1>4, <1>5, BeforeIsOther
<1>7. (req[r].stable => since # time) /\ (since < time => since # time)
  BY <1>3, <1>6
<1>8. /\ req[r].answer \in Device \cup {none, "missing"} =>
               /\ since < time => req[r].answer = authority.owner[Head(req[r].todo)]
               /\ req[r].stable => req[r].answer = authority.owner[Head(req[r].todo)]
      /\ time \in Nat /\ since \in Nat
  BY <1>3, <1>4, <1>6, <1>7
<1>9. QED
  BY <1>2, <1>8 DEF since

LEMMA PvAnsweredKeeps ==
  ASSUME GateNames, GateInv, NEW r \in Request, G!PvAnswered(r)
  PROVE  GateInv'
<1> DEFINE v == Head(req[r].todo)
           answer == req[r].answer
<1>1. /\ req[r].at = "pv" /\ answer # "no answer" /\ UNCHANGED <<authority, time, moved, gone>>
  BY DEF G!PvAnswered, G!NoAnswer, G!Outside
<1>2. req[r] \in Asking /\ req[r].todo # << >> /\ v \in Pv /\ req[r].at \in GateStep
  BY <1>1, AtWork DEF GateStep
<1>3. /\ answer \in Device \cup {none, "missing", "down"} /\ (answer = "down" => "down" \in req[r].seen)
      /\ answer \in Device \cup {none, "missing"} =>
               /\ moved[v] < time => answer = authority.owner[v]
               /\ req[r].stable => answer = authority.owner[v]
      /\ time \in Nat /\ moved[v] \in Nat
  BY <1>1, AnswerIs
<1>4. GateTypes /\ CachesTrue /\ GoneKnown /\ AnswersNew
  BY DEF GateInv
<1>5. /\ pvs[v] \in [exists : BOOLEAN, at : Nat] /\ owners[v] \in [owner : Device \cup {none}, at : Nat]
      /\ pvs[v].at <= time /\ owners[v].at <= time
      /\ moved[v] < pvs[v].at => (pvs[v].exists <=> authority.owner[v] # "missing")
      /\ moved[v] < owners[v].at => owners[v].owner = authority.owner[v]
      /\ pvs = [pvs EXCEPT ![v] = pvs[v]] /\ owners = [owners EXCEPT ![v] = owners[v]]
  BY <1>2, <1>4 DEF GateTypes, CachesTrue
<1>6. gone' \subseteq Pv
  BY <1>1, <1>4 DEF GateTypes
<1>7. CASE answer = "down"
  <2>1. G!Ends(r, "down", FALSE) /\ UNCHANGED <<pvs, owners>>
    BY <1>7 DEF G!PvAnswered, G!Down
  <2>2. req[r].stable => (IF "down" \in G!Tried THEN "free" ELSE "down") \in req[r].seen
    BY <1>3, <1>7 DEF G!Tried
  <2>3. /\ pvs' \in [Pv -> [exists : BOOLEAN, at : Nat]]
        /\ owners' \in [Pv -> [owner : Device \cup {none}, at : Nat]]
        /\ CachesTrue'
    BY <1>1, <2>1, CachesStay
  <2>4. QED
    BY <1>1, <1>2, <2>1, <2>2, <2>3, EndsKeeps
<1>8. CASE answer = "missing"
  <2> DEFINE e == [exists |-> FALSE, at |-> time]
  <2>1. G!Ends(r, "missing", FALSE) /\ pvs' = [pvs EXCEPT ![v] = e] /\ owners' = owners
    BY <1>8 DEF G!PvAnswered, G!Down, G!PvOf
  <2>2. e \in [exists : BOOLEAN, at : Nat] /\ e.at = time /\ e.exists = FALSE
    BY <1>3
  <2> HIDE DEF e
  <2>3. moved[v] < e.at => (e.exists <=> authority.owner[v] # "missing")
    BY <1>3, <1>8, <2>2
  <2>4. /\ pvs' \in [Pv -> [exists : BOOLEAN, at : Nat]]
        /\ owners' \in [Pv -> [owner : Device \cup {none}, at : Nat]]
        /\ CachesTrue' /\ pvs'[v] = e /\ \A w \in Pv \ {v} : pvs'[w] = pvs[w]
    <3>1. e.at <= time
      BY <1>3, <2>2
    <3>2. owners' = [owners EXCEPT ![v] = owners[v]]
      BY <1>5, <2>1
    <3>3. QED
      BY <1>1, <1>2, <1>5, <2>1, <2>2, <2>3, <3>1, <3>2, CachesWritten
  <2>5. \A w \in Pv : pvs'[w].exists => pvs[w].exists
    BY <2>2, <2>4
  <2>6. req[r].stable => "missing" \in req[r].seen
    <3>1. req[r].stable => authority.owner[v] = "missing"
      BY <1>3, <1>8
    <3>2. G!Conditions(authority, v) \subseteq req[r].seen
      BY <1>2, AtWork
    <3>3. QED
      BY <1>2, <1>4, <3>1, <3>2, ConditionsAre DEF GateTypes
  <2>7. req[r].stable => (IF "missing" \in G!Tried THEN "free" ELSE "missing") \in req[r].seen
    BY <2>6 DEF G!Tried
  <2>8. QED
    BY <1>1, <1>2, <2>1, <2>4, <2>5, <2>7, EndsKeeps
<1>9. CASE answer \in Device \cup {none}
  <2>a. answer # "down" /\ answer # "missing"
    BY <1>9 DEF GateNames
  <2> DEFINE e == [exists |-> TRUE, at |-> time]
             o == [owner |-> answer, at |-> time]
  <2>1. /\ pvs' = [pvs EXCEPT ![v] = e] /\ owners' = [owners EXCEPT ![v] = o] /\ G!GoesOn(r, "owner")
    BY <2>a DEF G!PvAnswered, G!Down, G!PvOf
  <2>2. /\ e \in [exists : BOOLEAN, at : Nat] /\ e.at = time /\ e.exists = TRUE
        /\ o \in [owner : Device \cup {none}, at : Nat] /\ o.at = time /\ o.owner = answer
    BY <1>3, <1>9
  <2> HIDE DEF e, o
  <2>3. /\ moved[v] < e.at => (e.exists <=> authority.owner[v] # "missing")
        /\ moved[v] < o.at => o.owner = authority.owner[v]
        /\ e.at <= time /\ o.at <= time
    BY <1>3, <1>9, <2>a, <2>2
  <2>4. /\ pvs' \in [Pv -> [exists : BOOLEAN, at : Nat]]
        /\ owners' \in [Pv -> [owner : Device \cup {none}, at : Nat]]
        /\ CachesTrue' /\ pvs'[v] = e /\ \A w \in Pv \ {v} : pvs'[w] = pvs[w]
    BY <1>1, <1>2, <2>1, <2>2, <2>3, CachesWritten
  <2>5. v \notin gone /\ \A q \in Request : Hopeless(req[q]) => Head(req[q].todo) # v
    BY <1>2, <1>4, <1>9 DEF AnswersNew
  <2>6. GoneKnown'
    BY <1>1, <1>4, <1>6, <2>4, <2>5 DEF GoneKnown
  <2>7. \A w \in Pv : pvs'[w].exists /\ ~ pvs[w].exists =>
             \A q \in Request : Hopeless(req[q]) => Head(req[q].todo) # w
    BY <2>4, <2>5
  <2>8. req[r].stable => authority.owner[v] # "missing"
    BY <1>3, <1>9, <2>a
  <2>9. \A q \in Request \ {r} : req[q].todo # << >> /\ req[q].answer \in Device \cup {none} =>
             Head(req[q].todo) \notin gone'
    BY <1>1, <1>4 DEF AnswersNew
  <2>10. req[r].target \in Device \cup {none} /\ ~ Hopeless(req[r])
    BY <1>2, <2>5 DEF Asking
  <2>11. QED
    BY <1>1, <1>2, <1>6, <2>1, <2>4, <2>6, <2>7, <2>8, <2>9, <2>10, StepsOnKeeps
<1>10. QED
  BY <1>3, <1>7, <1>8, <1>9

LEMMA OwnerAnsweredKeeps ==
  ASSUME GateNames, GateInv, NEW r \in Request, G!OwnerAnswered(r)
  PROVE  GateInv'
<1> DEFINE v == Head(req[r].todo)
           answer == req[r].answer
<1>1. /\ req[r].at = "owner" /\ answer # "no answer" /\ UNCHANGED <<authority, time, moved>>
  BY DEF G!OwnerAnswered, G!NoAnswer, G!Outside
<1>2. /\ req[r] \in Asking /\ req[r].todo # << >> /\ v \in Pv /\ req[r].at \in GateStep
      /\ ~ Hopeless(req[r]) /\ req[r].target \in Device \cup {none}
  BY <1>1, AtWork DEF GateStep, Asking
<1>3. /\ answer \in Device \cup {none, "missing", "down"} /\ (answer = "down" => "down" \in req[r].seen)
      /\ answer \in Device \cup {none, "missing"} =>
               /\ moved[v] < time => answer = authority.owner[v]
               /\ req[r].stable => answer = authority.owner[v]
      /\ time \in Nat /\ moved[v] \in Nat
  BY <1>1, AnswerIs
<1>4. GateTypes /\ CachesTrue /\ GoneKnown /\ AnswersNew
  BY DEF GateInv
<1>5. /\ pvs[v] \in [exists : BOOLEAN, at : Nat] /\ owners[v] \in [owner : Device \cup {none}, at : Nat]
      /\ pvs[v].at <= time /\ owners[v].at <= time
      /\ moved[v] < pvs[v].at => (pvs[v].exists <=> authority.owner[v] # "missing")
      /\ moved[v] < owners[v].at => owners[v].owner = authority.owner[v]
      /\ pvs = [pvs EXCEPT ![v] = pvs[v]] /\ owners = [owners EXCEPT ![v] = owners[v]]
  BY <1>2, <1>4 DEF GateTypes, CachesTrue
<1>6. req[r].stable => authority.owner[v] # "missing"
  <2>1. Sound(req[r])
    BY DEF GateInv
  <2>2. QED
    BY <1>1, <1>2, <2>1 DEF Sound
<1>7. CASE answer = "down"
  <2>1. G!Ends(r, "down", FALSE) /\ UNCHANGED <<pvs, owners, gone>>
    BY <1>7 DEF G!OwnerAnswered, G!Down
  <2>2. req[r].stable => (IF "down" \in G!Tried THEN "free" ELSE "down") \in req[r].seen
    BY <1>3, <1>7 DEF G!Tried
  <2>3. /\ pvs' \in [Pv -> [exists : BOOLEAN, at : Nat]]
        /\ owners' \in [Pv -> [owner : Device \cup {none}, at : Nat]]
        /\ CachesTrue'
    BY <1>1, <2>1, CachesStay
  <2>4. QED
    BY <1>1, <1>2, <2>1, <2>2, <2>3, EndsKeeps
<1>8. CASE answer = "missing"
  <2> DEFINE e == G!NoPv
             o == G!NoOwner
             alone_ == G!NothingElseOnTheWay(r) /\ authority.owner[v] = "missing"
  <2>1. /\ pvs' = [pvs EXCEPT ![v] = e] /\ owners' = [owners EXCEPT ![v] = o] /\ G!Checks(r, none)
        /\ gone' = IF alone_ THEN gone \cup {v} ELSE gone
    BY <1>8 DEF G!OwnerAnswered, G!Down, G!PvOf
  <2>2. /\ e \in [exists : BOOLEAN, at : Nat] /\ e.at = 0 /\ e.exists = FALSE
        /\ o \in [owner : Device \cup {none}, at : Nat] /\ o.at = 0
    BY DEF G!NoPv, G!NoOwner
  <2>3. /\ alone_ => authority.owner[v] = "missing"
        /\ alone_ => \A q \in Request \ {r} : req[q].answer = "no answer"
    BY DEF G!NothingElseOnTheWay, G!NoAnswer
  <2>b. gone' = gone \/ (alone_ /\ gone' = gone \cup {v})
    BY <2>1
  <2> HIDE DEF e, o, alone_
  <2>t. time \in Nat /\ moved[v] \in Nat
    BY <1>3
  <2>0. ~ (moved[v] < 0) /\ 0 <= time
    BY <2>t, BeforeIsOther
  <2>4. /\ e.at <= time /\ (moved[v] < e.at => (e.exists <=> authority.owner[v] # "missing"))
        /\ o.at <= time /\ (moved[v] < o.at => o.owner = authority.owner[v])
    BY <2>0, <2>2
  <2>5. /\ pvs' \in [Pv -> [exists : BOOLEAN, at : Nat]]
        /\ owners' \in [Pv -> [owner : Device \cup {none}, at : Nat]]
        /\ CachesTrue' /\ pvs'[v] = e /\ \A w \in Pv \ {v} : pvs'[w] = pvs[w]
    BY <1>1, <1>2, <2>1, <2>2, <2>4, CachesWritten
  <2>6. gone' \subseteq Pv /\ \A w \in gone' : w \in gone \/ (w = v /\ alone_)
    BY <1>2, <1>4, <2>b DEF GateTypes
  <2>7. GoneKnown'
    <3> SUFFICES ASSUME NEW w \in gone'
                 PROVE  authority.owner[w] = "missing" /\ ~ pvs'[w].exists
      BY <1>1 DEF GoneKnown
    <3>1. CASE w = v /\ alone_
      BY <2>2, <2>3, <2>5, <3>1
    <3>2. CASE w \in gone
      <4>1. authority.owner[w] = "missing" /\ ~ pvs[w].exists /\ w \in Pv
        BY <1>4, <2>6, <3>2 DEF GoneKnown
      <4>2. QED
        BY <2>2, <2>5, <4>1
    <3>3. QED
      BY <2>6, <3>1, <3>2
  <2>8. \A q \in Request \ {r} : req[q].todo # << >> /\ req[q].answer \in Device \cup {none} =>
             Head(req[q].todo) \notin gone'
    <3> SUFFICES ASSUME NEW q \in Request \ {r}, req[q].todo # << >>, req[q].answer \in Device \cup {none}
                 PROVE  Head(req[q].todo) \notin gone'
      OBVIOUS
    <3>1. "no answer" \notin Device \cup {none}
      BY DEF GateNames
    <3>2. ~ alone_
      BY <2>3, <3>1
    <3>3. Head(req[q].todo) \notin gone
      BY <1>4 DEF AnswersNew
    <3>4. QED
      BY <2>b, <3>2, <3>3
  <2>9. \A w \in Pv : ~ (pvs'[w].exists /\ ~ pvs[w].exists)
    BY <2>2, <2>5
  <2>10. ~ req[r].stable
    BY <1>3, <1>6, <1>8
  <2>11. none \in Device \cup {none}
    OBVIOUS
  <2>12. QED
    BY <1>1, <1>2, <2>1, <2>5, <2>6, <2>7, <2>8, <2>9, <2>10, <2>11, StepsOnKeeps
<1>9. CASE answer \in Device \cup {none}
  <2>a. answer # "down" /\ answer # "missing"
    BY <1>9 DEF GateNames
  <2> DEFINE o == [owner |-> answer, at |-> time]
  <2>1. owners' = [owners EXCEPT ![v] = o] /\ G!Checks(r, answer) /\ UNCHANGED <<pvs, gone>>
    BY <2>a DEF G!OwnerAnswered, G!Down, G!PvOf
  <2>2. o \in [owner : Device \cup {none}, at : Nat] /\ o.at = time /\ o.owner = answer
    BY <1>3, <1>9
  <2> HIDE DEF o
  <2>3. (moved[v] < o.at => o.owner = authority.owner[v]) /\ o.at <= time
    BY <1>3, <1>9, <2>2
  <2>4. /\ pvs' \in [Pv -> [exists : BOOLEAN, at : Nat]]
        /\ owners' \in [Pv -> [owner : Device \cup {none}, at : Nat]]
        /\ CachesTrue'
    <3>1. pvs' = [pvs EXCEPT ![v] = pvs[v]]
      BY <1>5, <2>1
    <3>2. QED
      BY <1>1, <1>2, <1>5, <2>1, <2>2, <2>3, <3>1, CachesWritten
  <2>5. GoneKnown' /\ gone' \subseteq Pv
    BY <1>1, <1>4, <2>1 DEF GoneKnown, GateTypes
  <2>6. \A w \in Pv : pvs'[w].exists /\ ~ pvs[w].exists =>
             \A q \in Request : Hopeless(req[q]) => Head(req[q].todo) # w
    BY <2>1
  <2>7. req[r].stable => answer = authority.owner[v]
    BY <1>3, <1>9
  <2>8. \A q \in Request \ {r} : req[q].todo # << >> /\ req[q].answer \in Device \cup {none} =>
             Head(req[q].todo) \notin gone'
    BY <1>4, <2>1 DEF AnswersNew
  <2>9. QED
    BY <1>1, <1>2, <1>6, <1>9, <2>1, <2>4, <2>5, <2>6, <2>7, <2>8, StepsOnKeeps
<1>10. QED
  BY <1>3, <1>7, <1>8, <1>9

LEMMA GateStays == ASSUME GateInv, UNCHANGED writes PROVE GateInv'
<1>1. /\ UNCHANGED <<authority, time, moved, pvs, owners, gone>>
      /\ UNCHANGED req
      /\ UNCHANGED ended
  BY DEF writes
<1>2. GateTypes' /\ CachesTrue' /\ GoneKnown'
  BY <1>1 DEF GateInv, GateTypes, CachesTrue, GoneKnown
<1>3. HopeLost' /\ AnswersNew'
  BY <1>1 DEF GateInv, HopeLost, AnswersNew, Hopeless
<1>4. EndedTrue'
  BY <1>1 DEF GateInv, EndedTrue, G!WritesAllowed, G!RefusalsTrue, G!DeletedIsNoticed
<1>5. \A r \in Request : Sound(req[r])'
  BY <1>1 DEF GateInv, Sound
<1>6. /\ \A r \in Request : \A n \in 1..req[r].n - 1 : HasWritten(r, n)
      /\ \A o \in ended : \A n \in 1..o.n - 1 : HasWritten(o.req, n)
  BY DEF GateInv
<1>7. (\A r \in Request : \A n \in 1..req[r].n - 1 : HasWritten(r, n))'
  BY <1>1, <1>6 DEF HasWritten
<1>8. (\A o \in ended : \A n \in 1..o.n - 1 : HasWritten(o.req, n))'
  BY <1>1, <1>6 DEF HasWritten
<1>9. QED
  BY <1>2, <1>3, <1>4, <1>5, <1>7, <1>8 DEF GateInv

LEMMA GateNextKeeps == ASSUME GateNames, GateInv, G!Next PROVE GateInv'
<1>1. CASE \/ \E d \in Device : G!Deleted(d) \/ \E status \in G!Statuses : G!StatusChanges(d, status)
           \/ \E v \in Pv, to \in Device \cup {none} : G!Registered(v, to)
           \/ G!GoesUpOrDown
  BY <1>1, ChangesKeep
<1>2. CASE G!Tick
  BY <1>2, TickKeepsGate
<1>3. ASSUME NEW r \in Request, NEW batch \in Batches[r], G!Arrives(r, batch)
      PROVE  GateInv'
  BY <1>3, ArrivesKeeps
<1>4. ASSUME NEW r \in Request, G!Step(r)
      PROVE  GateInv'
  <2>1. CASE G!PvAsked(r) \/ G!OwnerAsked(r)
    <3>1. /\ G!Asks(r) /\ req[r].at \in {"pv", "owner"}
          /\ UNCHANGED <<authority, time, moved, pvs, owners, gone>>
      BY <2>1 DEF G!PvAsked, G!OwnerAsked, G!Outside
    <3>2. QED
      BY <3>1, AsksKeeps
  <2>2. CASE G!PvCached(r)
    BY <2>2, PvCachedKeeps
  <2>3. CASE G!PvAnswered(r)
    BY <2>3, PvAnsweredKeeps
  <2>4. CASE G!OwnerCached(r)
    BY <2>4, OwnerCachedKeeps
  <2>5. CASE G!OwnerAnswered(r)
    BY <2>5, OwnerAnsweredKeeps
  <2>6. CASE G!Checked(r)
    BY <2>6, CheckedKeeps
  <2>7. CASE G!PutFails(r)
    BY <2>7, PutFailsKeeps
  <2>8. CASE G!PutDone(r)
    BY <2>8, PutDoneKeeps
  <2>9. QED
    BY <1>4, <2>1, <2>2, <2>3, <2>4, <2>5, <2>6, <2>7, <2>8 DEF G!Step
<1>5. QED
  BY <1>1, <1>2, <1>3, <1>4 DEF G!Next

LEMMA GateInvGives == ASSUME GateNames, GateInv PROVE G!GateTrue /\ G!BatchHalts
<1>1. /\ authority.owner \in [Pv -> G!Owners] /\ authority.status \in [Device -> G!Statuses]
  BY DEF GateInv, GateTypes, G!Owners, G!Statuses
<1>2. \A v \in Pv : pvs[v].at <= time /\ owners[v].at <= time
  BY DEF GateInv, CachesTrue
<1>3. \A r \in Request : /\ req[r].target \in Device \cup {none}
                         /\ req[r].answer # "no answer" => req[r].at \in {"pv", "owner"}
  BY DEF GateInv, GateTypes, Sound, Asking
<1>4. G!TypeOK
  BY <1>1, <1>2, <1>3 DEF G!TypeOK, G!NoAnswer
<1>5. G!WritesAllowed /\ G!RefusalsTrue /\ G!DeletedIsNoticed
  BY DEF GateInv, EndedTrue
<1>6. G!BatchHalts
  BY DEF GateInv, HasWritten, G!BatchHalts
<1>7. QED
  BY <1>4, <1>5, <1>6 DEF G!GateTrue

(* The gate lets through and refuses what the authority allows and forbids, *)
(* as soon as the owner has been the same for longer than the caches live;  *)
(* a PV known to be deleted is not written again before it is registered    *)
(* again; and what a batch reports as applied was written, in order.        *)
THEOREM GateHolds == ASSUME GateNames PROVE ServicesSpec => []GateTrue
<1> DEFINE Mine == part = "gate" => GateInv
<1>1. ServicesInit => Mine
  <2> SUFFICES ASSUME ServicesInit, part = "gate" PROVE GateInv
    OBVIOUS
  <2>1. G!Init
    BY DEF ServicesInit
  <2>2. QED
    BY <2>1, GateInitInv
<1>2. Mine /\ [ServicesNext]_<<part, lock, work, client, rights, writes, motions, watching, registryVars>>
        => Mine'
  <2> SUFFICES ASSUME Mine, part' = "gate",
                      [ServicesNext]_<<part, lock, work, client, rights, writes, motions,
                                       watching, registryVars>>
               PROVE  GateInv'
    OBVIOUS
  <2>1. part = "gate" /\ GateInv /\ (G!Next \/ UNCHANGED writes)
    BY DEF ServicesNext, RegistryNext
  <2>2. QED
    BY <2>1, GateNextKeeps, GateStays
<1>3. Mine => GateTrue
  BY GateInvGives DEF GateTrue
<1> HIDE DEF Mine
<1>4. QED
  BY <1>1, <1>2, <1>3, PTL DEF ServicesSpec

-----------------------------------------------------------------------------
(* Commands to a device.                                                   *)

(* No request is called none; kinds are those of the code.                 *)
CommandNames ==
    /\ none \notin Request /\ MaxInstance \in Nat /\ TTL \in Nat
    /\ \A r \in Request : Kinds[r] \subseteq {"read", "put", "initiate"}

Spent   == {"destroyed", "leaked"}
Object  == [spec : 0..2, is : Spent \cup {"connecting", "live"}]
Command ==
    [at : {"none", "check", "spec", "connect", "destroy", "build", "invoke", "wait", "stop", "done"},
     kind : {"none", "read", "put", "initiate"}, spec : 0..2, inst : Nat, asked : BOOLEAN,
     end : {"none", "locked", "no spec", "ok", "failed", "initiated", "stopped", "may be moving"},
     free : BOOLEAN, stable : BOOLEAN]

CommandTypes ==
    /\ registry \in [spec : 0..2, locked : BOOLEAN, since : Nat] /\ now \in Nat
    /\ cached \in [spec : 0..2, at : Nat] /\ entry \in Nat /\ holder \in Request \cup {none}
    /\ \E n \in 0..MaxInstance : instances \in [1..n -> Object]
    /\ commands \in [Request -> Command] /\ motion \subseteq Request /\ edits \in Nat

(* The cached spec is the registry's if it is younger than the last change  *)
(* there; the entry is live, and nothing else is but what is being built.   *)
ObjectsKnown ==
    /\ registry.since <= now /\ cached.at <= now /\ TTL < now
    /\ registry.since < cached.at => cached.spec = registry.spec
    /\ entry # 0 => entry \in DOMAIN instances /\ instances[entry].is = "live"
    /\ \A i \in DOMAIN instances : instances[i].is \notin Spent =>
           i = entry \/ (holder \in Request /\ commands[holder].at = "build" /\ i = commands[holder].inst)
    /\ edits = 0 => /\ registry.spec = 1
                    /\ cached.at = 0 \/ cached.spec = 1
                    /\ \A i \in DOMAIN instances : instances[i].spec = 1

(* A command that has its spec, or is about to get it.                     *)
HasSpec(c) == c.asked \/ c.at \in {"connect", "destroy", "build", "invoke", "wait", "stop"}

(* What holds of a command at each of its steps.                           *)
CommandFits(r) ==
    LET c == commands[r]
    IN  /\ c.asked => c.at = "spec" /\ (c.spec = registry.spec \/ registry.since = now)
        /\ c.at \in {"build", "destroy"} <=> holder = r
        /\ c.at \in {"build", "invoke", "wait", "stop"} =>
               c.inst \in DOMAIN instances /\ instances[c.inst].spec = c.spec
        /\ c.at = "build" => instances[c.inst].is = "connecting" /\ entry = 0
        /\ c.at = "destroy" => entry # 0 /\ D!NextId <= MaxInstance
        /\ c.stable => registry.since + TTL < now /\ (HasSpec(c) => c.spec = registry.spec)
        /\ c.at \notin {"none", "done"} /\ ~ registry.locked => c.free
        /\ c.at \notin {"none", "done", "check"} /\ c.kind # "read" => c.free
        /\ r \in motion => /\ c.free /\ c.at \in {"wait", "stop", "done"}
                           /\ c.at = "done" => c.end \in {"initiated", "may be moving"}
        /\ edits = 0 => /\ HasSpec(c) => c.spec = 1
                        /\ c.at # "destroy"
                        /\ c.at \in {"invoke", "wait", "stop"} => instances[c.inst].is = "live"

CommandInv == CommandTypes /\ ObjectsKnown /\ \A r \in Request : CommandFits(r)

LEMMA CommandInitInv == ASSUME CommandNames, D!Init PROVE CommandInv
<1>1. /\ registry = [spec |-> 1, locked |-> FALSE, since |-> 0] /\ now = TTL + 1
      /\ cached = [spec |-> 0, at |-> 0] /\ entry = 0 /\ holder = none /\ instances = << >>
      /\ commands = [r \in Request |-> D!Idle] /\ motion = {} /\ edits = 0
  BY DEF D!Init
<1>2. TTL \in Nat /\ now \in Nat /\ TTL < now
  <2>1. TTL \in Nat
    BY DEF CommandNames
  <2>2. QED
    BY <1>1, <2>1
<1>3. D!Idle \in Command
  BY DEF D!Idle, Command
<1>4. \E n \in 0..MaxInstance : instances \in [1..n -> Object]
  <2>1. 0 \in 0..MaxInstance
    BY DEF CommandNames
  <2>2. 1..0 = {}
    OBVIOUS
  <2>3. << >> \in [1..0 -> Object]
    BY <2>2
  <2>4. QED
    BY <1>1, <2>1, <2>3
<1>5. CommandTypes
  <2>1. registry \in [spec : 0..2, locked : BOOLEAN, since : Nat] /\ cached \in [spec : 0..2, at : Nat]
    BY <1>1
  <2>2. commands \in [Request -> Command]
    BY <1>1, <1>3
  <2>3. QED
    BY <1>1, <1>2, <1>4, <2>1, <2>2 DEF CommandTypes
<1>6. DOMAIN instances = {}
  BY <1>1
<1>7. ObjectsKnown
  <2>1. registry.since = 0 /\ cached.at = 0 /\ entry = 0 /\ registry.spec = 1
    BY <1>1
  <2>2. QED
    BY <1>2, <1>6, <2>1 DEF ObjectsKnown
<1>8. ASSUME NEW r \in Request
      PROVE  CommandFits(r)
  <2>1. commands[r].at = "none" /\ ~ commands[r].asked /\ ~ commands[r].stable
    BY <1>1 DEF D!Idle
  <2>2. holder # r /\ r \notin motion
    BY <1>1 DEF CommandNames
  <2>3. QED
    BY <2>1, <2>2 DEF CommandFits, HasSpec
<1>9. QED
  BY <1>5, <1>7, <1>8 DEF CommandInv

(* The authority changes.                                                  *)
LEMMA RegistryKeeps ==
  ASSUME CommandNames, CommandInv, NEW new \in [spec : 0..2, locked : BOOLEAN, since : Nat], D!Becomes(new),
         \/ new.spec = registry.spec /\ new.since = registry.since
         \/ new.spec # registry.spec /\ new.since = now
  PROVE  CommandInv'
<1>1. /\ registry' = new /\ edits' = edits + 1
      /\ commands' = [r \in Request |-> [commands[r] EXCEPT !.free = @ \/ (D!Active(r) /\ ~ new.locked),
                                                !.stable = @ /\ new.spec = registry.spec]]
      /\ UNCHANGED <<now, cached, entry, holder, instances, motion>>
  BY DEF D!Becomes
<1>2. CommandTypes /\ ObjectsKnown
  BY DEF CommandInv
<1>3. edits \in Nat /\ edits' \in Nat /\ edits' # 0
  <2>1. edits' = edits + 1
    BY <1>1
  <2>2. edits \in Nat
    BY <1>2 DEF CommandTypes
  <2>3. QED
    BY <2>1, <2>2
<1>4. ASSUME NEW r \in Request
      PROVE  /\ commands'[r] \in Command
             /\ commands'[r].at = commands[r].at /\ commands'[r].kind = commands[r].kind
             /\ commands'[r].spec = commands[r].spec /\ commands'[r].inst = commands[r].inst
             /\ commands'[r].asked = commands[r].asked /\ commands'[r].end = commands[r].end
             /\ commands[r].free => commands'[r].free
             /\ commands[r].at \notin {"none", "done"} /\ ~ new.locked => commands'[r].free
             /\ commands'[r].stable => commands[r].stable /\ new.spec = registry.spec
  <2> DEFINE free == commands[r].free \/ (D!Active(r) /\ ~ new.locked)
             stable == commands[r].stable /\ new.spec = registry.spec
  <2>1. commands[r] \in Command
    BY <1>2 DEF CommandTypes
  <2>2. commands'[r] = [commands[r] EXCEPT !.free = free, !.stable = stable] /\ free \in BOOLEAN /\ stable \in BOOLEAN
    BY <1>1, <2>1 DEF Command
  <2>3. /\ commands[r].free => free
        /\ commands[r].at \notin {"none", "done"} /\ ~ new.locked => free
        /\ stable => commands[r].stable /\ new.spec = registry.spec
    BY DEF D!Active
  <2> HIDE DEF free, stable
  <2>4. QED
    BY <2>1, <2>2, <2>3 DEF Command
<1>5. CommandTypes'
  <2>1. commands' \in [Request -> Command]
    BY <1>1, <1>4
  <2>2. QED
    BY <1>1, <1>2, <1>3, <2>1 DEF CommandTypes
<1>6. ObjectsKnown'
  <2>1. new.since <= now /\ (new.since < cached.at => cached.spec = new.spec)
    <3>1. /\ registry.since <= now /\ cached.at <= now
          /\ registry.since < cached.at => cached.spec = registry.spec
          /\ now \in Nat /\ cached.at \in Nat
      BY <1>2 DEF CommandTypes, ObjectsKnown
    <3>2. QED
      BY <3>1
  <2>2. \A i \in DOMAIN instances : instances[i].is \notin Spent =>
           i = entry \/ (holder \in Request /\ commands'[holder].at = "build" /\ i = commands'[holder].inst)
    BY <1>2, <1>4 DEF ObjectsKnown
  <2>3. QED
    BY <1>1, <1>2, <1>3, <2>1, <2>2 DEF ObjectsKnown
<1>7. ASSUME NEW r \in Request
      PROVE  CommandFits(r)'
  <2>1. CommandFits(r)
    BY DEF CommandInv
  <2>2. commands'[r].asked => commands'[r].at = "spec" /\ (commands'[r].spec = new.spec \/ new.since = now)
    BY <1>4, <2>1 DEF CommandFits
  <2>3. commands'[r].stable => new.since + TTL < now /\ (HasSpec(commands'[r]) => commands'[r].spec = new.spec)
    BY <1>4, <2>1, <1>2, <1>3 DEF CommandFits, HasSpec, CommandTypes, CommandNames
  <2>4. commands'[r].at \notin {"none", "done", "check"} /\ commands'[r].kind # "read" => commands'[r].free
    BY <1>4, <2>1 DEF CommandFits
  <2>5. D!NextId' = D!NextId
    BY <1>1 DEF D!NextId
  <2>6. QED
    BY <1>1, <1>3, <1>4, <2>1, <2>2, <2>3, <2>4, <2>5 DEF CommandFits, HasSpec
<1>8. QED
  BY <1>5, <1>6, <1>7 DEF CommandInv

LEMMA RegistryStepKeeps ==
  ASSUME CommandNames, CommandInv, (\E spec \in 0..2 : D!SpecChanges(spec)) \/ D!LockChanges
  PROVE  CommandInv'
<1>1. registry \in [spec : 0..2, locked : BOOLEAN, since : Nat] /\ now \in Nat
  BY DEF CommandInv, CommandTypes
<1>2. ASSUME NEW spec \in 0..2, D!SpecChanges(spec)
      PROVE  CommandInv'
  <2> DEFINE new == [registry EXCEPT !.spec = spec, !.since = now]
  <2>1. D!Becomes(new) /\ spec # registry.spec
    BY <1>2 DEF D!SpecChanges
  <2>2. new \in [spec : 0..2, locked : BOOLEAN, since : Nat] /\ new.spec = spec /\ new.since = now
    BY <1>1
  <2> HIDE DEF new
  <2>3. QED
    BY <2>1, <2>2, RegistryKeeps
<1>3. CASE D!LockChanges
  <2> DEFINE locked_ == ~ registry.locked
             new == [registry EXCEPT !.locked = locked_]
  <2>1. D!Becomes(new) /\ locked_ \in BOOLEAN
    BY <1>3 DEF D!LockChanges
  <2> HIDE DEF locked_
  <2>2. new \in [spec : 0..2, locked : BOOLEAN, since : Nat] /\ new.spec = registry.spec /\ new.since = registry.since
    BY <1>1, <2>1
  <2> HIDE DEF new
  <2>3. QED
    BY <2>1, <2>2, RegistryKeeps
<1>4. QED
  BY <1>2, <1>3

LEMMA ClockKeeps == ASSUME CommandNames, CommandInv, D!Tick PROVE CommandInv'
<1>1. /\ UNCHANGED <<registry, cached, entry, holder, instances, commands, motion, edits>>
      /\ now' = now + 1
      /\ \A r \in Request : ~ commands[r].asked
  BY DEF D!Tick
<1>2. CommandTypes /\ ObjectsKnown
  BY DEF CommandInv
<1>3. now \in Nat /\ now' \in Nat /\ \A m \in Nat : (m <= now => m <= now') /\ (m < now => m < now')
  <2>1. now \in Nat
    BY <1>2 DEF CommandTypes
  <2>2. now' = now + 1
    BY <1>1
  <2>3. QED
    BY <2>1, <2>2
<1>4. CommandTypes'
  BY <1>1, <1>2, <1>3 DEF CommandTypes
<1>5. registry.since \in Nat /\ cached.at \in Nat /\ TTL \in Nat
  BY <1>2 DEF CommandTypes, CommandNames
<1>6. ObjectsKnown'
  BY <1>1, <1>2, <1>3, <1>5 DEF ObjectsKnown
<1>7. ASSUME NEW r \in Request
      PROVE  CommandFits(r)'
  <2>1. CommandFits(r) /\ ~ commands[r].asked
    BY <1>1 DEF CommandInv
  <2>2. registry.since + TTL < now => registry.since + TTL < now'
    <3>1. registry.since + TTL \in Nat
      BY <1>5
    <3>2. QED
      BY <1>3, <3>1
  <2>3. D!NextId' = D!NextId
    BY <1>1 DEF D!NextId
  <2>4. QED
    BY <1>1, <2>1, <2>2, <2>3 DEF CommandFits, HasSpec
<1>8. QED
  BY <1>4, <1>6, <1>7 DEF CommandInv

(* One command gets on; the objects stay as they are.                      *)
LEMMA CommandAloneKeeps ==
  ASSUME CommandNames, CommandInv, NEW r \in Request, holder # r,
         UNCHANGED <<registry, now, entry, holder, instances, edits>>,
         commands' \in [Request -> Command], \A q \in Request \ {r} : commands'[q] = commands[q],
         motion' \subseteq motion \cup {r}, cached' \in [spec : 0..2, at : Nat], cached'.at <= now,
         registry.since < cached'.at => cached'.spec = registry.spec,
         edits = 0 => cached'.at = 0 \/ cached'.spec = 1,
         CommandFits(r)'
  PROVE  CommandInv'
<1>1. CommandTypes /\ ObjectsKnown
  BY DEF CommandInv
<1>2. CommandTypes'
  BY <1>1 DEF CommandTypes
<1>3. ObjectsKnown'
  <2>1. \A i \in DOMAIN instances : instances[i].is \notin Spent =>
           i = entry \/ (holder \in Request /\ commands'[holder].at = "build" /\ i = commands'[holder].inst)
    BY <1>1 DEF ObjectsKnown
  <2>2. QED
    BY <1>1, <2>1 DEF ObjectsKnown
<1>4. ASSUME NEW q \in Request
      PROVE  CommandFits(q)'
  <2>1. CASE q = r
    BY <2>1
  <2>2. CASE q # r
    <3>1. CommandFits(q) /\ commands'[q] = commands[q] /\ (q \in motion' => q \in motion)
      BY <2>2 DEF CommandInv
    <3>2. D!NextId' = D!NextId
      BY DEF D!NextId
    <3>3. QED
      BY <3>1, <3>2 DEF CommandFits, HasSpec
  <2>3. QED
    BY <2>1, <2>2
<1>5. QED
  BY <1>2, <1>3, <1>4 DEF CommandInv

(* What is known of a command that does not touch the objects.             *)
LEMMA CommandKnown ==
  ASSUME CommandNames, CommandInv, NEW r \in Request
  PROVE  /\ commands[r] \in Command /\ commands \in [Request -> Command] /\ CommandFits(r)
         /\ commands[r].at \notin {"build", "destroy"} => holder # r
         /\ commands[r].at \in {"none", "check", "spec", "connect", "invoke"} => r \notin motion
         /\ cached \in [spec : 0..2, at : Nat] /\ cached.at <= now
         /\ registry.since < cached.at => cached.spec = registry.spec
         /\ edits = 0 => cached.at = 0 \/ cached.spec = 1
<1>1. CommandTypes /\ ObjectsKnown /\ CommandFits(r)
  BY DEF CommandInv
<1>2. QED
  BY <1>1 DEF CommandTypes, ObjectsKnown, CommandFits

(* A command goes to another place, with an end to it or not.              *)
Places == {"check", "spec", "connect", "destroy", "build", "invoke", "wait", "stop", "done"}
Endings == {"none", "locked", "no spec", "ok", "failed", "initiated", "stopped", "may be moving"}

LEMMA CommandGoes ==
  ASSUME commands \in [Request -> Command], NEW r \in Request, NEW at \in Places,
         \/ D!Goes(r, at)
         \/ \E end \in Endings : D!Ends(r, end) /\ at = "done"
  PROVE  /\ commands' \in [Request -> Command] /\ \A q \in Request \ {r} : commands'[q] = commands[q]
         /\ commands'[r].at = at /\ (D!Goes(r, at) => commands'[r].end = commands[r].end)
         /\ \A end \in Endings : D!Ends(r, end) /\ at = "done" => commands'[r].end = end
         /\ commands'[r].kind = commands[r].kind /\ commands'[r].asked = commands[r].asked
         /\ commands'[r].spec = commands[r].spec /\ commands'[r].inst = commands[r].inst
         /\ commands'[r].free = commands[r].free /\ commands'[r].stable = commands[r].stable
<1> DEFINE c == commands[r]
<1>1. c \in Command
  OBVIOUS
<1>2. ASSUME NEW end \in Endings,
             \/ D!Goes(r, at) /\ end = c.end
             \/ D!Ends(r, end) /\ at = "done"
      PROVE  /\ commands' \in [Request -> Command] /\ \A q \in Request \ {r} : commands'[q] = commands[q]
             /\ commands'[r].at = at /\ commands'[r].end = end
             /\ commands'[r].kind = commands[r].kind /\ commands'[r].asked = commands[r].asked
             /\ commands'[r].spec = commands[r].spec /\ commands'[r].inst = commands[r].inst
             /\ commands'[r].free = commands[r].free /\ commands'[r].stable = commands[r].stable
  <2> DEFINE d == [c EXCEPT !.at = at, !.end = end]
  <2>1. commands' = [commands EXCEPT ![r] = d]
    <3>1. CASE D!Goes(r, at) /\ end = c.end
      <4>1. [c EXCEPT !.at = at] = d
        BY <1>1, <3>1 DEF Command
      <4>2. commands' = [commands EXCEPT ![r] = [c EXCEPT !.at = at]]
        BY <3>1 DEF D!Goes
      <4>3. QED
        BY <4>1, <4>2
    <3>2. CASE D!Ends(r, end) /\ at = "done"
      BY <3>2 DEF D!Ends
    <3>3. QED
      BY <1>2, <3>1, <3>2
  <2>2. /\ d \in Command /\ d.at = at /\ d.end = end
        /\ d.kind = c.kind /\ d.asked = c.asked /\ d.spec = c.spec /\ d.inst = c.inst
        /\ d.free = c.free /\ d.stable = c.stable
    BY <1>1 DEF Command, Places, Endings
  <2> HIDE DEF d
  <2>3. QED
    BY <2>1, <2>2
<1>3. c.end \in Endings
  BY <1>1 DEF Command, Endings
<1>4. CASE D!Goes(r, at)
  BY <1>2, <1>3, <1>4
<1>5. CASE \E end \in Endings : D!Ends(r, end) /\ at = "done"
  <2>1. PICK end \in Endings : D!Ends(r, end) /\ at = "done"
    BY <1>5
  <2>2. D!Goes(r, at) => commands'[r].end = c.end
    BY <1>2, <1>3
  <2>3. QED
    BY <1>2, <2>1, <2>2
<1>6. QED
  BY <1>4, <1>5

LEMMA ArriveKeeps ==
  ASSUME CommandNames, CommandInv, NEW r \in Request, NEW kind \in Kinds[r], D!Arrives(r, kind)
  PROVE  CommandInv'
<1> DEFINE free   == ~ registry.locked
           stable == now > registry.since + TTL
           at     == IF kind = "read" THEN "spec" ELSE "check"
           c      == [D!Idle EXCEPT !.at = at, !.kind = kind, !.free = free, !.stable = stable]
<1>1. /\ commands[r].at = "none" /\ commands' = [commands EXCEPT ![r] = c]
      /\ UNCHANGED <<cached, entry, holder, instances, motion, registry, now, edits>>
  BY DEF D!Arrives, D!Objects, D!Outside
<1>2. /\ commands[r] \in Command /\ commands \in [Request -> Command] /\ CommandFits(r)
      /\ holder # r /\ r \notin motion
      /\ cached \in [spec : 0..2, at : Nat] /\ cached.at <= now
      /\ registry.since < cached.at => cached.spec = registry.spec
      /\ edits = 0 => cached.at = 0 \/ cached.spec = 1
  BY <1>1, CommandKnown
<1>3. kind \in {"read", "put", "initiate"} /\ at \in {"spec", "check"} /\ free \in BOOLEAN /\ stable \in BOOLEAN
  BY DEF CommandNames
<1>4. (stable => registry.since + TTL < now) /\ (~ registry.locked => free) /\ (at = "check" \/ kind = "read")
  <2>1. registry.since \in Nat /\ now \in Nat
    BY DEF CommandInv, CommandTypes
  <2>2. TTL \in Nat
    BY DEF CommandNames
  <2>3. QED
    BY <2>1, <2>2
<1> HIDE DEF free, stable, at
<1>i. D!Idle \in Command /\ D!Idle.asked = FALSE
  BY DEF D!Idle, Command
<1>5. /\ c \in Command /\ c.at = at /\ c.kind = kind /\ c.free = free /\ c.stable = stable /\ ~ c.asked
  BY <1>3, <1>i DEF Command
<1> HIDE DEF c
<1>6. /\ commands' \in [Request -> Command] /\ commands'[r] = c
      /\ \A q \in Request \ {r} : commands'[q] = commands[q]
  BY <1>1, <1>2, <1>5
<1>7. CommandFits(r)'
  BY <1>1, <1>2, <1>3, <1>4, <1>5, <1>6 DEF CommandFits, HasSpec
<1>8. QED
  BY <1>1, <1>2, <1>6, <1>7, CommandAloneKeeps

LEMMA CheckKeeps ==
  ASSUME CommandNames, CommandInv, NEW r \in Request, D!Checked(r)
  PROVE  CommandInv'
<1>1. /\ commands[r].at = "check"
      /\ UNCHANGED <<cached, entry, holder, instances, motion, registry, now, edits>>
      /\ \/ registry.locked /\ D!Ends(r, "locked")
         \/ ~ registry.locked /\ D!Goes(r, "spec")
  BY DEF D!Checked, D!Objects, D!Outside
<1>2. /\ commands[r] \in Command /\ commands \in [Request -> Command] /\ CommandFits(r)
      /\ holder # r /\ r \notin motion
      /\ cached \in [spec : 0..2, at : Nat] /\ cached.at <= now
      /\ registry.since < cached.at => cached.spec = registry.spec
      /\ edits = 0 => cached.at = 0 \/ cached.spec = 1
  BY <1>1, CommandKnown
<1> DEFINE at == IF registry.locked THEN "done" ELSE "spec"
<1>a. /\ at \in {"done", "spec"} /\ (at = "spec" => ~ registry.locked)
      /\ D!Goes(r, at) \/ (D!Ends(r, "locked") /\ at = "done")
  BY <1>1
<1> HIDE DEF at
<1>3. /\ commands' \in [Request -> Command] /\ \A q \in Request \ {r} : commands'[q] = commands[q]
      /\ commands'[r].at = at
      /\ commands'[r].kind = commands[r].kind /\ commands'[r].asked = commands[r].asked
      /\ commands'[r].spec = commands[r].spec /\ commands'[r].inst = commands[r].inst
      /\ commands'[r].free = commands[r].free /\ commands'[r].stable = commands[r].stable
  BY <1>2, <1>a, CommandGoes DEF Places, Endings
<1>4. CommandFits(r)'
  BY <1>1, <1>2, <1>3, <1>a DEF CommandFits, HasSpec
<1>5. QED
  BY <1>1, <1>2, <1>3, <1>4, CommandAloneKeeps

(* The spec is there, or there is none.                                    *)
LEMMA GotKeeps ==
  ASSUME CommandNames, CommandInv, NEW r \in Request, NEW spec \in 0..2, commands[r].at = "spec", D!Got(r, spec),
         UNCHANGED <<entry, holder, instances, motion, registry, now, edits>>,
         commands[r].stable => spec = registry.spec, edits = 0 => spec = 1,
         cached' \in [spec : 0..2, at : Nat], cached'.at <= now,
         registry.since < cached'.at => cached'.spec = registry.spec,
         edits = 0 => cached'.at = 0 \/ cached'.spec = 1
  PROVE  CommandInv'
<1>1. /\ commands[r] \in Command /\ commands \in [Request -> Command] /\ CommandFits(r)
      /\ holder # r /\ r \notin motion
  BY CommandKnown
<1> DEFINE at  == IF spec = 0 THEN "done" ELSE "connect"
           end == IF spec = 0 THEN "no spec" ELSE "none"
<1>2. commands' = [commands EXCEPT ![r] = [commands[r] EXCEPT !.at = at, !.spec = spec, !.end = end, !.asked = FALSE]]
  BY <1>1 DEF D!Got
<1>3. at \in {"done", "connect"} /\ end \in {"no spec", "none"}
  OBVIOUS
<1> HIDE DEF at, end
<1>4. /\ commands' \in [Request -> Command] /\ \A q \in Request \ {r} : commands'[q] = commands[q]
      /\ commands'[r].at \in {"connect", "done"} /\ commands'[r].spec = spec /\ ~ commands'[r].asked
      /\ commands'[r].kind = commands[r].kind /\ commands'[r].inst = commands[r].inst
      /\ commands'[r].free = commands[r].free /\ commands'[r].stable = commands[r].stable
  BY <1>1, <1>2, <1>3 DEF Command
<1>5. CommandFits(r)'
  BY <1>1, <1>4 DEF CommandFits, HasSpec
<1>6. QED
  BY <1>1, <1>4, <1>5, CommandAloneKeeps

LEMMA SpecCachedKeeps ==
  ASSUME CommandNames, CommandInv, NEW r \in Request, D!SpecCached(r)
  PROVE  CommandInv'
<1>1. /\ commands[r].at = "spec" /\ D!SpecFresh /\ D!Got(r, cached.spec)
      /\ UNCHANGED <<cached, entry, holder, instances, motion, registry, now, edits>>
  BY DEF D!SpecCached, D!Objects, D!Outside
<1>2. /\ CommandFits(r) /\ cached \in [spec : 0..2, at : Nat] /\ cached.at <= now
      /\ registry.since < cached.at => cached.spec = registry.spec
      /\ edits = 0 => cached.at = 0 \/ cached.spec = 1
  BY CommandKnown
<1>3. now \in Nat /\ registry.since \in Nat /\ cached.at \in Nat /\ TTL < now
  BY DEF CommandInv, CommandTypes, ObjectsKnown
<1>4. TTL \in Nat
  BY DEF CommandNames
<1>5. now <= cached.at + TTL
  BY <1>1 DEF D!SpecFresh
<1>6. commands[r].stable => registry.since + TTL < now
  BY <1>2 DEF CommandFits
<1>7. cached.at # 0 /\ (registry.since + TTL < now => registry.since < cached.at)
  BY <1>3, <1>4, <1>5
<1>8. (commands[r].stable => cached.spec = registry.spec) /\ (edits = 0 => cached.spec = 1)
  BY <1>2, <1>6, <1>7
<1>9. cached.spec \in 0..2
  BY <1>2
<1>10. QED
  BY <1>1, <1>2, <1>8, <1>9, GotKeeps

LEMMA SpecAskedKeeps ==
  ASSUME CommandNames, CommandInv, NEW r \in Request, D!SpecAsked(r)
  PROVE  CommandInv'
<1>1. /\ commands[r].at = "spec" /\ commands' = [commands EXCEPT ![r].asked = TRUE, ![r].spec = registry.spec]
      /\ UNCHANGED <<cached, entry, holder, instances, motion, registry, now, edits>>
  BY DEF D!SpecAsked, D!Objects, D!Outside
<1>2. /\ commands[r] \in Command /\ commands \in [Request -> Command] /\ CommandFits(r)
      /\ holder # r /\ r \notin motion
      /\ cached \in [spec : 0..2, at : Nat] /\ cached.at <= now
      /\ registry.since < cached.at => cached.spec = registry.spec
      /\ edits = 0 => cached.at = 0 \/ cached.spec = 1
  BY <1>1, CommandKnown
<1>3. registry.spec \in 0..2 /\ (edits = 0 => registry.spec = 1)
  BY DEF CommandInv, CommandTypes, ObjectsKnown
<1> DEFINE c == [commands[r] EXCEPT !.asked = TRUE, !.spec = registry.spec]
<1>4. commands' = [commands EXCEPT ![r] = c]
  BY <1>1, <1>2
<1>c. c \in Command
  BY <1>2, <1>3 DEF Command
<1>d. /\ c.at = commands[r].at /\ c.spec = registry.spec
      /\ c.kind = commands[r].kind /\ c.inst = commands[r].inst
      /\ c.free = commands[r].free /\ c.stable = commands[r].stable
  BY <1>2 DEF Command
<1> HIDE DEF c
<1>5. /\ commands' \in [Request -> Command] /\ \A q \in Request \ {r} : commands'[q] = commands[q]
      /\ commands'[r].at = "spec" /\ commands'[r].spec = registry.spec
      /\ commands'[r].kind = commands[r].kind /\ commands'[r].inst = commands[r].inst
      /\ commands'[r].free = commands[r].free /\ commands'[r].stable = commands[r].stable
  <2>1. commands' \in [Request -> Command] /\ commands'[r] = c /\ \A q \in Request \ {r} : commands'[q] = commands[q]
    BY <1>2, <1>4, <1>c
  <2>2. QED
    BY <1>1, <1>d, <2>1
<1>6. CommandFits(r)'
  BY <1>1, <1>2, <1>3, <1>5 DEF CommandFits, HasSpec
<1>7. QED
  BY <1>1, <1>2, <1>5, <1>6, CommandAloneKeeps

LEMMA SpecAnsweredKeeps ==
  ASSUME CommandNames, CommandInv, NEW r \in Request, D!SpecAnswered(r)
  PROVE  CommandInv'
<1> DEFINE spec == commands[r].spec
           new  == [spec |-> spec, at |-> now]
<1>1. /\ commands[r].asked /\ cached' = new /\ D!Got(r, spec)
      /\ UNCHANGED <<entry, holder, instances, motion, registry, now, edits>>
  BY DEF D!SpecAnswered, D!Objects, D!Outside
<1>2. commands[r] \in Command /\ CommandFits(r)
  BY CommandKnown
<1>3. /\ commands[r].at = "spec" /\ (spec = registry.spec \/ registry.since = now)
      /\ commands[r].stable => registry.since + TTL < now /\ spec = registry.spec
      /\ edits = 0 => spec = 1
  BY <1>1, <1>2 DEF CommandFits, HasSpec
<1>4. spec \in 0..2 /\ now \in Nat /\ registry.since \in Nat
  BY <1>2 DEF Command, CommandInv, CommandTypes
<1> HIDE DEF spec
<1>5. new \in [spec : 0..2, at : Nat] /\ new.at = now /\ new.spec = spec
  BY <1>4
<1> HIDE DEF new
<1>6. registry.since < now => spec = registry.spec
  BY <1>3, <1>4
<1>7. now <= now
  BY <1>4
<1>8. QED
  BY <1>1, <1>3, <1>4, <1>5, <1>6, <1>7, GotKeeps

LEMMA InvokeFailsKeeps ==
  ASSUME CommandNames, CommandInv, NEW r \in Request, D!InvokeFails(r)
  PROVE  CommandInv'
<1>1. /\ commands[r].at = "invoke" /\ D!Ends(r, "failed")
      /\ UNCHANGED <<cached, entry, holder, instances, registry, now, edits>> /\ motion' = motion
  BY DEF D!InvokeFails, D!Objects, D!Outside
<1>2. /\ commands[r] \in Command /\ commands \in [Request -> Command] /\ CommandFits(r)
      /\ holder # r
      /\ cached \in [spec : 0..2, at : Nat] /\ cached.at <= now
      /\ registry.since < cached.at => cached.spec = registry.spec
      /\ edits = 0 => cached.at = 0 \/ cached.spec = 1
  BY <1>1, CommandKnown
<1>3. /\ commands' \in [Request -> Command] /\ \A q \in Request \ {r} : commands'[q] = commands[q]
      /\ commands'[r].at = "done" /\ commands'[r].end = "failed"
      /\ commands'[r].kind = commands[r].kind /\ commands'[r].asked = commands[r].asked
      /\ commands'[r].spec = commands[r].spec /\ commands'[r].inst = commands[r].inst
      /\ commands'[r].free = commands[r].free /\ commands'[r].stable = commands[r].stable
  BY <1>1, <1>2, CommandGoes DEF Places, Endings
<1>4. CommandFits(r)'
  BY <1>1, <1>2, <1>3 DEF CommandFits, HasSpec
<1>5. QED
  BY <1>1, <1>2, <1>3, <1>4, CommandAloneKeeps

LEMMA TimesOutKeeps ==
  ASSUME CommandNames, CommandInv, NEW r \in Request, D!TimesOut(r)
  PROVE  CommandInv'
<1>1. /\ commands[r].at = "wait" /\ D!Goes(r, "stop")
      /\ UNCHANGED <<cached, entry, holder, instances, registry, now, edits>> /\ motion' = motion
  BY DEF D!TimesOut, D!Objects, D!Outside
<1>2. /\ commands[r] \in Command /\ commands \in [Request -> Command] /\ CommandFits(r)
      /\ holder # r
      /\ cached \in [spec : 0..2, at : Nat] /\ cached.at <= now
      /\ registry.since < cached.at => cached.spec = registry.spec
      /\ edits = 0 => cached.at = 0 \/ cached.spec = 1
  BY <1>1, CommandKnown
<1>3. /\ commands' \in [Request -> Command] /\ \A q \in Request \ {r} : commands'[q] = commands[q]
      /\ commands'[r].at = "stop"
      /\ commands'[r].kind = commands[r].kind /\ commands'[r].asked = commands[r].asked
      /\ commands'[r].spec = commands[r].spec /\ commands'[r].inst = commands[r].inst
      /\ commands'[r].free = commands[r].free /\ commands'[r].stable = commands[r].stable
  BY <1>1, <1>2, CommandGoes DEF Places, Endings
<1>4. CommandFits(r)'
  BY <1>1, <1>2, <1>3 DEF CommandFits, HasSpec
<1>5. QED
  BY <1>1, <1>2, <1>3, <1>4, CommandAloneKeeps

LEMMA StoppedKeeps ==
  ASSUME CommandNames, CommandInv, NEW r \in Request, D!Stopped(r)
  PROVE  CommandInv'
<1>1. /\ commands[r].at = "stop" /\ D!Ends(r, "stopped")
      /\ UNCHANGED <<cached, entry, holder, instances, registry, now, edits>> /\ motion' = {}
  BY DEF D!Stopped, D!Objects, D!Outside
<1>2. /\ commands[r] \in Command /\ commands \in [Request -> Command] /\ CommandFits(r)
      /\ holder # r
      /\ cached \in [spec : 0..2, at : Nat] /\ cached.at <= now
      /\ registry.since < cached.at => cached.spec = registry.spec
      /\ edits = 0 => cached.at = 0 \/ cached.spec = 1
  BY <1>1, CommandKnown
<1>3. /\ commands' \in [Request -> Command] /\ \A q \in Request \ {r} : commands'[q] = commands[q]
      /\ commands'[r].at = "done" /\ commands'[r].end = "stopped"
      /\ commands'[r].kind = commands[r].kind /\ commands'[r].asked = commands[r].asked
      /\ commands'[r].spec = commands[r].spec /\ commands'[r].inst = commands[r].inst
      /\ commands'[r].free = commands[r].free /\ commands'[r].stable = commands[r].stable
  BY <1>1, <1>2, CommandGoes DEF Places, Endings
<1>4. CommandFits(r)'
  BY <1>1, <1>2, <1>3 DEF CommandFits, HasSpec
<1>5. QED
  BY <1>1, <1>2, <1>3, <1>4, CommandAloneKeeps

LEMMA StopFailsKeeps ==
  ASSUME CommandNames, CommandInv, NEW r \in Request, D!StopFails(r)
  PROVE  CommandInv'
<1>1. /\ commands[r].at = "stop" /\ D!Ends(r, "may be moving")
      /\ UNCHANGED <<cached, entry, holder, instances, registry, now, edits>> /\ motion' = motion
  BY DEF D!StopFails, D!Objects, D!Outside
<1>2. /\ commands[r] \in Command /\ commands \in [Request -> Command] /\ CommandFits(r)
      /\ holder # r
      /\ cached \in [spec : 0..2, at : Nat] /\ cached.at <= now
      /\ registry.since < cached.at => cached.spec = registry.spec
      /\ edits = 0 => cached.at = 0 \/ cached.spec = 1
  BY <1>1, CommandKnown
<1>3. /\ commands' \in [Request -> Command] /\ \A q \in Request \ {r} : commands'[q] = commands[q]
      /\ commands'[r].at = "done" /\ commands'[r].end = "may be moving"
      /\ commands'[r].kind = commands[r].kind /\ commands'[r].asked = commands[r].asked
      /\ commands'[r].spec = commands[r].spec /\ commands'[r].inst = commands[r].inst
      /\ commands'[r].free = commands[r].free /\ commands'[r].stable = commands[r].stable
  BY <1>1, <1>2, CommandGoes DEF Places, Endings
<1>4. CommandFits(r)'
  BY <1>1, <1>2, <1>3 DEF CommandFits, HasSpec
<1>5. QED
  BY <1>1, <1>2, <1>3, <1>4, CommandAloneKeeps

LEMMA CompletesKeeps ==
  ASSUME CommandNames, CommandInv, NEW r \in Request, D!Completes(r)
  PROVE  CommandInv'
<1>1. /\ commands[r].at = "wait" /\ r \notin motion /\ (D!Ends(r, "ok") \/ D!Ends(r, "failed"))
      /\ UNCHANGED <<cached, entry, holder, instances, registry, now, edits>> /\ motion' = motion
  BY DEF D!Completes, D!Objects, D!Outside
<1>2. /\ commands[r] \in Command /\ commands \in [Request -> Command] /\ CommandFits(r)
      /\ holder # r
      /\ cached \in [spec : 0..2, at : Nat] /\ cached.at <= now
      /\ registry.since < cached.at => cached.spec = registry.spec
      /\ edits = 0 => cached.at = 0 \/ cached.spec = 1
  BY <1>1, CommandKnown
<1>3. /\ commands' \in [Request -> Command] /\ \A q \in Request \ {r} : commands'[q] = commands[q]
      /\ commands'[r].at = "done"
      /\ commands'[r].kind = commands[r].kind /\ commands'[r].asked = commands[r].asked
      /\ commands'[r].spec = commands[r].spec /\ commands'[r].inst = commands[r].inst
      /\ commands'[r].free = commands[r].free /\ commands'[r].stable = commands[r].stable
  BY <1>1, <1>2, CommandGoes DEF Places, Endings
<1>4. CommandFits(r)'
  BY <1>1, <1>2, <1>3 DEF CommandFits, HasSpec
<1>5. QED
  BY <1>1, <1>2, <1>3, <1>4, CommandAloneKeeps

LEMMA InvokesKeeps ==
  ASSUME CommandNames, CommandInv, NEW r \in Request, D!Invokes(r)
  PROVE  CommandInv'
<1>1. /\ commands[r].at = "invoke" /\ UNCHANGED <<cached, entry, holder, instances, registry, now, edits>>
      /\ \/ commands[r].kind = "read" /\ D!Ends(r, "ok") /\ motion' = motion
         \/ commands[r].kind # "read" /\ D!Ends(r, "initiated") /\ motion' = motion \cup {r}
         \/ commands[r].kind # "read" /\ D!Goes(r, "wait") /\ motion' = motion \cup {r}
  BY DEF D!Invokes, D!Objects, D!Outside
<1>2. /\ commands[r] \in Command /\ commands \in [Request -> Command] /\ CommandFits(r)
      /\ holder # r
      /\ cached \in [spec : 0..2, at : Nat] /\ cached.at <= now
      /\ registry.since < cached.at => cached.spec = registry.spec
      /\ edits = 0 => cached.at = 0 \/ cached.spec = 1
  BY <1>1, CommandKnown
<1>a. r \notin motion
  BY <1>1, CommandKnown
<1>b. ASSUME NEW at \in Places, commands[r].kind = "read" \/ motion' = motion \cup {r},
             \/ commands[r].kind = "read" /\ D!Ends(r, "ok") /\ motion' = motion /\ at = "done"
             \/ commands[r].kind # "read" /\ D!Ends(r, "initiated") /\ motion' = motion \cup {r} /\ at = "done"
             \/ commands[r].kind # "read" /\ D!Goes(r, "wait") /\ motion' = motion \cup {r} /\ at = "wait"
      PROVE  CommandInv'
  <2>1. /\ commands' \in [Request -> Command] /\ \A q \in Request \ {r} : commands'[q] = commands[q]
        /\ commands'[r].at = at /\ (commands[r].kind # "read" /\ at = "done" => commands'[r].end = "initiated")
        /\ commands'[r].kind = commands[r].kind /\ commands'[r].asked = commands[r].asked
        /\ commands'[r].spec = commands[r].spec /\ commands'[r].inst = commands[r].inst
        /\ commands'[r].free = commands[r].free /\ commands'[r].stable = commands[r].stable
    BY <1>2, <1>b, CommandGoes DEF Endings
  <2>2. at \in {"done", "wait"} /\ motion' \subseteq motion \cup {r} /\ (r \in motion' => commands[r].kind # "read")
    BY <1>a, <1>b
  <2>3. CommandFits(r)'
    BY <1>1, <1>2, <2>1, <2>2 DEF CommandFits, HasSpec
  <2>4. QED
    BY <1>1, <1>2, <2>1, <2>2, <2>3, CommandAloneKeeps
<1>3. "done" \in Places /\ "wait" \in Places
  BY DEF Places
<1>4. QED
  BY <1>1, <1>3, <1>b

LEMMA MotionEndsKeeps ==
  ASSUME CommandNames, CommandInv, NEW r \in Request, D!MotionEnds(r)
  PROVE  CommandInv'
<1>1. /\ UNCHANGED <<cached, entry, holder, instances, registry, now, edits, commands>>
      /\ r \in motion /\ motion' = motion \ {r}
  BY DEF D!MotionEnds, D!Objects, D!Outside
<1>2. /\ commands \in [Request -> Command] /\ CommandFits(r)
      /\ cached \in [spec : 0..2, at : Nat] /\ cached.at <= now
      /\ registry.since < cached.at => cached.spec = registry.spec
      /\ edits = 0 => cached.at = 0 \/ cached.spec = 1
  BY CommandKnown
<1>3. commands[r].at \in {"wait", "stop", "done"} /\ holder # r
  BY <1>1, <1>2 DEF CommandFits
<1>4. CommandFits(r)'
  BY <1>1, <1>2, <1>3 DEF CommandFits, HasSpec
<1>5. QED
  BY <1>1, <1>2, <1>3, <1>4, CommandAloneKeeps

(* The object in use is the one of the entry.                              *)
LEMMA CachedKeeps ==
  ASSUME CommandNames, CommandInv, NEW r \in Request, D!Cached(r)
  PROVE  CommandInv'
<1> DEFINE c == [commands[r] EXCEPT !.at = "invoke", !.inst = entry]
<1>1. /\ commands[r].at = "connect" /\ commands' = [commands EXCEPT ![r].at = "invoke", ![r].inst = entry]
      /\ entry # 0 /\ instances[entry].spec = commands[r].spec
      /\ UNCHANGED <<cached, entry, holder, instances, registry, now, edits>> /\ motion' = motion
  BY DEF D!Cached, D!Matches, D!Objects, D!Outside
<1>2. /\ commands[r] \in Command /\ commands \in [Request -> Command] /\ CommandFits(r)
      /\ holder # r
      /\ cached \in [spec : 0..2, at : Nat] /\ cached.at <= now
      /\ registry.since < cached.at => cached.spec = registry.spec
      /\ edits = 0 => cached.at = 0 \/ cached.spec = 1
  BY <1>1, CommandKnown
<1>3. entry \in Nat /\ entry \in DOMAIN instances /\ instances[entry].is = "live"
  BY <1>1 DEF CommandInv, CommandTypes, ObjectsKnown
<1>4. commands' = [commands EXCEPT ![r] = c]
  BY <1>1, <1>2
<1>5. /\ c \in Command /\ c.at = "invoke" /\ c.inst = entry
      /\ c.spec = commands[r].spec /\ c.kind = commands[r].kind /\ c.asked = commands[r].asked
      /\ c.free = commands[r].free /\ c.stable = commands[r].stable
  BY <1>2, <1>3 DEF Command
<1> HIDE DEF c
<1>6. commands' \in [Request -> Command] /\ commands'[r] = c /\ \A q \in Request \ {r} : commands'[q] = commands[q]
  BY <1>2, <1>4, <1>5
<1>7. CommandFits(r)'
  BY <1>1, <1>2, <1>3, <1>5, <1>6 DEF CommandFits, HasSpec
<1>8. QED
  BY <1>1, <1>2, <1>6, <1>7, CommandAloneKeeps

(* The module of the commands counts as this one does.                     *)
LEMMA SameCount == ASSUME NEW X PROVE D!Cardinality(X) = Cardinality(X)
BY DEF D!Cardinality, Cardinality

LEMMA CountOf == ASSUME NEW n \in Nat PROVE Cardinality(1..n) = n
<1> DEFINE size == Cardinality(1..n)
<1>1. size = IF 1 > n THEN 0 ELSE n - 1 + 1
  BY FS_Interval
<1> HIDE DEF size
<1>2. size = n
  BY <1>1
<1>3. QED
  BY <1>2 DEF size

LEMMA OneMore == ASSUME NEW n \in Nat PROVE 1..n + 1 = 1..n \cup {n + 1} /\ n + 1 \notin 1..n /\ 0 \notin 1..n
<1>1. \A i : i \in 1..n + 1 <=> i \in 1..n \/ i = n + 1
  OBVIOUS
<1>2. n + 1 \notin 1..n /\ 0 \notin 1..n
  OBVIOUS
<1>3. QED
  BY <1>1, <1>2

(* What is built is the next of the objects.                               *)
LEMMA NextIs ==
  ASSUME NEW n \in Nat, instances \in [1..n -> Object], NEW spec \in 0..2
  PROVE  /\ D!NextId = n + 1 /\ DOMAIN instances = 1..n /\ 1..n + 1 = 1..n \cup {n + 1}
         /\ n + 1 \notin 1..n /\ 0 \notin 1..n
         /\ D!New(spec) \in [1..n + 1 -> Object]
         /\ \A i \in 1..n : D!New(spec)[i] = instances[i]
         /\ D!New(spec)[n + 1] = [spec |-> spec, is |-> "connecting"]
<1>1. DOMAIN instances = 1..n
  OBVIOUS
<1>2. Cardinality(1..n) = n
  BY CountOf
<1>3. D!NextId = n + 1
  BY <1>1, <1>2, SameCount DEF D!NextId
<1>4. 1..n + 1 = 1..n \cup {n + 1} /\ n + 1 \notin 1..n /\ 0 \notin 1..n
  BY OneMore
<1> DEFINE object == [spec |-> spec, is |-> "connecting"]
<1>5. object \in Object
  BY DEF Object
<1> HIDE DEF object
<1>6. D!New(spec) = [i \in 1..n + 1 |-> IF i = n + 1 THEN object ELSE instances[i]]
  BY <1>3 DEF D!New, object
<1>7. \A i \in 1..n : i \in 1..n + 1 /\ i # n + 1
  BY <1>4
<1>8. n + 1 \in 1..n + 1
  OBVIOUS
<1>9. \A i \in 1..n + 1 : i # n + 1 => i \in 1..n
  BY <1>4
<1>10. D!New(spec) \in [1..n + 1 -> Object]
  <2>1. \A i \in 1..n + 1 : (IF i = n + 1 THEN object ELSE instances[i]) \in Object
    BY <1>5, <1>9
  <2>2. QED
    BY <1>6, <2>1
<1>11. (\A i \in 1..n : D!New(spec)[i] = instances[i]) /\ D!New(spec)[n + 1] = object
  BY <1>6, <1>7, <1>8
<1>12. QED
  BY <1>1, <1>3, <1>4, <1>10, <1>11 DEF object

(* One command has the lock of the device, or takes it, and touches the     *)
(* objects; they keep their specs.                                         *)
LEMMA BuilderKeeps ==
  ASSUME CommandNames, CommandInv, NEW r \in Request, holder \in {none, r}, holder' \in {none, r},
         UNCHANGED <<registry, now, cached, motion, edits>>,
         commands' \in [Request -> Command], \A q \in Request \ {r} : commands'[q] = commands[q],
         entry' \in Nat, \E n \in 0..MaxInstance : instances' \in [1..n -> Object],
         \A i \in DOMAIN instances : i \in DOMAIN instances' /\ instances'[i].spec = instances[i].spec,
         entry' # 0 => entry' \in DOMAIN instances' /\ instances'[entry'].is = "live",
         \A i \in DOMAIN instances' : instances'[i].is \notin Spent =>
             i = entry' \/ (holder' = r /\ commands'[r].at = "build" /\ i = commands'[r].inst),
         edits = 0 => /\ \A i \in DOMAIN instances' : instances'[i].spec = 1
                      /\ \A i \in DOMAIN instances : instances[i].is = "live" => instances'[i].is = "live",
         CommandFits(r)'
  PROVE  CommandInv'
<1>1. CommandTypes /\ ObjectsKnown
  BY DEF CommandInv
<1>2. CommandTypes'
  BY <1>1 DEF CommandTypes
<1>3. ObjectsKnown'
  BY <1>1 DEF ObjectsKnown
<1>4. ASSUME NEW q \in Request
      PROVE  CommandFits(q)'
  <2>1. CASE q = r
    BY <2>1
  <2>2. CASE q # r
    <3>1. CommandFits(q) /\ commands'[q] = commands[q] /\ holder # q /\ holder' # q
      BY <2>2 DEF CommandInv, CommandNames
    <3>2. commands[q].at \notin {"build", "destroy"}
      BY <3>1 DEF CommandFits
    <3>3. commands[q].at \in {"invoke", "wait", "stop"} =>
              /\ commands[q].inst \in DOMAIN instances' /\ instances'[commands[q].inst].spec = commands[q].spec
              /\ edits = 0 => instances'[commands[q].inst].is = "live"
      BY <3>1 DEF CommandFits
    <3>4. QED
      BY <3>1, <3>2, <3>3 DEF CommandFits, HasSpec
  <2>3. QED
    BY <2>1, <2>2
<1>5. QED
  BY <1>2, <1>3, <1>4 DEF CommandInv

LEMMA BuildsKeeps ==
  ASSUME CommandNames, CommandInv, NEW r \in Request, D!Builds(r)
  PROVE  CommandInv'
<1> DEFINE spec == commands[r].spec
           next == D!NextId
           c == [commands[r] EXCEPT !.at = "build", !.inst = next]
<1>1. /\ commands[r].at = "connect" /\ holder = none /\ entry = 0 /\ next <= MaxInstance
      /\ holder' = r /\ instances' = D!New(spec)
      /\ commands' = [commands EXCEPT ![r].at = "build", ![r].inst = next]
      /\ UNCHANGED <<registry, now, cached, motion, edits>> /\ entry' = entry
  BY DEF D!Builds, D!Outside
<1>2. /\ commands[r] \in Command /\ commands \in [Request -> Command] /\ CommandFits(r)
      /\ r \notin motion
  BY <1>1, CommandKnown
<1>3. spec \in 0..2
  BY <1>2 DEF Command
<1>4. PICK n \in 0..MaxInstance : instances \in [1..n -> Object]
  BY DEF CommandInv, CommandTypes
<1>5. MaxInstance \in Nat /\ none \notin Request
  BY DEF CommandNames
<1>6. n \in Nat
  BY <1>4, <1>5
<1> HIDE DEF next, spec
<1>7. /\ next = n + 1 /\ DOMAIN instances = 1..n /\ 1..n + 1 = 1..n \cup {n + 1}
      /\ n + 1 \notin 1..n /\ 0 \notin 1..n
      /\ instances' \in [1..n + 1 -> Object]
      /\ \A i \in 1..n : instances'[i] = instances[i]
      /\ instances'[n + 1] = [spec |-> spec, is |-> "connecting"]
  BY <1>1, <1>3, <1>4, <1>6, NextIs DEF next
<1>8. next \in Nat /\ n + 1 \in 0..MaxInstance
  BY <1>1, <1>5, <1>6, <1>7
<1>9. commands' = [commands EXCEPT ![r] = c]
  BY <1>1, <1>2
<1>10. /\ c \in Command /\ c.at = "build" /\ c.inst = next
       /\ c.spec = commands[r].spec /\ c.kind = commands[r].kind /\ c.asked = commands[r].asked
       /\ c.free = commands[r].free /\ c.stable = commands[r].stable
  BY <1>2, <1>8 DEF Command
<1> HIDE DEF c
<1>11. commands' \in [Request -> Command] /\ commands'[r] = c /\ \A q \in Request \ {r} : commands'[q] = commands[q]
  BY <1>2, <1>9, <1>10
<1>12. \A i \in DOMAIN instances : instances[i].is \in Spent
  BY <1>1, <1>5, <1>7 DEF CommandInv, ObjectsKnown
<1>13. DOMAIN instances' = 1..n \cup {next}
  BY <1>7
<1>14. \A i \in DOMAIN instances' : instances'[i].is \notin Spent => i = next
  BY <1>7, <1>12, <1>13
<1>15. edits = 0 => spec = 1 /\ \A i \in DOMAIN instances : instances[i].spec = 1
  BY <1>1, <1>2 DEF CommandFits, HasSpec, CommandInv, ObjectsKnown, spec
<1>16. edits = 0 => \A i \in DOMAIN instances' : instances'[i].spec = 1
  BY <1>7, <1>13, <1>15
<1>17. next \in DOMAIN instances' /\ instances'[next].spec = spec /\ instances'[next].is = "connecting"
  BY <1>7, <1>13
<1>18. CommandFits(r)'
  BY <1>1, <1>2, <1>10, <1>11, <1>17 DEF CommandFits, HasSpec, spec
<1>19. \A i \in DOMAIN instances : i \in DOMAIN instances' /\ instances'[i] = instances[i]
  BY <1>7, <1>13
<1>20. (\E m \in 0..MaxInstance : instances' \in [1..m -> Object]) /\ entry' \in Nat
  BY <1>1, <1>7, <1>8
<1>21. QED
  BY <1>1, <1>10, <1>11, <1>14, <1>16, <1>18, <1>19, <1>20, BuilderKeeps

LEMMA RebuildsKeeps ==
  ASSUME CommandNames, CommandInv, NEW r \in Request, D!Rebuilds(r)
  PROVE  CommandInv'
<1>1. /\ commands[r].at = "connect" /\ holder = none /\ entry # 0 /\ ~ D!Matches(r) /\ D!NextId <= MaxInstance
      /\ holder' = r /\ D!Goes(r, "destroy")
      /\ UNCHANGED <<registry, now, cached, motion, edits>> /\ entry' = entry /\ instances' = instances
  BY DEF D!Rebuilds, D!Outside
<1>2. /\ commands[r] \in Command /\ commands \in [Request -> Command] /\ CommandFits(r)
      /\ r \notin motion
  BY <1>1, CommandKnown
<1>3. /\ commands' \in [Request -> Command] /\ \A q \in Request \ {r} : commands'[q] = commands[q]
      /\ commands'[r].at = "destroy"
      /\ commands'[r].kind = commands[r].kind /\ commands'[r].asked = commands[r].asked
      /\ commands'[r].spec = commands[r].spec /\ commands'[r].inst = commands[r].inst
      /\ commands'[r].free = commands[r].free /\ commands'[r].stable = commands[r].stable
  BY <1>1, <1>2, CommandGoes DEF Places, Endings
<1>4. CommandTypes /\ ObjectsKnown /\ none \notin Request
  BY DEF CommandInv, CommandNames
<1>5. edits # 0
  <2>1. SUFFICES ASSUME edits = 0 PROVE FALSE
    OBVIOUS
  <2>2. commands[r].spec = 1
    BY <1>1, <1>2, <2>1 DEF CommandFits, HasSpec
  <2>3. instances[entry].spec = 1
    BY <1>1, <1>4, <2>1 DEF ObjectsKnown
  <2>4. QED
    BY <1>1, <2>2, <2>3 DEF D!Matches
<1>6. D!NextId' = D!NextId
  BY <1>1 DEF D!NextId
<1>7. CommandFits(r)'
  BY <1>1, <1>2, <1>3, <1>5, <1>6 DEF CommandFits, HasSpec
<1>8. entry' \in Nat /\ \E n \in 0..MaxInstance : instances' \in [1..n -> Object]
  BY <1>1, <1>4 DEF CommandTypes
<1>9. \A i \in DOMAIN instances : instances[i].is \notin Spent => i = entry
  BY <1>1, <1>4 DEF ObjectsKnown
<1>10. entry \in DOMAIN instances /\ instances[entry].is = "live"
  BY <1>1, <1>4 DEF ObjectsKnown
<1>11. QED
  BY <1>1, <1>3, <1>5, <1>7, <1>8, <1>9, <1>10, BuilderKeeps

(* The old object has failed to be destroyed, or has not; the new one is    *)
(* begun.                                                                  *)
LEMMA OldDestroyedKeeps ==
  ASSUME CommandNames, CommandInv, NEW r \in Request, D!OldDestroyed(r)
  PROVE  CommandInv'
<1> DEFINE spec == commands[r].spec
           next == D!NextId
           new  == D!New(spec)
           c == [commands[r] EXCEPT !.at = "build", !.inst = next]
<1>1. /\ commands[r].at = "destroy" /\ entry' = 0
      /\ commands' = [commands EXCEPT ![r].at = "build", ![r].inst = next]
      /\ UNCHANGED <<registry, now, cached, motion, edits>> /\ holder' = holder
  BY DEF D!OldDestroyed, D!Outside
<1>2. PICK is \in Spent : instances' = [new EXCEPT ![entry].is = is]
  BY DEF D!OldDestroyed, D!Over, Spent
<1>3. /\ commands[r] \in Command /\ commands \in [Request -> Command] /\ CommandFits(r)
  BY CommandKnown
<1>4. spec \in 0..2
  BY <1>3 DEF Command
<1>5. MaxInstance \in Nat /\ none \notin Request
  BY DEF CommandNames
<1>6. holder = r /\ entry # 0 /\ next <= MaxInstance /\ edits # 0 /\ r \notin motion
  BY <1>1, <1>3 DEF CommandFits
<1>7. PICK n \in 0..MaxInstance : instances \in [1..n -> Object]
  BY DEF CommandInv, CommandTypes
<1>8. n \in Nat
  BY <1>5, <1>7
<1> HIDE DEF next, spec
<1>9. /\ next = n + 1 /\ DOMAIN instances = 1..n /\ 1..n + 1 = 1..n \cup {n + 1}
      /\ n + 1 \notin 1..n /\ 0 \notin 1..n
      /\ new \in [1..n + 1 -> Object]
      /\ \A i \in 1..n : new[i] = instances[i]
      /\ new[n + 1] = [spec |-> spec, is |-> "connecting"]
  BY <1>4, <1>7, <1>8, NextIs DEF next
<1> HIDE DEF new
<1>10. next \in Nat /\ n + 1 \in 0..MaxInstance
  BY <1>5, <1>6, <1>8, <1>9
<1>11. commands' = [commands EXCEPT ![r] = c]
  BY <1>1, <1>3
<1>12. /\ c \in Command /\ c.at = "build" /\ c.inst = next
       /\ c.spec = commands[r].spec /\ c.kind = commands[r].kind /\ c.asked = commands[r].asked
       /\ c.free = commands[r].free /\ c.stable = commands[r].stable
  BY <1>3, <1>10 DEF Command
<1> HIDE DEF c
<1>13. commands' \in [Request -> Command] /\ commands'[r] = c /\ \A q \in Request \ {r} : commands'[q] = commands[q]
  BY <1>3, <1>11, <1>12
<1>14. entry \in 1..n
  BY <1>6, <1>9 DEF CommandInv, ObjectsKnown
<1> DEFINE object == [new[entry] EXCEPT !.is = is]
<1>15. instances' = [new EXCEPT ![entry] = object]
  BY <1>2
<1>16. object \in Object /\ object.is = is /\ object.spec = instances[entry].spec
  <2>1. new[entry] \in Object /\ new[entry] = instances[entry]
    BY <1>9, <1>14
  <2>2. QED
    BY <1>2, <2>1 DEF Object
<1> HIDE DEF object
<1>17. entry # next /\ entry \in 1..n + 1
  BY <1>9, <1>14
<1>18. /\ instances' \in [1..n + 1 -> Object] /\ DOMAIN instances' = 1..n \cup {next}
       /\ instances'[entry] = object
       /\ \A i \in 1..n + 1 : i # entry => instances'[i] = new[i]
  BY <1>9, <1>15, <1>16, <1>17
<1>19. \A i \in DOMAIN instances : i # entry => instances[i].is \in Spent
  BY <1>1, <1>5, <1>6, <1>9, <1>3 DEF CommandInv, ObjectsKnown
<1>20. \A i \in DOMAIN instances' : instances'[i].is \notin Spent => i = next
  BY <1>2, <1>9, <1>16, <1>18, <1>19
<1>21. next \in DOMAIN instances' /\ instances'[next].spec = spec /\ instances'[next].is = "connecting"
  BY <1>9, <1>17, <1>18
<1>22. CommandFits(r)'
  BY <1>1, <1>3, <1>6, <1>12, <1>13, <1>21 DEF CommandFits, HasSpec, spec
<1>23. \A i \in DOMAIN instances : i \in DOMAIN instances' /\ instances'[i].spec = instances[i].spec
  BY <1>9, <1>16, <1>18
<1>24. (\E m \in 0..MaxInstance : instances' \in [1..m -> Object]) /\ entry' \in Nat
  BY <1>1, <1>10, <1>18
<1>25. QED
  BY <1>1, <1>6, <1>12, <1>13, <1>20, <1>22, <1>23, <1>24, BuilderKeeps

(* What was being built is connected, or is dropped.                       *)
LEMMA BuiltIs ==
  ASSUME CommandNames, CommandInv, NEW r \in Request, commands[r].at = "build",
         NEW is \in Spent \cup {"live"}, instances' = [instances EXCEPT ![commands[r].inst].is = is]
  PROVE  /\ holder = r /\ entry = 0 /\ commands[r].inst \in DOMAIN instances /\ commands[r].inst # 0
         /\ DOMAIN instances' = DOMAIN instances
         /\ \E n \in 0..MaxInstance : instances' \in [1..n -> Object]
         /\ instances'[commands[r].inst].is = is
         /\ \A i \in DOMAIN instances : instances'[i].spec = instances[i].spec
         /\ \A i \in DOMAIN instances : i # commands[r].inst => instances'[i].is \in Spent
         /\ \A i \in DOMAIN instances : instances[i].is # "live"
<1> DEFINE inst == commands[r].inst
           object == [instances[inst] EXCEPT !.is = is]
<1>1. CommandFits(r) /\ CommandTypes /\ ObjectsKnown /\ none \notin Request
  BY DEF CommandInv, CommandNames
<1>2. /\ holder = r /\ entry = 0 /\ inst \in DOMAIN instances
      /\ instances[inst].is = "connecting"
  BY <1>1 DEF CommandFits
<1>3. PICK n \in 0..MaxInstance : instances \in [1..n -> Object]
  BY <1>1 DEF CommandTypes
<1>4. n \in Nat
  BY <1>3 DEF CommandNames
<1>5. DOMAIN instances = 1..n /\ 0 \notin 1..n
  BY <1>3, <1>4
<1>6. \A i \in DOMAIN instances : i # inst => instances[i].is \in Spent
  BY <1>1, <1>2, <1>5 DEF ObjectsKnown
<1> HIDE DEF inst
<1>7. instances' = [instances EXCEPT ![inst] = object]
  BY DEF inst
<1>8. object \in Object /\ object.is = is /\ object.spec = instances[inst].spec
  <2>1. instances[inst] \in Object
    BY <1>2, <1>3, <1>5
  <2>2. QED
    BY <2>1 DEF Object
<1> HIDE DEF object
<1>9. /\ instances' \in [1..n -> Object] /\ instances'[inst] = object
      /\ \A i \in DOMAIN instances : i # inst => instances'[i] = instances[i]
  BY <1>2, <1>3, <1>7, <1>8
<1>10. \A i \in DOMAIN instances : instances[i].is # "live"
  BY <1>2, <1>6 DEF Spent
<1>11. QED
  BY <1>2, <1>3, <1>5, <1>6, <1>8, <1>9, <1>10 DEF inst

LEMMA BuiltKeeps ==
  ASSUME CommandNames, CommandInv, NEW r \in Request, D!Built(r)
  PROVE  CommandInv'
<1> DEFINE inst == commands[r].inst
<1>1. /\ commands[r].at = "build" /\ instances' = [instances EXCEPT ![inst].is = "live"]
      /\ entry' = inst /\ holder' = none /\ D!Goes(r, "invoke")
      /\ UNCHANGED <<registry, now, cached, motion, edits>>
  BY DEF D!Built, D!Outside
<1>2. /\ commands[r] \in Command /\ commands \in [Request -> Command] /\ CommandFits(r)
  BY CommandKnown
<1>3. r \notin motion /\ inst \in Nat
  BY <1>1, <1>2 DEF CommandFits, Command
<1>4. /\ commands' \in [Request -> Command] /\ \A q \in Request \ {r} : commands'[q] = commands[q]
      /\ commands'[r].at = "invoke"
      /\ commands'[r].kind = commands[r].kind /\ commands'[r].asked = commands[r].asked
      /\ commands'[r].spec = commands[r].spec /\ commands'[r].inst = commands[r].inst
      /\ commands'[r].free = commands[r].free /\ commands'[r].stable = commands[r].stable
  BY <1>1, <1>2, CommandGoes DEF Places, Endings
<1>5. /\ holder = r /\ entry = 0 /\ inst \in DOMAIN instances /\ inst # 0
      /\ DOMAIN instances' = DOMAIN instances
      /\ \E n \in 0..MaxInstance : instances' \in [1..n -> Object]
      /\ instances'[inst].is = "live"
      /\ \A i \in DOMAIN instances : instances'[i].spec = instances[i].spec
      /\ \A i \in DOMAIN instances : i # inst => instances'[i].is \in Spent
      /\ \A i \in DOMAIN instances : instances[i].is # "live"
  BY <1>1, BuiltIs
<1>6. none \notin Request
  BY DEF CommandNames
<1> HIDE DEF inst
<1>7. CommandFits(r)'
  BY <1>1, <1>2, <1>3, <1>4, <1>5, <1>6 DEF CommandFits, HasSpec, inst
<1>8. edits = 0 => \A i \in DOMAIN instances : instances[i].spec = 1
  BY DEF CommandInv, ObjectsKnown
<1>9. QED
  BY <1>1, <1>3, <1>4, <1>5, <1>7, <1>8, BuilderKeeps

LEMMA BuildFailsKeeps ==
  ASSUME CommandNames, CommandInv, NEW r \in Request, D!BuildFails(r)
  PROVE  CommandInv'
<1> DEFINE inst == commands[r].inst
<1>1. /\ commands[r].at = "build" /\ entry' = entry /\ holder' = none /\ D!Ends(r, "failed")
      /\ UNCHANGED <<registry, now, cached, motion, edits>>
  BY DEF D!BuildFails, D!Outside
<1>2. PICK is \in Spent : instances' = [instances EXCEPT ![inst].is = is]
  BY DEF D!BuildFails, D!Over, Spent
<1>3. /\ commands[r] \in Command /\ commands \in [Request -> Command] /\ CommandFits(r)
  BY CommandKnown
<1>4. r \notin motion
  BY <1>1, <1>3 DEF CommandFits
<1>5. /\ commands' \in [Request -> Command] /\ \A q \in Request \ {r} : commands'[q] = commands[q]
      /\ commands'[r].at = "done" /\ commands'[r].end = "failed"
      /\ commands'[r].kind = commands[r].kind /\ commands'[r].asked = commands[r].asked
      /\ commands'[r].spec = commands[r].spec /\ commands'[r].inst = commands[r].inst
      /\ commands'[r].free = commands[r].free /\ commands'[r].stable = commands[r].stable
  BY <1>1, <1>3, CommandGoes DEF Places, Endings
<1>6. /\ holder = r /\ entry = 0 /\ inst \in DOMAIN instances /\ inst # 0
      /\ DOMAIN instances' = DOMAIN instances
      /\ \E n \in 0..MaxInstance : instances' \in [1..n -> Object]
      /\ instances'[inst].is = is
      /\ \A i \in DOMAIN instances : instances'[i].spec = instances[i].spec
      /\ \A i \in DOMAIN instances : i # inst => instances'[i].is \in Spent
      /\ \A i \in DOMAIN instances : instances[i].is # "live"
  BY <1>1, <1>2, BuiltIs
<1>7. none \notin Request
  BY DEF CommandNames
<1> HIDE DEF inst
<1>8. CommandFits(r)'
  BY <1>1, <1>3, <1>4, <1>5, <1>7 DEF CommandFits, HasSpec
<1>9. edits = 0 => \A i \in DOMAIN instances : instances[i].spec = 1
  BY DEF CommandInv, ObjectsKnown
<1>10. \A i \in DOMAIN instances' : instances'[i].is \in Spent
  BY <1>2, <1>6
<1>11. QED
  BY <1>1, <1>4, <1>5, <1>6, <1>8, <1>9, <1>10, BuilderKeeps

LEMMA CommandNextKeeps ==
  ASSUME CommandNames, CommandInv, D!Next
  PROVE  CommandInv'
<1>1. CASE (\E spec \in 0..2 : D!SpecChanges(spec)) \/ D!LockChanges
  BY <1>1, RegistryStepKeeps
<1>2. CASE D!Tick
  BY <1>2, ClockKeeps
<1>3. ASSUME NEW r \in Request, NEW kind \in Kinds[r], D!Arrives(r, kind)
      PROVE  CommandInv'
  <2>1. kind \in {"read", "put", "initiate"}
    BY DEF CommandNames
  <2>2. QED
    BY <1>3, <2>1, ArriveKeeps
<1>4. ASSUME NEW r \in Request, D!MotionEnds(r)
      PROVE  CommandInv'
  BY <1>4, MotionEndsKeeps
<1>5. ASSUME NEW r \in Request, D!Step(r)
      PROVE  CommandInv'
  BY <1>5, CheckKeeps, SpecCachedKeeps, SpecAskedKeeps, SpecAnsweredKeeps,
     CachedKeeps, BuildsKeeps, RebuildsKeeps, OldDestroyedKeeps, BuiltKeeps, BuildFailsKeeps,
     InvokesKeeps, InvokeFailsKeeps, CompletesKeeps, TimesOutKeeps, StoppedKeeps, StopFailsKeeps DEF D!Step
<1>6. QED
  BY <1>1, <1>2, <1>3, <1>4, <1>5 DEF D!Next

LEMMA CommandStays ==
  ASSUME CommandInv, UNCHANGED motions
  PROVE  CommandInv'
<1>1. UNCHANGED <<registry, now, cached, entry, holder, instances, commands, motion, edits>>
  BY DEF motions
<1>2. D!NextId' = D!NextId
  BY <1>1 DEF D!NextId
<1>3. CommandTypes' /\ ObjectsKnown'
  BY <1>1 DEF CommandInv, CommandTypes, ObjectsKnown
<1>4. ASSUME NEW r \in Request
      PROVE  CommandFits(r)'
  <2>1. CommandFits(r)
    BY DEF CommandInv
  <2>2. QED
    BY <1>1, <1>2, <2>1 DEF CommandFits, HasSpec
<1>5. QED
  BY <1>3, <1>4 DEF CommandInv

(* The live objects are at most the one of the entry, or the one that is    *)
(* being built: there is no entry then.                                    *)
LEMMA OneIsLeft ==
  ASSUME CommandNames, CommandInv
  PROVE  D!OneInstance
<1> DEFINE left == {i \in DOMAIN instances : instances[i].is \notin Spent}
<1>1. CommandTypes /\ ObjectsKnown /\ \A r \in Request : CommandFits(r)
  BY DEF CommandInv
<1>2. \E x : left \subseteq {x}
  <2>1. CASE holder \in Request /\ commands[holder].at = "build"
    <3>1. entry = 0
      BY <1>1, <2>1 DEF CommandFits
    <3>2. PICK n \in 0..MaxInstance : instances \in [1..n -> Object]
      BY <1>1 DEF CommandTypes
    <3>3. 0 \notin 1..n /\ DOMAIN instances = 1..n
      BY <3>2
    <3>4. left \subseteq {commands[holder].inst}
      BY <1>1, <3>1, <3>3 DEF ObjectsKnown
    <3>5. QED
      BY <3>4
  <2>2. CASE ~ (holder \in Request /\ commands[holder].at = "build")
    <3>1. left \subseteq {entry}
      BY <1>1, <2>2 DEF ObjectsKnown
    <3>2. QED
      BY <3>1
  <2>3. QED
    BY <2>1, <2>2
<1>3. D!OneInstance <=> Cardinality(left) <= 1
  <2>1. left = {i \in DOMAIN instances : instances[i].is \notin D!Over}
    BY DEF D!Over, Spent
  <2> HIDE DEF left
  <2>2. QED
    BY <2>1, SameCount DEF D!OneInstance
<1> HIDE DEF left
<1>4. PICK x : left \subseteq {x}
  BY <1>2
<1>5. IsFiniteSet({x}) /\ Cardinality({x}) = 1
  BY FS_Singleton
<1>6. left = {} \/ left = {x}
  BY <1>4
<1>7. Cardinality(left) = 0 \/ Cardinality(left) = 1
  BY <1>5, <1>6, FS_EmptySet
<1>8. QED
  BY <1>3, <1>7

LEMMA CommandInvGives ==
  ASSUME CommandNames, CommandInv
  PROVE  D!ObjectsTrue /\ D!MotionTrue
<1>1. CommandTypes /\ ObjectsKnown /\ \A r \in Request : CommandFits(r)
  BY DEF CommandInv
<1>2. D!TypeOK
  <2>1. PICK n \in 0..MaxInstance : instances \in [1..n -> Object]
    BY <1>1 DEF CommandTypes
  <2>2. \A i \in DOMAIN instances : instances[i].is \in D!Over \cup {"connecting", "live"}
    BY <2>1 DEF Object, D!Over, Spent
  <2>3. entry \in 0..MaxInstance
    <3>1. MaxInstance \in Nat /\ n \in 0..MaxInstance
      BY DEF CommandNames
    <3>2. entry = 0 \/ entry \in 1..n
      BY <1>1, <2>1 DEF ObjectsKnown
    <3>3. QED
      BY <3>1, <3>2
  <2>4. QED
    BY <1>1, <2>2, <2>3 DEF CommandTypes, ObjectsKnown, D!TypeOK
<1>3. D!OneInstance
  BY OneIsLeft
<1>4. D!CurrentSpec
  BY <1>1 DEF CommandFits, HasSpec, D!CurrentSpec
<1>5. D!KeepsDevice
  BY <1>1 DEF CommandFits, D!KeepsDevice, D!Live
<1>6. D!MovesAllowed /\ D!ToldOfMotion
  <2>1. motion \subseteq Request
    BY <1>1 DEF CommandTypes
  <2>2. QED
    BY <1>1, <2>1 DEF CommandFits, D!MovesAllowed, D!ToldOfMotion
<1>7. QED
  BY <1>2, <1>3, <1>4, <1>5, <1>6 DEF D!ObjectsTrue, D!MotionTrue

(* For any requests, kinds of commands, lifetime of the cached spec and      *)
(* bounds: a command runs on the one live object of the device, built from   *)
(* the spec that the registry has had for a lifetime of the cache; a device  *)
(* that was locked all the time is not moved; and a command that is over     *)
(* leaves no motion behind without saying so.                                *)
THEOREM DevicesHold == ASSUME CommandNames PROVE ServicesSpec => []DevicesTrue
<1> DEFINE Mine == part = "commands" => CommandInv
<1>1. ServicesInit => Mine
  <2> SUFFICES ASSUME ServicesInit, part = "commands" PROVE CommandInv
    OBVIOUS
  <2>1. D!Init
    BY DEF ServicesInit
  <2>2. QED
    BY <2>1, CommandInitInv
<1>2. Mine /\ [ServicesNext]_<<part, lock, work, client, rights, writes, motions, watching, registryVars>>
        => Mine'
  <2> SUFFICES ASSUME Mine, part' = "commands",
                      [ServicesNext]_<<part, lock, work, client, rights, writes, motions,
                                       watching, registryVars>>
               PROVE  CommandInv'
    OBVIOUS
  <2>1. part = "commands" /\ CommandInv /\ (D!Next \/ UNCHANGED motions)
    BY DEF ServicesNext, RegistryNext
  <2>2. QED
    BY <2>1, CommandNextKeeps, CommandStays
<1>3. Mine => DevicesTrue
  BY CommandInvGives DEF DevicesTrue
<1> HIDE DEF Mine
<1>4. QED
  BY <1>1, <1>2, <1>3, PTL DEF ServicesSpec

-----------------------------------------------------------------------------
(* Clients of the watch on a PV.                                           *)

(* Clients are of one kind, 0 and nobody are no names, and there is always  *)
(* a name that is not in use: at most one per client and two are.          *)
PeerNames ==
    /\ IsFiniteSet(Peers) /\ Web \cap Dev = {} /\ "nobody" \notin Dev /\ 0 \notin Token
    /\ \A used : IsFiniteSet(used) /\ Cardinality(used) <= Cardinality(Peers) + 2 => ~ Token \subseteq used

Watch ==
    [op : {"none", "subscribe", "unsubscribe", "get"},
     at : {"over", "start", "waiting", "gated", "connecting", "destroying"},
     cb : {0} \cup Token, lock : {0} \cup Token, own : {0, 1},
     end : {"none", "ok", "failed", "nothing", "value"}]
Waits ==
    {"idle", "warm", "probe", "attempt", "values", "leave", "device lock", "device", "warm read", "read"}

WatchTypes ==
    /\ signal \in {0, 1} /\ evicted \in {0, 1} /\ alive \in Nat
    /\ callbacks \subseteq Token /\ gate \in {0} \cup Token /\ recent \in BOOLEAN
    /\ job \in [Peers -> Watch]

PeerTypes ==
    /\ doing \in [Peers -> Waits] /\ confirmed \subseteq Peers /\ joined \subseteq Peers
    /\ pv \in [clients : SUBSET Web, slot : {0} \cup Token]
    /\ dev \in [clients : SUBSET Dev, holder : Dev \cup {"nobody"}, slot : {0} \cup Token,
                live : BOOLEAN, broken : BOOLEAN]

(* What a call at the watch has done so far, and may still do: a callback   *)
(* is there from the moment its subscription is sure, and one that is being *)
(* removed is in no books.                                                 *)
JobFits(c) ==
    LET j == job[c]
    IN  /\ j.own = 1 <=> j.at \in {"connecting", "destroying"}
        /\ j.op = "none" => j.at = "over" /\ j.cb = 0
        /\ j.op = "get" => j.at \in {"start", "over"} /\ j.cb = 0
        /\ j.op = "unsubscribe" => j.at \in {"start", "destroying", "over"}
        /\ j.op = "subscribe" /\ j.at = "over" => j.end \in {"ok", "failed"}
        /\ j.op = "subscribe" /\ j.cb # 0 =>
               (j.cb \in callbacks <=> j.at = "destroying" \/ (j.at = "over" /\ j.end = "ok"))
        /\ j.op = "unsubscribe" =>
               /\ j.cb \notin {0, pv.slot, dev.slot}
               /\ j.at # "start" => j.cb \notin callbacks

(* What the handler of a client waits for.                                 *)
PlaceFits(c) ==
    LET j == job[c]
    IN  /\ doing[c] \in {"idle", "device lock"} => j.op = "none"
        /\ doing[c] \in {"warm", "warm read"} => j.op = "subscribe" /\ j.cb = 0
        /\ doing[c] \in {"probe", "values", "read"} => j.op = "get"
        /\ doing[c] = "attempt" => j.op = "subscribe" /\ j.cb = pv.slot /\ c \in pv.clients
        /\ doing[c] = "leave" => j.op = "unsubscribe"
        /\ doing[c] = "device" =>
               /\ dev.holder = c /\ c \in dev.clients
               /\ \/ j.op = "subscribe" /\ j.cb # 0 /\ j.cb = dev.slot /\ ~ dev.live
                  \/ j.op = "none" /\ dev.live
        /\ doing[c] \in {"warm", "probe", "attempt"} => c \in Web
        /\ doing[c] \in {"device lock", "device"} => c \in Dev
        /\ doing[c] = "values" => c \in Web \cup Dev

(* The books of the pv socket.                                             *)
PvBooks ==
    /\ pv.clients = {} <=> pv.slot = 0
    /\ pv.slot # 0 /\ (\A c \in Peers : doing[c] # "attempt") => pv.slot \in callbacks
    /\ \A b, c \in Peers : doing[b] = "attempt" /\ doing[c] = "attempt" => b = c
    /\ \A c \in Peers : doing[c] = "attempt" => pv.clients \ {c} \subseteq joined
    /\ pv.slot # 0 => pv.slot # dev.slot
    /\ \A c \in Web : c \in confirmed \/ doing[c] = "values" => c \in pv.clients \cup joined

(* The books of the device socket.                                         *)
DevBooks ==
    /\ dev.clients = {} => ~ dev.live /\ ~ dev.broken /\ dev.slot = 0
    /\ dev.holder = "nobody" /\ dev.clients # {} => dev.live \/ dev.broken
    /\ dev.holder # "nobody" => doing[dev.holder] = "device"
    /\ dev.live => ~ dev.broken /\ dev.slot \in callbacks
    /\ ~ dev.live /\ dev.holder = "nobody" => dev.slot = 0
    /\ \A c \in Dev : c \in confirmed \/ doing[c] = "values" => c \in dev.clients /\ dev.live

(* Every signal has an owner; callbacks are known and served.              *)
Owners          == {c \in Peers : job[c].own = 1}
SignalsCounted  == alive = signal + evicted + Cardinality(Owners)
CallbacksKnown  == callbacks \subseteq {pv.slot, dev.slot} \cup {job[c].cb : c \in Peers}

SocketInv ==
    /\ WatchTypes /\ PeerTypes /\ SignalsCounted /\ S!CallbacksServed /\ CallbacksKnown
    /\ PvBooks /\ DevBooks
    /\ \A c \in Peers : JobFits(c)
    /\ \A c \in Peers : PlaceFits(c)

LEMMA SameCounted == ASSUME NEW X PROVE S!Cardinality(X) = Cardinality(X)
BY DEF S!Cardinality, Cardinality

LEMMA SocketInitInv == ASSUME PeerNames, S!Init PROVE SocketInv
<1>1. /\ signal = 0 /\ alive = 0 /\ evicted = 0 /\ callbacks = {} /\ gate = 0 /\ recent = FALSE
      /\ job = [c \in Peers |-> S!NoJob] /\ doing = [c \in Peers |-> "idle"] /\ confirmed = {} /\ joined = {}
      /\ pv = [clients |-> {}, slot |-> 0]
      /\ dev = [clients |-> {}, holder |-> "nobody", slot |-> 0, live |-> FALSE, broken |-> FALSE]
  BY DEF S!Init, S!MonitorInit, S!Nobody
<1>2. /\ S!NoJob \in Watch /\ S!NoJob.op = "none" /\ S!NoJob.at = "over" /\ S!NoJob.cb = 0 /\ S!NoJob.own = 0
  BY DEF S!NoJob, Watch
<1> HIDE DEF S!NoJob
<1>3. WatchTypes
  BY <1>1, <1>2 DEF WatchTypes
<1>4. PeerTypes
  BY <1>1 DEF PeerTypes, Waits
<1>5. SignalsCounted
  <2>1. Owners = {}
    BY <1>1, <1>2 DEF Owners
  <2>2. Cardinality(Owners) = 0
    BY <2>1, FS_EmptySet
  <2>3. QED
    BY <1>1, <2>2 DEF SignalsCounted
<1>6. S!CallbacksServed /\ CallbacksKnown
  BY <1>1 DEF S!CallbacksServed, CallbacksKnown
<1>7. PvBooks
  <2>1. pv.clients = {} /\ pv.slot = 0 /\ \A c \in Peers : doing[c] = "idle"
    BY <1>1
  <2>2. Web \subseteq Peers
    BY DEF Peers
  <2>3. QED
    BY <1>1, <2>1, <2>2 DEF PvBooks
<1>8. DevBooks
  BY <1>1 DEF DevBooks, Peers
<1>9. ASSUME NEW c \in Peers
      PROVE  JobFits(c) /\ PlaceFits(c)
  <2>1. job[c] = S!NoJob /\ doing[c] = "idle"
    BY <1>1
  <2>2. QED
    BY <1>2, <2>1 DEF JobFits, PlaceFits
<1>10. QED
  BY <1>3, <1>4, <1>5, <1>6, <1>7, <1>8, <1>9 DEF SocketInv

(* There is a name that is not in use.                                     *)
LEMMA NameIsFree ==
  ASSUME PeerNames, NEW f, f = [c \in Peers |-> f[c]], NEW x, NEW y, NEW used,
         used = {x, y} \cup {f[c] : c \in Peers}
  PROVE  S!Free(used) \in Token /\ S!Free(used) \notin used
<1> DEFINE range == {f[c] : c \in Peers}
<1>1. f \in Surjection(Peers, range)
  BY DEF Surjection
<1>2. IsFiniteSet(Peers)
  BY DEF PeerNames
<1>3. IsFiniteSet(range) /\ Cardinality(range) <= Cardinality(Peers)
  BY <1>1, <1>2, FS_Surjection
<1> HIDE DEF range
<1>4. /\ IsFiniteSet(range \cup {x})
      /\ Cardinality(range \cup {x}) = Cardinality(range) \/ Cardinality(range \cup {x}) = Cardinality(range) + 1
  BY <1>3, FS_AddElement
<1>5. /\ IsFiniteSet((range \cup {x}) \cup {y})
      /\ \/ Cardinality((range \cup {x}) \cup {y}) = Cardinality(range \cup {x})
         \/ Cardinality((range \cup {x}) \cup {y}) = Cardinality(range \cup {x}) + 1
  BY <1>4, FS_AddElement
<1>6. Cardinality(range) \in Nat /\ Cardinality(Peers) \in Nat
  BY <1>2, <1>3, FS_CardinalityType
<1>7. used = (range \cup {x}) \cup {y}
  BY DEF range
<1>8. IsFiniteSet(used) /\ Cardinality(used) <= Cardinality(Peers) + 2
  BY <1>3, <1>4, <1>5, <1>6, <1>7
<1>9. \E t \in Token : t \notin used
  BY <1>8 DEF PeerNames
<1>10. QED
  BY <1>9 DEF S!Free

LEMMA CallbackIsNew ==
  ASSUME PeerNames, SocketInv
  PROVE  /\ S!NewCallback \in Token /\ S!NewCallback \notin callbacks
         /\ S!NewCallback # pv.slot /\ S!NewCallback # dev.slot
         /\ \A c \in Peers : S!NewCallback # job[c].cb
<1> DEFINE f == [c \in Peers |-> job[c].cb]
           used == {pv.slot, dev.slot} \cup {f[c] : c \in Peers}
           new == S!Free(used)
<1>1. callbacks \cup {pv.slot, dev.slot} \cup {job[c].cb : c \in Peers} = used
  BY DEF SocketInv, CallbacksKnown
<1>2. S!NewCallback = new
  BY <1>1 DEF S!NewCallback
<1>3. f = [c \in Peers |-> f[c]]
  OBVIOUS
<1> HIDE DEF f
<1>4. new \in Token /\ new \notin used
  BY <1>3, NameIsFree
<1> HIDE DEF new
<1>5. callbacks \subseteq used
  BY <1>1
<1>6. \A c \in Peers : job[c].cb \in used
  BY DEF f
<1>7. QED
  BY <1>2, <1>4, <1>5, <1>6

LEMMA LockIsNew ==
  ASSUME PeerNames
  PROVE  S!Free(S!Locks) \in Token
<1> DEFINE f == [c \in Peers |-> job[c].lock]
           used == {gate, gate} \cup {f[c] : c \in Peers}
<1>1. S!Locks = used
  BY DEF S!Locks
<1>2. f = [c \in Peers |-> f[c]]
  OBVIOUS
<1> HIDE DEF f
<1>3. S!Free(used) \in Token
  BY <1>2, NameIsFree
<1>4. QED
  BY <1>1, <1>3

-----------------------------------------------------------------------------
(* Calls at the watch.                                                     *)

LEMMA SocketKnown ==
  ASSUME SocketInv, NEW c \in Peers
  PROVE  /\ job \in [Peers -> Watch] /\ job[c] \in Watch /\ JobFits(c) /\ PlaceFits(c) /\ doing[c] \in Waits
         /\ signal \in {0, 1} /\ evicted \in {0, 1} /\ alive \in Nat
         /\ callbacks \subseteq Token /\ gate \in {0} \cup Token /\ recent \in BOOLEAN
         /\ SignalsCounted /\ S!CallbacksServed
BY DEF SocketInv, WatchTypes, PeerTypes

(* A callback is subscribed for the pv socket or for the device socket, by   *)
(* the one client that has to do with it; no other call is about it.        *)
LEMMA WhoseCallback ==
  ASSUME SocketInv, NEW c \in Peers, job[c].op = "subscribe", job[c].cb # 0
  PROVE  \/ doing[c] = "attempt" /\ job[c].cb = pv.slot
         \/ doing[c] = "device" /\ job[c].cb = dev.slot
<1>1. PlaceFits(c) /\ doing[c] \in Waits /\ JobFits(c)
  BY SocketKnown
<1>2. doing[c] \notin {"idle", "device lock", "warm", "warm read", "probe", "values", "read", "leave"}
  BY <1>1 DEF PlaceFits
<1>3. doing[c] \in {"attempt", "device"}
  BY <1>1, <1>2 DEF Waits
<1>4. QED
  BY <1>1, <1>3 DEF PlaceFits

LEMMA CallbacksDiffer ==
  ASSUME SocketInv, NEW b \in Peers, NEW c \in Peers, b # c,
         job[c].op = "subscribe", job[c].cb # 0, job[b].op \in {"subscribe", "unsubscribe"}
  PROVE  job[b].cb # job[c].cb
<1>1. \/ doing[c] = "attempt" /\ job[c].cb = pv.slot
      \/ doing[c] = "device" /\ job[c].cb = dev.slot
  BY WhoseCallback
<1>2. CASE job[b].op = "unsubscribe"
  <2>1. job[b].cb \notin {pv.slot, dev.slot}
    BY <1>2, SocketKnown DEF JobFits
  <2>2. QED
    BY <1>1, <2>1
<1>3. CASE job[b].op = "subscribe"
  <2>1. SUFFICES ASSUME job[b].cb = job[c].cb PROVE FALSE
    OBVIOUS
  <2>2. \/ doing[b] = "attempt" /\ job[b].cb = pv.slot
        \/ doing[b] = "device" /\ job[b].cb = dev.slot
    BY <1>3, <2>1, WhoseCallback
  <2>3. ~ (doing[b] = "attempt" /\ doing[c] = "attempt") /\ (pv.slot # 0 => pv.slot # dev.slot)
    BY DEF SocketInv, PvBooks
  <2>4. ~ (doing[b] = "device" /\ doing[c] = "device")
    BY SocketKnown DEF PlaceFits
  <2>5. QED
    BY <1>1, <2>1, <2>2, <2>3, <2>4
<1>4. QED
  BY <1>2, <1>3

LEMMA OwnersMove ==
  ASSUME PeerNames, job \in [Peers -> Watch], NEW c \in Peers, NEW j \in Watch, job' = [job EXCEPT ![c] = j]
  PROVE  /\ Cardinality(Owners) \in Nat /\ Cardinality(Owners') \in Nat
         /\ j.own = job[c].own => Cardinality(Owners') = Cardinality(Owners)
         /\ job[c].own = 0 /\ j.own = 1 => Cardinality(Owners') = Cardinality(Owners) + 1
         /\ job[c].own = 1 /\ j.own = 0 => Cardinality(Owners) = Cardinality(Owners') + 1
<1>1. IsFiniteSet(Owners) /\ IsFiniteSet(Owners')
  BY FS_Subset DEF PeerNames, Owners
<1>2. Cardinality(Owners) \in Nat /\ Cardinality(Owners') \in Nat
  BY <1>1, FS_CardinalityType
<1>3. job'[c] = j /\ \A b \in Peers \ {c} : job'[b] = job[b]
  OBVIOUS
<1>4. ASSUME j.own = job[c].own PROVE Cardinality(Owners') = Cardinality(Owners)
  <2>1. Owners' = Owners
    BY <1>3, <1>4 DEF Owners
  <2>2. QED
    BY <2>1
<1>5. ASSUME job[c].own = 0, j.own = 1 PROVE Cardinality(Owners') = Cardinality(Owners) + 1
  <2>1. Owners' = Owners \cup {c} /\ c \notin Owners
    BY <1>3, <1>5 DEF Owners
  <2>2. QED
    BY <1>1, <2>1, FS_AddElement
<1>6. ASSUME job[c].own = 1, j.own = 0 PROVE Cardinality(Owners) = Cardinality(Owners') + 1
  <2>1. Owners = Owners' \cup {c} /\ c \notin Owners'
    BY <1>3, <1>6 DEF Owners
  <2>2. QED
    BY <1>1, <2>1, FS_AddElement
<1>7. QED
  BY <1>2, <1>4, <1>5, <1>6

(* A call gets on: what it adds or removes is its own callback.             *)
LEMMA JobMoves ==
  ASSUME PeerNames, SocketInv, NEW c \in Peers, NEW j \in Watch, job' = [job EXCEPT ![c] = j],
         UNCHANGED <<doing, confirmed, pv, dev, joined>>,
         j.op = job[c].op, j.cb = job[c].cb,
         signal' \in {0, 1}, evicted' \in {0, 1}, alive' \in Nat, gate' \in {0} \cup Token, recent' \in BOOLEAN,
         SignalsCounted', S!CallbacksServed',
         \/ callbacks' = callbacks
         \/ j.op = "subscribe" /\ callbacks' = callbacks \cup ({j.cb} \ {0})
         \/ j.op = "unsubscribe" /\ callbacks' = callbacks \ {j.cb},
         JobFits(c)'
  PROVE  SocketInv'
<1>1. job \in [Peers -> Watch] /\ JobFits(c) /\ PlaceFits(c) /\ callbacks \subseteq Token
  BY SocketKnown
<1>2. job'[c] = j /\ (\A b \in Peers \ {c} : job'[b] = job[b]) /\ job' \in [Peers -> Watch]
  BY <1>1
<1>3. \A b \in Peers : job'[b].op = job[b].op /\ job'[b].cb = job[b].cb
  BY <1>2
<1>4. j.cb \in {0} \cup Token
  BY DEF Watch
<1>5. callbacks' \subseteq Token
  BY <1>1, <1>4
<1>6. WatchTypes' /\ PeerTypes'
  BY <1>2, <1>5 DEF SocketInv, WatchTypes, PeerTypes
<1>7. CallbacksKnown'
  BY <1>2, <1>3 DEF SocketInv, CallbacksKnown
<1>8. \A k \in {pv.slot, dev.slot} : k \in callbacks => k \in callbacks'
  <2>1. j.op = "unsubscribe" => j.cb \notin {pv.slot, dev.slot}
    BY <1>1 DEF JobFits
  <2>2. QED
    BY <2>1
<1>9. PvBooks'
  BY <1>8 DEF SocketInv, PvBooks
<1>10. DevBooks'
  BY <1>8 DEF SocketInv, DevBooks
<1>11. ASSUME NEW b \in Peers
       PROVE  JobFits(b)'
  <2>1. CASE b = c
    BY <2>1
  <2>2. CASE b # c
    <3>1. JobFits(b) /\ job'[b] = job[b]
      BY <1>2, <2>2, SocketKnown
    <3>2. job[b].op = "subscribe" /\ job[b].cb # 0 => (job[b].cb \in callbacks' <=> job[b].cb \in callbacks)
      <4>1. SUFFICES ASSUME job[b].op = "subscribe", job[b].cb # 0
                     PROVE  job[b].cb \in callbacks' <=> job[b].cb \in callbacks
        OBVIOUS
      <4>2. j.op \in {"subscribe", "unsubscribe"} => j.cb # job[b].cb
        BY <2>2, <4>1, CallbacksDiffer
      <4>3. QED
        BY <4>2
    <3>3. job[b].op = "unsubscribe" /\ job[b].cb \notin callbacks => job[b].cb \notin callbacks'
      <4>1. SUFFICES ASSUME job[b].op = "unsubscribe", job[b].cb \notin callbacks PROVE job[b].cb \notin callbacks'
        OBVIOUS
      <4>2. j.op = "subscribe" /\ j.cb # 0 => j.cb # job[b].cb
        BY <2>2, <4>1, CallbacksDiffer
      <4>3. QED
        BY <4>1, <4>2
    <3>4. QED
      BY <3>1, <3>2, <3>3 DEF JobFits
  <2>3. QED
    BY <2>1, <2>2
<1>12. ASSUME NEW b \in Peers
       PROVE  PlaceFits(b)'
  <2>1. PlaceFits(b)
    BY SocketKnown
  <2>2. doing'[b] = doing[b] /\ pv' = pv /\ dev' = dev /\ job'[b].op = job[b].op /\ job'[b].cb = job[b].cb
    BY <1>3
  <2>3. QED
    BY <2>1, <2>2 DEF PlaceFits
<1>13. QED
  BY <1>6, <1>7, <1>9, <1>10, <1>11, <1>12 DEF SocketInv

LEMMA EndsWith ==
  ASSUME NEW c \in Peers, job \in [Peers -> Watch], NEW end \in {"ok", "failed", "nothing", "value"}, S!Ends(c, end)
  PROVE  \E j \in Watch :
             /\ job' = [job EXCEPT ![c] = j]
             /\ j.op = job[c].op /\ j.cb = job[c].cb /\ j.at = "over" /\ j.own = 0 /\ j.end = end
<1> DEFINE j == [S!NoJob EXCEPT !.op = job[c].op, !.cb = job[c].cb, !.end = end]
<1>1. job' = [job EXCEPT ![c] = j]
  BY DEF S!Ends
<1>2. job[c] \in Watch /\ S!NoJob \in Watch /\ S!NoJob.at = "over" /\ S!NoJob.own = 0
  BY DEF Watch, S!NoJob
<1> HIDE DEF S!NoJob
<1>3. j \in Watch /\ j.op = job[c].op /\ j.cb = job[c].cb /\ j.at = "over" /\ j.own = 0 /\ j.end = end
  BY <1>2 DEF Watch
<1> HIDE DEF j
<1>4. QED
  BY <1>1, <1>3

LEMMA LiveKeeps ==
  ASSUME PeerNames, SocketInv, NEW c \in Peers, S!SubscribesToLive(c), UNCHANGED <<doing, confirmed, pv, dev, joined>>
  PROVE  SocketInv'
<1>1. /\ job[c].op = "subscribe" /\ job[c].at \in {"start", "gated"} /\ signal # 0
      /\ callbacks' = callbacks \cup ({job[c].cb} \ {0}) /\ recent' = TRUE /\ S!Ends(c, "ok")
      /\ UNCHANGED <<signal, alive, evicted, gate>>
  BY DEF S!SubscribesToLive, S!Registered, S!At
<1>2. /\ job \in [Peers -> Watch] /\ job[c] \in Watch /\ JobFits(c)
      /\ signal \in {0, 1} /\ evicted \in {0, 1} /\ alive \in Nat
      /\ callbacks \subseteq Token /\ gate \in {0} \cup Token /\ recent \in BOOLEAN
      /\ SignalsCounted /\ S!CallbacksServed
  BY SocketKnown
<1>3. PICK j \in Watch :
          /\ job' = [job EXCEPT ![c] = j]
          /\ j.op = job[c].op /\ j.cb = job[c].cb /\ j.at = "over" /\ j.own = 0 /\ j.end = "ok"
  BY <1>1, <1>2, EndsWith
<1>4. job[c].own = 0
  BY <1>1, <1>2 DEF JobFits, Watch
<1>5. SignalsCounted'
  <2>1. Cardinality(Owners') = Cardinality(Owners)
    BY <1>2, <1>3, <1>4, OwnersMove
  <2>2. QED
    BY <1>1, <1>2, <2>1 DEF SignalsCounted
<1>6. S!CallbacksServed'
  BY <1>1, <1>2 DEF S!CallbacksServed
<1>7. job'[c] = j
  BY <1>2, <1>3
<1>8. j.cb # 0 => j.cb \in callbacks'
  BY <1>1, <1>3
<1>9. JobFits(c)'
  BY <1>1, <1>3, <1>7, <1>8 DEF JobFits
<1>10. callbacks' = callbacks \cup ({j.cb} \ {0})
  BY <1>1, <1>3
<1>11. recent' \in BOOLEAN
  BY <1>1
<1>12. QED
  BY <1>1, <1>2, <1>3, <1>5, <1>6, <1>9, <1>10, <1>11, JobMoves

LEMMA TakesGateKeeps ==
  ASSUME PeerNames, SocketInv, NEW c \in Peers, S!TakesGate(c), UNCHANGED <<doing, confirmed, pv, dev, joined>>
  PROVE  SocketInv'
<1> DEFINE lock_ == gate'
           j == [job[c] EXCEPT !.at = "waiting", !.lock = lock_]
<1>1. /\ job[c].op = "subscribe" /\ job[c].at = "start"
      /\ gate' = IF gate = 0 THEN S!Free(S!Locks) ELSE gate
      /\ job' = [job EXCEPT ![c].at = "waiting", ![c].lock = lock_]
      /\ UNCHANGED <<signal, alive, evicted, callbacks, recent>>
  BY DEF S!TakesGate, S!At
<1>2. /\ job \in [Peers -> Watch] /\ job[c] \in Watch /\ JobFits(c)
      /\ signal \in {0, 1} /\ evicted \in {0, 1} /\ alive \in Nat
      /\ callbacks \subseteq Token /\ gate \in {0} \cup Token /\ recent \in BOOLEAN
      /\ SignalsCounted /\ S!CallbacksServed
  BY SocketKnown
<1>3. lock_ \in {0} \cup Token
  BY <1>1, <1>2, LockIsNew
<1> HIDE DEF lock_
<1>4. job' = [job EXCEPT ![c] = j]
  BY <1>1, <1>2
<1>5. /\ j \in Watch /\ j.op = job[c].op /\ j.cb = job[c].cb /\ j.at = "waiting" /\ j.own = job[c].own
  BY <1>2, <1>3 DEF Watch
<1> HIDE DEF j
<1>6. SignalsCounted'
  <2>1. Cardinality(Owners') = Cardinality(Owners)
    BY <1>2, <1>4, <1>5, OwnersMove
  <2>2. QED
    BY <1>1, <1>2, <2>1 DEF SignalsCounted
<1>7. S!CallbacksServed'
  BY <1>1, <1>2 DEF S!CallbacksServed
<1>8. job'[c] = j
  BY <1>2, <1>4
<1>9. JobFits(c)'
  BY <1>1, <1>2, <1>5, <1>8 DEF JobFits
<1>10. gate' \in {0} \cup Token
  BY <1>3 DEF lock_
<1>11. QED
  BY <1>1, <1>2, <1>4, <1>5, <1>6, <1>7, <1>9, <1>10, JobMoves

LEMMA PassesGateKeeps ==
  ASSUME PeerNames, SocketInv, NEW c \in Peers, S!PassesGate(c), UNCHANGED <<doing, confirmed, pv, dev, joined>>
  PROVE  SocketInv'
<1> DEFINE j == [job[c] EXCEPT !.at = "gated"]
<1>1. /\ job[c].op = "subscribe" /\ job[c].at = "waiting"
      /\ job' = [job EXCEPT ![c].at = "gated"]
      /\ UNCHANGED <<signal, alive, evicted, callbacks, gate, recent>>
  BY DEF S!PassesGate, S!At, S!Goes
<1>2. /\ job \in [Peers -> Watch] /\ job[c] \in Watch /\ JobFits(c)
      /\ signal \in {0, 1} /\ evicted \in {0, 1} /\ alive \in Nat
      /\ callbacks \subseteq Token /\ gate \in {0} \cup Token /\ recent \in BOOLEAN
      /\ SignalsCounted /\ S!CallbacksServed
  BY SocketKnown
<1>3. job' = [job EXCEPT ![c] = j]
  BY <1>1, <1>2
<1>4. /\ j \in Watch /\ j.op = job[c].op /\ j.cb = job[c].cb /\ j.at = "gated" /\ j.own = job[c].own
  BY <1>2 DEF Watch
<1> HIDE DEF j
<1>5. SignalsCounted'
  <2>1. Cardinality(Owners') = Cardinality(Owners)
    BY <1>2, <1>3, <1>4, OwnersMove
  <2>2. QED
    BY <1>1, <1>2, <2>1 DEF SignalsCounted
<1>6. S!CallbacksServed'
  BY <1>1, <1>2 DEF S!CallbacksServed
<1>7. job'[c] = j
  BY <1>2, <1>3
<1>8. JobFits(c)'
  BY <1>1, <1>2, <1>4, <1>7 DEF JobFits
<1>9. QED
  BY <1>1, <1>2, <1>3, <1>4, <1>5, <1>6, <1>8, JobMoves

LEMMA OpensKeeps ==
  ASSUME PeerNames, SocketInv, NEW c \in Peers, S!Opens(c), UNCHANGED <<doing, confirmed, pv, dev, joined>>
  PROVE  SocketInv'
<1> DEFINE j == [job[c] EXCEPT !.at = "connecting", !.own = 1]
<1>1. /\ job[c].op = "subscribe" /\ job[c].at = "gated" /\ alive' = alive + 1
      /\ job' = [job EXCEPT ![c].at = "connecting", ![c].own = 1]
      /\ UNCHANGED <<signal, evicted, callbacks, gate, recent>>
  BY DEF S!Opens, S!At
<1>2. /\ job \in [Peers -> Watch] /\ job[c] \in Watch /\ JobFits(c)
      /\ signal \in {0, 1} /\ evicted \in {0, 1} /\ alive \in Nat
      /\ callbacks \subseteq Token /\ gate \in {0} \cup Token /\ recent \in BOOLEAN
      /\ SignalsCounted /\ S!CallbacksServed
  BY SocketKnown
<1>3. job' = [job EXCEPT ![c] = j]
  BY <1>1, <1>2
<1>4. /\ j \in Watch /\ j.op = job[c].op /\ j.cb = job[c].cb /\ j.at = "connecting" /\ j.own = 1
  BY <1>2 DEF Watch
<1> HIDE DEF j
<1>5. SignalsCounted' /\ alive' \in Nat
  <2> DEFINE n == Cardinality(Owners)
             m == Cardinality(Owners')
  <2>1. job[c].own = 0
    BY <1>1, <1>2 DEF JobFits, Watch
  <2>2. n \in Nat /\ m = n + 1
    BY <1>2, <1>3, <1>4, <2>1, OwnersMove
  <2>3. alive = signal + evicted + n
    BY <1>2 DEF SignalsCounted
  <2> HIDE DEF n, m
  <2>4. alive + 1 = signal + evicted + m /\ alive + 1 \in Nat
    BY <1>2, <2>2, <2>3
  <2>5. alive' = signal' + evicted' + m
    BY <1>1, <2>4
  <2>6. QED
    BY <1>1, <2>4, <2>5 DEF SignalsCounted, m
<1>6. S!CallbacksServed'
  BY <1>1, <1>2 DEF S!CallbacksServed
<1>7. job'[c] = j
  BY <1>2, <1>3
<1>8. JobFits(c)'
  BY <1>1, <1>2, <1>4, <1>7 DEF JobFits
<1>9. QED
  BY <1>1, <1>2, <1>3, <1>4, <1>5, <1>6, <1>8, JobMoves

(* A signal is destroyed by its owner.                                     *)
LEMMA OneOwnerLess ==
  ASSUME PeerNames, job \in [Peers -> Watch], NEW c \in Peers, NEW j \in Watch, job' = [job EXCEPT ![c] = j],
         job[c].own = 1, j.own = 0, SignalsCounted, alive' = alive - 1,
         signal \in {0, 1}, evicted \in {0, 1}, signal' = signal, evicted' = evicted, alive \in Nat
  PROVE  SignalsCounted' /\ alive' \in Nat
<1> DEFINE n == Cardinality(Owners)
           m == Cardinality(Owners')
<1>1. n \in Nat /\ m \in Nat /\ n = m + 1
  BY OwnersMove
<1>2. alive = signal + evicted + n
  BY DEF SignalsCounted
<1> HIDE DEF n, m
<1>3. alive - 1 = signal + evicted + m /\ alive - 1 \in Nat
  BY <1>1, <1>2
<1>4. alive' = signal' + evicted' + m
  BY <1>3
<1>5. QED
  BY <1>3, <1>4 DEF SignalsCounted, m

LEMMA ConnectFailsKeeps ==
  ASSUME PeerNames, SocketInv, NEW c \in Peers, S!ConnectFails(c), UNCHANGED <<doing, confirmed, pv, dev, joined>>
  PROVE  SocketInv'
<1>1. /\ job[c].op = "subscribe" /\ job[c].at = "connecting" /\ alive' = alive - 1
      /\ gate' = IF signal = 0 THEN 0 ELSE gate
      /\ S!Ends(c, "failed")
      /\ UNCHANGED <<signal, evicted, callbacks, recent>>
  BY DEF S!ConnectFails, S!At
<1>2. /\ job \in [Peers -> Watch] /\ job[c] \in Watch /\ JobFits(c)
      /\ signal \in {0, 1} /\ evicted \in {0, 1} /\ alive \in Nat
      /\ callbacks \subseteq Token /\ gate \in {0} \cup Token /\ recent \in BOOLEAN
      /\ SignalsCounted /\ S!CallbacksServed
  BY SocketKnown
<1>3. PICK j \in Watch :
          /\ job' = [job EXCEPT ![c] = j]
          /\ j.op = job[c].op /\ j.cb = job[c].cb /\ j.at = "over" /\ j.own = 0 /\ j.end = "failed"
  BY <1>1, <1>2, EndsWith
<1>4. job[c].own = 1
  BY <1>1, <1>2 DEF JobFits
<1>5. SignalsCounted' /\ alive' \in Nat
  BY <1>1, <1>2, <1>3, <1>4, OneOwnerLess
<1>6. S!CallbacksServed'
  BY <1>1, <1>2 DEF S!CallbacksServed
<1>7. job'[c] = j
  BY <1>2, <1>3
<1>8. JobFits(c)'
  BY <1>1, <1>2, <1>3, <1>7 DEF JobFits
<1>9. gate' \in {0} \cup Token
  BY <1>1, <1>2
<1>10. QED
  BY <1>1, <1>2, <1>3, <1>5, <1>6, <1>8, <1>9, JobMoves

LEMMA DestroyedKeeps ==
  ASSUME PeerNames, SocketInv, NEW c \in Peers, S!Destroyed(c), UNCHANGED <<doing, confirmed, pv, dev, joined>>
  PROVE  SocketInv'
<1>1. /\ job[c].at = "destroying" /\ alive' = alive - 1 /\ S!Ends(c, "ok")
      /\ UNCHANGED <<signal, evicted, callbacks, gate, recent>>
  BY DEF S!Destroyed
<1>2. /\ job \in [Peers -> Watch] /\ job[c] \in Watch /\ JobFits(c)
      /\ signal \in {0, 1} /\ evicted \in {0, 1} /\ alive \in Nat
      /\ callbacks \subseteq Token /\ gate \in {0} \cup Token /\ recent \in BOOLEAN
      /\ SignalsCounted /\ S!CallbacksServed
  BY SocketKnown
<1>3. PICK j \in Watch :
          /\ job' = [job EXCEPT ![c] = j]
          /\ j.op = job[c].op /\ j.cb = job[c].cb /\ j.at = "over" /\ j.own = 0 /\ j.end = "ok"
  BY <1>1, <1>2, EndsWith
<1>4. job[c].own = 1
  BY <1>1, <1>2 DEF JobFits
<1>5. SignalsCounted' /\ alive' \in Nat
  BY <1>1, <1>2, <1>3, <1>4, OneOwnerLess
<1>6. S!CallbacksServed'
  BY <1>1, <1>2 DEF S!CallbacksServed
<1>7. job'[c] = j
  BY <1>2, <1>3
<1>8. JobFits(c)'
  BY <1>1, <1>2, <1>3, <1>7 DEF JobFits
<1>9. QED
  BY <1>1, <1>2, <1>3, <1>5, <1>6, <1>8, JobMoves

LEMMA GetsKeeps ==
  ASSUME PeerNames, SocketInv, NEW c \in Peers, S!Gets(c), UNCHANGED <<doing, confirmed, pv, dev, joined>>
  PROVE  SocketInv'
<1> DEFINE end == IF signal = 0 THEN "nothing" ELSE "value"
           touched == recent \/ signal # 0
<1>1. /\ job[c].op = "get" /\ job[c].at = "start" /\ recent' = touched /\ S!Ends(c, end)
      /\ UNCHANGED <<signal, alive, evicted, callbacks, gate>>
  BY DEF S!Gets, S!At
<1>2. /\ job \in [Peers -> Watch] /\ job[c] \in Watch /\ JobFits(c)
      /\ signal \in {0, 1} /\ evicted \in {0, 1} /\ alive \in Nat
      /\ callbacks \subseteq Token /\ gate \in {0} \cup Token /\ recent \in BOOLEAN
      /\ SignalsCounted /\ S!CallbacksServed
  BY SocketKnown
<1>3. end \in {"ok", "failed", "nothing", "value"} /\ touched \in BOOLEAN
  BY <1>2
<1> HIDE DEF end, touched
<1>4. PICK j \in Watch :
          /\ job' = [job EXCEPT ![c] = j]
          /\ j.op = job[c].op /\ j.cb = job[c].cb /\ j.at = "over" /\ j.own = 0 /\ j.end = end
  BY <1>1, <1>2, <1>3, EndsWith
<1>5. job[c].own = 0
  BY <1>1, <1>2 DEF JobFits, Watch
<1>6. SignalsCounted'
  <2>1. Cardinality(Owners') = Cardinality(Owners)
    BY <1>2, <1>4, <1>5, OwnersMove
  <2>2. QED
    BY <1>1, <1>2, <2>1 DEF SignalsCounted
<1>7. S!CallbacksServed'
  BY <1>1, <1>2 DEF S!CallbacksServed
<1>8. job'[c] = j
  BY <1>2, <1>4
<1>9. JobFits(c)'
  BY <1>1, <1>2, <1>4, <1>8 DEF JobFits
<1>10. recent' \in BOOLEAN
  BY <1>1, <1>3
<1>11. QED
  BY <1>1, <1>2, <1>4, <1>6, <1>7, <1>9, <1>10, JobMoves

(* The own signal becomes the signal of the PV, unless there is one.        *)
LEMMA CommitsKeeps ==
  ASSUME PeerNames, SocketInv, NEW c \in Peers, S!Commits(c), UNCHANGED <<doing, confirmed, pv, dev, joined>>
  PROVE  SocketInv'
<1>1. /\ job[c].op = "subscribe" /\ job[c].at = "connecting" /\ signal' = 1
      /\ callbacks' = callbacks \cup ({job[c].cb} \ {0}) /\ recent' = TRUE
      /\ IF signal = 0 THEN S!Ends(c, "ok") ELSE job' = [job EXCEPT ![c].at = "destroying", ![c].lock = 0]
      /\ UNCHANGED <<alive, gate, evicted>>
  BY DEF S!Commits, S!At
<1>2. /\ job \in [Peers -> Watch] /\ job[c] \in Watch /\ JobFits(c)
      /\ signal \in {0, 1} /\ evicted \in {0, 1} /\ alive \in Nat
      /\ callbacks \subseteq Token /\ gate \in {0} \cup Token /\ recent \in BOOLEAN
      /\ SignalsCounted /\ S!CallbacksServed
  BY SocketKnown
<1>3. job[c].own = 1
  BY <1>1, <1>2 DEF JobFits
<1>4. \E j \in Watch :
          /\ job' = [job EXCEPT ![c] = j] /\ j.op = job[c].op /\ j.cb = job[c].cb
          /\ \/ signal = 0 /\ j.at = "over" /\ j.own = 0 /\ j.end = "ok"
             \/ signal = 1 /\ j.at = "destroying" /\ j.own = 1
  <2>1. CASE signal = 0
    BY <1>1, <1>2, <2>1, EndsWith
  <2>2. CASE signal = 1
    <3> DEFINE j == [job[c] EXCEPT !.at = "destroying", !.lock = 0]
    <3>1. job' = [job EXCEPT ![c].at = "destroying", ![c].lock = 0]
      BY <1>1, <2>2
    <3>2. job' = [job EXCEPT ![c] = j]
      BY <1>2, <3>1
    <3>3. j \in Watch /\ j.op = job[c].op /\ j.cb = job[c].cb /\ j.at = "destroying" /\ j.own = 1
      BY <1>2, <1>3 DEF Watch
    <3> HIDE DEF j
    <3>4. QED
      BY <2>2, <3>2, <3>3
  <2>3. QED
    BY <1>2, <2>1, <2>2
<1>5. PICK j \in Watch :
          /\ job' = [job EXCEPT ![c] = j] /\ j.op = job[c].op /\ j.cb = job[c].cb
          /\ \/ signal = 0 /\ j.at = "over" /\ j.own = 0 /\ j.end = "ok"
             \/ signal = 1 /\ j.at = "destroying" /\ j.own = 1
  BY <1>4
<1>6. SignalsCounted'
  <2> DEFINE n == Cardinality(Owners)
             m == Cardinality(Owners')
  <2>1. n \in Nat /\ m \in Nat /\ (j.own = 1 => m = n) /\ (j.own = 0 => n = m + 1)
    BY <1>2, <1>3, <1>5, OwnersMove
  <2>2. alive = signal + evicted + n
    BY <1>2 DEF SignalsCounted
  <2> HIDE DEF n, m
  <2>3. (signal = 0 /\ n = m + 1) \/ (signal = 1 /\ m = n)
    BY <1>5, <2>1
  <2>4. alive = 1 + evicted + m
    BY <1>2, <2>1, <2>2, <2>3
  <2>5. alive' = signal' + evicted' + m
    BY <1>1, <2>4
  <2>6. QED
    BY <2>5 DEF SignalsCounted, m
<1>7. S!CallbacksServed'
  BY <1>1 DEF S!CallbacksServed
<1>8. job'[c] = j
  BY <1>2, <1>5
<1>9. callbacks' = callbacks \cup ({j.cb} \ {0}) /\ (j.cb # 0 => j.cb \in callbacks')
  BY <1>1, <1>5
<1>10. JobFits(c)'
  BY <1>1, <1>5, <1>8, <1>9 DEF JobFits
<1>11. signal' \in {0, 1} /\ recent' \in BOOLEAN
  BY <1>1
<1>12. QED
  BY <1>1, <1>2, <1>5, <1>6, <1>7, <1>9, <1>10, <1>11, JobMoves

(* The last callback takes the signal with it.                             *)
LEMMA UnsubscribesKeeps ==
  ASSUME PeerNames, SocketInv, NEW c \in Peers, S!Unsubscribes(c), UNCHANGED <<doing, confirmed, pv, dev, joined>>
  PROVE  SocketInv'
<1>1. /\ job[c].op = "unsubscribe" /\ job[c].at = "start"
      /\ callbacks' = callbacks \ {job[c].cb}
      /\ \/ (signal = 0 \/ callbacks' # {}) /\ S!Ends(c, "ok") /\ signal' = signal /\ gate' = gate
         \/ /\ signal # 0 /\ callbacks' = {} /\ signal' = 0 /\ gate' = 0
            /\ job' = [job EXCEPT ![c].at = "destroying", ![c].own = 1]
      /\ UNCHANGED <<alive, evicted, recent>>
  BY DEF S!Unsubscribes, S!At
<1>2. /\ job \in [Peers -> Watch] /\ job[c] \in Watch /\ JobFits(c)
      /\ signal \in {0, 1} /\ evicted \in {0, 1} /\ alive \in Nat
      /\ callbacks \subseteq Token /\ gate \in {0} \cup Token /\ recent \in BOOLEAN
      /\ SignalsCounted /\ S!CallbacksServed
  BY SocketKnown
<1>3. job[c].own = 0
  BY <1>1, <1>2 DEF JobFits, Watch
<1>4. \E j \in Watch :
          /\ job' = [job EXCEPT ![c] = j] /\ j.op = job[c].op /\ j.cb = job[c].cb
          /\ \/ (signal = 0 \/ callbacks' # {}) /\ signal' = signal /\ gate' = gate /\ j.at = "over" /\ j.own = 0
             \/ signal = 1 /\ callbacks' = {} /\ signal' = 0 /\ gate' = 0 /\ j.at = "destroying" /\ j.own = 1
  <2>1. CASE (signal = 0 \/ callbacks' # {}) /\ S!Ends(c, "ok") /\ signal' = signal /\ gate' = gate
    BY <1>2, <2>1, EndsWith
  <2>2. CASE /\ signal # 0 /\ callbacks' = {} /\ signal' = 0 /\ gate' = 0
             /\ job' = [job EXCEPT ![c].at = "destroying", ![c].own = 1]
    <3> DEFINE j == [job[c] EXCEPT !.at = "destroying", !.own = 1]
    <3>1. job' = [job EXCEPT ![c] = j] /\ signal = 1
      BY <1>2, <2>2
    <3>2. j \in Watch /\ j.op = job[c].op /\ j.cb = job[c].cb /\ j.at = "destroying" /\ j.own = 1
      BY <1>2 DEF Watch
    <3> HIDE DEF j
    <3>3. QED
      BY <2>2, <3>1, <3>2
  <2>3. QED
    BY <1>1, <2>1, <2>2
<1>5. PICK j \in Watch :
          /\ job' = [job EXCEPT ![c] = j] /\ j.op = job[c].op /\ j.cb = job[c].cb
          /\ \/ (signal = 0 \/ callbacks' # {}) /\ signal' = signal /\ gate' = gate /\ j.at = "over" /\ j.own = 0
             \/ signal = 1 /\ callbacks' = {} /\ signal' = 0 /\ gate' = 0 /\ j.at = "destroying" /\ j.own = 1
  BY <1>4
<1>6. SignalsCounted'
  <2> DEFINE n == Cardinality(Owners)
             m == Cardinality(Owners')
  <2>1. n \in Nat /\ m \in Nat /\ (j.own = 0 => m = n) /\ (j.own = 1 => m = n + 1)
    BY <1>2, <1>3, <1>5, OwnersMove
  <2>2. alive = signal + evicted + n
    BY <1>2 DEF SignalsCounted
  <2> HIDE DEF n, m
  <2>3. (signal' = signal /\ m = n) \/ (signal = 1 /\ signal' = 0 /\ m = n + 1)
    BY <1>5, <2>1
  <2>4. alive = signal' + evicted + m
    BY <1>2, <2>1, <2>2, <2>3
  <2>5. alive' = signal' + evicted' + m
    BY <1>1, <2>4
  <2>6. QED
    BY <2>5 DEF SignalsCounted, m
<1>7. S!CallbacksServed'
  BY <1>1, <1>2, <1>5 DEF S!CallbacksServed
<1>8. job'[c] = j
  BY <1>2, <1>5
<1>9. callbacks' = callbacks \ {j.cb} /\ j.cb \notin callbacks' /\ j.op = "unsubscribe"
  BY <1>1, <1>5
<1>10. JobFits(c)'
  BY <1>1, <1>2, <1>5, <1>8, <1>9 DEF JobFits
<1>11. signal' \in {0, 1} /\ gate' \in {0} \cup Token
  BY <1>2, <1>5
<1>12. QED
  BY <1>1, <1>2, <1>5, <1>6, <1>7, <1>9, <1>10, <1>11, JobMoves

(* The sweep, which no client sees.                                        *)
LEMMA SweepKeeps ==
  ASSUME PeerNames, SocketInv, S!Ages \/ S!Evicts \/ S!EvictedDestroyed,
         UNCHANGED <<doing, confirmed, pv, dev, joined>>
  PROVE  SocketInv'
<1>1. /\ UNCHANGED <<callbacks, job>>
      /\ recent' \in {recent, FALSE} /\ gate' \in {gate, 0}
      /\ \/ UNCHANGED <<signal, alive, evicted>>
         \/ signal = 1 /\ signal' = 0 /\ evicted = 0 /\ evicted' = 1 /\ callbacks = {} /\ alive' = alive
         \/ evicted = 1 /\ evicted' = 0 /\ alive' = alive - 1 /\ signal' = signal
  BY DEF S!Ages, S!Evicts, S!EvictedDestroyed
<1>2. /\ WatchTypes /\ SignalsCounted /\ S!CallbacksServed /\ job \in [Peers -> Watch]
      /\ signal \in {0, 1} /\ evicted \in {0, 1} /\ alive \in Nat
  BY DEF SocketInv, WatchTypes
<1>3. SignalsCounted' /\ signal' \in {0, 1} /\ evicted' \in {0, 1} /\ alive' \in Nat
  <2> DEFINE n == Cardinality(Owners)
             m == Cardinality(Owners')
  <2>1. m = n
    BY <1>1 DEF Owners
  <2>2. n \in Nat
    <3>1. IsFiniteSet(Owners)
      BY FS_Subset DEF PeerNames, Owners
    <3>2. QED
      BY <3>1, FS_CardinalityType
  <2>3. alive = signal + evicted + n
    BY <1>2 DEF SignalsCounted
  <2> HIDE DEF n, m
  <2>4. signal' \in {0, 1} /\ evicted' \in {0, 1} /\ alive' \in Nat
    BY <1>1, <1>2, <2>2, <2>3
  <2>5. alive' = signal' + evicted' + m
    BY <1>1, <1>2, <2>1, <2>2, <2>3
  <2>6. QED
    BY <2>4, <2>5 DEF SignalsCounted, m
<1>4. WatchTypes'
  BY <1>1, <1>2, <1>3 DEF WatchTypes
<1>5. S!CallbacksServed'
  BY <1>1, <1>2 DEF S!CallbacksServed
<1>6. PeerTypes' /\ CallbacksKnown' /\ PvBooks' /\ DevBooks'
  BY <1>1 DEF SocketInv, PeerTypes, CallbacksKnown, PvBooks, DevBooks
<1>7. ASSUME NEW c \in Peers
      PROVE  JobFits(c)' /\ PlaceFits(c)'
  BY <1>1, SocketKnown DEF JobFits, PlaceFits
<1>8. QED
  BY <1>3, <1>4, <1>5, <1>6, <1>7 DEF SocketInv

-----------------------------------------------------------------------------
(* The handlers of the sockets.                                            *)

(* The call of a client that waits for neither an attempt nor the device    *)
(* has left no callback behind.                                            *)
LEMMA CallbackIsGone ==
  ASSUME PeerNames, SocketInv, NEW c \in Peers, S!Over(c), doing[c] \notin {"attempt", "device"}
  PROVE  job[c].cb \notin callbacks
<1>1. PlaceFits(c) /\ JobFits(c) /\ doing[c] \in Waits /\ callbacks \subseteq Token /\ job[c].at = "over"
  BY SocketKnown DEF S!Over
<1>2. 0 \notin callbacks
  BY <1>1 DEF PeerNames
<1>3. CASE doing[c] \in {"idle", "device lock", "warm", "warm read", "probe", "values", "read"}
  <2>1. job[c].cb = 0
    BY <1>1, <1>3 DEF PlaceFits, JobFits
  <2>2. QED
    BY <1>2, <2>1
<1>4. CASE doing[c] = "leave"
  BY <1>1, <1>4 DEF PlaceFits, JobFits
<1>5. QED
  BY <1>1, <1>3, <1>4 DEF Waits

(* A handler gets on: it leaves the watch alone, and the attempts and calls  *)
(* of others.                                                              *)
LEMMA PeerMoves ==
  ASSUME PeerNames, SocketInv, NEW c \in Peers, NEW j \in Watch, NEW what \in Waits,
         S!Over(c), j.own = 0, job' = [job EXCEPT ![c] = j], doing' = [doing EXCEPT ![c] = what],
         UNCHANGED <<signal, alive, evicted, callbacks, gate, recent>>,
         confirmed' \subseteq Peers, joined' \subseteq Peers,
         pv' \in [clients : SUBSET Web, slot : {0} \cup Token],
         dev' \in [clients : SUBSET Dev, holder : Dev \cup {"nobody"}, slot : {0} \cup Token,
                   live : BOOLEAN, broken : BOOLEAN],
         PvBooks', DevBooks', JobFits(c)', PlaceFits(c)',
         \A k \in {pv.slot, dev.slot, job[c].cb} : k \in callbacks => k \in {pv'.slot, dev'.slot, j.cb},
         \A b \in Peers \ {c} :
             /\ job[b].op = "unsubscribe" => job[b].cb \notin {0, pv'.slot, dev'.slot}
             /\ doing[b] = "attempt" => pv'.slot = pv.slot /\ b \in pv'.clients
             /\ doing[b] = "device" =>
                    dev'.holder = dev.holder /\ dev'.slot = dev.slot /\ dev'.live = dev.live /\ b \in dev'.clients
  PROVE  SocketInv'
<1>1. /\ job \in [Peers -> Watch] /\ JobFits(c) /\ doing \in [Peers -> Waits] /\ job[c].at = "over"
      /\ SignalsCounted /\ S!CallbacksServed /\ WatchTypes
  BY DEF SocketInv, WatchTypes, PeerTypes, S!Over
<1>2. /\ job'[c] = j /\ doing'[c] = what
      /\ \A b \in Peers \ {c} : job'[b] = job[b] /\ doing'[b] = doing[b]
  BY <1>1
<1>3. job' \in [Peers -> Watch] /\ doing' \in [Peers -> Waits]
  BY <1>1
<1>4. WatchTypes' /\ PeerTypes'
  BY <1>1, <1>3 DEF WatchTypes, PeerTypes
<1>5. SignalsCounted'
  <2>1. job[c].own = 0
    <3>1. job[c].own \in {0, 1}
      BY <1>1 DEF Watch
    <3>2. QED
      BY <1>1, <3>1 DEF JobFits
  <2>2. Cardinality(Owners') = Cardinality(Owners)
    BY <1>1, <2>1, OwnersMove
  <2>3. QED
    BY <1>1, <2>2 DEF SignalsCounted
<1>6. S!CallbacksServed'
  BY <1>1 DEF S!CallbacksServed
<1>7. CallbacksKnown'
  <2>1. callbacks \subseteq {pv.slot, dev.slot} \cup {job[b].cb : b \in Peers}
    BY DEF SocketInv, CallbacksKnown
  <2>2. ASSUME NEW k \in callbacks
        PROVE  k \in {pv'.slot, dev'.slot} \cup {job'[b].cb : b \in Peers}
    <3>1. CASE k \in {pv.slot, dev.slot, job[c].cb}
      BY <1>2, <3>1
    <3>2. CASE \E b \in Peers \ {c} : k = job[b].cb
      BY <1>2, <3>2
    <3>3. QED
      BY <2>1, <3>1, <3>2
  <2>3. QED
    BY <2>2 DEF CallbacksKnown
<1>8. ASSUME NEW b \in Peers
      PROVE  JobFits(b)' /\ PlaceFits(b)'
  <2>1. CASE b = c
    BY <2>1
  <2>2. CASE b # c
    <3>1. JobFits(b) /\ PlaceFits(b) /\ job'[b] = job[b] /\ doing'[b] = doing[b]
      BY <1>2, <2>2, SocketKnown
    <3>2. JobFits(b)'
      BY <2>2, <3>1 DEF JobFits
    <3>3. PlaceFits(b)'
      BY <2>2, <3>1 DEF PlaceFits
    <3>4. QED
      BY <3>2, <3>3
  <2>3. QED
    BY <2>1, <2>2
<1>9. QED
  BY <1>4, <1>5, <1>6, <1>7, <1>8 DEF SocketInv

(* What the other clients hold on to, when the books do not change.         *)
LEMMA OthersStay ==
  ASSUME SocketInv, NEW c \in Peers
  PROVE  \A b \in Peers \ {c} :
             /\ job[b].op = "unsubscribe" => job[b].cb \notin {0, pv.slot, dev.slot}
             /\ doing[b] = "attempt" => b \in pv.clients /\ job[b].cb = pv.slot /\ b \in Web
             /\ doing[b] = "device" => b \in dev.clients /\ dev.holder = b /\ b \in Dev
<1>1. SUFFICES ASSUME NEW b \in Peers \ {c}
               PROVE  /\ job[b].op = "unsubscribe" => job[b].cb \notin {0, pv.slot, dev.slot}
                      /\ doing[b] = "attempt" => b \in pv.clients /\ job[b].cb = pv.slot /\ b \in Web
                      /\ doing[b] = "device" => b \in dev.clients /\ dev.holder = b /\ b \in Dev
  OBVIOUS
<1>2. JobFits(b) /\ PlaceFits(b)
  BY SocketKnown
<1>3. QED
  BY <1>2 DEF JobFits, PlaceFits

(* A handler that leaves the books alone.                                  *)
LEMMA QuietMoves ==
  ASSUME PeerNames, SocketInv, NEW c \in Peers, NEW j \in Watch, NEW what \in Waits,
         S!Over(c), doing[c] \notin {"attempt", "device"}, what \notin {"attempt", "device", "values"},
         j.own = 0, j.cb = 0, job' = [job EXCEPT ![c] = j], doing' = [doing EXCEPT ![c] = what],
         UNCHANGED <<signal, alive, evicted, callbacks, gate, recent>>, UNCHANGED <<pv, dev, joined>>,
         confirmed' = confirmed \/ (confirmed' = confirmed \cup {c} /\ doing[c] = "values"),
         JobFits(c)', PlaceFits(c)'
  PROVE  SocketInv'
<1>1. doing \in [Peers -> Waits] /\ confirmed \subseteq Peers /\ PeerTypes /\ PvBooks /\ DevBooks
  BY DEF SocketInv, PeerTypes
<1>2. doing'[c] = what /\ \A b \in Peers \ {c} : doing'[b] = doing[b]
  BY <1>1
<1>3. /\ confirmed' \subseteq Peers /\ joined' \subseteq Peers
      /\ pv' \in [clients : SUBSET Web, slot : {0} \cup Token]
      /\ dev' \in [clients : SUBSET Dev, holder : Dev \cup {"nobody"}, slot : {0} \cup Token,
                   live : BOOLEAN, broken : BOOLEAN]
  BY <1>1 DEF PeerTypes
<1>4. \A b \in Peers : doing'[b] = "attempt" <=> doing[b] = "attempt"
  BY <1>2
<1>5. \A b \in Peers : b \in confirmed' \/ doing'[b] = "values" => b \in confirmed \/ doing[b] = "values"
  BY <1>2
<1>6. Web \subseteq Peers /\ Dev \subseteq Peers
  BY DEF Peers
<1>7. PvBooks'
  BY <1>1, <1>4, <1>5, <1>6 DEF PvBooks
<1>8. DevBooks'
  <2>1. dev.holder # "nobody" => doing'[dev.holder] = "device"
    <3>1. SUFFICES ASSUME dev.holder # "nobody" PROVE doing'[dev.holder] = "device"
      OBVIOUS
    <3>2. doing[dev.holder] = "device" /\ dev.holder \in Peers
      BY <1>1, <1>6, <3>1 DEF DevBooks, PeerTypes
    <3>3. QED
      BY <1>2, <3>2
  <2>2. QED
    BY <1>1, <1>5, <1>6, <2>1 DEF DevBooks
<1>9. job[c].cb \notin callbacks
  BY CallbackIsGone
<1>10. \A k \in {pv.slot, dev.slot, job[c].cb} : k \in callbacks => k \in {pv'.slot, dev'.slot, j.cb}
  BY <1>9
<1>11. \A b \in Peers \ {c} :
          /\ job[b].op = "unsubscribe" => job[b].cb \notin {0, pv'.slot, dev'.slot}
          /\ doing[b] = "attempt" => pv'.slot = pv.slot /\ b \in pv'.clients
          /\ doing[b] = "device" =>
                 dev'.holder = dev.holder /\ dev'.slot = dev.slot /\ dev'.live = dev.live /\ b \in dev'.clients
  BY OthersStay
<1>12. QED
  BY <1>3, <1>7, <1>8, <1>10, <1>11, PeerMoves

(* The calls that handlers make.                                           *)
LEMMA CallIs ==
  ASSUME NEW op \in {"subscribe", "unsubscribe", "get"}, NEW k \in {0} \cup Token
  PROVE  /\ S!Call(op, k) \in Watch /\ S!Call(op, k).op = op /\ S!Call(op, k).cb = k
         /\ S!Call(op, k).at = "start" /\ S!Call(op, k).own = 0
         /\ S!NoJob \in Watch /\ S!NoJob.op = "none" /\ S!NoJob.cb = 0
         /\ S!NoJob.at = "over" /\ S!NoJob.own = 0
<1>1. /\ S!NoJob \in Watch /\ S!NoJob.op = "none" /\ S!NoJob.cb = 0
      /\ S!NoJob.at = "over" /\ S!NoJob.own = 0
  BY DEF S!NoJob, Watch
<1> HIDE DEF S!NoJob
<1>2. /\ S!Call(op, k) \in Watch /\ S!Call(op, k).op = op /\ S!Call(op, k).cb = k
      /\ S!Call(op, k).at = "start" /\ S!Call(op, k).own = 0
  BY <1>1 DEF S!Call, Watch
<1>3. QED
  BY <1>1, <1>2

LEMMA FreshJobFits ==
  ASSUME NEW c \in Peers, NEW j \in Watch, job \in [Peers -> Watch], job' = [job EXCEPT ![c] = j], j.own = 0,
         \/ j.op = "none" /\ j.at = "over" /\ j.cb = 0
         \/ j.op = "get" /\ j.at = "start" /\ j.cb = 0
         \/ j.op = "subscribe" /\ j.at = "start" /\ j.cb \notin callbacks'
         \/ j.op = "unsubscribe" /\ j.at = "start" /\ j.cb \notin {0, pv'.slot, dev'.slot}
  PROVE  JobFits(c)'
<1>1. job'[c] = j
  OBVIOUS
<1>2. QED
  BY <1>1 DEF JobFits

(* A client goes idle, looks at the PV first, reads it, or waits for the     *)
(* lock of the device.                                                     *)
LEMMA IdleKeeps ==
  ASSUME PeerNames, SocketInv, NEW c \in Peers, doing[c] \notin {"attempt", "device"}, S!Over(c),
         \/ S!Awaits(c, "idle") /\ S!Quietly(c)
         \/ S!Awaits(c, "device lock") /\ S!Quietly(c) /\ c \in Dev
         \/ S!Awaits(c, "warm") /\ S!Calls(c, "subscribe", 0) /\ c \in Web
         \/ S!Awaits(c, "warm read") /\ S!Calls(c, "subscribe", 0)
         \/ S!Awaits(c, "probe") /\ S!Calls(c, "get", 0) /\ c \in Web
         \/ S!Awaits(c, "read") /\ S!Calls(c, "get", 0),
         UNCHANGED <<pv, dev, joined>>,
         confirmed' = confirmed \/ (confirmed' = confirmed \cup {c} /\ doing[c] = "values")
  PROVE  SocketInv'
<1>1. \E j \in Watch : \E what \in Waits :
          /\ job' = [job EXCEPT ![c] = j] /\ doing' = [doing EXCEPT ![c] = what]
          /\ j.own = 0 /\ j.cb = 0 /\ what \notin {"attempt", "device", "values"}
          /\ \/ j.op = "none" /\ j.at = "over" /\ what \in {"idle", "device lock"}
             \/ j.op = "get" /\ j.at = "start" /\ what \in {"probe", "read"}
             \/ j.op = "subscribe" /\ j.at = "start" /\ what \in {"warm", "warm read"}
          /\ what \in {"warm", "probe"} => c \in Web
          /\ what = "device lock" => c \in Dev
          /\ UNCHANGED <<signal, alive, evicted, callbacks, gate, recent>>
  <2>1. CASE S!Awaits(c, "idle") /\ S!Quietly(c)
    <3>1. job' = [job EXCEPT ![c] = S!NoJob] /\ doing' = [doing EXCEPT ![c] = "idle"]
          /\ UNCHANGED <<signal, alive, evicted, callbacks, gate, recent>>
      BY <2>1 DEF S!Awaits, S!Quietly, S!Rests
    <3>2. QED
      BY <3>1, CallIs DEF Waits
  <2>2. CASE S!Awaits(c, "device lock") /\ S!Quietly(c) /\ c \in Dev
    <3>1. job' = [job EXCEPT ![c] = S!NoJob] /\ doing' = [doing EXCEPT ![c] = "device lock"]
          /\ UNCHANGED <<signal, alive, evicted, callbacks, gate, recent>>
      BY <2>2 DEF S!Awaits, S!Quietly, S!Rests
    <3>2. QED
      BY <2>2, <3>1, CallIs DEF Waits
  <2>3. CASE S!Awaits(c, "warm") /\ S!Calls(c, "subscribe", 0) /\ c \in Web
    <3>1. job' = [job EXCEPT ![c] = S!Call("subscribe", 0)] /\ doing' = [doing EXCEPT ![c] = "warm"]
          /\ UNCHANGED <<signal, alive, evicted, callbacks, gate, recent>>
      BY <2>3 DEF S!Awaits, S!Calls, S!Rests
    <3>2. QED
      BY <2>3, <3>1, CallIs DEF Waits
  <2>4. CASE S!Awaits(c, "warm read") /\ S!Calls(c, "subscribe", 0)
    <3>1. job' = [job EXCEPT ![c] = S!Call("subscribe", 0)] /\ doing' = [doing EXCEPT ![c] = "warm read"]
          /\ UNCHANGED <<signal, alive, evicted, callbacks, gate, recent>>
      BY <2>4 DEF S!Awaits, S!Calls, S!Rests
    <3>2. QED
      BY <3>1, CallIs DEF Waits
  <2>5. CASE S!Awaits(c, "probe") /\ S!Calls(c, "get", 0) /\ c \in Web
    <3>1. job' = [job EXCEPT ![c] = S!Call("get", 0)] /\ doing' = [doing EXCEPT ![c] = "probe"]
          /\ UNCHANGED <<signal, alive, evicted, callbacks, gate, recent>>
      BY <2>5 DEF S!Awaits, S!Calls, S!Rests
    <3>2. QED
      BY <2>5, <3>1, CallIs DEF Waits
  <2>6. CASE S!Awaits(c, "read") /\ S!Calls(c, "get", 0)
    <3>1. job' = [job EXCEPT ![c] = S!Call("get", 0)] /\ doing' = [doing EXCEPT ![c] = "read"]
          /\ UNCHANGED <<signal, alive, evicted, callbacks, gate, recent>>
      BY <2>6 DEF S!Awaits, S!Calls, S!Rests
    <3>2. QED
      BY <3>1, CallIs DEF Waits
  <2>7. QED
    BY <2>1, <2>2, <2>3, <2>4, <2>5, <2>6
<1>2. PICK j \in Watch, what \in Waits :
          /\ job' = [job EXCEPT ![c] = j] /\ doing' = [doing EXCEPT ![c] = what]
          /\ j.own = 0 /\ j.cb = 0 /\ what \notin {"attempt", "device", "values"}
          /\ \/ j.op = "none" /\ j.at = "over" /\ what \in {"idle", "device lock"}
             \/ j.op = "get" /\ j.at = "start" /\ what \in {"probe", "read"}
             \/ j.op = "subscribe" /\ j.at = "start" /\ what \in {"warm", "warm read"}
          /\ what \in {"warm", "probe"} => c \in Web
          /\ what = "device lock" => c \in Dev
          /\ UNCHANGED <<signal, alive, evicted, callbacks, gate, recent>>
  BY <1>1
<1>3. job \in [Peers -> Watch] /\ doing \in [Peers -> Waits] /\ callbacks \subseteq Token
  BY DEF SocketInv, WatchTypes, PeerTypes
<1>4. 0 \notin callbacks'
  BY <1>2, <1>3 DEF PeerNames
<1>5. JobFits(c)'
  BY <1>2, <1>3, <1>4, FreshJobFits
<1>6. job'[c] = j /\ doing'[c] = what
  BY <1>2, <1>3
<1>7. PlaceFits(c)'
  BY <1>2, <1>6 DEF PlaceFits
<1>8. QED
  BY <1>2, <1>5, <1>7, QuietMoves

LEMMA CallStarts ==
  ASSUME SocketInv, NEW c \in Peers, NEW what \in Waits, NEW op \in {"subscribe", "unsubscribe", "get"},
         NEW k \in {0} \cup Token, S!Awaits(c, what), S!Calls(c, op, k)
  PROVE  \E j \in Watch :
             /\ job' = [job EXCEPT ![c] = j] /\ doing' = [doing EXCEPT ![c] = what]
             /\ job'[c] = j /\ doing'[c] = what
             /\ \A b \in Peers \ {c} : job'[b] = job[b] /\ doing'[b] = doing[b]
             /\ j.op = op /\ j.cb = k /\ j.at = "start" /\ j.own = 0
             /\ UNCHANGED <<signal, alive, evicted, callbacks, gate, recent>>
<1> DEFINE j == S!Call(op, k)
<1>1. j \in Watch /\ j.op = op /\ j.cb = k /\ j.at = "start" /\ j.own = 0
  BY CallIs
<1>2. /\ job' = [job EXCEPT ![c] = j] /\ doing' = [doing EXCEPT ![c] = what]
      /\ UNCHANGED <<signal, alive, evicted, callbacks, gate, recent>>
  BY DEF S!Awaits, S!Calls, S!Rests
<1> HIDE DEF j
<1>3. job \in [Peers -> Watch] /\ doing \in [Peers -> Waits]
  BY DEF SocketInv, WatchTypes, PeerTypes
<1>4. QED
  BY <1>1, <1>2, <1>3

LEMMA CallIsNone ==
  ASSUME SocketInv, NEW c \in Peers, NEW what \in Waits, S!Awaits(c, what), S!Quietly(c)
  PROVE  \E j \in Watch :
             /\ job' = [job EXCEPT ![c] = j] /\ doing' = [doing EXCEPT ![c] = what]
             /\ job'[c] = j /\ doing'[c] = what
             /\ \A b \in Peers \ {c} : job'[b] = job[b] /\ doing'[b] = doing[b]
             /\ j.op = "none" /\ j.cb = 0 /\ j.at = "over" /\ j.own = 0
             /\ UNCHANGED <<signal, alive, evicted, callbacks, gate, recent>>
<1> DEFINE j == S!NoJob
<1>1. j \in Watch /\ j.op = "none" /\ j.cb = 0 /\ j.at = "over" /\ j.own = 0
  BY CallIs
<1>2. /\ job' = [job EXCEPT ![c] = j] /\ doing' = [doing EXCEPT ![c] = what]
      /\ UNCHANGED <<signal, alive, evicted, callbacks, gate, recent>>
  BY DEF S!Awaits, S!Quietly, S!Rests
<1> HIDE DEF j
<1>3. job \in [Peers -> Watch] /\ doing \in [Peers -> Waits]
  BY DEF SocketInv, WatchTypes, PeerTypes
<1>4. QED
  BY <1>1, <1>2, <1>3

LEMMA PeerKnown ==
  ASSUME SocketInv
  PROVE  /\ PvBooks /\ DevBooks
         /\ job \in [Peers -> Watch] /\ doing \in [Peers -> Waits] /\ callbacks \subseteq Token
         /\ confirmed \subseteq Peers /\ joined \subseteq Peers
         /\ pv \in [clients : SUBSET Web, slot : {0} \cup Token]
         /\ dev \in [clients : SUBSET Dev, holder : Dev \cup {"nobody"}, slot : {0} \cup Token,
                     live : BOOLEAN, broken : BOOLEAN]
         /\ Web \subseteq Peers /\ Dev \subseteq Peers
BY DEF SocketInv, WatchTypes, PeerTypes, Peers

(* A handler of the pv socket leaves the books of the device alone.         *)
LEMMA DeviceBooksStay ==
  ASSUME PeerNames, SocketInv, NEW c \in Peers, NEW what \in Waits, dev' = dev, callbacks' = callbacks,
         doing' = [doing EXCEPT ![c] = what], doing[c] # "device", what = "values" => c \in Web,
         confirmed' = confirmed \/ confirmed' = confirmed \ {c}
  PROVE  DevBooks'
<1>1. DevBooks /\ doing \in [Peers -> Waits] /\ Web \subseteq Peers /\ Dev \subseteq Peers
      /\ dev.holder \in Dev \cup {"nobody"}
  BY PeerKnown
<1>2. doing'[c] = what /\ \A b \in Peers \ {c} : doing'[b] = doing[b]
  BY <1>1
<1>3. dev.holder # "nobody" => doing'[dev.holder] = "device"
  <2>1. SUFFICES ASSUME dev.holder # "nobody" PROVE doing'[dev.holder] = "device"
    OBVIOUS
  <2>2. doing[dev.holder] = "device" /\ dev.holder \in Peers
    BY <1>1, <2>1 DEF DevBooks
  <2>3. QED
    BY <1>2, <2>2
<1>4. \A b \in Dev : b \in confirmed' \/ doing'[b] = "values" => b \in confirmed \/ doing[b] = "values"
  BY <1>1, <1>2 DEF PeerNames
<1>5. QED
  BY <1>1, <1>3, <1>4 DEF DevBooks

(* The first client attempts to subscribe.                                 *)
LEMMA BooksFirstKeeps ==
  ASSUME PeerNames, SocketInv, NEW c \in Web, S!Over(c), doing[c] \in {"idle", "probe"},
         pv.clients = {}, S!Books(c), UNCHANGED <<confirmed, dev>>
  PROVE  SocketInv'
<1> DEFINE k == S!NewCallback
<1>1. /\ pv' = [clients |-> {c}, slot |-> k] /\ S!Awaits(c, "attempt") /\ S!Calls(c, "subscribe", k)
      /\ joined' = joined \ {c}
  BY DEF S!Books
<1>2. k \in Token /\ k \notin callbacks /\ k # pv.slot /\ k # dev.slot /\ \A b \in Peers : k # job[b].cb
  BY CallbackIsNew
<1> HIDE DEF k
<1>3. /\ PvBooks /\ DevBooks
      /\ job \in [Peers -> Watch] /\ doing \in [Peers -> Waits] /\ callbacks \subseteq Token
      /\ confirmed \subseteq Peers /\ joined \subseteq Peers
      /\ dev \in [clients : SUBSET Dev, holder : Dev \cup {"nobody"}, slot : {0} \cup Token,
                  live : BOOLEAN, broken : BOOLEAN]
      /\ Web \subseteq Peers /\ c \in Peers
  BY PeerKnown
<1>4. "attempt" \in Waits /\ k \in {0} \cup Token /\ "subscribe" \in {"subscribe", "unsubscribe", "get"}
  BY <1>2 DEF Waits
<1>5. PICK j \in Watch :
          /\ job' = [job EXCEPT ![c] = j] /\ doing' = [doing EXCEPT ![c] = "attempt"]
          /\ job'[c] = j /\ doing'[c] = "attempt"
          /\ \A b \in Peers \ {c} : job'[b] = job[b] /\ doing'[b] = doing[b]
          /\ j.op = "subscribe" /\ j.cb = k /\ j.at = "start" /\ j.own = 0
          /\ UNCHANGED <<signal, alive, evicted, callbacks, gate, recent>>
  <2>1. S!Awaits(c, "attempt") /\ S!Calls(c, "subscribe", k) /\ c \in Peers
    BY <1>1, <1>3
  <2>2. QED
    BY <1>4, <2>1, CallStarts
<1>6. \A b \in Peers \ {c} :
          /\ job[b].op = "unsubscribe" => job[b].cb \notin {0, pv.slot, dev.slot}
          /\ doing[b] = "attempt" => b \in pv.clients /\ job[b].cb = pv.slot /\ b \in Web
          /\ doing[b] = "device" => b \in dev.clients /\ dev.holder = b /\ b \in Dev
  BY <1>3, OthersStay
<1>7. pv.slot = 0 /\ \A b \in Peers \ {c} : doing'[b] # "attempt"
  BY <1>3, <1>5, <1>6 DEF PvBooks
<1>8. pv'.clients = {c} /\ pv'.slot = k /\ pv' \in [clients : SUBSET Web, slot : {0} \cup Token] /\ k # 0
  BY <1>1, <1>2 DEF PeerNames
<1>9. PvBooks'
  <2>1. \A b \in Web : b \in confirmed' \/ doing'[b] = "values" => b \in pv'.clients \cup joined'
    BY <1>1, <1>3, <1>5, <1>8 DEF PvBooks
  <2>2. QED
    BY <1>2, <1>3, <1>5, <1>7, <1>8, <2>1 DEF PvBooks
<1>10. DevBooks'
  BY <1>3, <1>4, <1>5, DeviceBooksStay
<1>11. JobFits(c)'
  BY <1>2, <1>3, <1>5, FreshJobFits
<1>12. PlaceFits(c)'
  BY <1>5, <1>8 DEF PlaceFits
<1>13. job[c].cb \notin callbacks
  BY <1>3, CallbackIsGone
<1>14. \A x \in {pv.slot, dev.slot, job[c].cb} : x \in callbacks => x \in {pv'.slot, dev'.slot, j.cb}
  BY <1>3, <1>7, <1>13 DEF PeerNames
<1>15. \A b \in Peers \ {c} :
          /\ job[b].op = "unsubscribe" => job[b].cb \notin {0, pv'.slot, dev'.slot}
          /\ doing[b] = "attempt" => pv'.slot = pv.slot /\ b \in pv'.clients
          /\ doing[b] = "device" =>
                 dev'.holder = dev.holder /\ dev'.slot = dev.slot /\ dev'.live = dev.live /\ b \in dev'.clients
  BY <1>2, <1>5, <1>6, <1>7, <1>8
<1>16. confirmed' \subseteq Peers /\ joined' \subseteq Peers
       /\ dev' \in [clients : SUBSET Dev, holder : Dev \cup {"nobody"}, slot : {0} \cup Token,
                    live : BOOLEAN, broken : BOOLEAN]
  BY <1>1, <1>3
<1>17. QED
  BY <1>3, <1>4, <1>5, <1>8, <1>9, <1>10, <1>11, <1>12, <1>14, <1>15, <1>16, PeerMoves

(* A later client joins it, or shares its callback.                        *)
LEMMA BooksJoinKeeps ==
  ASSUME PeerNames, SocketInv, NEW c \in Web, S!Over(c), doing[c] \in {"idle", "probe"},
         pv.clients # {}, S!Books(c), UNCHANGED <<confirmed, dev>>
  PROVE  SocketInv'
<1> DEFINE attempted == \E b \in Web : doing[b] = "attempt"
<1>1. /\ pv' = [pv EXCEPT !.clients = pv.clients \cup {c}] /\ S!Awaits(c, "values") /\ S!Calls(c, "get", 0)
      /\ joined' = IF attempted THEN joined \cup {c} ELSE joined \ {c}
  BY DEF S!Books, S!AskValues
<1>2. /\ PvBooks /\ DevBooks
      /\ job \in [Peers -> Watch] /\ doing \in [Peers -> Waits] /\ callbacks \subseteq Token
      /\ confirmed \subseteq Peers /\ joined \subseteq Peers
      /\ pv \in [clients : SUBSET Web, slot : {0} \cup Token]
      /\ dev \in [clients : SUBSET Dev, holder : Dev \cup {"nobody"}, slot : {0} \cup Token,
                  live : BOOLEAN, broken : BOOLEAN]
      /\ Web \subseteq Peers /\ c \in Peers
  BY PeerKnown
<1>3. "values" \in Waits
  BY DEF Waits
<1>4. PICK j \in Watch :
          /\ job' = [job EXCEPT ![c] = j] /\ doing' = [doing EXCEPT ![c] = "values"]
          /\ job'[c] = j /\ doing'[c] = "values"
          /\ \A b \in Peers \ {c} : job'[b] = job[b] /\ doing'[b] = doing[b]
          /\ j.op = "get" /\ j.cb = 0 /\ j.at = "start" /\ j.own = 0
          /\ UNCHANGED <<signal, alive, evicted, callbacks, gate, recent>>
  BY <1>1, <1>2, <1>3, CallStarts
<1>5. \A b \in Peers \ {c} :
          /\ job[b].op = "unsubscribe" => job[b].cb \notin {0, pv.slot, dev.slot}
          /\ doing[b] = "attempt" => b \in pv.clients /\ job[b].cb = pv.slot /\ b \in Web
          /\ doing[b] = "device" => b \in dev.clients /\ dev.holder = b /\ b \in Dev
  BY <1>2, OthersStay
<1>6. \A b \in Peers : doing'[b] = "attempt" <=> doing[b] = "attempt"
  BY <1>4
<1>7. /\ pv'.clients = pv.clients \cup {c} /\ pv'.slot = pv.slot
      /\ pv' \in [clients : SUBSET Web, slot : {0} \cup Token]
  BY <1>1, <1>2
<1>8. joined \ {c} \subseteq joined' /\ joined' \subseteq joined \cup {c} /\ (attempted => c \in joined')
  BY <1>1
<1>9. PvBooks'
  <2>1. \A b \in Web : b \in confirmed' \/ doing'[b] = "values" => b \in pv'.clients \cup joined'
    BY <1>2, <1>4, <1>7, <1>8 DEF PvBooks
  <2>2. \A b \in Peers : doing'[b] = "attempt" => pv'.clients \ {b} \subseteq joined'
    <3>1. SUFFICES ASSUME NEW b \in Peers, doing'[b] = "attempt" PROVE pv'.clients \ {b} \subseteq joined'
      OBVIOUS
    <3>2. b # c /\ doing[b] = "attempt" /\ attempted /\ pv.clients \ {b} \subseteq joined
      BY <1>2, <1>5, <1>6, <3>1 DEF PvBooks
    <3>3. QED
      BY <1>7, <1>8, <3>2
  <2>3. QED
    BY <1>2, <1>4, <1>6, <1>7, <2>1, <2>2 DEF PvBooks
<1>10. DevBooks'
  BY <1>2, <1>3, <1>4, DeviceBooksStay
<1>11. JobFits(c)'
  BY <1>2, <1>4, FreshJobFits
<1>12. PlaceFits(c)'
  BY <1>4 DEF PlaceFits
<1>13. job[c].cb \notin callbacks
  BY <1>2, CallbackIsGone
<1>14. \A x \in {pv.slot, dev.slot, job[c].cb} : x \in callbacks => x \in {pv'.slot, dev'.slot, j.cb}
  BY <1>7, <1>13
<1>15. \A b \in Peers \ {c} :
          /\ job[b].op = "unsubscribe" => job[b].cb \notin {0, pv'.slot, dev'.slot}
          /\ doing[b] = "attempt" => pv'.slot = pv.slot /\ b \in pv'.clients
          /\ doing[b] = "device" =>
                 dev'.holder = dev.holder /\ dev'.slot = dev.slot /\ dev'.live = dev.live /\ b \in dev'.clients
  BY <1>5, <1>7
<1>16. confirmed' \subseteq Peers /\ joined' \subseteq Peers
       /\ dev' \in [clients : SUBSET Dev, holder : Dev \cup {"nobody"}, slot : {0} \cup Token,
                    live : BOOLEAN, broken : BOOLEAN]
  BY <1>2, <1>8
<1>17. QED
  BY <1>2, <1>3, <1>4, <1>7, <1>9, <1>10, <1>11, <1>12, <1>14, <1>15, <1>16, PeerMoves

(* What the attempt of a client came to.                                   *)
LEMMA AttemptIs ==
  ASSUME PeerNames, SocketInv, NEW c \in Peers, S!Over(c), doing[c] = "attempt"
  PROVE  /\ c \in Web /\ c \in pv.clients /\ pv.slot # 0 /\ job[c].cb = pv.slot
         /\ job[c].end \in {"ok", "failed"} /\ (pv.slot \in callbacks <=> job[c].end = "ok")
         /\ pv.clients \ {c} \subseteq joined /\ \A b \in Peers \ {c} : doing[b] # "attempt"
<1>1. PlaceFits(c) /\ JobFits(c) /\ job[c].at = "over" /\ PvBooks
  BY SocketKnown, PeerKnown DEF S!Over
<1>2. c \in Web /\ c \in pv.clients /\ job[c].cb = pv.slot /\ job[c].op = "subscribe"
  BY <1>1 DEF PlaceFits
<1>3. pv.slot # 0
  BY <1>1, <1>2 DEF PvBooks
<1>4. job[c].end \in {"ok", "failed"} /\ (pv.slot \in callbacks <=> job[c].end = "ok")
  BY <1>1, <1>2, <1>3 DEF JobFits
<1>5. pv.clients \ {c} \subseteq joined /\ \A b \in Peers \ {c} : doing[b] # "attempt"
  BY <1>1 DEF PvBooks
<1>6. QED
  BY <1>2, <1>3, <1>4, <1>5

LEMMA ReconciledIs ==
  ASSUME PeerNames, SocketInv, NEW c \in Peers, S!Reconciled(c)
  PROVE  /\ S!Over(c) /\ doing[c] = "attempt" /\ dev' = dev
         /\ \/ /\ job[c].end = "failed" /\ pv' = [clients |-> {}, slot |-> 0]
               /\ confirmed' = confirmed \ {c} /\ S!Awaits(c, "idle") /\ S!Quietly(c) /\ joined' = joined
            \/ /\ job[c].end = "ok" /\ S!AskValues(c) /\ joined' = joined \ pv.clients
               /\ pv' = pv /\ confirmed' = confirmed
<1>1. S!Over(c) /\ doing[c] = "attempt" /\ dev' = dev
  BY DEF S!Reconciled, S!Ready
<1>2. c \in pv.clients /\ job[c].cb = pv.slot /\ job[c].end \in {"ok", "failed"}
  BY <1>1, AttemptIs
<1>3. CASE job[c].end = "failed"
  BY <1>1, <1>2, <1>3 DEF S!Reconciled, S!Denies
<1>4. CASE job[c].end = "ok"
  BY <1>1, <1>2, <1>4 DEF S!Reconciled
<1>5. QED
  BY <1>2, <1>3, <1>4

(* An attempt fails: the books are empty, and who joined it knows nothing.  *)
LEMMA AttemptFailsKeeps ==
  ASSUME PeerNames, SocketInv, NEW c \in Peers, S!Over(c), doing[c] = "attempt", dev' = dev,
         job[c].end = "failed", pv' = [clients |-> {}, slot |-> 0],
         confirmed' = confirmed \ {c}, S!Awaits(c, "idle"), S!Quietly(c), joined' = joined
  PROVE  SocketInv'
<1>1. /\ PvBooks /\ DevBooks
      /\ job \in [Peers -> Watch] /\ doing \in [Peers -> Waits] /\ callbacks \subseteq Token
      /\ confirmed \subseteq Peers /\ joined \subseteq Peers
      /\ dev \in [clients : SUBSET Dev, holder : Dev \cup {"nobody"}, slot : {0} \cup Token,
                  live : BOOLEAN, broken : BOOLEAN]
      /\ Web \subseteq Peers
  BY PeerKnown
<1>2. "idle" \in Waits
  BY DEF Waits
<1>3. PICK j \in Watch :
          /\ job' = [job EXCEPT ![c] = j] /\ doing' = [doing EXCEPT ![c] = "idle"]
          /\ job'[c] = j /\ doing'[c] = "idle"
          /\ \A b \in Peers \ {c} : job'[b] = job[b] /\ doing'[b] = doing[b]
          /\ j.op = "none" /\ j.cb = 0 /\ j.at = "over" /\ j.own = 0
          /\ UNCHANGED <<signal, alive, evicted, callbacks, gate, recent>>
  BY <1>2, CallIsNone
<1>4. /\ c \in Web /\ c \in pv.clients /\ pv.slot # 0 /\ job[c].cb = pv.slot /\ pv.slot \notin callbacks
      /\ pv.clients \ {c} \subseteq joined /\ \A b \in Peers \ {c} : doing[b] # "attempt"
  BY AttemptIs
<1>5. \A b \in Peers \ {c} :
          /\ job[b].op = "unsubscribe" => job[b].cb \notin {0, pv.slot, dev.slot}
          /\ doing[b] = "attempt" => b \in pv.clients /\ job[b].cb = pv.slot /\ b \in Web
          /\ doing[b] = "device" => b \in dev.clients /\ dev.holder = b /\ b \in Dev
  BY OthersStay
<1>6. pv'.clients = {} /\ pv'.slot = 0 /\ pv' \in [clients : SUBSET Web, slot : {0} \cup Token]
  OBVIOUS
<1>7. PvBooks'
  <2>1. \A b \in Web : b \in confirmed' \/ doing'[b] = "values" => b \in joined'
    BY <1>1, <1>3, <1>4 DEF PvBooks
  <2>2. \A b \in Peers : doing'[b] # "attempt"
    BY <1>3, <1>4
  <2>3. QED
    BY <1>6, <2>1, <2>2 DEF PvBooks
<1>8. DevBooks'
  BY <1>2, <1>3, DeviceBooksStay
<1>9. JobFits(c)'
  BY <1>1, <1>3, FreshJobFits
<1>10. PlaceFits(c)'
  BY <1>3 DEF PlaceFits
<1>11. \A x \in {pv.slot, dev.slot, job[c].cb} : x \in callbacks => x \in {pv'.slot, dev'.slot, j.cb}
  BY <1>4
<1>12. \A b \in Peers \ {c} :
          /\ job[b].op = "unsubscribe" => job[b].cb \notin {0, pv'.slot, dev'.slot}
          /\ doing[b] = "attempt" => pv'.slot = pv.slot /\ b \in pv'.clients
          /\ doing[b] = "device" =>
                 dev'.holder = dev.holder /\ dev'.slot = dev.slot /\ dev'.live = dev.live /\ b \in dev'.clients
  BY <1>4, <1>5, <1>6
<1>13. confirmed' \subseteq Peers /\ joined' \subseteq Peers
       /\ dev' \in [clients : SUBSET Dev, holder : Dev \cup {"nobody"}, slot : {0} \cup Token,
                    live : BOOLEAN, broken : BOOLEAN]
  BY <1>1
<1>14. QED
  BY <1>2, <1>3, <1>6, <1>7, <1>8, <1>9, <1>10, <1>11, <1>12, <1>13, PeerMoves

LEMMA AttemptSucceedsKeeps ==
  ASSUME PeerNames, SocketInv, NEW c \in Peers, S!Over(c), doing[c] = "attempt", dev' = dev,
         job[c].end = "ok", S!AskValues(c), joined' = joined \ pv.clients, pv' = pv, confirmed' = confirmed
  PROVE  SocketInv'
<1>1. /\ PvBooks /\ DevBooks
      /\ job \in [Peers -> Watch] /\ doing \in [Peers -> Waits] /\ callbacks \subseteq Token
      /\ confirmed \subseteq Peers /\ joined \subseteq Peers
      /\ pv \in [clients : SUBSET Web, slot : {0} \cup Token]
      /\ dev \in [clients : SUBSET Dev, holder : Dev \cup {"nobody"}, slot : {0} \cup Token,
                  live : BOOLEAN, broken : BOOLEAN]
      /\ Web \subseteq Peers
  BY PeerKnown
<1>2. "values" \in Waits /\ 0 \in {0} \cup Token
  BY DEF Waits
<1>3. PICK j \in Watch :
          /\ job' = [job EXCEPT ![c] = j] /\ doing' = [doing EXCEPT ![c] = "values"]
          /\ job'[c] = j /\ doing'[c] = "values"
          /\ \A b \in Peers \ {c} : job'[b] = job[b] /\ doing'[b] = doing[b]
          /\ j.op = "get" /\ j.cb = 0 /\ j.at = "start" /\ j.own = 0
          /\ UNCHANGED <<signal, alive, evicted, callbacks, gate, recent>>
  BY <1>2, CallStarts DEF S!AskValues
<1>4. /\ c \in Web /\ c \in pv.clients /\ pv.slot # 0 /\ job[c].cb = pv.slot /\ pv.slot \in callbacks
      /\ pv.clients \ {c} \subseteq joined /\ \A b \in Peers \ {c} : doing[b] # "attempt"
  BY AttemptIs
<1>5. \A b \in Peers \ {c} :
          /\ job[b].op = "unsubscribe" => job[b].cb \notin {0, pv.slot, dev.slot}
          /\ doing[b] = "attempt" => b \in pv.clients /\ job[b].cb = pv.slot /\ b \in Web
          /\ doing[b] = "device" => b \in dev.clients /\ dev.holder = b /\ b \in Dev
  BY OthersStay
<1>6. PvBooks'
  <2>1. \A b \in Web : b \in confirmed' \/ doing'[b] = "values" => b \in pv.clients \cup (joined \ pv.clients)
    BY <1>1, <1>3, <1>4 DEF PvBooks
  <2>2. \A b \in Peers : doing'[b] # "attempt"
    BY <1>3, <1>4
  <2>3. pv.clients = {} <=> pv.slot = 0
    BY <1>1 DEF PvBooks
  <2>4. pv.slot # dev.slot
    BY <1>1, <1>4 DEF PvBooks
  <2>5. QED
    BY <1>3, <1>4, <2>1, <2>2, <2>3, <2>4 DEF PvBooks
<1>7. DevBooks'
  BY <1>2, <1>3, <1>4, DeviceBooksStay
<1>8. JobFits(c)'
  BY <1>1, <1>3, FreshJobFits
<1>9. PlaceFits(c)'
  BY <1>3, <1>4 DEF PlaceFits
<1>10. \A x \in {pv.slot, dev.slot, job[c].cb} : x \in callbacks => x \in {pv'.slot, dev'.slot, j.cb}
  BY <1>4
<1>11. \A b \in Peers \ {c} :
          /\ job[b].op = "unsubscribe" => job[b].cb \notin {0, pv'.slot, dev'.slot}
          /\ doing[b] = "attempt" => pv'.slot = pv.slot /\ b \in pv'.clients
          /\ doing[b] = "device" =>
                 dev'.holder = dev.holder /\ dev'.slot = dev.slot /\ dev'.live = dev.live /\ b \in dev'.clients
  BY <1>5
<1>12. /\ confirmed' \subseteq Peers /\ joined' \subseteq Peers
       /\ pv' \in [clients : SUBSET Web, slot : {0} \cup Token]
       /\ dev' \in [clients : SUBSET Dev, holder : Dev \cup {"nobody"}, slot : {0} \cup Token,
                    live : BOOLEAN, broken : BOOLEAN]
  BY <1>1
<1>13. QED
  BY <1>2, <1>3, <1>6, <1>7, <1>8, <1>9, <1>10, <1>11, <1>12, PeerMoves

(* The last client to leave takes the callback with it.                     *)
LEMMA LastLeavesKeeps ==
  ASSUME PeerNames, SocketInv, NEW c \in Peers, S!Leaves(c), pv.clients = {c}
  PROVE  SocketInv'
<1>0. PICK k : k = pv.slot
  OBVIOUS
<1>1. /\ c \in Web /\ doing[c] = "idle" /\ S!Over(c) /\ pv' = [clients |-> {}, slot |-> 0]
      /\ S!Awaits(c, "leave") /\ S!Calls(c, "unsubscribe", k)
      /\ confirmed' = confirmed \ {c} /\ joined' = joined \ {c} /\ dev' = dev
  BY <1>0 DEF S!Leaves, S!Ready, S!Denies
<1>2. /\ PvBooks /\ DevBooks
      /\ job \in [Peers -> Watch] /\ doing \in [Peers -> Waits] /\ callbacks \subseteq Token
      /\ confirmed \subseteq Peers /\ joined \subseteq Peers
      /\ pv \in [clients : SUBSET Web, slot : {0} \cup Token]
      /\ dev \in [clients : SUBSET Dev, holder : Dev \cup {"nobody"}, slot : {0} \cup Token,
                  live : BOOLEAN, broken : BOOLEAN]
      /\ Web \subseteq Peers
  BY PeerKnown
<1>3. "leave" \in Waits /\ k \in {0} \cup Token
  BY <1>0, <1>2 DEF Waits
<1>4. k # 0 /\ k # dev.slot
  BY <1>0, <1>2 DEF PvBooks
<1>5. PICK j \in Watch :
          /\ job' = [job EXCEPT ![c] = j] /\ doing' = [doing EXCEPT ![c] = "leave"]
          /\ job'[c] = j /\ doing'[c] = "leave"
          /\ \A b \in Peers \ {c} : job'[b] = job[b] /\ doing'[b] = doing[b]
          /\ j.op = "unsubscribe" /\ j.cb = k /\ j.at = "start" /\ j.own = 0
          /\ UNCHANGED <<signal, alive, evicted, callbacks, gate, recent>>
  <2>1. S!Awaits(c, "leave") /\ S!Calls(c, "unsubscribe", k) /\ k \in {0} \cup Token
    BY <1>1, <1>3
  <2>2. QED
    BY <1>3, <2>1, CallStarts
<1>6. \A b \in Peers \ {c} :
          /\ job[b].op = "unsubscribe" => job[b].cb \notin {0, pv.slot, dev.slot}
          /\ doing[b] = "attempt" => b \in pv.clients /\ job[b].cb = pv.slot /\ b \in Web
          /\ doing[b] = "device" => b \in dev.clients /\ dev.holder = b /\ b \in Dev
  BY OthersStay
<1>7. pv'.clients = {} /\ pv'.slot = 0 /\ pv' \in [clients : SUBSET Web, slot : {0} \cup Token]
  BY <1>1
<1>8. PvBooks'
  <2>1. \A b \in Web : b \in confirmed' \/ doing'[b] = "values" => b \in joined'
    BY <1>1, <1>2, <1>5 DEF PvBooks
  <2>2. \A b \in Peers : doing'[b] # "attempt"
    BY <1>5, <1>6
  <2>3. QED
    BY <1>7, <2>1, <2>2 DEF PvBooks
<1>9. DevBooks'
  BY <1>1, <1>3, <1>5, DeviceBooksStay
<1>10. JobFits(c)'
  BY <1>1, <1>2, <1>4, <1>5, <1>7, FreshJobFits
<1>11. PlaceFits(c)'
  BY <1>5 DEF PlaceFits
<1>12. job[c].cb \notin callbacks
  BY <1>1, CallbackIsGone
<1>13. \A x \in {pv.slot, dev.slot, job[c].cb} : x \in callbacks => x \in {pv'.slot, dev'.slot, j.cb}
  BY <1>0, <1>1, <1>5, <1>12
<1>14. \A b \in Peers \ {c} :
          /\ job[b].op = "unsubscribe" => job[b].cb \notin {0, pv'.slot, dev'.slot}
          /\ doing[b] = "attempt" => pv'.slot = pv.slot /\ b \in pv'.clients
          /\ doing[b] = "device" =>
                 dev'.holder = dev.holder /\ dev'.slot = dev.slot /\ dev'.live = dev.live /\ b \in dev'.clients
  BY <1>1, <1>6, <1>7
<1>15. confirmed' \subseteq Peers /\ joined' \subseteq Peers
       /\ dev' \in [clients : SUBSET Dev, holder : Dev \cup {"nobody"}, slot : {0} \cup Token,
                    live : BOOLEAN, broken : BOOLEAN]
  BY <1>1, <1>2
<1>16. QED
  BY <1>1, <1>3, <1>5, <1>7, <1>8, <1>9, <1>10, <1>11, <1>13, <1>14, <1>15, PeerMoves

LEMMA OtherLeavesKeeps ==
  ASSUME PeerNames, SocketInv, NEW c \in Peers, S!Leaves(c), pv.clients # {c}
  PROVE  SocketInv'
<1>1. /\ c \in Web /\ doing[c] = "idle" /\ S!Over(c) /\ pv' = [pv EXCEPT !.clients = pv.clients \ {c}]
      /\ S!Awaits(c, "idle") /\ S!Quietly(c)
      /\ confirmed' = confirmed \ {c} /\ joined' = joined \ {c} /\ dev' = dev
  BY DEF S!Leaves, S!Ready, S!Denies
<1>2. /\ PvBooks /\ DevBooks
      /\ job \in [Peers -> Watch] /\ doing \in [Peers -> Waits] /\ callbacks \subseteq Token
      /\ confirmed \subseteq Peers /\ joined \subseteq Peers
      /\ pv \in [clients : SUBSET Web, slot : {0} \cup Token]
      /\ dev \in [clients : SUBSET Dev, holder : Dev \cup {"nobody"}, slot : {0} \cup Token,
                  live : BOOLEAN, broken : BOOLEAN]
      /\ Web \subseteq Peers
  BY PeerKnown
<1>3. "idle" \in Waits
  BY DEF Waits
<1>4. PICK j \in Watch :
          /\ job' = [job EXCEPT ![c] = j] /\ doing' = [doing EXCEPT ![c] = "idle"]
          /\ job'[c] = j /\ doing'[c] = "idle"
          /\ \A b \in Peers \ {c} : job'[b] = job[b] /\ doing'[b] = doing[b]
          /\ j.op = "none" /\ j.cb = 0 /\ j.at = "over" /\ j.own = 0
          /\ UNCHANGED <<signal, alive, evicted, callbacks, gate, recent>>
  BY <1>1, <1>3, CallIsNone
<1>5. \A b \in Peers \ {c} :
          /\ job[b].op = "unsubscribe" => job[b].cb \notin {0, pv.slot, dev.slot}
          /\ doing[b] = "attempt" => b \in pv.clients /\ job[b].cb = pv.slot /\ b \in Web
          /\ doing[b] = "device" => b \in dev.clients /\ dev.holder = b /\ b \in Dev
  BY OthersStay
<1>6. /\ pv'.clients = pv.clients \ {c} /\ pv'.slot = pv.slot
      /\ pv' \in [clients : SUBSET Web, slot : {0} \cup Token]
  BY <1>1, <1>2
<1>7. PvBooks'
  <2>1. \A b \in Web : b \in confirmed' \/ doing'[b] = "values" => b \in pv'.clients \cup joined'
    BY <1>1, <1>2, <1>4, <1>6 DEF PvBooks
  <2>2. pv'.clients = {} <=> pv.clients = {}
    BY <1>6
  <2>3. \A b \in Peers : doing'[b] = "attempt" <=> doing[b] = "attempt"
    BY <1>1, <1>4
  <2>4. \A b \in Peers : doing'[b] = "attempt" => pv'.clients \ {b} \subseteq joined'
    BY <1>1, <1>2, <1>6, <2>3 DEF PvBooks
  <2>5. QED
    BY <1>1, <1>2, <1>4, <1>6, <2>1, <2>2, <2>3, <2>4 DEF PvBooks
<1>8. DevBooks'
  BY <1>1, <1>3, <1>4, DeviceBooksStay
<1>9. JobFits(c)'
  BY <1>2, <1>4, FreshJobFits
<1>10. PlaceFits(c)'
  BY <1>4 DEF PlaceFits
<1>11. job[c].cb \notin callbacks
  BY <1>1, CallbackIsGone
<1>12. \A x \in {pv.slot, dev.slot, job[c].cb} : x \in callbacks => x \in {pv'.slot, dev'.slot, j.cb}
  BY <1>1, <1>6, <1>11
<1>13. \A b \in Peers \ {c} :
          /\ job[b].op = "unsubscribe" => job[b].cb \notin {0, pv'.slot, dev'.slot}
          /\ doing[b] = "attempt" => pv'.slot = pv.slot /\ b \in pv'.clients
          /\ doing[b] = "device" =>
                 dev'.holder = dev.holder /\ dev'.slot = dev.slot /\ dev'.live = dev.live /\ b \in dev'.clients
  BY <1>1, <1>5, <1>6
<1>14. confirmed' \subseteq Peers /\ joined' \subseteq Peers
       /\ dev' \in [clients : SUBSET Dev, holder : Dev \cup {"nobody"}, slot : {0} \cup Token,
                    live : BOOLEAN, broken : BOOLEAN]
  BY <1>1, <1>2
<1>15. QED
  BY <1>1, <1>3, <1>4, <1>6, <1>7, <1>8, <1>9, <1>10, <1>12, <1>13, <1>14, PeerMoves

(* A handler of the device socket leaves the books of the PVs alone.        *)
LEMMA PvBooksStay ==
  ASSUME PeerNames, SocketInv, NEW c \in Dev, NEW what \in Waits, pv' = pv, joined' = joined,
         callbacks' = callbacks, doing' = [doing EXCEPT ![c] = what], what # "attempt",
         confirmed' = confirmed \/ confirmed' = confirmed \ {c},
         pv.slot # 0 => pv.slot # dev'.slot
  PROVE  PvBooks'
<1>1. PvBooks /\ doing \in [Peers -> Waits] /\ Web \subseteq Peers /\ c \in Peers /\ c \notin Web
  BY PeerKnown DEF PeerNames
<1>2. doing'[c] = what /\ \A b \in Peers \ {c} : doing'[b] = doing[b]
  BY <1>1
<1>3. doing[c] # "attempt"
  BY <1>1, SocketKnown DEF PlaceFits
<1>4. \A b \in Peers : doing'[b] = "attempt" <=> doing[b] = "attempt"
  BY <1>2, <1>3
<1>5. \A b \in Web : b \in confirmed' \/ doing'[b] = "values" => b \in confirmed \/ doing[b] = "values"
  BY <1>1, <1>2
<1>6. QED
  BY <1>1, <1>4, <1>5 DEF PvBooks

(* So it keeps the invariant if the books of the device are right.          *)
LEMMA DeviceMoves ==
  ASSUME PeerNames, SocketInv, NEW c \in Dev, NEW j \in Watch, NEW what \in Waits,
         S!Over(c), j.own = 0, job' = [job EXCEPT ![c] = j], doing' = [doing EXCEPT ![c] = what],
         what # "attempt",
         UNCHANGED <<signal, alive, evicted, callbacks, gate, recent>>,
         pv' = pv, joined' = joined, confirmed' = confirmed \/ confirmed' = confirmed \ {c},
         dev' \in [clients : SUBSET Dev, holder : Dev \cup {"nobody"}, slot : {0} \cup Token,
                   live : BOOLEAN, broken : BOOLEAN],
         pv.slot # 0 => pv.slot # dev'.slot,
         DevBooks', JobFits(c)', PlaceFits(c)',
         \A k \in {dev.slot, job[c].cb} : k \in callbacks => k \in {pv.slot, dev'.slot, j.cb},
         \A b \in Peers \ {c} :
             /\ job[b].op = "unsubscribe" => job[b].cb # dev'.slot
             /\ doing[b] # "device"
  PROVE  SocketInv'
<1>1. /\ confirmed \subseteq Peers /\ joined \subseteq Peers /\ c \in Peers
      /\ pv \in [clients : SUBSET Web, slot : {0} \cup Token]
  BY PeerKnown
<1>2. PvBooks'
  BY PvBooksStay
<1>3. \A b \in Peers \ {c} :
          /\ job[b].op = "unsubscribe" => job[b].cb \notin {0, pv.slot, dev.slot}
          /\ doing[b] = "attempt" => b \in pv.clients /\ job[b].cb = pv.slot /\ b \in Web
          /\ doing[b] = "device" => b \in dev.clients /\ dev.holder = b /\ b \in Dev
  BY <1>1, OthersStay
<1>4. \A b \in Peers \ {c} :
          /\ job[b].op = "unsubscribe" => job[b].cb \notin {0, pv'.slot, dev'.slot}
          /\ doing[b] = "attempt" => pv'.slot = pv.slot /\ b \in pv'.clients
          /\ doing[b] = "device" =>
                 dev'.holder = dev.holder /\ dev'.slot = dev.slot /\ dev'.live = dev.live /\ b \in dev'.clients
  BY <1>3
<1>5. \A k \in {pv.slot, dev.slot, job[c].cb} : k \in callbacks => k \in {pv'.slot, dev'.slot, j.cb}
  OBVIOUS
<1>6. confirmed' \subseteq Peers /\ joined' \subseteq Peers /\ pv' \in [clients : SUBSET Web, slot : {0} \cup Token]
  BY <1>1
<1>7. QED
  BY <1>1, <1>2, <1>4, <1>5, <1>6, PeerMoves

(* A client subscribes what the device has not got, or what broke.          *)
LEMMA EntersFirstKeeps ==
  ASSUME PeerNames, SocketInv, NEW c \in Peers, S!EntersDevice(c), dev.clients = {} \/ dev.broken
  PROVE  SocketInv'
<1> DEFINE k == S!NewCallback
<1>1. /\ doing[c] = "device lock" /\ S!Over(c) /\ dev.holder = "nobody"
      /\ dev' = [dev EXCEPT !.clients = dev.clients \cup {c}, !.holder = c, !.slot = k]
      /\ S!Calls(c, "subscribe", k) /\ S!Awaits(c, "device")
      /\ confirmed' = confirmed /\ pv' = pv /\ joined' = joined
  BY DEF S!EntersDevice, S!Ready, S!Nobody
<1>2. k \in Token /\ k \notin callbacks /\ k # pv.slot /\ k # dev.slot /\ \A b \in Peers : k # job[b].cb
  BY CallbackIsNew
<1> HIDE DEF k
<1>3. /\ PvBooks /\ DevBooks
      /\ job \in [Peers -> Watch] /\ doing \in [Peers -> Waits] /\ callbacks \subseteq Token
      /\ dev \in [clients : SUBSET Dev, holder : Dev \cup {"nobody"}, slot : {0} \cup Token,
                  live : BOOLEAN, broken : BOOLEAN]
      /\ Dev \subseteq Peers
  BY PeerKnown
<1>4. c \in Dev /\ c # "nobody"
  <2>1. PlaceFits(c)
    BY SocketKnown
  <2>2. QED
    BY <1>1, <2>1 DEF PlaceFits, PeerNames
<1>5. "device" \in Waits /\ k \in {0} \cup Token /\ "subscribe" \in {"subscribe", "unsubscribe", "get"} /\ k # 0
  BY <1>2 DEF Waits, PeerNames
<1>6. PICK j \in Watch :
          /\ job' = [job EXCEPT ![c] = j] /\ doing' = [doing EXCEPT ![c] = "device"]
          /\ job'[c] = j /\ doing'[c] = "device"
          /\ \A b \in Peers \ {c} : job'[b] = job[b] /\ doing'[b] = doing[b]
          /\ j.op = "subscribe" /\ j.cb = k /\ j.at = "start" /\ j.own = 0
          /\ UNCHANGED <<signal, alive, evicted, callbacks, gate, recent>>
  <2>1. S!Awaits(c, "device") /\ S!Calls(c, "subscribe", k)
    BY <1>1
  <2>2. QED
    BY <1>5, <2>1, CallStarts
<1>7. ~ dev.live /\ dev.slot = 0
  BY <1>1, <1>3 DEF DevBooks
<1>8. /\ dev'.clients = dev.clients \cup {c} /\ dev'.holder = c /\ dev'.slot = k /\ dev'.live = dev.live
      /\ dev' \in [clients : SUBSET Dev, holder : Dev \cup {"nobody"}, slot : {0} \cup Token,
                   live : BOOLEAN, broken : BOOLEAN]
  BY <1>1, <1>3, <1>4, <1>5
<1>9. DevBooks'
  <2>1. \A b \in Dev : ~ (b \in confirmed' \/ doing'[b] = "values")
    BY <1>1, <1>3, <1>6, <1>7 DEF DevBooks
  <2>2. QED
    BY <1>4, <1>6, <1>7, <1>8, <2>1 DEF DevBooks
<1>10. JobFits(c)'
  BY <1>2, <1>3, <1>6, FreshJobFits
<1>11. PlaceFits(c)'
  BY <1>4, <1>5, <1>6, <1>7, <1>8 DEF PlaceFits
<1>12. job[c].cb \notin callbacks /\ 0 \notin callbacks
  BY <1>1, <1>3, CallbackIsGone DEF PeerNames
<1>13. \A x \in {dev.slot, job[c].cb} : x \in callbacks => x \in {pv.slot, dev'.slot, j.cb}
  BY <1>7, <1>12
<1>14. \A b \in Peers \ {c} :
          /\ job[b].op = "unsubscribe" => job[b].cb # dev'.slot
          /\ doing[b] # "device"
  <2>1. \A b \in Peers \ {c} : doing[b] = "device" => dev.holder = b /\ b \in Dev
    BY OthersStay
  <2>2. "nobody" \notin Dev
    BY DEF PeerNames
  <2>3. \A b \in Peers \ {c} : doing[b] # "device"
    BY <1>1, <2>1, <2>2
  <2>4. QED
    BY <1>2, <1>8, <2>3
<1>15. pv.slot # 0 => pv.slot # dev'.slot
  BY <1>2, <1>8
<1>16. QED
  BY <1>1, <1>4, <1>5, <1>6, <1>8, <1>9, <1>10, <1>11, <1>13, <1>14, <1>15, DeviceMoves

(* A later client shares what the device has.                              *)
LEMMA EntersLaterKeeps ==
  ASSUME PeerNames, SocketInv, NEW c \in Peers, S!EntersDevice(c), dev.clients # {}, ~ dev.broken
  PROVE  SocketInv'
<1>1. /\ doing[c] = "device lock" /\ S!Over(c) /\ dev.holder = "nobody"
      /\ dev' = [dev EXCEPT !.clients = dev.clients \cup {c}, !.holder = c]
      /\ S!Quietly(c) /\ S!Awaits(c, "device")
      /\ confirmed' = confirmed /\ pv' = pv /\ joined' = joined
  BY DEF S!EntersDevice, S!Ready, S!Nobody
<1>2. /\ PvBooks /\ DevBooks
      /\ job \in [Peers -> Watch] /\ doing \in [Peers -> Waits] /\ callbacks \subseteq Token
      /\ dev \in [clients : SUBSET Dev, holder : Dev \cup {"nobody"}, slot : {0} \cup Token,
                  live : BOOLEAN, broken : BOOLEAN]
      /\ Dev \subseteq Peers
  BY PeerKnown
<1>3. c \in Dev /\ c # "nobody"
  <2>1. PlaceFits(c)
    BY SocketKnown
  <2>2. QED
    BY <1>1, <2>1 DEF PlaceFits, PeerNames
<1>4. "device" \in Waits
  BY DEF Waits
<1>5. PICK j \in Watch :
          /\ job' = [job EXCEPT ![c] = j] /\ doing' = [doing EXCEPT ![c] = "device"]
          /\ job'[c] = j /\ doing'[c] = "device"
          /\ \A b \in Peers \ {c} : job'[b] = job[b] /\ doing'[b] = doing[b]
          /\ j.op = "none" /\ j.cb = 0 /\ j.at = "over" /\ j.own = 0
          /\ UNCHANGED <<signal, alive, evicted, callbacks, gate, recent>>
  BY <1>1, <1>4, CallIsNone
<1>6. dev.live
  BY <1>1, <1>2 DEF DevBooks
<1>7. /\ dev'.clients = dev.clients \cup {c} /\ dev'.holder = c /\ dev'.slot = dev.slot /\ dev'.live
      /\ dev'.broken = dev.broken
      /\ dev' \in [clients : SUBSET Dev, holder : Dev \cup {"nobody"}, slot : {0} \cup Token,
                   live : BOOLEAN, broken : BOOLEAN]
  BY <1>1, <1>2, <1>3, <1>6
<1>8. DevBooks'
  <2>1. \A b \in Dev : b \in confirmed' \/ doing'[b] = "values" => b \in dev.clients
    BY <1>1, <1>2, <1>5 DEF DevBooks
  <2>2. dev.slot \in callbacks
    BY <1>2, <1>6 DEF DevBooks
  <2>3. QED
    BY <1>3, <1>5, <1>7, <2>1, <2>2 DEF DevBooks
<1>9. JobFits(c)'
  BY <1>2, <1>5, FreshJobFits
<1>10. PlaceFits(c)'
  BY <1>3, <1>5, <1>7 DEF PlaceFits
<1>11. job[c].cb \notin callbacks
  BY <1>1, CallbackIsGone
<1>12. \A x \in {dev.slot, job[c].cb} : x \in callbacks => x \in {pv.slot, dev'.slot, j.cb}
  BY <1>7, <1>11
<1>13. \A b \in Peers \ {c} :
          /\ job[b].op = "unsubscribe" => job[b].cb # dev'.slot
          /\ doing[b] # "device"
  <2>1. \A b \in Peers \ {c} :
            /\ job[b].op = "unsubscribe" => job[b].cb # dev.slot
            /\ doing[b] = "device" => dev.holder = b /\ b \in Dev
    BY OthersStay
  <2>2. "nobody" \notin Dev
    BY DEF PeerNames
  <2>3. \A b \in Peers \ {c} : doing[b] # "device"
    BY <1>1, <2>1, <2>2
  <2>4. QED
    BY <1>7, <2>1, <2>3
<1>14. pv.slot # 0 => pv.slot # dev'.slot
  BY <1>2, <1>7 DEF PvBooks
<1>15. QED
  BY <1>1, <1>3, <1>4, <1>5, <1>7, <1>8, <1>9, <1>10, <1>12, <1>13, <1>14, DeviceMoves

(* What the client that has the lock of the device came to.                 *)
LEMMA DeviceIs ==
  ASSUME PeerNames, SocketInv, NEW c \in Peers, S!Over(c), doing[c] = "device"
  PROVE  /\ c \in Dev /\ c \in dev.clients /\ dev.holder = c
         /\ \/ /\ job[c].op = "subscribe" /\ job[c].end = "failed" /\ ~ dev.live
               /\ job[c].cb = dev.slot /\ dev.slot \notin callbacks
            \/ /\ job[c].op = "subscribe" /\ job[c].end = "ok" /\ ~ dev.live
               /\ job[c].cb = dev.slot /\ dev.slot \in callbacks
            \/ job[c].op = "none" /\ job[c].cb = 0 /\ dev.live /\ dev.slot \in callbacks
         /\ \A b \in Peers \ {c} :
                /\ doing[b] # "device"
                /\ job[b].op = "unsubscribe" => job[b].cb \notin {0, pv.slot, dev.slot}
<1>1. PlaceFits(c) /\ JobFits(c) /\ job[c].at = "over" /\ DevBooks
  BY SocketKnown, PeerKnown DEF S!Over
<1>2. c \in Dev /\ c \in dev.clients /\ dev.holder = c
  BY <1>1 DEF PlaceFits
<1>3. \/ job[c].op = "subscribe" /\ job[c].cb # 0 /\ job[c].cb = dev.slot /\ ~ dev.live
      \/ job[c].op = "none" /\ dev.live
  BY <1>1 DEF PlaceFits
<1>4. \A b \in Peers \ {c} :
          /\ doing[b] # "device"
          /\ job[b].op = "unsubscribe" => job[b].cb \notin {0, pv.slot, dev.slot}
  BY <1>2, OthersStay
<1>5. CASE job[c].op = "subscribe" /\ job[c].cb # 0 /\ job[c].cb = dev.slot /\ ~ dev.live
  BY <1>1, <1>2, <1>4, <1>5 DEF JobFits
<1>6. CASE job[c].op = "none" /\ dev.live
  <2>1. job[c].cb = 0 /\ dev.slot \in callbacks
    BY <1>1, <1>6 DEF JobFits, DevBooks
  <2>2. QED
    BY <1>2, <1>4, <1>6, <2>1
<1>7. QED
  BY <1>3, <1>5, <1>6

(* An attempt on the device fails: the device is broken, or nobody's.       *)
LEMMA DeviceFailsKeeps ==
  ASSUME PeerNames, SocketInv, NEW c \in Peers, S!Over(c), doing[c] = "device",
         job[c].op = "subscribe", job[c].end = "failed",
         dev' \in [clients : SUBSET Dev, holder : Dev \cup {"nobody"}, slot : {0} \cup Token,
                   live : BOOLEAN, broken : BOOLEAN],
         dev'.slot = 0, ~ dev'.live, dev'.holder = "nobody", dev'.clients # {} <=> dev'.broken,
         confirmed' = confirmed \ {c}, S!Awaits(c, "idle"), S!Quietly(c), pv' = pv, joined' = joined
  PROVE  SocketInv'
<1>1. DevBooks /\ job \in [Peers -> Watch] /\ Dev \subseteq Peers
  BY PeerKnown
<1>2. "idle" \in Waits
  BY DEF Waits
<1>3. PICK j \in Watch :
          /\ job' = [job EXCEPT ![c] = j] /\ doing' = [doing EXCEPT ![c] = "idle"]
          /\ job'[c] = j /\ doing'[c] = "idle"
          /\ \A b \in Peers \ {c} : job'[b] = job[b] /\ doing'[b] = doing[b]
          /\ j.op = "none" /\ j.cb = 0 /\ j.at = "over" /\ j.own = 0
          /\ UNCHANGED <<signal, alive, evicted, callbacks, gate, recent>>
  BY <1>2, CallIsNone
<1>4. /\ c \in Dev /\ ~ dev.live /\ job[c].cb = dev.slot /\ dev.slot \notin callbacks
      /\ \A b \in Peers \ {c} :
             /\ doing[b] # "device"
             /\ job[b].op = "unsubscribe" => job[b].cb \notin {0, pv.slot, dev.slot}
  <2>1. job[c].op # "none" /\ job[c].end # "ok"
    OBVIOUS
  <2>2. QED
    BY <2>1, DeviceIs
<1>5. DevBooks'
  <2>1. \A b \in Dev : ~ (b \in confirmed' \/ doing'[b] = "values")
    BY <1>1, <1>3, <1>4 DEF DevBooks
  <2>2. QED
    BY <2>1 DEF DevBooks
<1>6. JobFits(c)'
  BY <1>1, <1>3, FreshJobFits
<1>7. PlaceFits(c)'
  BY <1>3 DEF PlaceFits
<1>8. \A x \in {dev.slot, job[c].cb} : x \in callbacks => x \in {pv.slot, dev'.slot, j.cb}
  BY <1>4
<1>9. \A b \in Peers \ {c} :
          /\ job[b].op = "unsubscribe" => job[b].cb # dev'.slot
          /\ doing[b] # "device"
  BY <1>4
<1>10. (pv.slot # 0 => pv.slot # dev'.slot) /\ "idle" # "attempt"
  OBVIOUS
<1>11. QED
  BY <1>2, <1>3, <1>4, <1>5, <1>6, <1>7, <1>8, <1>9, <1>10, DeviceMoves

(* A client has its share of a live device.                                *)
LEMMA DeviceSharesKeeps ==
  ASSUME PeerNames, SocketInv, NEW c \in Peers, S!Over(c), doing[c] = "device",
         ~ (job[c].op = "subscribe" /\ job[c].end = "failed"),
         dev' \in [clients : SUBSET Dev, holder : Dev \cup {"nobody"}, slot : {0} \cup Token,
                   live : BOOLEAN, broken : BOOLEAN],
         dev'.clients = dev.clients, dev'.slot = dev.slot, dev'.live, ~ dev'.broken, dev'.holder = "nobody",
         confirmed' = confirmed, S!AskValues(c), pv' = pv, joined' = joined
  PROVE  SocketInv'
<1>1. PvBooks /\ DevBooks /\ job \in [Peers -> Watch] /\ Dev \subseteq Peers
  BY PeerKnown
<1>2. "values" \in Waits /\ 0 \in {0} \cup Token
  BY DEF Waits
<1>3. PICK j \in Watch :
          /\ job' = [job EXCEPT ![c] = j] /\ doing' = [doing EXCEPT ![c] = "values"]
          /\ job'[c] = j /\ doing'[c] = "values"
          /\ \A b \in Peers \ {c} : job'[b] = job[b] /\ doing'[b] = doing[b]
          /\ j.op = "get" /\ j.cb = 0 /\ j.at = "start" /\ j.own = 0
          /\ UNCHANGED <<signal, alive, evicted, callbacks, gate, recent>>
  BY <1>2, CallStarts DEF S!AskValues
<1>4. /\ c \in Dev /\ c \in dev.clients /\ dev.slot \in callbacks
      /\ job[c].cb = dev.slot \/ job[c].cb = 0
      /\ \A b \in Peers \ {c} :
             /\ doing[b] # "device"
             /\ job[b].op = "unsubscribe" => job[b].cb \notin {0, pv.slot, dev.slot}
  BY DeviceIs
<1>5. DevBooks'
  <2>1. \A b \in Dev : b \in confirmed' \/ doing'[b] = "values" => b \in dev.clients
    BY <1>1, <1>3, <1>4 DEF DevBooks
  <2>2. QED
    BY <1>3, <1>4, <2>1 DEF DevBooks
<1>6. JobFits(c)'
  BY <1>1, <1>3, FreshJobFits
<1>7. PlaceFits(c)'
  BY <1>3, <1>4 DEF PlaceFits
<1>8. \A x \in {dev.slot, job[c].cb} : x \in callbacks => x \in {pv.slot, dev'.slot, j.cb}
  BY <1>3, <1>4
<1>9. \A b \in Peers \ {c} :
          /\ job[b].op = "unsubscribe" => job[b].cb # dev'.slot
          /\ doing[b] # "device"
  BY <1>4
<1>10. (pv.slot # 0 => pv.slot # dev'.slot) /\ "values" # "attempt"
  BY <1>1 DEF PvBooks
<1>11. QED
  BY <1>2, <1>3, <1>4, <1>5, <1>6, <1>7, <1>8, <1>9, <1>10, DeviceMoves

LEMMA DeviceReconciledKeeps ==
  ASSUME PeerNames, SocketInv, NEW c \in Peers, S!DeviceReconciled(c)
  PROVE  SocketInv'
<1>1. /\ S!Over(c) /\ doing[c] = "device" /\ pv' = pv /\ joined' = joined
      /\ IF dev'.live THEN S!AskValues(c) /\ confirmed' = confirmed
                      ELSE S!Awaits(c, "idle") /\ confirmed' = confirmed \ {c} /\ S!Quietly(c)
  BY DEF S!DeviceReconciled, S!Ready, S!Denies
<1>2. /\ DevBooks
      /\ dev \in [clients : SUBSET Dev, holder : Dev \cup {"nobody"}, slot : {0} \cup Token,
                  live : BOOLEAN, broken : BOOLEAN]
  BY PeerKnown
<1>3. /\ c \in dev.clients
      /\ \/ job[c].op = "subscribe" /\ job[c].end \in {"ok", "failed"} /\ ~ dev.live
         \/ job[c].op = "none" /\ dev.live
  BY <1>1, DeviceIs
<1>4. CASE job[c].op = "subscribe" /\ job[c].end = "failed"
  <2>1. dev' = [dev EXCEPT !.holder = "nobody", !.slot = 0, !.broken = TRUE] /\ ~ dev.live
    BY <1>3, <1>4 DEF S!DeviceReconciled, S!Attempted, S!Nobody
  <2>2. /\ dev' \in [clients : SUBSET Dev, holder : Dev \cup {"nobody"}, slot : {0} \cup Token,
                     live : BOOLEAN, broken : BOOLEAN]
        /\ dev'.slot = 0 /\ ~ dev'.live /\ dev'.holder = "nobody" /\ dev'.broken /\ c \in dev'.clients
    BY <1>2, <1>3, <2>1
  <2>3. S!Awaits(c, "idle") /\ confirmed' = confirmed \ {c} /\ S!Quietly(c) /\ (dev'.clients # {} <=> dev'.broken)
    BY <1>1, <2>2
  <2>4. QED
    BY <1>1, <1>4, <2>2, <2>3, DeviceFailsKeeps
<1>5. CASE ~ (job[c].op = "subscribe" /\ job[c].end = "failed")
  <2>1. \/ job[c].end = "ok" /\ dev' = [dev EXCEPT !.holder = "nobody", !.live = TRUE, !.broken = FALSE]
        \/ dev.live /\ dev' = [dev EXCEPT !.holder = "nobody"]
    BY <1>3, <1>5 DEF S!DeviceReconciled, S!Attempted, S!Nobody
  <2>2. dev.live => dev.live = TRUE /\ dev.broken = FALSE
    BY <1>2 DEF DevBooks
  <2>3. /\ dev' \in [clients : SUBSET Dev, holder : Dev \cup {"nobody"}, slot : {0} \cup Token,
                     live : BOOLEAN, broken : BOOLEAN]
        /\ dev'.clients = dev.clients /\ dev'.slot = dev.slot /\ dev'.live /\ ~ dev'.broken /\ dev'.holder = "nobody"
    <3>1. CASE dev' = [dev EXCEPT !.holder = "nobody", !.live = TRUE, !.broken = FALSE]
      BY <1>2, <3>1
    <3>2. CASE dev.live /\ dev' = [dev EXCEPT !.holder = "nobody"]
      BY <1>2, <2>2, <3>2
    <3>3. QED
      BY <2>1, <3>1, <3>2
  <2>4. S!AskValues(c) /\ confirmed' = confirmed
    BY <1>1, <2>3
  <2>5. QED
    BY <1>1, <1>5, <2>3, <2>4, DeviceSharesKeeps
<1>6. QED
  BY <1>4, <1>5

LEMMA DeviceRefusedKeeps ==
  ASSUME PeerNames, SocketInv, NEW c \in Peers, S!DeviceRefused(c)
  PROVE  SocketInv'
<1>1. /\ S!Over(c) /\ doing[c] = "device" /\ pv' = pv /\ joined' = joined
      /\ job[c].op = "subscribe" /\ job[c].end = "failed"
      /\ dev' = IF dev.clients = {c} THEN S!Emptied
                ELSE [dev EXCEPT !.clients = dev.clients \ {c}, !.holder = "nobody", !.slot = 0, !.broken = TRUE]
      /\ S!Awaits(c, "idle") /\ confirmed' = confirmed \ {c} /\ S!Quietly(c)
  BY DEF S!DeviceRefused, S!Ready, S!Denies, S!Attempted, S!Nobody
<1>2. dev \in [clients : SUBSET Dev, holder : Dev \cup {"nobody"}, slot : {0} \cup Token,
               live : BOOLEAN, broken : BOOLEAN]
  BY PeerKnown
<1>3. c \in dev.clients /\ ~ dev.live
  <2>1. job[c].op # "none" /\ job[c].end # "ok"
    BY <1>1
  <2>2. QED
    BY <1>1, <2>1, DeviceIs
<1>4. /\ dev' \in [clients : SUBSET Dev, holder : Dev \cup {"nobody"}, slot : {0} \cup Token,
                   live : BOOLEAN, broken : BOOLEAN]
      /\ dev'.slot = 0 /\ ~ dev'.live /\ dev'.holder = "nobody" /\ (dev'.clients # {} <=> dev'.broken)
  <2>1. CASE dev.clients = {c}
    <3>1. dev' = [clients |-> {}, holder |-> "nobody", slot |-> 0, live |-> FALSE, broken |-> FALSE]
      BY <1>1, <2>1 DEF S!Emptied, S!Nobody
    <3>2. QED
      BY <3>1
  <2>2. CASE dev.clients # {c}
    <3>1. dev' = [dev EXCEPT !.clients = dev.clients \ {c}, !.holder = "nobody", !.slot = 0, !.broken = TRUE]
      BY <1>1, <2>2
    <3>2. dev.clients \ {c} # {}
      BY <1>3, <2>2
    <3>3. QED
      BY <1>2, <1>3, <3>1, <3>2
  <2>3. QED
    BY <2>1, <2>2
<1>5. QED
  BY <1>1, <1>4, DeviceFailsKeeps

(* The last client to leave takes the device with it.                       *)
LEMMA LeavesDeviceIs ==
  ASSUME PeerNames, SocketInv, NEW c \in Peers, S!LeavesDevice(c)
  PROVE  /\ c \in Dev /\ c \in dev.clients /\ doing[c] = "idle" /\ S!Over(c)
         /\ pv' = pv /\ joined' = joined /\ confirmed' = confirmed \ {c}
         /\ \/ /\ dev.clients = {c} /\ dev.holder = "nobody"
               /\ dev' = [clients |-> {}, holder |-> "nobody", slot |-> 0, live |-> FALSE, broken |-> FALSE]
               /\ \/ dev.live /\ S!Awaits(c, "leave") /\ S!Calls(c, "unsubscribe", dev.slot)
                  \/ ~ dev.live /\ S!Awaits(c, "idle") /\ S!Quietly(c)
            \/ /\ dev.clients # {c} /\ dev' = [dev EXCEPT !.clients = dev.clients \ {c}]
               /\ S!Awaits(c, "idle") /\ S!Quietly(c)
<1>1. /\ c \in dev.clients /\ doing[c] = "idle" /\ S!Over(c)
      /\ pv' = pv /\ joined' = joined /\ confirmed' = confirmed \ {c}
      /\ dev' = IF dev.clients = {c} THEN [S!Emptied EXCEPT !.holder = dev.holder]
                ELSE [dev EXCEPT !.clients = dev.clients \ {c}]
      /\ IF dev.clients = {c} /\ dev.live
         THEN S!Awaits(c, "leave") /\ S!Calls(c, "unsubscribe", dev.slot)
         ELSE S!Awaits(c, "idle") /\ S!Quietly(c)
  BY DEF S!LeavesDevice, S!Ready, S!Denies
<1>2. /\ DevBooks /\ Dev \subseteq Peers
      /\ dev \in [clients : SUBSET Dev, holder : Dev \cup {"nobody"}, slot : {0} \cup Token,
                  live : BOOLEAN, broken : BOOLEAN]
  BY PeerKnown
<1>3. c \in Dev
  BY <1>1, <1>2
<1>4. CASE dev.clients = {c}
  <2>1. dev.holder = "nobody"
    <3>1. SUFFICES ASSUME dev.holder # "nobody" PROVE FALSE
      OBVIOUS
    <3>2. doing[dev.holder] = "device" /\ dev.holder \in Peers
      BY <1>2, <3>1 DEF DevBooks
    <3>3. dev.holder \in dev.clients
      BY <3>2, SocketKnown DEF PlaceFits
    <3>4. QED
      BY <1>1, <1>4, <3>2, <3>3
  <2>2. dev' = [clients |-> {}, holder |-> "nobody", slot |-> 0, live |-> FALSE, broken |-> FALSE]
    BY <1>1, <1>4, <2>1 DEF S!Emptied, S!Nobody
  <2>3. QED
    BY <1>1, <1>3, <1>4, <2>1, <2>2
<1>5. CASE dev.clients # {c}
  BY <1>1, <1>3, <1>5
<1>6. QED
  BY <1>4, <1>5

LEMMA LastLeavesDeviceKeeps ==
  ASSUME PeerNames, SocketInv, NEW c \in Peers, c \in Dev, doing[c] = "idle", S!Over(c),
         pv' = pv, joined' = joined, confirmed' = confirmed \ {c}, dev.clients = {c}, dev.live,
         dev' = [clients |-> {}, holder |-> "nobody", slot |-> 0, live |-> FALSE, broken |-> FALSE],
         S!Awaits(c, "leave"), S!Calls(c, "unsubscribe", dev.slot)
  PROVE  SocketInv'
<1>1. PICK k : k = dev.slot
  OBVIOUS
<1>2. /\ PvBooks /\ DevBooks /\ job \in [Peers -> Watch] /\ callbacks \subseteq Token /\ Dev \subseteq Peers
  BY PeerKnown
<1>3. "leave" \in Waits /\ k \in Token /\ k # 0 /\ k \in {0} \cup Token /\ (pv.slot # 0 => pv.slot # k)
  BY <1>1, <1>2 DEF Waits, PeerNames, DevBooks, PvBooks
<1>4. PICK j \in Watch :
          /\ job' = [job EXCEPT ![c] = j] /\ doing' = [doing EXCEPT ![c] = "leave"]
          /\ job'[c] = j /\ doing'[c] = "leave"
          /\ \A b \in Peers \ {c} : job'[b] = job[b] /\ doing'[b] = doing[b]
          /\ j.op = "unsubscribe" /\ j.cb = k /\ j.at = "start" /\ j.own = 0
          /\ UNCHANGED <<signal, alive, evicted, callbacks, gate, recent>>
  <2>1. S!Calls(c, "unsubscribe", k)
    BY <1>1
  <2>2. QED
    BY <1>3, <2>1, CallStarts
<1>5. /\ dev'.clients = {} /\ dev'.holder = "nobody" /\ dev'.slot = 0 /\ ~ dev'.live /\ ~ dev'.broken
      /\ dev' \in [clients : SUBSET Dev, holder : Dev \cup {"nobody"}, slot : {0} \cup Token,
                   live : BOOLEAN, broken : BOOLEAN]
  OBVIOUS
<1>6. \A b \in Peers \ {c} :
          /\ job[b].op = "unsubscribe" => job[b].cb # 0
          /\ doing[b] # "device"
  <2>1. \A b \in Peers \ {c} :
            /\ job[b].op = "unsubscribe" => job[b].cb \notin {0, pv.slot, dev.slot}
            /\ doing[b] = "device" => b \in dev.clients
    BY OthersStay
  <2>2. QED
    BY <2>1
<1>7. DevBooks'
  <2>1. \A b \in Dev : ~ (b \in confirmed' \/ doing'[b] = "values")
    BY <1>2, <1>4 DEF DevBooks
  <2>2. QED
    BY <1>5, <2>1 DEF DevBooks
<1>8. JobFits(c)'
  <2>1. j.cb \notin {0, pv'.slot, dev'.slot}
    BY <1>3, <1>4, <1>5
  <2>2. QED
    BY <1>2, <1>4, <2>1, FreshJobFits
<1>9. PlaceFits(c)'
  BY <1>4 DEF PlaceFits
<1>10. job[c].cb \notin callbacks
  BY CallbackIsGone
<1>11. \A x \in {dev.slot, job[c].cb} : x \in callbacks => x \in {pv.slot, dev'.slot, j.cb}
  BY <1>1, <1>4, <1>10
<1>12. \A b \in Peers \ {c} :
          /\ job[b].op = "unsubscribe" => job[b].cb # dev'.slot
          /\ doing[b] # "device"
  BY <1>5, <1>6
<1>13. (pv.slot # 0 => pv.slot # dev'.slot) /\ "leave" # "attempt"
  BY <1>5
<1>14. QED
  BY <1>3, <1>4, <1>5, <1>7, <1>8, <1>9, <1>11, <1>12, <1>13, DeviceMoves

LEMMA OtherLeavesDeviceKeeps ==
  ASSUME PeerNames, SocketInv, NEW c \in Peers, c \in Dev, c \in dev.clients, doing[c] = "idle", S!Over(c),
         pv' = pv, joined' = joined, confirmed' = confirmed \ {c}, S!Awaits(c, "idle"), S!Quietly(c),
         \/ /\ dev.clients = {c} /\ ~ dev.live /\ dev.holder = "nobody"
            /\ dev' = [clients |-> {}, holder |-> "nobody", slot |-> 0, live |-> FALSE, broken |-> FALSE]
         \/ dev.clients # {c} /\ dev' = [dev EXCEPT !.clients = dev.clients \ {c}]
  PROVE  SocketInv'
<1>1. /\ PvBooks /\ DevBooks /\ job \in [Peers -> Watch] /\ callbacks \subseteq Token /\ Dev \subseteq Peers
      /\ dev \in [clients : SUBSET Dev, holder : Dev \cup {"nobody"}, slot : {0} \cup Token,
                  live : BOOLEAN, broken : BOOLEAN]
  BY PeerKnown
<1>2. "idle" \in Waits
  BY DEF Waits
<1>3. PICK j \in Watch :
          /\ job' = [job EXCEPT ![c] = j] /\ doing' = [doing EXCEPT ![c] = "idle"]
          /\ job'[c] = j /\ doing'[c] = "idle"
          /\ \A b \in Peers \ {c} : job'[b] = job[b] /\ doing'[b] = doing[b]
          /\ j.op = "none" /\ j.cb = 0 /\ j.at = "over" /\ j.own = 0
          /\ UNCHANGED <<signal, alive, evicted, callbacks, gate, recent>>
  BY <1>2, CallIsNone
<1>4. \A b \in Peers \ {c} :
          /\ job[b].op = "unsubscribe" => job[b].cb \notin {0, pv.slot, dev.slot}
          /\ doing[b] = "attempt" => b \in pv.clients /\ job[b].cb = pv.slot /\ b \in Web
          /\ doing[b] = "device" => b \in dev.clients /\ dev.holder = b /\ b \in Dev
  BY OthersStay
<1>5. /\ dev' \in [clients : SUBSET Dev, holder : Dev \cup {"nobody"}, slot : {0} \cup Token,
                   live : BOOLEAN, broken : BOOLEAN]
      /\ dev'.clients = dev.clients \ {c} /\ dev'.holder = dev.holder /\ dev'.slot = dev.slot
      /\ dev'.live = dev.live /\ (dev'.clients # {} => dev'.broken = dev.broken)
      /\ dev'.clients = {} => ~ dev'.live /\ ~ dev'.broken /\ dev'.slot = 0 /\ dev'.holder = "nobody"
      /\ dev'.live => dev'.clients # {}
  <2>1. CASE /\ dev.clients = {c} /\ ~ dev.live /\ dev.holder = "nobody"
             /\ dev' = [clients |-> {}, holder |-> "nobody", slot |-> 0, live |-> FALSE, broken |-> FALSE]
    <3>1. dev.slot = 0 /\ dev.live = FALSE
      BY <1>1, <2>1 DEF DevBooks
    <3>2. QED
      BY <2>1, <3>1
  <2>2. CASE dev.clients # {c} /\ dev' = [dev EXCEPT !.clients = dev.clients \ {c}]
    <3>1. dev.clients \ {c} # {}
      BY <2>2
    <3>2. QED
      BY <1>1, <2>2, <3>1
  <2>3. QED
    BY <2>1, <2>2
<1>6. DevBooks'
  <2>1. dev'.holder # "nobody" => doing'[dev'.holder] = "device"
    <3>1. SUFFICES ASSUME dev.holder # "nobody" PROVE doing'[dev.holder] = "device"
      BY <1>5
    <3>2. doing[dev.holder] = "device" /\ dev.holder \in Peers
      BY <1>1, <3>1 DEF DevBooks
    <3>3. QED
      BY <1>3, <3>2
  <2>2. \A b \in Dev : b \in confirmed' \/ doing'[b] = "values" => b \in dev'.clients /\ dev'.live
    BY <1>1, <1>3, <1>5 DEF DevBooks
  <2>3. dev'.live => dev.live /\ ~ dev.broken /\ ~ dev'.broken /\ dev'.slot \in callbacks'
    BY <1>1, <1>3, <1>5 DEF DevBooks
  <2>4. dev'.holder = "nobody" /\ dev'.clients # {} => dev'.live \/ dev'.broken
    BY <1>1, <1>5 DEF DevBooks
  <2>5. ~ dev'.live /\ dev'.holder = "nobody" => dev'.slot = 0
    BY <1>1, <1>5 DEF DevBooks
  <2>6. QED
    BY <1>5, <2>1, <2>2, <2>3, <2>4, <2>5 DEF DevBooks
<1>7. /\ confirmed' \subseteq Peers /\ joined' \subseteq Peers
      /\ pv' \in [clients : SUBSET Web, slot : {0} \cup Token]
  BY PeerKnown
<1>8. PvBooks'
  <2>1. pv.slot # 0 => pv.slot # dev'.slot
    BY <1>1, <1>5 DEF PvBooks
  <2>2. QED
    BY <1>2, <1>3, <2>1, PvBooksStay
<1>9. JobFits(c)'
  BY <1>1, <1>3, FreshJobFits
<1>10. PlaceFits(c)'
  BY <1>3 DEF PlaceFits
<1>11. job[c].cb \notin callbacks
  BY CallbackIsGone
<1>12. \A x \in {pv.slot, dev.slot, job[c].cb} : x \in callbacks => x \in {pv'.slot, dev'.slot, j.cb}
  BY <1>5, <1>11
<1>13. \A b \in Peers \ {c} :
          /\ job[b].op = "unsubscribe" => job[b].cb \notin {0, pv'.slot, dev'.slot}
          /\ doing[b] = "attempt" => pv'.slot = pv.slot /\ b \in pv'.clients
          /\ doing[b] = "device" =>
                 dev'.holder = dev.holder /\ dev'.slot = dev.slot /\ dev'.live = dev.live /\ b \in dev'.clients
  BY <1>4, <1>5
<1>14. QED
  BY <1>2, <1>3, <1>5, <1>6, <1>7, <1>8, <1>9, <1>10, <1>12, <1>13, PeerMoves

(* The handlers, one by one.                                               *)
LEMMA ClientAsksKeeps ==
  ASSUME PeerNames, SocketInv, NEW c \in Peers, S!Asks(c)
  PROVE  SocketInv'
<1>1. CASE S!Subscribes(c)
  <2>1. c \in Web /\ S!Over(c) /\ doing[c] = "idle" /\ S!Books(c) /\ confirmed' = confirmed /\ dev' = dev
    BY <1>1 DEF S!Subscribes, S!Ready
  <2>2. QED
    BY <2>1, BooksFirstKeeps, BooksJoinKeeps
<1>2. CASE S!SubscribesSafely(c)
  <2>1. /\ c \in Web /\ S!Over(c) /\ doing[c] = "idle" /\ confirmed' = confirmed /\ UNCHANGED <<pv, dev, joined>>
        /\ \/ S!Awaits(c, "warm") /\ S!Calls(c, "subscribe", 0)
           \/ S!Awaits(c, "probe") /\ S!Calls(c, "get", 0)
    BY <1>2 DEF S!SubscribesSafely, S!Ready
  <2>2. doing[c] \notin {"attempt", "device"}
    BY <2>1
  <2>3. QED
    BY <2>1, <2>2, IdleKeeps
<1>3. CASE S!Leaves(c)
  BY <1>3, LastLeavesKeeps, OtherLeavesKeeps
<1>4. CASE S!AsksDevice(c)
  <2>1. /\ c \in Dev /\ S!Over(c) /\ doing[c] = "idle" /\ confirmed' = confirmed /\ UNCHANGED <<pv, dev, joined>>
        /\ S!Awaits(c, "device lock") /\ S!Quietly(c)
    BY <1>4 DEF S!AsksDevice, S!Ready
  <2>2. doing[c] \notin {"attempt", "device"}
    BY <2>1
  <2>3. QED
    BY <2>1, <2>2, IdleKeeps
<1>5. CASE S!LeavesDevice(c)
  <2>1. /\ c \in Dev /\ c \in dev.clients /\ doing[c] = "idle" /\ S!Over(c)
        /\ pv' = pv /\ joined' = joined /\ confirmed' = confirmed \ {c}
        /\ \/ /\ dev.clients = {c} /\ dev.holder = "nobody"
              /\ dev' = [clients |-> {}, holder |-> "nobody", slot |-> 0, live |-> FALSE, broken |-> FALSE]
              /\ \/ dev.live /\ S!Awaits(c, "leave") /\ S!Calls(c, "unsubscribe", dev.slot)
                 \/ ~ dev.live /\ S!Awaits(c, "idle") /\ S!Quietly(c)
           \/ /\ dev.clients # {c} /\ dev' = [dev EXCEPT !.clients = dev.clients \ {c}]
              /\ S!Awaits(c, "idle") /\ S!Quietly(c)
    BY <1>5, LeavesDeviceIs
  <2>2. CASE dev.live /\ dev.clients = {c}
    <3>1. /\ dev' = [clients |-> {}, holder |-> "nobody", slot |-> 0, live |-> FALSE, broken |-> FALSE]
          /\ S!Awaits(c, "leave") /\ S!Calls(c, "unsubscribe", dev.slot)
      BY <2>1, <2>2
    <3>2. QED
      BY <2>1, <2>2, <3>1, LastLeavesDeviceKeeps
  <2>3. CASE ~ (dev.live /\ dev.clients = {c})
    <3>1. /\ S!Awaits(c, "idle") /\ S!Quietly(c)
          /\ \/ /\ dev.clients = {c} /\ ~ dev.live /\ dev.holder = "nobody"
                /\ dev' = [clients |-> {}, holder |-> "nobody", slot |-> 0, live |-> FALSE, broken |-> FALSE]
             \/ dev.clients # {c} /\ dev' = [dev EXCEPT !.clients = dev.clients \ {c}]
      BY <2>1, <2>3
    <3>2. QED
      BY <2>1, <3>1, OtherLeavesDeviceKeeps
  <2>4. QED
    BY <2>2, <2>3
<1>6. CASE S!Reads(c)
  <2>1. /\ S!Over(c) /\ doing[c] = "idle" /\ confirmed' = confirmed /\ UNCHANGED <<pv, dev, joined>>
        /\ S!Awaits(c, "warm read") /\ S!Calls(c, "subscribe", 0)
    BY <1>6 DEF S!Reads, S!Ready
  <2>2. doing[c] \notin {"attempt", "device"}
    BY <2>1
  <2>3. QED
    BY <2>1, <2>2, IdleKeeps
<1>7. QED
  BY <1>1, <1>2, <1>3, <1>4, <1>5, <1>6 DEF S!Asks

LEMMA ClientHandlesKeeps ==
  ASSUME PeerNames, SocketInv, NEW c \in Peers, S!Handles(c)
  PROVE  SocketInv'
<1>1. PlaceFits(c) /\ doing[c] \in Waits
  BY SocketKnown
<1>2. CASE S!Warmed(c)
  <2>1. /\ S!Over(c) /\ doing[c] = "warm" /\ confirmed' = confirmed /\ UNCHANGED <<pv, dev, joined>>
        /\ \/ S!Awaits(c, "probe") /\ S!Calls(c, "get", 0)
           \/ S!Awaits(c, "idle") /\ S!Quietly(c)
    BY <1>2 DEF S!Warmed, S!Ready
  <2>2. doing[c] \notin {"attempt", "device"} /\ c \in Web
    BY <1>1, <2>1 DEF PlaceFits
  <2>3. QED
    BY <2>1, <2>2, IdleKeeps
<1>3. CASE S!Probed(c)
  <2>1. /\ S!Over(c) /\ doing[c] = "probe" /\ confirmed' = confirmed /\ dev' = dev
        /\ \/ S!Books(c)
           \/ S!Awaits(c, "idle") /\ S!Quietly(c) /\ pv' = pv /\ joined' = joined
    BY <1>3 DEF S!Probed, S!Ready
  <2>2. doing[c] \notin {"attempt", "device"} /\ c \in Web
    BY <1>1, <2>1 DEF PlaceFits
  <2>3. CASE S!Books(c)
    BY <2>1, <2>2, <2>3, BooksFirstKeeps, BooksJoinKeeps
  <2>4. CASE S!Awaits(c, "idle") /\ S!Quietly(c) /\ pv' = pv /\ joined' = joined
    BY <2>1, <2>2, <2>4, IdleKeeps
  <2>5. QED
    BY <2>1, <2>3, <2>4
<1>4. CASE S!Reconciled(c)
  <2>1. /\ S!Over(c) /\ doing[c] = "attempt" /\ dev' = dev
        /\ \/ /\ job[c].end = "failed" /\ pv' = [clients |-> {}, slot |-> 0]
              /\ confirmed' = confirmed \ {c} /\ S!Awaits(c, "idle") /\ S!Quietly(c) /\ joined' = joined
           \/ /\ job[c].end = "ok" /\ S!AskValues(c) /\ joined' = joined \ pv.clients
              /\ pv' = pv /\ confirmed' = confirmed
    BY <1>4, ReconciledIs
  <2>2. QED
    BY <2>1, AttemptFailsKeeps, AttemptSucceedsKeeps
<1>5. CASE S!TornDown(c)
  BY <1>1, <1>5 DEF S!TornDown, S!Ready, Waits
<1>6. CASE S!ValuesSent(c)
  <2>1. /\ S!Over(c) /\ doing[c] = "values" /\ confirmed' = confirmed \cup {c} /\ UNCHANGED <<pv, dev, joined>>
        /\ S!Awaits(c, "idle") /\ S!Quietly(c)
    BY <1>6 DEF S!ValuesSent, S!Ready, S!Confirms
  <2>2. doing[c] \notin {"attempt", "device"}
    BY <2>1
  <2>3. QED
    BY <2>1, <2>2, IdleKeeps
<1>7. CASE S!Left(c) \/ S!Read(c)
  <2>1. /\ S!Over(c) /\ doing[c] \in {"leave", "read"} /\ confirmed' = confirmed /\ UNCHANGED <<pv, dev, joined>>
        /\ S!Awaits(c, "idle") /\ S!Quietly(c)
    BY <1>7 DEF S!Left, S!Read, S!Ready
  <2>2. doing[c] \notin {"attempt", "device"}
    BY <2>1
  <2>3. QED
    BY <2>1, <2>2, IdleKeeps
<1>8. CASE S!EntersDevice(c)
  BY <1>8, EntersFirstKeeps, EntersLaterKeeps
<1>9. CASE S!DeviceReconciled(c)
  BY <1>9, DeviceReconciledKeeps
<1>10. CASE S!DeviceRefused(c)
  BY <1>10, DeviceRefusedKeeps
<1>11. CASE S!WarmedRead(c)
  <2>1. /\ S!Over(c) /\ doing[c] = "warm read" /\ confirmed' = confirmed /\ UNCHANGED <<pv, dev, joined>>
        /\ \/ S!Awaits(c, "read") /\ S!Calls(c, "get", 0)
           \/ S!Awaits(c, "idle") /\ S!Quietly(c)
    BY <1>11 DEF S!WarmedRead, S!Ready
  <2>2. doing[c] \notin {"attempt", "device"}
    BY <2>1
  <2>3. QED
    BY <2>1, <2>2, IdleKeeps
<1>12. QED
  BY <1>2, <1>3, <1>4, <1>5, <1>6, <1>7, <1>8, <1>9, <1>10, <1>11 DEF S!Handles

LEMMA SocketNextKeeps == ASSUME PeerNames, SocketInv, S!Next PROVE SocketInv'
<1>1. CASE S!MonitorNext /\ UNCHANGED <<doing, confirmed, pv, dev, joined>>
  <2>1. CASE \E c \in Peers : S!JobStep(c)
    <3>1. PICK c \in Peers : S!JobStep(c)
      BY <2>1
    <3>2. QED
      BY <1>1, <3>1, LiveKeeps, TakesGateKeeps, PassesGateKeeps, OpensKeeps, ConnectFailsKeeps, CommitsKeeps,
         DestroyedKeeps, UnsubscribesKeeps, GetsKeeps DEF S!JobStep
  <2>2. CASE S!Ages \/ S!Evicts \/ S!EvictedDestroyed
    BY <1>1, <2>2, SweepKeeps
  <2>3. QED
    BY <1>1, <2>1, <2>2 DEF S!MonitorNext
<1>2. CASE \E c \in Peers : S!Asks(c) \/ S!Handles(c)
  BY <1>2, ClientAsksKeeps, ClientHandlesKeeps
<1>3. QED
  BY <1>1, <1>2 DEF S!Next, S!sockets

LEMMA SocketStays == ASSUME SocketInv, UNCHANGED watching PROVE SocketInv'
<1>1. /\ UNCHANGED <<signal, alive, evicted, callbacks, gate, recent, job>>
      /\ UNCHANGED <<doing, confirmed, pv, dev, joined>>
  BY DEF watching
<1>2. WatchTypes' /\ PeerTypes' /\ CallbacksKnown' /\ S!CallbacksServed' /\ PvBooks' /\ DevBooks'
  BY <1>1 DEF SocketInv, WatchTypes, PeerTypes, CallbacksKnown, S!CallbacksServed, PvBooks, DevBooks
<1>3. SignalsCounted'
  <2>1. Owners' = Owners
    BY <1>1 DEF Owners
  <2>2. QED
    BY <1>1, <2>1 DEF SocketInv, SignalsCounted
<1>4. ASSUME NEW c \in Peers
      PROVE  JobFits(c)' /\ PlaceFits(c)'
  BY <1>1, SocketKnown DEF JobFits, PlaceFits
<1>5. QED
  BY <1>2, <1>3, <1>4 DEF SocketInv

(* What the invariant is for.                                              *)
LEMMA SocketInvGives ==
  ASSUME SocketInv
  PROVE  S!TypeOK /\ S!NothingLeaks /\ S!SubscribedIsServed
<1>1. /\ PvBooks /\ DevBooks /\ WatchTypes /\ PeerTypes /\ SignalsCounted /\ CallbacksKnown /\ S!CallbacksServed
      /\ Web \subseteq Peers /\ Dev \subseteq Peers
  BY PeerKnown DEF SocketInv
<1>2. S!TypeOK
  <2>1. S!MonitorTypeOK
    BY <1>1 DEF WatchTypes, S!MonitorTypeOK
  <2>2. pv.clients \subseteq Web /\ dev.clients \subseteq Dev
    BY <1>1 DEF PeerTypes
  <2>3. pv.clients = {} <=> pv.slot = 0
    BY <1>1 DEF PvBooks
  <2>4. QED
    BY <2>1, <2>2, <2>3 DEF S!TypeOK
<1>3. S!NothingLeaks
  <2>1. S!NoSignalLeaks
    BY <1>1, SameCounted DEF SignalsCounted, Owners, S!NoSignalLeaks
  <2>2. QED
    BY <1>1, <2>1 DEF S!NothingLeaks, CallbacksKnown
<1>4. S!SubscribedIsServed
  <2>1. \A c \in Web : c \in confirmed /\ c \notin joined => c \in pv.clients
    BY <1>1 DEF PvBooks
  <2>2. pv.clients # {} /\ (\A c \in Web : doing[c] # "attempt") => pv.slot \in callbacks
    <3>1. \A c \in Peers : doing[c] = "attempt" => c \in Web
      BY SocketKnown DEF PlaceFits
    <3>2. QED
      BY <1>1, <3>1 DEF PvBooks
  <2>3. /\ \A c \in Dev : c \in confirmed /\ ~ dev.broken => c \in dev.clients /\ dev.live
        /\ dev.live /\ ~ dev.broken => dev.slot \in callbacks
    BY <1>1 DEF DevBooks
  <2>4. QED
    BY <1>1, <2>1, <2>2, <2>3 DEF S!SubscribedIsServed
<1>5. QED
  BY <1>2, <1>3, <1>4

(* For any clients, callers of the values and names of callbacks, if there   *)
(* is always a name not in use: no signal and no callback is left behind     *)
(* that no client can reach; whoever was told "subscribed" and did not join  *)
(* an attempt in flight is on the books, and what is on the books is served  *)
(* by a callback at the watch and a live signal.                             *)
THEOREM SocketsHold == ASSUME PeerNames PROVE ServicesSpec => []SocketsTrue
<1> DEFINE Mine == part \in {"pv socket", "device socket"} => SocketInv
<1>1. ServicesInit => Mine
  <2> SUFFICES ASSUME ServicesInit PROVE SocketInv
    OBVIOUS
  <2>1. S!Init
    BY DEF ServicesInit
  <2>2. QED
    BY <2>1, SocketInitInv
<1>2. Mine /\ [ServicesNext]_<<part, lock, work, client, rights, writes, motions, watching, registryVars>>
        => Mine'
  <2> SUFFICES ASSUME Mine, part' \in {"pv socket", "device socket"},
                      [ServicesNext]_<<part, lock, work, client, rights, writes, motions,
                                       watching, registryVars>>
               PROVE  SocketInv'
    OBVIOUS
  <2>1. part \in {"pv socket", "device socket"} /\ SocketInv /\ (S!Next \/ UNCHANGED watching)
    BY DEF ServicesNext, RegistryNext
  <2>2. QED
    BY <2>1, SocketNextKeeps, SocketStays
<1>3. Mine => SocketsTrue
  BY SocketInvGives DEF SocketsTrue
<1> HIDE DEF Mine
<1>4. QED
  BY <1>1, <1>2, <1>3, PTL DEF ServicesSpec

=============================================================================
