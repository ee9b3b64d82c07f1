------------------------- MODULE StationRouting -------------------------
(* Which station prepares an item: the enabled rules of the branch that match *)
(* it, ranked by how specific they are.  The query casts the score to text     *)
(* and orders by that column, so the scores compare as text.                    *)
EXTENDS Integers, Sequences, FiniteSets

CONSTANTS Rules,      \* rules on file: [id, item, channel, type, weight, station]
          Contexts,   \* items to route: [item, channel, type]
          Any         \* the NULL criterion, a wildcard

VARIABLES enabled,    \* ids of the enabled rules
          active,     \* the active stations
          routed      \* the last decision

vars == <<enabled, active, routed>>

Stations == {r.station : r \in Rules}
Unrouted == [context |-> Any]

----------------------------------------------------------------------------
Weighs(criterion, weight) == IF criterion = Any THEN 0 ELSE weight
specificityScore(r) == Weighs(r.item, 100) + Weighs(r.channel, 20) + Weighs(r.type, 10)

(* A score as text: its decimal digits.  Text is ordered by the first digit   *)
(* that differs, and a proper prefix comes first.                              *)
Text(n) ==
  IF n < 10 THEN <<n>> ELSE IF n < 100 THEN <<n \div 10, n % 10>>
  ELSE <<n \div 100, (n \div 10) % 10, n % 10>>
TextAfter(a, b) ==
  \/ \E n \in DOMAIN a : n \in DOMAIN b /\ a[n] > b[n] /\ \A m \in 1..(n - 1) : a[m] = b[m]
  \/ Len(a) > Len(b) /\ \A n \in DOMAIN b : a[n] = b[n]

(* ORDER BY specificity_score DESC, priority_weight DESC, id ASC *)
Before(r, o) ==
  LET a == Text(specificityScore(r))
      b == Text(specificityScore(o)) IN
  \/ TextAfter(a, b)
  \/ a = b /\ (r.weight > o.weight \/ (r.weight = o.weight /\ r.id < o.id))

Matches(r, c) ==
  /\ r.item \in {Any, c.item} /\ r.channel \in {Any, c.channel} /\ r.type \in {Any, c.type}

Candidates(c) == {r \in Rules : r.id \in enabled /\ r.station \in active /\ Matches(r, c)}

(* resolveStationRoute; no candidate is a refusal, never a default. *)
route(c) ==
  /\ Candidates(c) # {}
  /\ routed' = [context |-> c, among |-> Candidates(c),
                rule |-> CHOOSE r \in Candidates(c) : \A o \in Candidates(c) : o = r \/ Before(r, o)]
  /\ UNCHANGED <<enabled, active>>

ToggleRule(r) ==
  /\ enabled' = IF r.id \in enabled THEN enabled \ {r.id} ELSE enabled \cup {r.id}
  /\ UNCHANGED <<active, routed>>

ToggleStation(s) ==
  /\ active' = IF s \in active THEN active \ {s} ELSE active \cup {s}
  /\ UNCHANGED <<enabled, routed>>

----------------------------------------------------------------------------
Init == enabled = {} /\ active = Stations /\ routed = Unrouted

Next ==
  \/ \E c \in Contexts : route(c)
  \/ \E r \in Rules : ToggleRule(r)
  \/ \E s \in Stations : ToggleStation(s)

Spec == Init /\ [][Next]_vars

----------------------------------------------------------------------------
(* "The weights guarantee any higher dimension outranks any combination of     *)
(* lower ones": a rule naming the item is never passed over for one that does  *)
(* not, nor a rule naming the channel for one naming neither.                  *)
HigherDimensionOutranks ==
  routed # Unrouted =>
    \A o \in routed.among :
      /\ o.item # Any => routed.rule.item # Any
      /\ o.item = routed.rule.item /\ o.channel # Any => routed.rule.channel # Any
============================================================================
