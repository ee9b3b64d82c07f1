--------------------------- MODULE KdsStreamProofs ---------------------------
(***************************************************************************)
(* Proofs about KdsStream: the display implements the order feed, and       *)
(* nothing is sent on a connection once its token is revoked and killed.    *)
(***************************************************************************)
EXTENDS KdsStream, FiniteSetTheorems, SequenceTheorems, WellFoundedInduction, TLAPS

-----------------------------------------------------------------------------
(* Greatest and least members *)

LEMMA LeastNatural ==
  ASSUME NEW S \in SUBSET Nat, S # {}
  PROVE  \E m \in S : \A x \in S : m <= x
<1>1. PICK m \in S : \A x \in S : ~ (<<x, m>> \in OpToRel(<, Nat))
  BY Zenon, NatLessThanWellFounded, WFMin
<1>2. ASSUME NEW x \in Nat, NEW y \in Nat, x < y
      PROVE  <<x, y>> \in OpToRel(<, Nat)
  <2>1. <<x, y>> \in Nat \X Nat /\ <<x, y>>[1] = x /\ <<x, y>>[2] = y
    OBVIOUS
  <2> QED
    BY <1>2, <2>1, Zenon DEF OpToRel
<1>3. \A x \in S : ~ (x < m)
  BY Zenon, <1>1, <1>2
<1> QED
  BY <1>3

LEMMA GreatestOf ==
  ASSUME NEW n \in Nat, NEW S \in SUBSET (0 .. n), S # {}
  PROVE  Max(S) \in S /\ \A x \in S : x <= Max(S)
<1> DEFINE T == {n - x : x \in S}
<1>1. T \in SUBSET Nat /\ T # {}
  <2>1. \A x \in S : n - x \in Nat
    OBVIOUS
  <2>2. PICK x \in S : TRUE
    BY Zenon
  <2>3. n - x \in T
    OBVIOUS
  <2> QED
    BY <2>1, <2>3
<1>2. PICK t \in T : \A x \in T : t <= x
  <2> HIDE DEF T
  <2> QED
    BY <1>1, LeastNatural
<1>3. PICK m \in S : t = n - m
  OBVIOUS
<1>4. \A x \in S : m >= x
  BY <1>2, <1>3
<1> QED
  BY Zenon, <1>4 DEF Max

LEMMA LeastOf ==
  ASSUME NEW S \in SUBSET Nat, S # {}
  PROVE  Min(S) \in S
<1>1. PICK m \in S : \A x \in S : m <= x
  BY LeastNatural
<1> QED
  BY Zenon, <1>1 DEF Min

-----------------------------------------------------------------------------
(* Why no event is skipped *)

(* Event d is behind the display, or under way to it in the first k frames. *)
Covered(frames, k, last, d) == d <= last \/ \E j \in 1 .. k : d \in frames[j]

(* No event below one of E is missing: those up to n are taken care of.     *)
Unbroken(E, n) == \A e \in E : \A d \in 1 .. e - 1 : d <= n \/ d \in E

(* With P the published events and last the display's lastSequenceId: a     *)
(* frame reaches the display after the events below its own, the cursor of  *)
(* a subscription that can still send is not ahead of what is under way,    *)
(* and what was read continues from the cursor.                             *)
Feeding(c, P, last) ==
  /\ \A k \in 1 .. Len(c.down) :
       /\ c.down[k] \subseteq P
       /\ \A e \in c.down[k] : \A d \in 1 .. e - 1 : Covered(c.down, k, last, d)
  /\ c.server = "open" /\ c.client # "closed" /\ c.pump # "off" =>
       \A d \in 1 .. c.cursor : Covered(c.down, Len(c.down), last, d)
  /\ c.pump = "send" => c.batch \subseteq P /\ Unbroken(c.batch, c.cursor)
  /\ \A n \in c.up : n <= last

(* Why nothing is sent after a kill: a subscription that is still open has  *)
(* to pass the probe first.                                                 *)
Quiet(c, tok) ==
  /\ c.server = "none" => c.pump = "off" /\ ~ c.fresh
  /\ c.server = "open" /\ c.pump = "off" => ~ c.fresh
  /\ tok = "killed" /\ c.server = "open" =>
       c.pump \in {"off", "probe", "timer"} /\ ~ c.fresh

Sound(c, P, last, tok) == c \in Connection /\ Feeding(c, P, last) /\ Quiet(c, tok)

(* A poll asks for what follows lastSequenceId and applies its answer late. *)
Polling(l, P, last) ==
  /\ l \in Loop /\ l.after <= last
  /\ l.phase = "answered" => l.events \subseteq P /\ Unbroken(l.events, last)

Numbered(P) == P = 1 .. Cardinality(P)

(* The calls of onEvent when each of the first n events was handed on once. *)
Told(n) == [k \in 1 .. n |-> k]

Feeds ==
  /\ TypeOK
  /\ Numbered(published)
  /\ applied = Told(display.last)
  /\ 1 .. display.last \subseteq published
  /\ \A i \in Sockets : Sound(conn[i], published, display.last, token)
  /\ \A j \in Loops : Polling(loop[j], published, display.last)

(* The display's own socket has not reported its end yet, so that stop()    *)
(* never reopens a socket whose frames are lost.                            *)
Live == {"connecting", "open", "closing"}

Attached ==
  /\ display.socket # None => conn[display.socket].client \in Live
  /\ display.state = "stopped" => display.socket = None

-----------------------------------------------------------------------------
(* Operators of the model *)

(* The ascending read leaves no hole between the cursor and what it returns. *)
LEMMA ReadIsUnbroken ==
  ASSUME published \subseteq Ids, Numbered(published), MaxEvents \in Nat, Limit \in Nat,
         NEW n \in 0 .. MaxEvents
  PROVE  EventsAfter(n) \subseteq published /\ Unbroken(EventsAfter(n), n)
<1>1. EventsAfter(n) \subseteq published
  BY DEF EventsAfter
<1>2. ASSUME NEW e \in EventsAfter(n), NEW d \in 1 .. e - 1, ~ (d <= n)
      PROVE  d \in EventsAfter(n)
  <2> DEFINE Below(x) == {y \in published : n < y /\ y < x}
  <2>0. published \subseteq 1 .. MaxEvents
    BY DEF Ids
  <2>1. IsFiniteSet(published)
    <3>1. IsFiniteSet(1 .. MaxEvents)
      BY FS_Interval
    <3> QED
      BY Zenon, <2>0, <3>1, FS_Subset
  <2>2. e \in 1 .. MaxEvents /\ d \in Int /\ d < e /\ d > n
    <3>1. e \in 1 .. MaxEvents
      BY Zenon, <1>1, <2>0
    <3> QED
      BY <1>2, <3>1
  <2>3. Below(d) \subseteq Below(e)
    <3> SUFFICES ASSUME NEW y \in published, n < y, y < d PROVE y < e
      OBVIOUS
    <3>1. y \in 1 .. MaxEvents
      BY <2>0
    <3> QED
      BY <2>2, <3>1
  <2>4. IsFiniteSet(Below(e))
    BY <2>1, FS_Subset
  <2>5. Cardinality(Below(e)) < Limit
    BY DEF EventsAfter
  <2> HIDE DEF Below
  <2>6. /\ Cardinality(Below(d)) \in Nat /\ Cardinality(Below(e)) \in Nat
        /\ Cardinality(Below(d)) <= Cardinality(Below(e))
    BY <2>3, <2>4, FS_Subset, FS_CardinalityType
  <2>7. Cardinality(Below(d)) < Limit
    BY <2>5, <2>6
  <2>8. d \in published
    <3>1. Cardinality(published) \in Nat /\ e \in 1 .. Cardinality(published)
      BY <1>1, <2>1, FS_CardinalityType DEF Numbered
    <3>2. d \in 1 .. Cardinality(published)
      BY <1>2, <3>1
    <3> QED
      BY Zenon, <3>2 DEF Numbered
  <2> QED
    BY <2>2, <2>7, <2>8 DEF EventsAfter, Below
<1> QED
  BY <1>1, <1>2 DEF Unbroken

LEMMA ToldTyped ==
  ASSUME NEW n \in 0 .. MaxEvents
  PROVE  Told(n) \in Seq(Ids) /\ Len(Told(n)) = n
<1>1. MaxEvents \in Nat /\ n \in Nat
  BY StreamAssumption
<1>2. \A k \in 1 .. n : k \in Ids
  BY <1>1 DEF Ids
<1> QED
  BY <1>1, <1>2 DEF Told

(* The events after a, up to m, in the order in which they are handed on.   *)
LEMMA Continued ==
  ASSUME NEW a \in Nat, NEW m \in Nat, a <= m
  PROVE  Told(a) \o InOrder(a + 1 .. m) = Told(m)
<1> DEFINE S == a + 1 .. m
<1>1. ASSUME NEW e \in S PROVE Cardinality({d \in S : d <= e}) = e - a
  <2>1. {d \in S : d <= e} = a + 1 .. e
    OBVIOUS
  <2>2. Cardinality(a + 1 .. e) = IF a + 1 > e THEN 0 ELSE e - (a + 1) + 1
    BY FS_Interval
  <2>3. Cardinality(a + 1 .. e) = e - a
    BY <2>2
  <2> QED
    BY Zenon, <2>1, <2>3
<1>2. Cardinality(S) = m - a
  <2>1. Cardinality(S) = IF a + 1 > m THEN 0 ELSE m - (a + 1) + 1
    BY FS_Interval
  <2> QED
    BY <2>1
<1>3. ASSUME NEW k \in 1 .. m - a
      PROVE  (CHOOSE e \in S : Cardinality({d \in S : d <= e}) = k) = a + k
  <2> DEFINE P(e) == Cardinality({d \in S : d <= e}) = k
  <2>1. a + k \in S /\ P(a + k)
    BY <1>1
  <2>2. \A e \in S : P(e) => e = a + k
    BY <1>1
  <2> DEFINE x == CHOOSE e \in S : P(e)
  <2>3. x \in S /\ P(x)
    BY Zenon, <2>1
  <2> QED
    BY Zenon, <2>2, <2>3
<1>4. InOrder(S) = [k \in 1 .. m - a |-> a + k]
  BY Zenon, <1>2, <1>3 DEF InOrder
<1>5. /\ Told(a) \in Seq(Nat) /\ Len(Told(a)) = a
      /\ InOrder(S) \in Seq(Nat) /\ Len(InOrder(S)) = m - a
  <2> HIDE DEF S
  <2> QED
    BY <1>4 DEF Told
<1> HIDE DEF S
<1>6. /\ Told(a) \o InOrder(S) \in Seq(Nat) /\ Len(Told(a) \o InOrder(S)) = m
      /\ \A k \in 1 .. m : (Told(a) \o InOrder(S))[k]
                             = IF k <= a THEN Told(a)[k] ELSE InOrder(S)[k - a]
  <2>1. a + (m - a) = m
    OBVIOUS
  <2> DEFINE q == Told(a)
             r == InOrder(S)
  <2>2. q \in Seq(Nat) /\ r \in Seq(Nat) /\ Len(q) = a /\ Len(r) = m - a
    BY Zenon, <1>5
  <2> HIDE DEF q, r
  <2>3. /\ q \o r \in Seq(Nat) /\ Len(q \o r) = Len(q) + Len(r)
        /\ \A k \in 1 .. Len(q) + Len(r) :
             (q \o r)[k] = IF k <= Len(q) THEN q[k] ELSE r[k - Len(q)]
    BY Zenon, <2>2, ConcatProperties
  <2>4. /\ q \o r \in Seq(Nat) /\ Len(q \o r) = m
        /\ \A k \in 1 .. m : (q \o r)[k] = IF k <= a THEN q[k] ELSE r[k - a]
    BY ONLY Zenon, <2>1, <2>2, <2>3
  <2> QED
    BY Zenon, <2>4 DEF q, r
<1>7. \A k \in 1 .. m : (Told(a) \o InOrder(S))[k] = k
  BY <1>4, <1>6 DEF Told
<1>8. Told(a) \o InOrder(S) = [k \in 1 .. m |-> (Told(a) \o InOrder(S))[k]]
  <2>1. ASSUME NEW q \in Seq(Nat), Len(q) = m PROVE q = [k \in 1 .. m |-> q[k]]
    BY <2>1
  <2> QED
    BY Zenon, <1>6, <2>1
<1> QED
  BY <1>7, <1>8 DEF S, Told

(* What applyEvent makes of a frame or response without holes.              *)
LEMMA Delivery ==
  ASSUME TypeOK, applied = Told(display.last), NEW E \in SUBSET Ids, Unbroken(E, display.last)
  PROVE  /\ WithLast(E) \in Display
         /\ WithLast(E).last >= display.last /\ WithLast(E).last \in 0 .. MaxEvents
         /\ WithLast(E).state = display.state
         /\ \A e \in E : e <= WithLast(E).last
         /\ applied \o InOrder(New(E)) = Told(WithLast(E).last)
         /\ 1 .. WithLast(E).last \subseteq 1 .. display.last \cup E
<1> DEFINE S == {display.last} \cup New(E)
           m == Max(S)
<1>1. display \in Display /\ display.last \in 0 .. MaxEvents /\ MaxEvents \in Nat
  BY StreamAssumption DEF TypeOK, Display
<1>2. E \subseteq 1 .. MaxEvents
  BY DEF Ids
<1>3. New(E) = {e \in E : e > display.last}
  BY DEF New
<1>4. S \in SUBSET (0 .. MaxEvents) /\ S # {}
  <2>1. ASSUME NEW e \in New(E) PROVE e \in 0 .. MaxEvents
    <3>1. e \in 1 .. MaxEvents
      BY Zenon, <1>2, <1>3
    <3> QED
      BY <1>1, <3>1
  <2>2. display.last \in S
    OBVIOUS
  <2> QED
    BY <1>1, <2>1, <2>2
<1>5. m \in S /\ \A x \in S : x <= m
  <2> HIDE DEF S
  <2> QED
    BY Zenon, <1>1, <1>4, GreatestOf
<1>6. WithLast(E) = [display EXCEPT !.last = m]
  BY Zenon DEF WithLast
<1>7. m \in 0 .. MaxEvents /\ m >= display.last
  BY Zenon, <1>1, <1>4, <1>5
<1> HIDE DEF m
<1>8. /\ WithLast(E) \in Display /\ WithLast(E).last = m
      /\ WithLast(E).state = display.state
  <2>1. display \in Display /\ m \in 0 .. MaxEvents
    BY <1>1, <1>7
  <2>2. [display EXCEPT !.last = m] \in Display
    BY <2>1 DEF Display
  <2>3. [display EXCEPT !.last = m].last = m /\ [display EXCEPT !.last = m].state = display.state
    BY <2>1 DEF Display
  <2> QED
    BY Zenon, <1>6, <2>2, <2>3
<1>9. \A e \in E : e <= m
  BY <1>1, <1>2, <1>3, <1>5, <1>7
<1>10. ASSUME NEW d \in 1 .. m, d > display.last PROVE d \in E
  <2>1. m \in E
    BY <1>1, <1>3, <1>5, <1>7, <1>10
  <2>2. CASE d = m
    BY <2>1, <2>2
  <2>3. CASE d # m
    BY <1>1, <1>7, <1>10, <2>1, <2>3 DEF Unbroken
  <2> QED
    BY <2>2, <2>3
<1>11. New(E) = display.last + 1 .. m
  <2>1. ASSUME NEW e \in New(E) PROVE e \in display.last + 1 .. m
    <3>1. e \in 1 .. MaxEvents /\ e <= m /\ e > display.last
      BY Zenon, <1>2, <1>3, <1>9
    <3> QED
      BY <1>1, <1>7, <3>1
  <2>2. ASSUME NEW d \in display.last + 1 .. m PROVE d \in New(E)
    <3>1. d \in 1 .. m /\ d > display.last
      BY <1>1, <1>7
    <3> QED
      BY <1>3, <1>10, <3>1
  <2> QED
    BY Zenon, <2>1, <2>2
<1>12. applied \o InOrder(New(E)) = Told(m)
  <2>1. display.last \in Nat /\ m \in Nat /\ display.last <= m
    BY <1>1, <1>7
  <2> QED
    BY Zenon, <1>11, <2>1, Continued
<1>13. 1 .. m \subseteq 1 .. display.last \cup E
  <2> SUFFICES ASSUME NEW d \in 1 .. m, ~ (d > display.last) PROVE d \in 1 .. display.last
    BY <1>10
  <2> QED
    BY <1>1, <1>7
<1> QED
  BY <1>7, <1>8, <1>9, <1>12, <1>13

(* More published events and a display further on do no harm. *)
LEMMA FeedingGrows ==
  ASSUME NEW c \in Connection, NEW P, NEW Q, P \subseteq Q,
         NEW m \in 0 .. MaxEvents, NEW n \in 0 .. MaxEvents, m <= n, MaxEvents \in Nat,
         Feeding(c, P, m)
  PROVE  Feeding(c, Q, n)
<1>1. \A d \in Int : d <= m => d <= n
  OBVIOUS
<1>2. c.up \subseteq 0 .. MaxEvents /\ c.cursor \in 0 .. MaxEvents
  BY DEF Connection
<1>3. \A frames, k : \A d \in Int : Covered(frames, k, m, d) => Covered(frames, k, n, d)
  BY <1>1 DEF Covered
<1>4. \A k \in 1 .. Len(c.down) :
        /\ c.down[k] \subseteq Q
        /\ \A e \in c.down[k] : \A d \in 1 .. e - 1 : Covered(c.down, k, n, d)
  <2> SUFFICES ASSUME NEW k \in 1 .. Len(c.down)
               PROVE  /\ c.down[k] \subseteq Q
                      /\ \A e \in c.down[k] : \A d \in 1 .. e - 1 : Covered(c.down, k, n, d)
    OBVIOUS
  <2>1. /\ c.down[k] \subseteq P
        /\ \A e \in c.down[k] : \A d \in 1 .. e - 1 : Covered(c.down, k, m, d)
    BY Zenon DEF Feeding
  <2> QED
    BY <1>3, <2>1
<1>5. c.server = "open" /\ c.client # "closed" /\ c.pump # "off" =>
        \A d \in 1 .. c.cursor : Covered(c.down, Len(c.down), n, d)
  <2>1. c.server = "open" /\ c.client # "closed" /\ c.pump # "off" =>
          \A d \in 1 .. c.cursor : Covered(c.down, Len(c.down), m, d)
    BY Zenon DEF Feeding
  <2> QED
    BY <1>3, <2>1
<1>6. c.pump = "send" => c.batch \subseteq Q /\ Unbroken(c.batch, c.cursor)
  <2>1. c.pump = "send" => c.batch \subseteq P /\ Unbroken(c.batch, c.cursor)
    BY Zenon DEF Feeding
  <2> QED
    BY <2>1
<1>7. \A x \in c.up : x <= n
  <2>1. \A x \in c.up : x <= m
    BY Zenon DEF Feeding
  <2> QED
    BY <1>1, <1>2, <2>1
<1> QED
  BY Zenon, <1>4, <1>5, <1>6, <1>7 DEF Feeding

LEMMA SoundGrows ==
  ASSUME NEW P, NEW Q, P \subseteq Q, NEW tok,
         NEW m \in 0 .. MaxEvents, NEW n \in 0 .. MaxEvents, m <= n, MaxEvents \in Nat,
         NEW c, Sound(c, P, m, tok)
  PROVE  Sound(c, Q, n, tok)
BY FeedingGrows DEF Sound

LEMMA PollingGrows ==
  ASSUME NEW P, NEW Q, P \subseteq Q, P \subseteq Ids,
         NEW m \in 0 .. MaxEvents, NEW n \in 0 .. MaxEvents, m <= n, MaxEvents \in Nat,
         NEW l, Polling(l, P, m)
  PROVE  Polling(l, Q, n)
<1>1. /\ l \in Loop /\ l.after <= m
      /\ l.phase = "answered" => l.events \subseteq P /\ Unbroken(l.events, m)
  BY DEF Polling
<1>2. l.after \in 0 .. MaxEvents
  BY <1>1 DEF Loop
<1>3. l.after <= n
  BY <1>1, <1>2
<1>4. Unbroken(l.events, m) => Unbroken(l.events, n)
  <2>1. \A d \in Int : d <= m => d <= n
    OBVIOUS
  <2> QED
    BY <2>1 DEF Unbroken
<1> QED
  BY <1>1, <1>3, <1>4 DEF Polling

LEMMA UnusedSound ==
  ASSUME NEW P, NEW last, NEW tok, MaxEvents \in Nat
  PROVE  Sound(Unused, P, last, tok) /\ Unused.down = << >>
<1>1. Unused \in Connection
  BY DEF Unused, Connection
<1>2. /\ Unused.down = << >> /\ Unused.server = "none" /\ Unused.pump = "off"
      /\ Unused.up = {} /\ Unused.fresh = FALSE
  BY DEF Unused
<1>3. Len(Unused.down) = 0
  BY <1>2
<1>4. Feeding(Unused, P, last)
  BY <1>2, <1>3 DEF Feeding
<1>5. Quiet(Unused, tok)
  BY <1>2 DEF Quiet
<1> QED
  BY <1>1, <1>2, <1>4, <1>5 DEF Sound

(* A connection whose frames, and what Feeding says of them, did not change. *)
LEMMA SettledSound ==
  ASSUME NEW P, NEW last, NEW tok, MaxEvents \in Nat, NEW c, Sound(c, P, last, tok)
  PROVE  Sound(Settled(c), P, last, tok) /\ Len(Settled(c).down) <= Len(c.down)
<1>1. c \in Connection /\ Len(c.down) \in Nat
  BY DEF Sound, Connection
<1>2. CASE Settled(c) = c
  BY <1>1, <1>2
<1>3. CASE Settled(c) = Unused
  <2>1. Sound(Unused, P, last, tok) /\ Unused.down = << >>
    BY UnusedSound
  <2>2. Len(Unused.down) = 0
    BY <2>1
  <2> QED
    BY <1>1, <1>3, <2>1, <2>2
<1> QED
  BY <1>2, <1>3 DEF Settled

(* Changes of a connection that leave the stream itself alone. *)
LEMMA SameStream ==
  ASSUME NEW P, NEW last, NEW c, Feeding(c, P, last), NEW x,
         x.down = c.down, x.cursor = c.cursor, x.up \subseteq c.up,
         x.server = "open" /\ x.client # "closed" /\ x.pump # "off" =>
           c.server = "open" /\ c.client # "closed" /\ c.pump # "off",
         x.pump = "send" => c.pump = "send" /\ x.batch = c.batch
  PROVE  Feeding(x, P, last)
<1>1. \A k \in 1 .. Len(x.down) :
        /\ x.down[k] \subseteq P
        /\ \A e \in x.down[k] : \A d \in 1 .. e - 1 : Covered(x.down, k, last, d)
  BY Zenon DEF Feeding
<1>2. x.server = "open" /\ x.client # "closed" /\ x.pump # "off" =>
        \A d \in 1 .. x.cursor : Covered(x.down, Len(x.down), last, d)
  BY Zenon DEF Feeding
<1>3. x.pump = "send" => x.batch \subseteq P /\ Unbroken(x.batch, x.cursor)
  BY Zenon DEF Feeding
<1>4. \A n \in x.up : n <= last
  <2>1. \A n \in c.up : n <= last
    BY Zenon DEF Feeding
  <2> QED
    BY <2>1
<1> QED
  BY Zenon, <1>1, <1>2, <1>3, <1>4 DEF Feeding

LEMMA ShutSound ==
  ASSUME NEW P, NEW last, NEW tok, MaxEvents \in Nat, NEW c, Sound(c, P, last, tok), NEW key
  PROVE  /\ Sound(Shut(c), P, last, key) /\ Len(Shut(c).down) <= Len(c.down)
         /\ Shut(c).server # "open"
<1> DEFINE x == [c EXCEPT !.server = "closed", !.up = {}, !.fresh = FALSE,
                          !.pump = IF @ = "timer" THEN "off" ELSE @]
<1>1. c \in Connection /\ Feeding(c, P, last)
  BY DEF Sound
<1>2. x \in Connection
  BY Zenon, <1>1 DEF Connection
<1>3. /\ x.server = "closed" /\ x.up = {} /\ x.fresh = FALSE
      /\ x.pump = IF c.pump = "timer" THEN "off" ELSE c.pump
      /\ x.down = c.down /\ x.cursor = c.cursor /\ x.batch = c.batch
  BY <1>1 DEF Connection
<1>4. Shut(c) = Settled(x)
  BY DEF Shut
<1> HIDE DEF x
<1>5. Feeding(x, P, last)
  BY <1>1, <1>3, SameStream
<1>6. Sound(x, P, last, key)
  BY <1>2, <1>3, <1>5 DEF Sound, Quiet
<1>7. Settled(x).server # "open"
  BY <1>3 DEF Settled, Unused
<1> QED
  BY <1>3, <1>4, <1>6, <1>7, SettledSound

LEMMA NextPumpSound ==
  ASSUME NEW P, NEW last, NEW tok, MaxEvents \in Nat, NEW c, Sound(c, P, last, tok),
         c.pump # "off" \/ c.server # "open"
  PROVE  Sound(NextPump(c), P, last, tok) /\ Len(NextPump(c).down) <= Len(c.down)
<1> DEFINE x == [c EXCEPT !.batch = {}, !.pump = IF c.server = "open" THEN "timer" ELSE "off"]
<1>1. c \in Connection /\ Feeding(c, P, last) /\ Quiet(c, tok)
  BY DEF Sound
<1>2. x \in Connection
  BY Zenon, <1>1 DEF Connection
<1>3. /\ x.server = c.server /\ x.up = c.up /\ x.fresh = c.fresh /\ x.client = c.client
      /\ x.pump = IF c.server = "open" THEN "timer" ELSE "off"
      /\ x.down = c.down /\ x.cursor = c.cursor
  BY <1>1 DEF Connection
<1>4. NextPump(c) = Settled(x)
  BY DEF NextPump
<1> HIDE DEF x
<1>5. Feeding(x, P, last)
  BY <1>1, <1>3, SameStream
<1>6. Quiet(x, tok)
  BY <1>1, <1>3 DEF Quiet
<1>7. Sound(x, P, last, tok)
  BY <1>2, <1>5, <1>6 DEF Sound
<1> QED
  BY <1>3, <1>4, <1>7, SettledSound

-----------------------------------------------------------------------------
(* The steps of one connection *)

(* Connection i becomes x, which is sound for a display at last, and after  *)
(* a kill carries nothing new.                                              *)
Becomes(i, x, last) ==
  /\ conn' = [conn EXCEPT ![i] = x]
  /\ Sound(x, published, last, token)
  /\ token = "killed" => Len(x.down) <= Len(conn[i].down)

LEMMA SocketFacts ==
  ASSUME Feeds, NEW i \in Sockets
  PROVE  /\ conn \in [Sockets -> Connection] /\ conn[i] \in Connection
         /\ Sound(conn[i], published, display.last, token)
         /\ Feeding(conn[i], published, display.last) /\ Quiet(conn[i], token)
         /\ Len(conn[i].down) \in Nat
         /\ display \in Display /\ display.last \in 0 .. MaxEvents /\ MaxEvents \in Nat
<1>1. Sound(conn[i], published, display.last, token) /\ conn \in [Sockets -> Connection]
  BY DEF Feeds, TypeOK
<1>2. display \in Display /\ display.last \in 0 .. MaxEvents /\ MaxEvents \in Nat
  BY StreamAssumption DEF Feeds, TypeOK, Display
<1>3. Len(conn[i].down) \in Nat
  BY <1>1 DEF Sound, Connection
<1> QED
  BY <1>1, <1>2, <1>3 DEF Sound

LEMMA UpgradeSound ==
  ASSUME Feeds, NEW i \in Sockets, Upgrade(i) \/ UpgradeFails(i)
  PROVE  \E x : Becomes(i, x, display.last)
<1> DEFINE c == conn[i]
<1>1. conn \in [Sockets -> Connection]
  BY SocketFacts
<1>2. c \in Connection /\ Feeding(c, published, display.last) /\ Quiet(c, token)
  BY SocketFacts
<1>3. PICK s \in {"open", "closed"} :
        /\ c.server = "none" /\ (s = "open" => token = "active")
        /\ conn' = [conn EXCEPT ![i].server = s]
  BY DEF Upgrade, UpgradeFails
<1> DEFINE x == [c EXCEPT !.server = s]
<1>4. conn' = [conn EXCEPT ![i] = x]
  BY <1>1, <1>3
<1>5. /\ x \in Connection /\ x.server = s /\ x.client = c.client /\ x.up = c.up
      /\ x.cursor = c.cursor /\ x.pump = c.pump /\ x.fresh = c.fresh /\ x.batch = c.batch
      /\ x.down = c.down
  BY <1>2, <1>3 DEF Connection
<1>6. c.pump = "off" /\ ~ c.fresh
  BY <1>2, <1>3 DEF Quiet
<1> HIDE DEF x, c
<1>7. Feeding(x, published, display.last)
  BY <1>2, <1>5, <1>6, SameStream
<1>8. Quiet(x, token)
  BY <1>3, <1>5, <1>6 DEF Quiet
<1>9. Len(x.down) <= Len(c.down)
  BY <1>2, <1>5 DEF Connection
<1> QED
  BY Zenon, <1>4, <1>5, <1>7, <1>8, <1>9 DEF Becomes, Sound, c

LEMMA SubscribeSound ==
  ASSUME Feeds, NEW i \in Sockets, Subscribe(i)
  PROVE  \E x : Becomes(i, x, display.last)
<1> DEFINE c == conn[i]
<1>1. conn \in [Sockets -> Connection]
  BY SocketFacts
<1>2. c \in Connection /\ Feeding(c, published, display.last) /\ Quiet(c, token)
  BY SocketFacts
<1>3. PICK n \in c.up :
        /\ c.server = "open"
        /\ conn' = [conn EXCEPT ![i].up = {}, ![i].cursor = n, ![i].pump = "probe"]
  BY Zenon DEF Subscribe
<1> DEFINE x == [c EXCEPT !.up = {}, !.cursor = n, !.pump = "probe"]
<1>4. conn' = [conn EXCEPT ![i] = x]
  BY Zenon, <1>1, <1>3
<1>5. n \in 0 .. MaxEvents /\ n <= display.last
  BY <1>2, <1>3 DEF Connection, Feeding
<1>6. /\ x \in Connection /\ x.server = "open" /\ x.client = c.client /\ x.up = {}
      /\ x.cursor = n /\ x.pump = "probe" /\ x.fresh = c.fresh
      /\ x.down = c.down
  BY Zenon, <1>2, <1>3, <1>5 DEF Connection
<1>7. display.last \in 0 .. MaxEvents /\ MaxEvents \in Nat
  BY SocketFacts
<1> HIDE DEF x, c
<1>8. Feeding(x, published, display.last)
  <2>1. \A k \in 1 .. Len(x.down) :
          /\ x.down[k] \subseteq published
          /\ \A e \in x.down[k] : \A d \in 1 .. e - 1 : Covered(x.down, k, display.last, d)
    BY Zenon, <1>2, <1>6 DEF Feeding
  <2>2. \A d \in 1 .. n : d <= display.last
    BY <1>5, <1>7
  <2>3. \A d \in 1 .. x.cursor : Covered(x.down, Len(x.down), display.last, d)
    BY <1>6, <2>2 DEF Covered
  <2> QED
    BY <1>6, <2>1, <2>3 DEF Feeding
<1>9. Quiet(x, token)
  BY <1>2, <1>3, <1>6 DEF Quiet
<1>10. Len(x.down) <= Len(c.down)
  BY <1>2, <1>6 DEF Connection
<1> QED
  BY Zenon, <1>4, <1>6, <1>8, <1>9, <1>10 DEF Becomes, Sound, c

LEMMA ProbeSound ==
  ASSUME Feeds, NEW i \in Sockets, Probe(i)
  PROVE  \E x : Becomes(i, x, display.last)
<1> DEFINE c == conn[i]
<1>1. conn \in [Sockets -> Connection] /\ Sound(c, published, display.last, token)
  BY SocketFacts
<1>2. /\ c \in Connection /\ Feeding(c, published, display.last) /\ Quiet(c, token)
      /\ Len(c.down) \in Nat /\ MaxEvents \in Nat
  BY SocketFacts
<1>3. c.pump = "probe"
  BY DEF Probe
<1>4. CASE token = "active"
  <2> DEFINE x == [c EXCEPT !.fresh = (c.server = "open"), !.pump = "read"]
  <2>1. conn' = [conn EXCEPT ![i] = x]
    BY <1>4 DEF Probe
  <2>2. /\ x \in Connection /\ x.server = c.server /\ x.client = c.client /\ x.up = c.up
        /\ x.cursor = c.cursor /\ x.pump = "read" /\ x.fresh = (c.server = "open")
        /\ x.down = c.down
    BY Zenon, <1>2 DEF Connection
  <2> HIDE DEF x, c
  <2>3. Feeding(x, published, display.last)
    BY <1>2, <1>3, <2>2, SameStream
  <2>4. Quiet(x, token)
    BY <1>2, <1>3, <1>4, <2>2 DEF Quiet
  <2> QED
    BY Zenon, <1>4, <2>1, <2>2, <2>3, <2>4 DEF Becomes, Sound
<1>5. CASE token # "active"
  <2> DEFINE x == NextPump(Shut(c))
  <2>1. conn' = [conn EXCEPT ![i] = x]
    BY <1>5 DEF Probe
  <2>2. /\ Sound(Shut(c), published, display.last, token) /\ Len(Shut(c).down) <= Len(c.down)
        /\ Shut(c).server # "open"
    BY <1>1, <1>2, ShutSound
  <2>3. Sound(x, published, display.last, token) /\ Len(x.down) <= Len(Shut(c).down)
    BY <1>2, <2>2, NextPumpSound
  <2>4. Len(x.down) \in Nat /\ Len(Shut(c).down) \in Nat
    <3>1. x \in Connection /\ Shut(c) \in Connection
      BY <2>2, <2>3 DEF Sound
    <3> HIDE DEF x
    <3> QED
      BY <3>1 DEF Connection
  <2> HIDE DEF x
  <2>5. Len(x.down) <= Len(c.down)
    BY <1>2, <2>2, <2>3, <2>4
  <2> QED
    BY Zenon, <2>1, <2>3, <2>5 DEF Becomes
<1> QED
  BY <1>4, <1>5

LEMMA ReadSound ==
  ASSUME Feeds, NEW i \in Sockets, Read(i)
  PROVE  \E x : Becomes(i, x, display.last)
<1> DEFINE c == conn[i]
           B == EventsAfter(c.cursor)
           x == [c EXCEPT !.pump = "send", !.batch = B]
<1>1. conn \in [Sockets -> Connection]
  BY SocketFacts
<1>2. /\ c \in Connection /\ Feeding(c, published, display.last) /\ Quiet(c, token)
      /\ Len(c.down) \in Nat /\ MaxEvents \in Nat
  BY SocketFacts
<1>3. c.pump = "read" /\ conn' = [conn EXCEPT ![i].pump = "send", ![i].batch = B]
  BY DEF Read
<1>4. c.cursor \in 0 .. MaxEvents
  BY <1>2 DEF Connection
<1>5. B \subseteq published /\ Unbroken(B, c.cursor) /\ published \subseteq Ids
  BY <1>2, <1>4, ReadIsUnbroken, StreamAssumption DEF Feeds, TypeOK
<1> HIDE DEF B
<1>6. conn' = [conn EXCEPT ![i] = x]
  BY Zenon, <1>1, <1>3
<1>7. /\ x \in Connection /\ x.server = c.server /\ x.client = c.client /\ x.up = c.up
      /\ x.cursor = c.cursor /\ x.pump = "send" /\ x.fresh = c.fresh /\ x.batch = B
      /\ x.down = c.down
  BY Zenon, <1>2, <1>5 DEF Connection
<1> HIDE DEF x, c
<1>8. Feeding(x, published, display.last)
  <2>1. \A k \in 1 .. Len(x.down) :
          /\ x.down[k] \subseteq published
          /\ \A e \in x.down[k] : \A d \in 1 .. e - 1 : Covered(x.down, k, display.last, d)
    BY Zenon, <1>2, <1>7 DEF Feeding
  <2>2. x.server = "open" /\ x.client # "closed" /\ x.pump # "off" =>
          \A d \in 1 .. x.cursor : Covered(x.down, Len(x.down), display.last, d)
    BY <1>2, <1>3, <1>7 DEF Feeding
  <2>3. \A n \in x.up : n <= display.last
    BY Zenon, <1>2, <1>7 DEF Feeding
  <2> QED
    BY <1>5, <1>7, <2>1, <2>2, <2>3 DEF Feeding
<1>9. Quiet(x, token)
  BY <1>2, <1>3, <1>7 DEF Quiet
<1>10. Len(x.down) <= Len(c.down)
  BY <1>2, <1>7
<1> QED
  BY Zenon, <1>6, <1>7, <1>8, <1>9, <1>10 DEF Becomes, Sound, c

(* The frame that Send appends follows what is under way already. *)
LEMMA SendSound ==
  ASSUME Feeds, NEW i \in Sockets, Send(i)
  PROVE  \E x : Becomes(i, x, display.last)
<1> DEFINE c == conn[i]
           sent == c.batch # {} /\ c.server = "open" /\ c.client # "closed"
           m == Max({c.cursor} \cup c.batch)
           q == IF sent THEN Append(c.down, c.batch) ELSE c.down
           y == [c EXCEPT !.cursor = m, !.down = q]
           last == display.last
<1>1. conn \in [Sockets -> Connection]
  BY SocketFacts
<1>2. /\ c \in Connection /\ Feeding(c, published, last) /\ Quiet(c, token)
      /\ Len(c.down) \in Nat /\ MaxEvents \in Nat
  BY SocketFacts
<1>3. c.pump = "send" /\ conn' = [conn EXCEPT ![i] = NextPump(y)]
  BY DEF Send
<1>4. c.cursor \in 0 .. MaxEvents /\ c.batch \in SUBSET Ids /\ c.down \in Seq(SUBSET Ids)
  BY <1>2 DEF Connection
<1>5. /\ m \in 0 .. MaxEvents /\ m >= c.cursor /\ (\A e \in c.batch : e <= m)
      /\ m = c.cursor \/ m \in c.batch
  <2> DEFINE S == {c.cursor} \cup c.batch
  <2>1. S \in SUBSET (0 .. MaxEvents)
    <3>1. ASSUME NEW e \in Ids PROVE e \in 0 .. MaxEvents
      BY <1>2 DEF Ids
    <3> QED
      BY <1>4, <3>1
  <2>2. c.cursor \in S /\ c.batch \subseteq S
    OBVIOUS
  <2>3. m \in S /\ \A e \in S : e <= m
    <3> HIDE DEF S
    <3>1. S # {}
      BY <2>2
    <3>2. Max(S) \in S /\ \A e \in S : e <= Max(S)
      BY Zenon, <1>2, <2>1, <3>1, GreatestOf
    <3> QED
      BY <3>2 DEF S
  <2> HIDE DEF m
  <2>4. m \in 0 .. MaxEvents /\ c.cursor <= m
    BY <2>1, <2>2, <2>3
  <2> QED
    BY <1>4, <2>2, <2>3, <2>4
<1> HIDE DEF m
<1>6. q \in Seq(SUBSET Ids)
  BY <1>4
<1>7. /\ y \in Connection /\ y.server = c.server /\ y.client = c.client /\ y.up = c.up
      /\ y.cursor = m /\ y.pump = "send" /\ y.fresh = c.fresh /\ y.batch = c.batch
      /\ y.down = q
  <2> HIDE DEF q
  <2> QED
    BY Zenon, <1>2, <1>3, <1>5, <1>6 DEF Connection
<1>8. c.batch \subseteq published /\ Unbroken(c.batch, c.cursor)
  BY Zenon, <1>2, <1>3 DEF Feeding
<1>9. Unbroken(c.batch, m)
  <2>1. \A d \in Int : d <= c.cursor => d <= m
    BY <1>4, <1>5
  <2> QED
    BY <1>8, <2>1 DEF Unbroken
<1>10. /\ \A k \in 1 .. Len(c.down) :
            /\ c.down[k] \subseteq published
            /\ \A e \in c.down[k] : \A d \in 1 .. e - 1 : Covered(c.down, k, last, d)
       /\ \A n \in c.up : n <= last
  BY Zenon, <1>2 DEF Feeding
<1>11. Feeding(y, published, last)
  <2>1. CASE sent
    <3>1. \A d \in 1 .. c.cursor : Covered(c.down, Len(c.down), last, d)
      BY <1>2, <1>3, <2>1 DEF Feeding
    <3>2. /\ Len(q) = Len(c.down) + 1 /\ q[Len(c.down) + 1] = c.batch
          /\ \A k \in 1 .. Len(c.down) : q[k] = c.down[k]
      BY <1>4, <2>1
    <3> HIDE DEF y, q, sent
    <3>3. ASSUME NEW d \in 1 .. m PROVE Covered(q, Len(q), last, d)
      <4>1. CASE d <= c.cursor
        <5>1. Covered(c.down, Len(c.down), last, d)
          BY <1>4, <1>5, <3>1, <4>1
        <5> QED
          BY <1>2, <3>2, <5>1 DEF Covered
      <4>2. CASE ~ (d <= c.cursor)
        <5>1. m \in c.batch
          BY <1>4, <1>5, <4>2
        <5>2. d \in c.batch
          <6>1. CASE d = m
            BY <5>1, <6>1
          <6>2. CASE d # m
            <7>1. d \in 1 .. m - 1
              BY <1>5, <6>2
            <7> QED
              BY <1>8, <4>2, <5>1, <7>1 DEF Unbroken
          <6> QED
            BY <6>1, <6>2
        <5> QED
          BY <1>2, <3>2, <5>2 DEF Covered
      <4> QED
        BY <4>1, <4>2
    <3>4. ASSUME NEW k \in 1 .. Len(q)
          PROVE  /\ q[k] \subseteq published
                 /\ \A e \in q[k] : \A d \in 1 .. e - 1 : Covered(q, k, last, d)
      <4>1. CASE k \in 1 .. Len(c.down)
        <5>1. q[k] = c.down[k] /\ \A j \in 1 .. k : q[j] = c.down[j]
          BY <1>2, <3>2, <4>1
        <5>2. /\ c.down[k] \subseteq published
              /\ \A e \in c.down[k] : \A d \in 1 .. e - 1 : Covered(c.down, k, last, d)
          BY Zenon, <1>10, <4>1
        <5>3. \A d : Covered(c.down, k, last, d) => Covered(q, k, last, d)
          BY <5>1 DEF Covered
        <5> QED
          BY Zenon, <5>1, <5>2, <5>3
      <4>2. CASE k = Len(c.down) + 1
        <5>1. q[k] = c.batch /\ k = Len(q)
          BY <3>2, <4>2
        <5>2. ASSUME NEW e \in c.batch, NEW d \in 1 .. e - 1 PROVE Covered(q, k, last, d)
          <6>1. e \in 0 .. MaxEvents /\ e <= m
            BY <1>2, <1>4, <1>5 DEF Ids
          <6>2. d \in 1 .. m
            BY <1>5, <5>2, <6>1
          <6> QED
            BY <3>3, <5>1, <6>2
        <5> QED
          BY <1>8, <5>1, <5>2
      <4> QED
        BY <1>2, <3>2, <4>1, <4>2
    <3> QED
      BY <1>7, <1>8, <1>9, <1>10, <3>3, <3>4 DEF Feeding
  <2>2. CASE ~ sent
    <3>1. y.down = c.down
      BY <1>7, <2>2
    <3>2. y.server = "open" /\ y.client # "closed" =>
            \A d \in 1 .. y.cursor : Covered(c.down, Len(c.down), last, d)
      <4> SUFFICES ASSUME y.server = "open", y.client # "closed"
                   PROVE  \A d \in 1 .. y.cursor : Covered(c.down, Len(c.down), last, d)
        OBVIOUS
      <4>1. c.batch = {}
        BY <1>7, <2>2
      <4>2. m = c.cursor
        BY <1>5, <4>1
      <4> HIDE DEF y, q, sent
      <4> QED
        BY <1>2, <1>3, <1>7, <4>2 DEF Feeding
    <3> HIDE DEF y, q, sent
    <3> QED
      BY <1>7, <1>8, <1>9, <1>10, <3>1, <3>2 DEF Feeding
  <2> QED
    BY <2>1, <2>2
<1>12. Quiet(y, token)
  <2> HIDE DEF y
  <2> QED
    BY <1>2, <1>3, <1>7 DEF Quiet
<1>13. Sound(y, published, last, token)
  BY <1>7, <1>11, <1>12 DEF Sound
<1>14. Sound(NextPump(y), published, last, token) /\ Len(NextPump(y).down) <= Len(y.down)
  BY Zenon, <1>2, <1>7, <1>13, NextPumpSound
<1>15. token = "killed" => y.down = c.down
  <2>1. token = "killed" => c.server # "open"
    BY <1>2, <1>3 DEF Quiet
  <2> QED
    BY <1>7, <2>1
<1> HIDE DEF y
<1> QED
  BY Zenon, <1>3, <1>14, <1>15 DEF Becomes

LEMMA RoundSound ==
  ASSUME Feeds, NEW i \in Sockets,
         PumpFails(i) \/ PumpTimer(i) \/ RevalidationDue(i) \/ HangUp(i) \/ ServerCloses(i)
  PROVE  \E x : Becomes(i, x, display.last)
<1> DEFINE c == conn[i]
<1>1. conn \in [Sockets -> Connection] /\ Sound(c, published, display.last, token)
  BY SocketFacts
<1>2. /\ c \in Connection /\ Feeding(c, published, display.last) /\ Quiet(c, token)
      /\ Len(c.down) \in Nat /\ MaxEvents \in Nat
  BY SocketFacts
<1>3. CASE PumpFails(i)
  <2>1. c.pump # "off" /\ conn' = [conn EXCEPT ![i] = NextPump(c)]
    BY <1>3 DEF PumpFails
  <2>2. Sound(NextPump(c), published, display.last, token) /\ Len(NextPump(c).down) <= Len(c.down)
    BY <1>1, <1>2, <2>1, NextPumpSound
  <2> QED
    BY Zenon, <2>1, <2>2 DEF Becomes
<1>4. CASE HangUp(i) \/ ServerCloses(i)
  <2>1. conn' = [conn EXCEPT ![i] = Shut(c)]
    BY <1>4 DEF HangUp, ServerCloses
  <2>2. Sound(Shut(c), published, display.last, token) /\ Len(Shut(c).down) <= Len(c.down)
    BY <1>1, <1>2, ShutSound
  <2> QED
    BY Zenon, <2>1, <2>2 DEF Becomes
<1>5. CASE PumpTimer(i)
  <2> DEFINE s == IF c.fresh THEN "read" ELSE "probe"
             x == [c EXCEPT !.pump = s]
  <2>1. c.pump = "timer" /\ conn' = [conn EXCEPT ![i].pump = s]
    BY <1>5 DEF PumpTimer
  <2>2. conn' = [conn EXCEPT ![i] = x]
    BY <1>1, <2>1
  <2>3. /\ x \in Connection /\ x.server = c.server /\ x.client = c.client /\ x.up = c.up
        /\ x.cursor = c.cursor /\ x.pump = s /\ x.fresh = c.fresh
        /\ x.down = c.down
    BY <1>2 DEF Connection
  <2>4. s \in {"read", "probe"} /\ (~ c.fresh => s = "probe")
    OBVIOUS
  <2> HIDE DEF x, c, s
  <2>5. Feeding(x, published, display.last)
    BY <1>2, <2>1, <2>3, <2>4, SameStream
  <2>6. Quiet(x, token)
    BY <1>2, <2>1, <2>3, <2>4 DEF Quiet
  <2>7. Len(x.down) <= Len(c.down)
    BY <1>2, <2>3
  <2> QED
    BY Zenon, <2>2, <2>3, <2>5, <2>6, <2>7 DEF Becomes, Sound, c
<1>6. CASE RevalidationDue(i)
  <2> DEFINE x == [c EXCEPT !.fresh = FALSE]
  <2>1. conn' = [conn EXCEPT ![i].fresh = FALSE]
    BY <1>6 DEF RevalidationDue
  <2>2. conn' = [conn EXCEPT ![i] = x]
    BY <1>1, <2>1
  <2>3. /\ x \in Connection /\ x.server = c.server /\ x.client = c.client /\ x.up = c.up
        /\ x.cursor = c.cursor /\ x.pump = c.pump /\ x.fresh = FALSE /\ x.batch = c.batch
        /\ x.down = c.down
    BY Zenon, <1>2 DEF Connection
  <2> HIDE DEF x, c
  <2>4. Feeding(x, published, display.last)
    BY <1>2, <2>3, SameStream
  <2>5. Quiet(x, token)
    BY <1>2, <2>3 DEF Quiet
  <2>6. Len(x.down) <= Len(c.down)
    BY <1>2, <2>3
  <2> QED
    BY Zenon, <2>2, <2>3, <2>4, <2>5, <2>6 DEF Becomes, Sound, c
<1> QED
  BY <1>3, <1>4, <1>5, <1>6

(* 'open': the subscription starts from the display's own lastSequenceId. *)
LEMMA OpenedSound ==
  ASSUME Feeds, NEW i \in Sockets, Opened(i)
  PROVE  \E x : Becomes(i, x, display.last)
<1> DEFINE c == conn[i]
           x == [c EXCEPT !.client = "open", !.up = {display.last}]
<1>1. conn \in [Sockets -> Connection] /\ display.last \in 0 .. MaxEvents /\ MaxEvents \in Nat
  BY SocketFacts
<1>2. /\ c \in Connection /\ Feeding(c, published, display.last) /\ Quiet(c, token)
      /\ Len(c.down) \in Nat
  BY SocketFacts
<1>3. /\ c.client = "connecting"
      /\ conn' = [conn EXCEPT ![i].client = "open", ![i].up = {display.last}]
  BY DEF Opened
<1>4. conn' = [conn EXCEPT ![i] = x]
  BY Zenon, <1>1, <1>3
<1>5. /\ x \in Connection /\ x.server = c.server /\ x.client = "open" /\ x.up = {display.last}
      /\ x.cursor = c.cursor /\ x.pump = c.pump /\ x.fresh = c.fresh /\ x.batch = c.batch
      /\ x.down = c.down
  BY Zenon, <1>1, <1>2 DEF Connection
<1> HIDE DEF x, c
<1>6. Feeding(x, published, display.last)
  <2>1. \A k \in 1 .. Len(x.down) :
          /\ x.down[k] \subseteq published
          /\ \A e \in x.down[k] : \A d \in 1 .. e - 1 : Covered(x.down, k, display.last, d)
    BY Zenon, <1>2, <1>5 DEF Feeding
  <2>2. x.server = "open" /\ x.client # "closed" /\ x.pump # "off" =>
          \A d \in 1 .. x.cursor : Covered(x.down, Len(x.down), display.last, d)
    BY <1>2, <1>3, <1>5 DEF Feeding
  <2>3. \A n \in x.up : n <= display.last
    BY <1>1, <1>5
  <2>4. x.pump = "send" => x.batch \subseteq published /\ Unbroken(x.batch, x.cursor)
    BY Zenon, <1>2, <1>5 DEF Feeding
  <2> QED
    BY Zenon, <2>1, <2>2, <2>3, <2>4 DEF Feeding
<1>7. Quiet(x, token)
  BY <1>2, <1>5 DEF Quiet
<1>8. Len(x.down) <= Len(c.down)
  BY <1>2, <1>5
<1> QED
  BY Zenon, <1>4, <1>5, <1>6, <1>7, <1>8 DEF Becomes, Sound, c

(* 'message': the frames that stay behind rest on the one that is applied. *)
LEMMA MessageSound ==
  ASSUME Feeds, NEW i \in Sockets, Message(i)
  PROVE  LET E == Head(conn[i].down) IN
         /\ E \in SUBSET Ids /\ E \subseteq published /\ Unbroken(E, display.last)
         /\ applied' = applied \o InOrder(New(E)) /\ display' = WithLast(E)
         /\ \E x : Becomes(i, x, WithLast(E).last)
<1> DEFINE c == conn[i]
           E == Head(c.down)
           x == [c EXCEPT !.down = Tail(c.down)]
           last == WithLast(E).last
<1>1. conn \in [Sockets -> Connection] /\ display.last \in 0 .. MaxEvents /\ MaxEvents \in Nat
  BY SocketFacts
<1>2. /\ c \in Connection /\ Feeding(c, published, display.last) /\ Quiet(c, token)
      /\ Len(c.down) \in Nat
  BY SocketFacts
<1>3. /\ c.down # << >> /\ conn' = [conn EXCEPT ![i].down = Tail(c.down)]
      /\ applied' = applied \o InOrder(New(E)) /\ display' = WithLast(E)
      /\ c.client \in {"open", "closing"}
  BY DEF Message
<1>4. /\ c.down \in Seq(SUBSET Ids) /\ E = c.down[1] /\ 1 \in 1 .. Len(c.down)
      /\ Tail(c.down) \in Seq(SUBSET Ids) /\ Len(Tail(c.down)) = Len(c.down) - 1
      /\ \A k \in 1 .. Len(Tail(c.down)) : Tail(c.down)[k] = c.down[k + 1]
  BY <1>2, <1>3 DEF Connection
<1>5. /\ \A k \in 1 .. Len(c.down) :
           /\ c.down[k] \subseteq published
           /\ \A e \in c.down[k] : \A d \in 1 .. e - 1 : Covered(c.down, k, display.last, d)
      /\ c.server = "open" /\ c.client # "closed" /\ c.pump # "off" =>
           \A d \in 1 .. c.cursor : Covered(c.down, Len(c.down), display.last, d)
      /\ c.pump = "send" => c.batch \subseteq published /\ Unbroken(c.batch, c.cursor)
      /\ \A n \in c.up : n <= display.last
  BY Zenon, <1>2 DEF Feeding
<1>6. E \in SUBSET Ids /\ E \subseteq published
  BY <1>4, <1>5
<1>7. Unbroken(E, display.last)
  <2>1. \A d : Covered(c.down, 1, display.last, d) => d <= display.last \/ d \in E
    BY <1>4 DEF Covered
  <2> QED
    BY <1>4, <1>5, <2>1 DEF Unbroken
<1>8. last >= display.last /\ last \in 0 .. MaxEvents /\ \A e \in E : e <= last
  BY <1>6, <1>7, Delivery DEF Feeds
<1>9. conn' = [conn EXCEPT ![i] = x]
  BY <1>1, <1>3
<1>10. /\ x \in Connection /\ x.server = c.server /\ x.client = c.client /\ x.up = c.up
       /\ x.cursor = c.cursor /\ x.pump = c.pump /\ x.fresh = c.fresh /\ x.batch = c.batch
       /\ x.down = Tail(c.down)
  <2>1. Tail(c.down) \in Seq(SUBSET Ids)
    BY <1>4
  <2> QED
    BY Zenon, <1>2, <2>1 DEF Connection
<1> HIDE DEF x, c, E, last
<1>11. ASSUME NEW k \in 1 .. Len(c.down), NEW d \in Int, Covered(c.down, k, display.last, d)
       PROVE  Covered(x.down, k - 1, last, d)
  <2>1. CASE d <= display.last
    BY <1>1, <1>8, <2>1 DEF Covered
  <2>2. ASSUME NEW j \in 1 .. k, d \in c.down[j] PROVE Covered(x.down, k - 1, last, d)
    <3>1. CASE j = 1
      BY <1>4, <1>8, <2>2, <3>1 DEF Covered
    <3>2. CASE j # 1
      <4>1. j - 1 \in 1 .. k - 1 /\ j - 1 \in 1 .. Len(Tail(c.down)) /\ (j - 1) + 1 = j
        BY <1>2, <1>4, <3>2
      <4>2. x.down[j - 1] = c.down[j]
        BY <1>4, <1>10, <4>1
      <4> QED
        BY <2>2, <4>1, <4>2 DEF Covered
    <3> QED
      BY <3>1, <3>2
  <2> QED
    BY <1>11, <2>1, <2>2 DEF Covered
<1>12. Feeding(x, published, last)
  <2>1. ASSUME NEW k \in 1 .. Len(x.down)
        PROVE  /\ x.down[k] \subseteq published
               /\ \A e \in x.down[k] : \A d \in 1 .. e - 1 : Covered(x.down, k, last, d)
    <3>1. k + 1 \in 1 .. Len(c.down) /\ (k + 1) - 1 = k /\ x.down[k] = c.down[k + 1]
      BY <1>2, <1>4, <1>10
    <3>2. /\ c.down[k + 1] \subseteq published
          /\ \A e \in c.down[k + 1] : \A d \in 1 .. e - 1 :
               Covered(c.down, k + 1, display.last, d)
      BY Zenon, <1>5, <3>1
    <3>3. \A d \in Int : Covered(c.down, k + 1, display.last, d) => Covered(x.down, k, last, d)
      BY <1>11, <3>1
    <3> QED
      BY <3>1, <3>2, <3>3
  <2>2. x.server = "open" /\ x.client # "closed" /\ x.pump # "off" =>
          \A d \in 1 .. x.cursor : Covered(x.down, Len(x.down), last, d)
    <3>1. Len(c.down) \in 1 .. Len(c.down) /\ Len(c.down) - 1 = Len(x.down)
      BY <1>2, <1>4, <1>10
    <3>2. \A d \in Int : Covered(c.down, Len(c.down), display.last, d)
                           => Covered(x.down, Len(x.down), last, d)
      BY <1>11, <3>1
    <3> QED
      BY <1>5, <1>10, <3>2
  <2>3. \A n \in x.up : n <= last
    <3>1. x.up \subseteq 0 .. MaxEvents
      BY <1>10 DEF Connection
    <3> QED
      BY <1>1, <1>5, <1>8, <1>10, <3>1
  <2>4. x.pump = "send" => x.batch \subseteq published /\ Unbroken(x.batch, x.cursor)
    BY Zenon, <1>5, <1>10
  <2> QED
    BY Zenon, <2>1, <2>2, <2>3, <2>4 DEF Feeding
<1>13. Quiet(x, token)
  BY <1>2, <1>10 DEF Quiet
<1>14. Len(x.down) <= Len(c.down)
  BY <1>2, <1>4, <1>10
<1>15. Becomes(i, x, last)
  BY <1>9, <1>10, <1>12, <1>13, <1>14 DEF Becomes, Sound, c
<1> QED
  BY Zenon, <1>3, <1>6, <1>7, <1>15 DEF E, last, c

-----------------------------------------------------------------------------
(* The steps of the whole system *)

(* No connection goes bad, and after a kill nothing is put on any of them.  *)
SocketsKept ==
  /\ conn' \in [Sockets -> Connection]
  /\ \A i \in Sockets : Sound(conn'[i], published', display'.last, token')
  /\ token = "killed" => \A i \in Sockets : Len(conn'[i].down) <= Len(conn[i].down)

LoopsKept ==
  /\ loop' \in [Loops -> Loop]
  /\ \A j \in Loops : Polling(loop'[j], published', display'.last)

(* What every step has to show. *)
Advances ==
  /\ Feeds'
  /\ token = "killed" => \A i \in Sockets : Len(conn'[i].down) <= Len(conn[i].down)
  /\ published \subseteq published' /\ display.last <= display'.last
  /\ published' = published \/ applied' = applied

LEMMA Quietly ==
  ASSUME Feeds, display' \in Display, display'.last = display.last,
         applied' = applied, published' = published,
         token' \in {"active", "revoked", "killed"},
         starts' \in 0 .. MaxStarts, faults' \in 0 .. MaxFaults,
         SocketsKept, LoopsKept
  PROVE  Advances
<1>1. TypeOK'
  BY DEF Feeds, TypeOK, SocketsKept, LoopsKept
<1>2. /\ Numbered(published') /\ applied' = Told(display'.last)
      /\ 1 .. display'.last \subseteq published'
  BY Zenon DEF Feeds
<1>3. display.last <= display'.last
  BY DEF Feeds, TypeOK, Display
<1> QED
  BY Zenon, <1>1, <1>2, <1>3 DEF Advances, Feeds, SocketsKept, LoopsKept

LEMMA Ticks ==
  ASSUME Feeds
  PROVE  /\ starts \in 0 .. MaxStarts /\ faults \in 0 .. MaxFaults
         /\ token \in {"active", "revoked", "killed"}
         /\ Fault => faults' \in 0 .. MaxFaults
         /\ display \in Display /\ display.last \in 0 .. MaxEvents /\ MaxEvents \in Nat
         /\ published \subseteq Ids /\ TypeOK
BY StreamAssumption DEF Feeds, TypeOK, Fault, Display

LEMMA SocketsAlone ==
  ASSUME Feeds, conn' = conn, token' = token, published \subseteq published',
         display'.last \in 0 .. MaxEvents, display.last <= display'.last
  PROVE  SocketsKept
<1>1. conn \in [Sockets -> Connection]
  BY DEF Feeds, TypeOK
<1>2. ASSUME NEW i \in Sockets PROVE Sound(conn[i], published', display'.last, token)
  <2>1. Sound(conn[i], published, display.last, token)
    BY SocketFacts
  <2> QED
    BY <2>1, Ticks, SoundGrows
<1>3. \A i \in Sockets : Len(conn[i].down) <= Len(conn[i].down)
  BY SocketFacts
<1> QED
  BY Zenon, <1>1, <1>2, <1>3 DEF SocketsKept

LEMMA LoopsAlone ==
  ASSUME Feeds, loop' = loop, published \subseteq published',
         display'.last \in 0 .. MaxEvents, display.last <= display'.last
  PROVE  LoopsKept
<1>1. loop \in [Loops -> Loop]
  BY DEF Feeds, TypeOK
<1>2. ASSUME NEW j \in Loops PROVE Polling(loop[j], published', display'.last)
  <2>1. Polling(loop[j], published, display.last)
    BY DEF Feeds
  <2> QED
    BY <2>1, Ticks, PollingGrows
<1> QED
  BY Zenon, <1>1, <1>2 DEF LoopsKept

LEMMA OneSocket ==
  ASSUME Feeds, NEW i \in Sockets, NEW x, Becomes(i, x, display'.last),
         token' = token, published' = published,
         display'.last \in 0 .. MaxEvents, display.last <= display'.last
  PROVE  SocketsKept
<1>1. conn \in [Sockets -> Connection] /\ x \in Connection
  BY DEF Feeds, TypeOK, Becomes, Sound
<1>2. conn' = [conn EXCEPT ![i] = x]
  BY DEF Becomes
<1>3. conn' \in [Sockets -> Connection] /\ conn'[i] = x
      /\ \A k \in Sockets : k # i => conn'[k] = conn[k]
  BY <1>1, <1>2
<1>4. ASSUME NEW k \in Sockets
      PROVE  /\ Sound(conn'[k], published, display'.last, token)
             /\ token = "killed" => Len(conn'[k].down) <= Len(conn[k].down)
  <2>1. CASE k = i
    BY <1>3, <2>1 DEF Becomes
  <2>2. CASE k # i
    <3>1. Sound(conn[k], published, display.last, token) /\ Len(conn[k].down) \in Nat
      BY SocketFacts
    <3>2. Sound(conn[k], published, display'.last, token)
      BY <3>1, Ticks, SoundGrows
    <3> QED
      BY <1>3, <2>2, <3>1, <3>2
  <2> QED
    BY <2>1, <2>2
<1> QED
  BY Zenon, <1>3, <1>4 DEF SocketsKept

LEMMA OneLoop ==
  ASSUME Feeds, NEW j \in Loops, NEW l, Polling(l, published, display'.last),
         loop' = [loop EXCEPT ![j] = l], published' = published,
         display'.last \in 0 .. MaxEvents, display.last <= display'.last
  PROVE  LoopsKept
<1>1. loop \in [Loops -> Loop] /\ l \in Loop
  BY DEF Feeds, TypeOK, Polling
<1>2. loop' \in [Loops -> Loop] /\ loop'[j] = l /\ \A k \in Loops : k # j => loop'[k] = loop[k]
  BY <1>1
<1>3. ASSUME NEW k \in Loops PROVE Polling(loop'[k], published, display'.last)
  <2>1. CASE k = j
    BY <1>2, <2>1
  <2>2. CASE k # j
    <3>1. Polling(loop[k], published, display.last)
      BY DEF Feeds
    <3>2. Polling(loop[k], published, display'.last)
      BY <3>1, Ticks, PollingGrows
    <3> QED
      BY <1>2, <2>2, <3>2
  <2> QED
    BY <2>1, <2>2
<1> QED
  BY Zenon, <1>2, <1>3 DEF LoopsKept

LEMMA RestingPolls ==
  ASSUME NEW P, NEW last \in 0 .. MaxEvents, MaxEvents \in Nat
  PROVE  /\ Polling(Resting, P, last)
         /\ Polling([Resting EXCEPT !.phase = "timer"], P, last)
         /\ \A n \in 0 .. MaxEvents :
              n <= last => Polling([Resting EXCEPT !.phase = "asked", !.after = n], P, last)
<1>1. ASSUME NEW l \in Loop, l.phase # "answered", l.after <= last PROVE Polling(l, P, last)
  BY <1>1 DEF Polling
<1>2. Resting \in Loop /\ Resting.phase = "off" /\ Resting.after = 0
  BY DEF Resting, Loop
<1>3. ASSUME NEW ph \in {"asked", "timer"}, NEW n \in 0 .. MaxEvents
      PROVE  /\ [Resting EXCEPT !.phase = ph, !.after = n] \in Loop
             /\ [Resting EXCEPT !.phase = ph, !.after = n].phase = ph
             /\ [Resting EXCEPT !.phase = ph, !.after = n].after = n
  BY Zenon, <1>2 DEF Loop
<1>4. [Resting EXCEPT !.phase = "timer"] \in Loop /\ [Resting EXCEPT !.phase = "timer"].phase = "timer"
      /\ [Resting EXCEPT !.phase = "timer"].after = 0
  BY <1>2 DEF Loop
<1>5. Polling(Resting, P, last)
  BY <1>1, <1>2
<1>6. Polling([Resting EXCEPT !.phase = "timer"], P, last)
  <2> DEFINE t == [Resting EXCEPT !.phase = "timer"]
  <2>1. t \in Loop /\ t.phase = "timer" /\ t.after = 0
    BY <1>4
  <2> HIDE DEF t
  <2>2. Polling(t, P, last)
    BY <1>1, <2>1
  <2> QED
    BY <2>2 DEF t
<1>7. ASSUME NEW n \in 0 .. MaxEvents, n <= last
      PROVE  Polling([Resting EXCEPT !.phase = "asked", !.after = n], P, last)
  BY Zenon, <1>1, <1>3, <1>7
<1> QED
  BY Zenon, <1>5, <1>6, <1>7

(* scheduleReconnect asks for what follows the display's own position. *)
LEMMA ReconnectKeeps ==
  ASSUME Feeds, NEW d \in Display, d.last = display.last, ScheduleReconnect(d),
         published' = published
  PROVE  display' \in Display /\ display'.last = display.last /\ LoopsKept
<1>1. display.last \in 0 .. MaxEvents /\ MaxEvents \in Nat /\ MaxRetries \in Nat
  BY Ticks, StreamAssumption
<1>2. CASE d.wsFailures >= MaxRetries
  <2>1. /\ display' = [d EXCEPT !.state = "polling"]
        /\ loop' = [loop EXCEPT ![starts'].phase = "asked", ![starts'].after = d.last]
    BY <1>2 DEF ScheduleReconnect
  <2>2. display' \in Display /\ display'.last = display.last
    BY <2>1 DEF Display
  <2>3. loop \in [Loops -> Loop]
    BY DEF Feeds, TypeOK
  <2> DEFINE k == starts'
             n == d.last
  <2>4. loop' = [loop EXCEPT ![k].phase = "asked", ![k].after = n]
    BY <2>1
  <2> HIDE DEF k, n
  <2>5. CASE k \in Loops
    <3> DEFINE l == [loop[k] EXCEPT !.phase = "asked", !.after = n]
    <3>1. loop' = [loop EXCEPT ![k] = l]
      BY Zenon, <2>3, <2>4, <2>5
    <3>2. n \in 0 .. MaxEvents /\ n = display.last
      BY <1>1 DEF n
    <3>3. l \in Loop /\ l.phase = "asked" /\ l.after = n
      BY Zenon, <2>3, <2>5, <3>2 DEF Loop
    <3> HIDE DEF l
    <3>4. Polling(l, published, display'.last)
      BY <1>1, <2>2, <3>2, <3>3 DEF Polling
    <3>5. display'.last \in 0 .. MaxEvents /\ display.last <= display'.last
      BY <1>1, <2>2
    <3>6. LoopsKept
      BY Zenon, <2>5, <3>1, <3>4, <3>5, OneLoop
    <3> QED
      BY <2>2, <3>6
  <2>6. CASE k \notin Loops
    <3>1. loop' = loop
      BY <2>3, <2>4, <2>6
    <3> QED
      BY <1>1, <2>2, <3>1, LoopsAlone
  <2> QED
    BY <2>2, <2>5, <2>6
<1>3. CASE ~ (d.wsFailures >= MaxRetries)
  <2>1. /\ display' = [d EXCEPT !.state = "backing-off", !.pendingTimer = TRUE,
                                !.wsFailures = @ + 1]
        /\ loop' = loop
    BY <1>3 DEF ScheduleReconnect
  <2>2. d.wsFailures \in 0 .. MaxRetries /\ d.wsFailures + 1 \in 0 .. MaxRetries
    BY <1>1, <1>3 DEF Display
  <2>3. display' \in Display /\ display'.last = display.last
    BY Zenon, <2>1, <2>2 DEF Display
  <2> QED
    BY <1>1, <2>1, <2>3, LoopsAlone
<1> QED
  BY <1>2, <1>3

LEMMA RoundOverKeeps ==
  ASSUME Feeds, NEW d \in Display, d.last >= display.last, NEW j \in Loops, RoundOver(d, j),
         published' = published
  PROVE  display' \in Display /\ display'.last = d.last /\ LoopsKept
<1>1. display.last \in 0 .. MaxEvents /\ MaxEvents \in Nat /\ d.last \in 0 .. MaxEvents
  BY Ticks DEF Display
<1>2. display' \in Display /\ display'.last = d.last
  <2>1. display' = d \/ display' = [d EXCEPT !.pollTimer = j]
    BY Zenon DEF RoundOver
  <2>2. [d EXCEPT !.pollTimer = j] \in Display /\ [d EXCEPT !.pollTimer = j].last = d.last
    BY DEF Display
  <2> QED
    BY Zenon, <2>1, <2>2
<1>3. PICK l \in {Resting, [Resting EXCEPT !.phase = "timer"]} : loop' = [loop EXCEPT ![j] = l]
  BY Zenon DEF RoundOver
<1>4. Polling(l, published, display'.last)
  <2>1. display'.last \in 0 .. MaxEvents
    BY <1>1, <1>2
  <2>2. /\ Polling(Resting, published, display'.last)
        /\ Polling([Resting EXCEPT !.phase = "timer"], published, display'.last)
    BY Zenon, <1>1, <2>1, RestingPolls
  <2> QED
    BY Zenon, <2>2
<1> QED
  BY Zenon, <1>1, <1>2, <1>3, <1>4, OneLoop

(* handleSocketFailure: what was under way to the display is lost. *)
LEMMA FailureSound ==
  ASSUME Feeds, NEW i \in Sockets, HandleSocketFailure(i)
  PROVE  \E x : Becomes(i, x, display.last)
<1> DEFINE c == conn[i]
           y == [c EXCEPT !.client = "closed", !.down = << >>]
<1>1. /\ c \in Connection /\ Feeding(c, published, display.last) /\ Quiet(c, token)
      /\ Len(c.down) \in Nat /\ MaxEvents \in Nat
  BY SocketFacts
<1>2. conn' = [conn EXCEPT ![i] = Settled(y)]
  BY DEF HandleSocketFailure
<1>3. /\ y \in Connection /\ y.server = c.server /\ y.client = "closed" /\ y.up = c.up
      /\ y.cursor = c.cursor /\ y.pump = c.pump /\ y.fresh = c.fresh /\ y.batch = c.batch
      /\ y.down = << >>
  <2>1. << >> \in Seq(SUBSET Ids)
    OBVIOUS
  <2>2. ASSUME NEW z \in Seq(SUBSET Ids)
        PROVE  [c EXCEPT !.client = "closed", !.down = z] \in Connection
    BY Zenon, <1>1 DEF Connection
  <2>3. y \in Connection
    BY Zenon, <2>1, <2>2
  <2> HIDE DEF c
  <2>4. /\ y.server = c.server /\ y.client = "closed" /\ y.up = c.up
        /\ y.cursor = c.cursor /\ y.pump = c.pump /\ y.fresh = c.fresh /\ y.batch = c.batch
        /\ y.down = << >>
    BY <1>1 DEF Connection
  <2> QED
    BY <2>3, <2>4
<1> HIDE DEF y, c
<1>4. Len(y.down) = 0
  BY <1>3
<1>5. Feeding(y, published, display.last)
  <2>1. c.pump = "send" => c.batch \subseteq published /\ Unbroken(c.batch, c.cursor)
    BY Zenon, <1>1 DEF Feeding
  <2>2. \A n \in c.up : n <= display.last
    BY Zenon, <1>1 DEF Feeding
  <2>3. 1 .. Len(y.down) = {}
    BY <1>4
  <2> QED
    BY Zenon, <1>3, <2>1, <2>2, <2>3 DEF Feeding
<1>6. Quiet(y, token)
  BY <1>1, <1>3 DEF Quiet
<1>7. Sound(y, published, display.last, token)
  BY <1>3, <1>5, <1>6 DEF Sound
<1>8. Sound(Settled(y), published, display.last, token) /\ Len(Settled(y).down) <= Len(y.down)
  BY <1>1, <1>7, SettledSound
<1>9. Settled(y) \in Connection
  BY <1>8 DEF Sound
<1>10. Len(Settled(y).down) \in Nat
  BY <1>9 DEF Connection
<1>11. Len(Settled(y).down) <= Len(c.down)
  BY <1>1, <1>4, <1>8, <1>10
<1> QED
  BY Zenon, <1>2, <1>8, <1>11 DEF Becomes, c

(* Only the client's end of a connection changes, and it does not close. *)
LEMMA ClientSound ==
  ASSUME Feeds, NEW i \in Sockets, NEW s \in {"connecting", "closing"},
         s = "closing" => conn[i].client \in Live,
         s = "connecting" => conn[i] = Unused
  PROVE  /\ Sound([conn[i] EXCEPT !.client = s], published, display.last, token)
         /\ [conn[i] EXCEPT !.client = s].down = conn[i].down
<1> DEFINE c == conn[i]
           x == [c EXCEPT !.client = s]
<1>1. c \in Connection /\ Feeding(c, published, display.last) /\ Quiet(c, token)
  BY SocketFacts
<1>2. /\ x \in Connection /\ x.server = c.server /\ x.client = s /\ x.up = c.up
      /\ x.cursor = c.cursor /\ x.pump = c.pump /\ x.fresh = c.fresh /\ x.batch = c.batch
      /\ x.down = c.down
  BY <1>1 DEF Connection
<1>3. c.server = "none" \/ c.client # "closed"
  <2>1. Unused.server = "none"
    BY DEF Unused
  <2> QED
    BY <2>1 DEF Live
<1> HIDE DEF x, c
<1>4. Feeding(x, published, display.last)
  BY <1>1, <1>2, <1>3, SameStream
<1>5. Quiet(x, token)
  BY <1>1, <1>2 DEF Quiet
<1> QED
  BY <1>2, <1>4, <1>5 DEF Sound, x, c

LEMMA ConnectKeeps ==
  ASSUME Feeds, NEW d \in Display, d.last = display.last, ConnectWebSocket(d),
         published' = published, token' = token
  PROVE  /\ display' \in Display /\ display'.last = display.last /\ LoopsKept
         /\ SocketsKept /\ faults' \in 0 .. MaxFaults
<1>1. /\ display.last \in 0 .. MaxEvents /\ MaxEvents \in Nat /\ faults \in 0 .. MaxFaults
      /\ Fault => faults' \in 0 .. MaxFaults
  BY Ticks
<1> DEFINE free == {i \in Sockets : conn[i] = Unused}
           i == Min(free)
<1>2. CASE /\ free # {}
           /\ conn' = [conn EXCEPT ![i].client = "connecting"]
           /\ display' = [d EXCEPT !.state = "connecting", !.socket = i]
           /\ UNCHANGED <<loop, faults>>
  <2>1. i \in free
    <3>1. free \in SUBSET Nat
      BY StreamAssumption DEF Sockets
    <3> HIDE DEF free
    <3> QED
      BY <1>2, <3>1, LeastOf
  <2>2. i \in Sockets /\ conn[i] = Unused
    BY <2>1
  <2>3. /\ conn' = [conn EXCEPT ![i].client = "connecting"]
        /\ display' = [d EXCEPT !.state = "connecting", !.socket = i]
        /\ loop' = loop /\ faults' = faults
    BY <1>2
  <2> HIDE DEF i
  <2> DEFINE x == [conn[i] EXCEPT !.client = "connecting"]
  <2>4. display' \in Display /\ display'.last = display.last
    BY Zenon, <2>2, <2>3 DEF Display
  <2>5. Sound(x, published, display.last, token) /\ x.down = conn[i].down
    BY Zenon, <2>2, ClientSound
  <2>6. conn \in [Sockets -> Connection] /\ Len(conn[i].down) \in Nat
    BY <2>2, SocketFacts
  <2>7. conn' = [conn EXCEPT ![i] = x]
    BY <2>2, <2>3, <2>6
  <2> HIDE DEF x
  <2>8. Becomes(i, x, display'.last)
    BY <2>4, <2>5, <2>6, <2>7 DEF Becomes
  <2>9. display'.last \in 0 .. MaxEvents /\ display.last <= display'.last
    BY <1>1, <2>4
  <2>10. SocketsKept
    BY <2>2, <2>8, <2>9, OneSocket
  <2>11. LoopsKept
    BY <2>3, <2>9, LoopsAlone
  <2> QED
    BY <1>1, <2>3, <2>4, <2>10, <2>11
<1>3. CASE Fault /\ ScheduleReconnect(d) /\ UNCHANGED conn
  <2>1. display' \in Display /\ display'.last = display.last /\ LoopsKept
    BY <1>3, ReconnectKeeps
  <2>2. display'.last \in 0 .. MaxEvents /\ display.last <= display'.last
    BY <1>1, <2>1
  <2>3. SocketsKept
    BY <1>3, <2>2, SocketsAlone
  <2> QED
    BY <1>1, <1>3, <2>1, <2>3
<1> QED
  BY Zenon, <1>2, <1>3 DEF ConnectWebSocket

LEMMA CloseKeeps ==
  ASSUME Feeds, CloseSocket, display.socket # None => conn[display.socket].client \in Live,
         published' = published, token' = token, display'.last = display.last
  PROVE  SocketsKept
<1> DEFINE x(i) == IF i = display.socket THEN [conn[i] EXCEPT !.client = "closing"] ELSE conn[i]
<1>1. conn' = [i \in Sockets |-> x(i)]
  BY DEF CloseSocket
<1>2. ASSUME NEW i \in Sockets
      PROVE  /\ Sound(x(i), published, display.last, token) /\ x(i).down = conn[i].down
  <2>1. CASE i = display.socket
    <3>1. conn[i].client \in Live
      BY <2>1, StreamAssumption DEF None, Sockets
    <3> QED
      BY Zenon, <2>1, <3>1, ClientSound
  <2>2. CASE i # display.socket
    BY <2>2, SocketFacts
  <2> QED
    BY <2>1, <2>2
<1>3. ASSUME NEW i \in Sockets
      PROVE  /\ x(i) \in Connection /\ Len(x(i).down) <= Len(conn[i].down)
  <2>1. Sound(x(i), published, display.last, token) /\ x(i).down = conn[i].down
    BY <1>2
  <2>2. Len(conn[i].down) \in Nat
    BY SocketFacts
  <2> HIDE DEF x
  <2>3. x(i) \in Connection
    BY <2>1 DEF Sound
  <2> QED
    BY <2>1, <2>2, <2>3
<1> HIDE DEF x
<1>4. conn' \in [Sockets -> Connection] /\ \A i \in Sockets : conn'[i] = x(i)
  BY <1>1, <1>3
<1> QED
  BY Zenon, <1>2, <1>3, <1>4 DEF SocketsKept

LEMMA StopKeeps ==
  ASSUME Feeds, Attached, Stop
  PROVE  Advances
<1>1. /\ display' = [display EXCEPT !.state = "stopped", !.socket = None,
                                    !.pendingTimer = FALSE, !.pollTimer = None]
      /\ loop' = [j \in Loops |-> IF j = display.pollTimer THEN Resting ELSE loop[j]]
      /\ CloseSocket
      /\ published' = published /\ token' = token /\ applied' = applied
      /\ starts' = starts /\ faults' = faults
  BY DEF Stop
<1>2. display' \in Display /\ display'.last = display.last
  BY Zenon, <1>1, Ticks DEF Display
<1>3. SocketsKept
  BY <1>1, <1>2, CloseKeeps DEF Attached
<1>4. LoopsKept
  <2>1. ASSUME NEW j \in Loops
        PROVE  loop'[j] \in Loop /\ Polling(loop'[j], published, display.last)
    <3>1. loop'[j] = IF j = display.pollTimer THEN Resting ELSE loop[j]
      BY <1>1
    <3>2. Polling(Resting, published, display.last)
      BY Zenon, Ticks, RestingPolls
    <3>3. Polling(loop[j], published, display.last)
      BY DEF Feeds
    <3> QED
      BY <3>1, <3>2, <3>3 DEF Polling
  <2>2. loop' \in [Loops -> Loop]
    BY <1>1, <2>1
  <2> QED
    BY Zenon, <1>1, <1>2, <2>1, <2>2 DEF LoopsKept
<1> QED
  BY <1>1, <1>2, <1>3, <1>4, Ticks, Quietly

LEMMA ForceDropKeeps ==
  ASSUME Feeds, ForceDrop
  PROVE  Advances
<1>1. /\ conn[display.socket].client \in Live /\ CloseSocket /\ Fault
      /\ published' = published /\ token' = token /\ applied' = applied
      /\ starts' = starts /\ display' = display /\ loop' = loop
  BY DEF ForceDrop, Live
<1>2. SocketsKept
  BY <1>1, CloseKeeps
<1>3. LoopsKept
  BY <1>1, Ticks, LoopsAlone
<1> QED
  BY <1>1, <1>2, <1>3, Ticks, Quietly

LEMMA StartKeeps ==
  ASSUME Feeds, Start
  PROVE  Advances
<1> DEFINE d == [display EXCEPT !.wsFailures = 0]
<1>1. /\ ConnectWebSocket(d) /\ starts < MaxStarts /\ starts' = starts + 1
      /\ published' = published /\ token' = token /\ applied' = applied
  BY DEF Start
<1>2. d \in Display /\ d.last = display.last
  BY Ticks, StreamAssumption DEF Display
<1> HIDE DEF d
<1>3. /\ display' \in Display /\ display'.last = display.last /\ LoopsKept
      /\ SocketsKept /\ faults' \in 0 .. MaxFaults
  BY <1>1, <1>2, ConnectKeeps
<1>4. starts' \in 0 .. MaxStarts
  BY <1>1, Ticks, StreamAssumption
<1> QED
  BY <1>1, <1>3, <1>4, Ticks, Quietly

LEMMA BackoffKeeps ==
  ASSUME Feeds, BackoffOver
  PROVE  Advances
<1> DEFINE d == [display EXCEPT !.pendingTimer = FALSE]
<1>1. /\ published' = published /\ token' = token /\ applied' = applied /\ starts' = starts
      /\ \/ display' = d /\ conn' = conn /\ loop' = loop /\ faults' = faults
         \/ ConnectWebSocket(d)
  BY DEF BackoffOver
<1>2. d \in Display /\ d.last = display.last
  BY Zenon, Ticks DEF Display
<1> HIDE DEF d
<1>3. CASE ConnectWebSocket(d)
  <2>1. /\ display' \in Display /\ display'.last = display.last /\ LoopsKept
        /\ SocketsKept /\ faults' \in 0 .. MaxFaults
    BY <1>1, <1>2, <1>3, ConnectKeeps
  <2> QED
    BY <1>1, <2>1, Ticks, Quietly
<1>4. CASE display' = d /\ conn' = conn /\ loop' = loop /\ faults' = faults
  <2>1. display' \in Display /\ display'.last = display.last
    BY <1>2, <1>4
  <2>2. display'.last \in 0 .. MaxEvents /\ display.last <= display'.last
    BY <2>1, Ticks
  <2>3. LoopsKept /\ SocketsKept
    BY <1>1, <1>4, <2>2, LoopsAlone, SocketsAlone
  <2> QED
    BY <1>1, <1>4, <2>1, <2>3, Ticks, Quietly
<1> QED
  BY <1>1, <1>3, <1>4

(* The steps of a connection that leave the display where it was. *)
LEMMA SocketStepKeeps ==
  ASSUME Feeds, NEW i \in Sockets,
         \/ Opened(i) \/ Closed(i) \/ Dropped(i) \/ Upgrade(i) \/ UpgradeFails(i)
         \/ Subscribe(i) \/ HangUp(i) \/ ServerCloses(i) \/ RevalidationDue(i)
         \/ Probe(i) \/ Read(i) \/ Send(i) \/ PumpTimer(i) \/ PumpFails(i)
  PROVE  Advances
<1>1. /\ published' = published /\ token' = token /\ applied' = applied /\ starts' = starts
      /\ faults' \in 0 .. MaxFaults
  BY Zenon, Ticks DEF Opened, Closed, Dropped, HandleSocketFailure, Upgrade, UpgradeFails, Subscribe,
       HangUp, ServerCloses, RevalidationDue, Probe, Read, Send, PumpTimer, PumpFails, ServerOnly
<1>2. \E x : Becomes(i, x, display.last)
  BY Zenon, UpgradeSound, SubscribeSound, ProbeSound, ReadSound, SendSound, RoundSound, OpenedSound,
     FailureSound DEF Closed, Dropped
<1>3. display' \in Display /\ display'.last = display.last /\ LoopsKept
  <2>1. CASE Closed(i) \/ Dropped(i)
    <3> DEFINE d == [display EXCEPT !.socket = None]
    <3>1. (display' = display /\ loop' = loop) \/ ScheduleReconnect(d)
      BY <2>1 DEF Closed, Dropped, HandleSocketFailure
    <3>2. d \in Display /\ d.last = display.last
      BY Ticks DEF Display
    <3> HIDE DEF d
    <3>3. CASE ScheduleReconnect(d)
      BY <1>1, <3>2, <3>3, ReconnectKeeps
    <3>4. CASE display' = display /\ loop' = loop
      <4>1. /\ display' \in Display /\ display'.last = display.last
            /\ display'.last \in 0 .. MaxEvents /\ display.last <= display'.last
        BY <3>4, Ticks
      <4> QED
        BY <1>1, <3>4, <4>1, LoopsAlone
    <3> QED
      BY <3>1, <3>3, <3>4
  <2>2. CASE Opened(i)
    <3>1. display' = [display EXCEPT !.wsFailures = 0, !.state = "streaming"] /\ loop' = loop
      BY <2>2 DEF Opened
    <3>2. display \in Display /\ 0 \in 0 .. MaxRetries
      BY Ticks, StreamAssumption
    <3>3. display' \in Display /\ display'.last = display.last
      BY Zenon, <3>1, <3>2 DEF Display
    <3>4. display'.last \in 0 .. MaxEvents /\ display.last <= display'.last
      BY <3>3, Ticks
    <3> QED
      BY <1>1, <3>1, <3>3, <3>4, LoopsAlone
  <2>3. CASE display' = display /\ loop' = loop
    <3>1. /\ display' \in Display /\ display'.last = display.last
          /\ display'.last \in 0 .. MaxEvents /\ display.last <= display'.last
      BY <2>3, Ticks
    <3> QED
      BY <1>1, <2>3, <3>1, LoopsAlone
  <2> QED
    BY Zenon, <2>1, <2>2, <2>3 DEF Upgrade, UpgradeFails, Subscribe, HangUp, ServerCloses,
       RevalidationDue, Probe, Read, Send, PumpTimer, PumpFails, ServerOnly
<1>4. display'.last \in 0 .. MaxEvents /\ display.last <= display'.last
  BY <1>3, Ticks
<1>5. SocketsKept
  <2>1. PICK x : Becomes(i, x, display.last)
    BY <1>2
  <2>2. Becomes(i, x, display'.last)
    BY Zenon, <1>3, <2>1
  <2> QED
    BY <1>1, <1>4, <2>2, OneSocket
<1> QED
  BY <1>1, <1>3, <1>5, Ticks, Quietly

(* A frame or response is applied: the display moves on, and everything     *)
(* under way stays sound.                                                   *)
LEMMA MessageKeeps ==
  ASSUME Feeds, NEW i \in Sockets, Message(i)
  PROVE  Advances
<1> DEFINE E == Head(conn[i].down)
<1>1. /\ published' = published /\ token' = token /\ loop' = loop /\ starts' = starts
      /\ faults' = faults
  BY DEF Message
<1>2. /\ E \in SUBSET Ids /\ E \subseteq published /\ Unbroken(E, display.last)
      /\ applied' = applied \o InOrder(New(E)) /\ display' = WithLast(E)
      /\ \E x : Becomes(i, x, WithLast(E).last)
  BY Zenon, MessageSound
<1>3. /\ TypeOK /\ applied = Told(display.last) /\ 1 .. display.last \subseteq published
      /\ Numbered(published)
  BY Zenon DEF Feeds
<1> HIDE DEF E
<1>4. /\ display' \in Display /\ display'.last >= display.last
      /\ display'.last \in 0 .. MaxEvents
      /\ applied' = Told(display'.last) /\ 1 .. display'.last \subseteq published
  BY Zenon, <1>2, <1>3, Delivery
<1>5. display.last <= display'.last
  BY <1>4, Ticks
<1>6. SocketsKept
  <2>1. PICK x : Becomes(i, x, display'.last)
    BY Zenon, <1>2
  <2> QED
    BY <1>1, <1>4, <1>5, <2>1, OneSocket
<1>7. LoopsKept
  BY <1>1, <1>4, <1>5, LoopsAlone
<1>8. applied' \in Seq(Ids)
  BY Zenon, <1>4, ToldTyped
<1>9. TypeOK'
  BY <1>1, <1>3, <1>4, <1>6, <1>7, <1>8 DEF TypeOK, SocketsKept, LoopsKept
<1> QED
  BY Zenon, <1>1, <1>3, <1>4, <1>5, <1>6, <1>7, <1>9 DEF Advances, Feeds, SocketsKept, LoopsKept

LEMMA AnswerKeeps ==
  ASSUME Feeds, NEW j \in Loops, PollAnswered(j)
  PROVE  Advances
<1> DEFINE E == loop[j].events
<1>1. /\ published' = published /\ token' = token /\ conn' = conn /\ starts' = starts
      /\ faults' = faults /\ loop[j].phase = "answered"
      /\ applied' = applied \o InOrder(New(E)) /\ RoundOver(WithLast(E), j)
  BY DEF PollAnswered
<1>2. E \in SUBSET Ids /\ E \subseteq published /\ Unbroken(E, display.last)
  <2>1. Polling(loop[j], published, display.last)
    BY DEF Feeds
  <2> QED
    BY Zenon, <1>1, <2>1, Ticks DEF Polling
<1>3. /\ TypeOK /\ applied = Told(display.last) /\ 1 .. display.last \subseteq published
      /\ Numbered(published)
  BY Zenon DEF Feeds
<1> HIDE DEF E
<1>4. /\ WithLast(E) \in Display /\ WithLast(E).last >= display.last
      /\ WithLast(E).last \in 0 .. MaxEvents
      /\ applied' = Told(WithLast(E).last) /\ 1 .. WithLast(E).last \subseteq published
  BY <1>1, <1>2, <1>3, Delivery
<1>5. display' \in Display /\ display'.last = WithLast(E).last /\ LoopsKept
  BY <1>1, <1>4, RoundOverKeeps
<1>6. display'.last \in 0 .. MaxEvents /\ display.last <= display'.last
  BY <1>4, <1>5, Ticks
<1>7. SocketsKept
  BY <1>1, <1>6, SocketsAlone
<1>8. applied' \in Seq(Ids)
  BY Zenon, <1>4, ToldTyped
<1>9. TypeOK'
  BY <1>1, <1>3, <1>5, <1>7, <1>8 DEF TypeOK, SocketsKept, LoopsKept
<1> QED
  BY Zenon, <1>1, <1>3, <1>4, <1>5, <1>6, <1>7, <1>9
     DEF Advances, Feeds, SocketsKept, LoopsKept

LEMMA PollKeeps ==
  ASSUME Feeds, NEW j \in Loops,
         PollVerify(j) \/ PollRead(j) \/ PollTimer(j) \/ PollFailed(j)
  PROVE  Advances
<1>1. /\ published' = published /\ token' = token /\ applied' = applied /\ conn' = conn
      /\ starts' = starts /\ faults' \in 0 .. MaxFaults
  BY Ticks DEF PollVerify, PollRead, PollTimer, PollFailed
<1>2. /\ Polling(loop[j], published, display.last) /\ loop \in [Loops -> Loop]
      /\ loop[j] \in Loop /\ loop[j].after \in 0 .. MaxEvents /\ loop[j].after <= display.last
  BY DEF Feeds, TypeOK, Polling, Loop
<1>3. display' \in Display /\ display'.last = display.last /\ LoopsKept
  <2>1. CASE RoundOver(display, j)
    BY <1>1, <2>1, Ticks, RoundOverKeeps
  <2>2. CASE PollVerify(j) /\ ~ RoundOver(display, j)
    <3> DEFINE l == [loop[j] EXCEPT !.phase = "verified"]
    <3>1. loop' = [loop EXCEPT ![j].phase = "verified"] /\ display' = display
      BY <2>2 DEF PollVerify
    <3>2. loop' = [loop EXCEPT ![j] = l]
      BY <1>2, <3>1
    <3>3. l \in Loop /\ l.phase = "verified" /\ l.after = loop[j].after
      BY <1>2 DEF Loop
    <3> HIDE DEF l
    <3>4. Polling(l, published, display'.last)
      BY <1>2, <3>1, <3>3 DEF Polling
    <3>9. /\ display' \in Display /\ display'.last = display.last
          /\ display'.last \in 0 .. MaxEvents /\ display.last <= display'.last
      BY <3>1, Ticks
    <3> QED
      BY Zenon, <1>1, <3>2, <3>4, <3>9, OneLoop
  <2>3. CASE PollRead(j)
    <3> DEFINE E == EventsAfter(loop[j].after)
               l == [loop[j] EXCEPT !.phase = "answered", !.events = E]
    <3>1. /\ loop' = [loop EXCEPT ![j].phase = "answered", ![j].events = E]
          /\ display' = display
      BY <2>3 DEF PollRead
    <3>2. E \subseteq published /\ Unbroken(E, loop[j].after)
      BY <1>2, Ticks, ReadIsUnbroken, StreamAssumption DEF Feeds
    <3> HIDE DEF E
    <3>3. E \in SUBSET Ids
      BY <3>2, Ticks
    <3>4. loop' = [loop EXCEPT ![j] = l]
      BY Zenon, <1>2, <3>1
    <3>5. l \in Loop /\ l.events = E /\ l.after = loop[j].after
      BY Zenon, <1>2, <3>3 DEF Loop
    <3> HIDE DEF l
    <3>6. Unbroken(E, display.last)
      <4>1. \A d \in Int : d <= loop[j].after => d <= display.last
        BY <1>2, Ticks
      <4> QED
        BY <3>2, <4>1 DEF Unbroken
    <3>7. Polling(l, published, display'.last)
      BY <1>2, <3>1, <3>2, <3>5, <3>6 DEF Polling
    <3>9. /\ display' \in Display /\ display'.last = display.last
          /\ display'.last \in 0 .. MaxEvents /\ display.last <= display'.last
      BY <3>1, Ticks
    <3> QED
      BY Zenon, <1>1, <3>4, <3>7, <3>9, OneLoop
  <2>4. CASE PollTimer(j)
    <3>1. PICK l \in {Resting, [Resting EXCEPT !.phase = "asked", !.after = display.last]} :
            loop' = [loop EXCEPT ![j] = l]
      BY Zenon, <2>4 DEF PollTimer
    <3>2. display' = [display EXCEPT !.pollTimer = None]
      BY <2>4 DEF PollTimer
    <3>3. display' \in Display /\ display'.last = display.last
      BY <3>2, Ticks DEF Display
    <3>4. /\ display.last \in 0 .. MaxEvents /\ MaxEvents \in Nat
          /\ display.last <= display.last
      BY Ticks
    <3>5. /\ Polling(Resting, published, display.last)
          /\ Polling([Resting EXCEPT !.phase = "asked", !.after = display.last],
                     published, display.last)
      BY Zenon, <3>4, RestingPolls
    <3>6. Polling(l, published, display'.last)
      BY Zenon, <3>3, <3>5
    <3>7. display'.last \in 0 .. MaxEvents /\ display.last <= display'.last
      BY <3>3, <3>4
    <3> QED
      BY Zenon, <1>1, <3>1, <3>3, <3>6, <3>7, OneLoop
  <2> QED
    BY <2>1, <2>2, <2>3, <2>4 DEF PollFailed
<1>4. display'.last \in 0 .. MaxEvents /\ display.last <= display'.last
  BY <1>3, Ticks
<1>5. SocketsKept
  BY <1>1, <1>4, SocketsAlone
<1> QED
  BY <1>1, <1>3, <1>5, Ticks, Quietly

LEMMA PublishKeeps ==
  ASSUME Feeds, Publish
  PROVE  Advances
<1> DEFINE n == Cardinality(published)
<1>1. /\ n < MaxEvents /\ published' = published \cup {n + 1}
      /\ token' = token /\ display' = display /\ applied' = applied /\ conn' = conn
      /\ loop' = loop /\ starts' = starts /\ faults' = faults
  BY DEF Publish
<1>2. /\ TypeOK /\ applied = Told(display.last) /\ 1 .. display.last \subseteq published
      /\ published = 1 .. n
  BY Zenon DEF Feeds, Numbered
<1>3. n \in Nat
  <2>1. published \subseteq 1 .. MaxEvents /\ MaxEvents \in Int
    BY Ticks DEF Ids
  <2>2. IsFiniteSet(1 .. MaxEvents)
    BY <2>1, FS_Interval
  <2> QED
    BY Zenon, <2>1, <2>2, FS_Subset, FS_CardinalityType
<1> HIDE DEF n
<1>4. published' = 1 .. n + 1 /\ published \subseteq published' /\ published' \subseteq Ids
  BY <1>1, <1>2, <1>3, Ticks DEF Ids
<1>5. Numbered(published')
  <2>1. Cardinality(1 .. n + 1) = n + 1
    <3>1. Cardinality(1 .. n + 1) = IF 1 > n + 1 THEN 0 ELSE n + 1 - 1 + 1
      BY <1>3, FS_Interval
    <3> QED
      BY <1>3, <3>1
  <2> QED
    BY <1>4, <2>1 DEF Numbered
<1>6. display'.last \in 0 .. MaxEvents /\ display.last <= display'.last
  BY <1>1, Ticks
<1>7. SocketsKept /\ LoopsKept
  BY <1>1, <1>4, <1>6, SocketsAlone, LoopsAlone
<1>8. TypeOK'
  BY <1>1, <1>2, <1>4 DEF TypeOK
<1>9. applied' = Told(display'.last) /\ 1 .. display'.last \subseteq published'
  BY Zenon, <1>1, <1>2, <1>4
<1> QED
  BY Zenon, <1>1, <1>4, <1>5, <1>6, <1>7, <1>8, <1>9 DEF Advances, Feeds, SocketsKept, LoopsKept

(* A kill shuts every stream; a subscription that comes later starts with a *)
(* probe.                                                                   *)
LEMMA RevokeKeeps ==
  ASSUME Feeds, Revoke \/ Kill
  PROVE  Advances
<1>1. /\ published' = published /\ display' = display /\ applied' = applied
      /\ loop' = loop /\ starts' = starts /\ faults' = faults
      /\ token # "killed" /\ token' \in {"revoked", "killed"}
  BY DEF Revoke, Kill
<1>2. /\ display' \in Display /\ display'.last = display.last
      /\ display'.last \in 0 .. MaxEvents /\ display.last <= display'.last
  BY <1>1, Ticks
<1>3. LoopsKept
  BY <1>1, <1>2, LoopsAlone
<1>4. SocketsKept
  <2>1. ASSUME NEW i \in Sockets
        PROVE  conn'[i] \in Connection /\ Sound(conn'[i], published, display.last, token')
    <3>1. /\ Sound(conn[i], published, display.last, token) /\ conn[i] \in Connection
          /\ Feeding(conn[i], published, display.last) /\ Quiet(conn[i], token)
          /\ MaxEvents \in Nat
      BY SocketFacts
    <3>2. CASE Revoke
      <4>1. conn' = conn /\ token' = "revoked"
        BY <3>2 DEF Revoke
      <4>2. Quiet(conn[i], token')
        BY <3>1, <4>1 DEF Quiet
      <4> QED
        BY <3>1, <4>1, <4>2 DEF Sound
    <3>3. CASE Kill /\ conn[i].server = "open" /\ conn[i].pump # "off"
      <4>1. conn'[i] = Shut(conn[i])
        BY <3>3 DEF Kill
      <4>2. Sound(Shut(conn[i]), published, display.last, token')
        BY <3>1, ShutSound
      <4> QED
        BY <4>1, <4>2 DEF Sound
    <3>4. CASE Kill /\ ~ (conn[i].server = "open" /\ conn[i].pump # "off")
      <4>1. conn'[i] = conn[i]
        BY <3>4 DEF Kill
      <4>2. Quiet(conn[i], token')
        BY <3>1, <3>4 DEF Quiet
      <4> QED
        BY <3>1, <4>1, <4>2 DEF Sound
    <3> QED
      BY <3>2, <3>3, <3>4
  <2>2. conn' \in [Sockets -> Connection]
    <3>1. CASE Revoke
      BY <3>1 DEF Revoke, Feeds, TypeOK
    <3>2. CASE Kill
      <4>1. conn' = [i \in Sockets |-> conn'[i]]
        BY <3>2 DEF Kill
      <4> QED
        BY <2>1, <4>1
    <3> QED
      BY <3>1, <3>2
  <2> QED
    BY Zenon, <1>1, <2>1, <2>2 DEF SocketsKept
<1> QED
  BY <1>1, <1>2, <1>3, <1>4, Ticks, Quietly

LEMMA StreamAdvances ==
  ASSUME Feeds, Attached, [Next]_vars
  PROVE  Advances
<1>1. CASE UNCHANGED vars
  <2>1. /\ published' = published /\ token' = token /\ display' = display
        /\ applied' = applied /\ conn' = conn /\ loop' = loop /\ starts' = starts
        /\ faults' = faults
    BY <1>1 DEF vars
  <2>2. /\ display' \in Display /\ display'.last = display.last
        /\ display'.last \in 0 .. MaxEvents /\ display.last <= display'.last
    BY <2>1, Ticks
  <2>3. SocketsKept /\ LoopsKept
    BY <2>1, <2>2, SocketsAlone, LoopsAlone
  <2> QED
    BY <2>1, <2>2, <2>3, Ticks, Quietly
<1>2. ASSUME NEW i \in Sockets,
             \/ SocketStep(i) \/ PumpStep(i) \/ RevalidationDue(i)
             \/ Dropped(i) \/ UpgradeFails(i) \/ PumpFails(i) \/ ServerCloses(i)
      PROVE  Advances
  BY <1>2, SocketStepKeeps, MessageKeeps DEF SocketStep, PumpStep
<1>3. ASSUME NEW j \in Loops, PollStep(j) \/ PollFailed(j)
      PROVE  Advances
  BY <1>3, PollKeeps, AnswerKeeps DEF PollStep
<1> QED
  BY <1>1, <1>2, <1>3, PublishKeeps, StartKeeps, StopKeeps, RevokeKeeps, BackoffKeeps,
     ForceDropKeeps DEF Next, Failure

-----------------------------------------------------------------------------
(* The display's own socket *)

ClientsStay == \A k \in Sockets : conn[k].client \in Live => conn'[k].client \in Live

LEMMA ServerKeepsClient ==
  ASSUME NEW c \in Connection, c.client \in Live
  PROVE  /\ Shut(c) \in Connection /\ Shut(c).client = c.client
         /\ NextPump(c).client = c.client
<1> DEFINE y == [c EXCEPT !.server = "closed", !.up = {}, !.fresh = FALSE,
                          !.pump = IF @ = "timer" THEN "off" ELSE @]
           z == [c EXCEPT !.batch = {}, !.pump = IF c.server = "open" THEN "timer" ELSE "off"]
<1>1. ASSUME NEW x \in Connection, x.client = c.client PROVE Settled(x) = x
  BY <1>1 DEF Settled, Live
<1>2. y \in Connection /\ y.client = c.client
  BY Zenon DEF Connection
<1>3. z \in Connection /\ z.client = c.client
  BY Zenon DEF Connection
<1>4. Shut(c) = Settled(y) /\ NextPump(c) = Settled(z)
  BY DEF Shut, NextPump
<1> HIDE DEF y, z
<1> QED
  BY <1>1, <1>2, <1>3, <1>4

(* Nothing the server does ends the client's end of a connection. *)
LEMMA ServerStaysClear ==
  ASSUME TypeOK, NEW i \in Sockets,
         \/ Upgrade(i) \/ UpgradeFails(i) \/ Subscribe(i) \/ HangUp(i) \/ ServerCloses(i)
         \/ RevalidationDue(i) \/ Probe(i) \/ Read(i) \/ Send(i) \/ PumpTimer(i) \/ PumpFails(i)
         \/ Message(i)
  PROVE  ClientsStay
<1>1. conn \in [Sockets -> Connection] /\ conn[i] \in Connection
  BY DEF TypeOK
<1>2. \A k \in Sockets : k # i => conn'[k] = conn[k]
  BY Zenon, <1>1 DEF Upgrade, UpgradeFails, Subscribe, HangUp, ServerCloses, RevalidationDue, Probe,
       Read, Send, PumpTimer, PumpFails, Message
<1>3. ASSUME conn[i].client \in Live PROVE conn'[i].client \in Live
  <2> DEFINE c == conn[i]
  <2>1. CASE Upgrade(i) \/ UpgradeFails(i)
    <3>1. PICK s : conn'[i] = [c EXCEPT !.server = s]
      BY <1>1, <2>1 DEF Upgrade, UpgradeFails
    <3> QED
      BY <1>1, <1>3, <3>1 DEF Connection
  <2>2. CASE Subscribe(i)
    <3>1. PICK n \in c.up : conn' = [conn EXCEPT ![i].up = {}, ![i].cursor = n, ![i].pump = "probe"]
      BY Zenon, <2>2 DEF Subscribe
    <3>2. conn'[i] = [c EXCEPT !.up = {}, !.cursor = n, !.pump = "probe"]
      BY <1>1, <3>1
    <3> QED
      BY <1>1, <1>3, <3>2 DEF Connection
  <2>3. CASE HangUp(i) \/ ServerCloses(i)
    <3>1. conn'[i] = Shut(c)
      BY <1>1, <2>3 DEF HangUp, ServerCloses
    <3> QED
      BY Zenon, <1>1, <1>3, <3>1, ServerKeepsClient
  <2>4. CASE RevalidationDue(i) \/ Read(i) \/ PumpTimer(i)
    <3>1. \/ \E f : conn'[i] = [c EXCEPT !.fresh = f]
          \/ \E p : conn'[i] = [c EXCEPT !.pump = p]
          \/ \E b : conn'[i] = [c EXCEPT !.pump = "send", !.batch = b]
      <4>1. CASE RevalidationDue(i)
        BY Zenon, <1>1, <4>1 DEF RevalidationDue
      <4>2. CASE Read(i)
        BY Zenon, <1>1, <4>2 DEF Read
      <4>3. CASE PumpTimer(i)
        BY Zenon, <1>1, <4>3 DEF PumpTimer
      <4> QED
        BY Zenon, <2>4, <4>1, <4>2, <4>3
    <3> QED
      BY Zenon, <1>1, <1>3, <3>1 DEF Connection
  <2>5. CASE Probe(i)
    <3>1. \/ conn'[i] = [c EXCEPT !.fresh = (conn[i].server = "open"), !.pump = "read"]
          \/ conn'[i] = NextPump(Shut(c))
      BY <1>1, <2>5 DEF Probe
    <3>2. [c EXCEPT !.fresh = (conn[i].server = "open"), !.pump = "read"].client = c.client
      BY <1>1 DEF Connection
    <3>3. NextPump(Shut(c)).client = c.client
      <4>1. Shut(c) \in Connection /\ Shut(c).client = c.client
        BY Zenon, <1>1, <1>3, ServerKeepsClient
      <4> QED
        BY <1>3, <4>1, ServerKeepsClient
    <3> QED
      BY Zenon, <1>3, <3>1, <3>2, <3>3
  <2>6. CASE Send(i)
    <3> DEFINE n == Max({c.cursor} \cup c.batch)
               f == IF c.batch # {} /\ c.server = "open" /\ c.client # "closed"
                    THEN Append(c.down, c.batch) ELSE c.down
               x == [c EXCEPT !.cursor = n, !.down = f]
    <3>1. conn'[i] = NextPump(x)
      BY Zenon, <1>1, <2>6 DEF Send
    <3>2. n \in 0 .. MaxEvents
      <4> DEFINE S == {c.cursor} \cup c.batch
      <4>a. c.cursor \in 0 .. MaxEvents /\ c.batch \in SUBSET Ids
        BY <1>1 DEF Connection
      <4>b. MaxEvents \in Nat /\ Ids \subseteq 0 .. MaxEvents
        BY ONLY StreamAssumption, SMT DEF Ids
      <4>1. S \in SUBSET (0 .. MaxEvents) /\ S # {} /\ MaxEvents \in Nat
        BY Zenon, <4>a, <4>b
      <4> HIDE DEF S
      <4>2. Max(S) \in 0 .. MaxEvents
        BY Zenon, <4>1, GreatestOf
      <4> QED
        BY <4>2 DEF S
    <3>3. f \in Seq(SUBSET Ids)
      BY <1>1 DEF Connection
    <3> HIDE DEF n, f
    <3>4. x \in Connection /\ x.client = c.client
      BY Zenon, <1>1, <3>2, <3>3 DEF Connection
    <3> HIDE DEF x
    <3> QED
      BY Zenon, <1>3, <3>1, <3>4, ServerKeepsClient
  <2>7. CASE PumpFails(i)
    <3>1. conn'[i] = NextPump(c)
      BY <1>1, <2>7 DEF PumpFails
    <3> QED
      BY Zenon, <1>1, <1>3, <3>1, ServerKeepsClient
  <2>8. CASE Message(i)
    BY <1>1, <1>3, <2>8 DEF Message, Connection
  <2> QED
    BY <2>1, <2>2, <2>3, <2>4, <2>5, <2>6, <2>7, <2>8
<1> QED
  BY Zenon, <1>2, <1>3 DEF ClientsStay

LEMMA StaysAttached ==
  ASSUME TypeOK, Attached, ClientsStay, display'.socket = display.socket,
         display'.state = display.state
  PROVE  Attached'
BY DEF TypeOK, Display, Attached, ClientsStay

LEMMA ConnectAttaches ==
  ASSUME TypeOK, NEW d \in Display, d.socket = display.socket,
         display.socket # None => conn[display.socket].client \in Live,
         ConnectWebSocket(d)
  PROVE  Attached'
<1>0. conn \in [Sockets -> Connection] /\ display \in Display
  BY DEF TypeOK
<1> DEFINE free == {i \in Sockets : conn[i] = Unused}
           i == Min(free)
<1>1. CASE /\ free # {}
           /\ conn' = [conn EXCEPT ![i].client = "connecting"]
           /\ display' = [d EXCEPT !.state = "connecting", !.socket = i]
  <2>1. i \in free
    <3>1. free \in SUBSET Nat
      BY StreamAssumption DEF Sockets
    <3> HIDE DEF free
    <3> QED
      BY <1>1, <3>1, LeastOf
  <2>2. i \in Sockets
    BY <2>1
  <2>3. /\ conn' = [conn EXCEPT ![i].client = "connecting"]
        /\ display' = [d EXCEPT !.state = "connecting", !.socket = i]
    BY <1>1
  <2> HIDE DEF i
  <2>4. display'.state = "connecting" /\ display'.socket = i
    BY <2>3 DEF Display
  <2>5. conn'[i].client = "connecting"
    BY <1>0, <2>2, <2>3 DEF Connection
  <2> QED
    BY <2>4, <2>5 DEF Attached, Live
<1>2. CASE ScheduleReconnect(d) /\ conn' = conn
  <2>1. display'.socket = d.socket /\ display'.state # "stopped"
    BY Zenon, <1>2 DEF ScheduleReconnect, Display
  <2> QED
    BY <1>2, <2>1 DEF Attached
<1> QED
  BY Zenon, <1>1, <1>2 DEF ConnectWebSocket

LEMMA AttachedStep ==
  ASSUME TypeOK, Attached, [Next]_vars
  PROVE  Attached'
<1>0. conn \in [Sockets -> Connection] /\ display \in Display
  BY DEF TypeOK
<1>1. CASE UNCHANGED <<display, conn>>
  BY <1>1 DEF Attached
<1>2. CASE Start
  <2> DEFINE d == [display EXCEPT !.wsFailures = 0]
  <2>1. d \in Display /\ d.socket = display.socket
    BY <1>0, StreamAssumption DEF Display
  <2>2. ConnectWebSocket(d)
    BY <1>2 DEF Start
  <2> HIDE DEF d
  <2> QED
    BY <2>1, <2>2, ConnectAttaches DEF Attached
<1>3. CASE Stop
  <2>1. display' = [display EXCEPT !.state = "stopped", !.socket = None,
                                   !.pendingTimer = FALSE, !.pollTimer = None]
    BY <1>3 DEF Stop
  <2>2. display'.socket = None
    BY <1>0, <2>1 DEF Display
  <2> QED
    BY <2>2 DEF Attached
<1>4. CASE ForceDrop \/ Kill
  <2>1. display' = display
    BY <1>4 DEF ForceDrop, Kill
  <2>2. CASE ForceDrop
    <3>1. CloseSocket
      BY <2>2 DEF ForceDrop
    <3>2. ASSUME NEW k \in Sockets, conn[k].client \in Live PROVE conn'[k].client \in Live
      <4>1. conn'[k] = IF k = display.socket
                       THEN [conn[k] EXCEPT !.client = "closing"] ELSE conn[k]
        BY <3>1 DEF CloseSocket
      <4>2. [conn[k] EXCEPT !.client = "closing"].client = "closing"
        BY <1>0 DEF Connection
      <4> QED
        BY <3>2, <4>1, <4>2 DEF Live
    <3> QED
      BY <2>1, <3>2, StaysAttached DEF ClientsStay
  <2>3. CASE Kill
    <3>1. ASSUME NEW k \in Sockets, conn[k].client \in Live PROVE conn'[k].client \in Live
      <4>1. conn'[k] = Shut(conn[k]) \/ conn'[k] = conn[k]
        BY <2>3 DEF Kill
      <4> QED
        BY <1>0, <3>1, <4>1, ServerKeepsClient
    <3> QED
      BY <2>1, <3>1, StaysAttached DEF ClientsStay
  <2> QED
    BY <1>4, <2>2, <2>3
<1>5. CASE BackoffOver
  <2> DEFINE d == [display EXCEPT !.pendingTimer = FALSE]
  <2>1. d \in Display /\ d.socket = display.socket /\ d.state = display.state
    BY Zenon, <1>0 DEF Display
  <2>2. ConnectWebSocket(d) \/ (display' = d /\ conn' = conn)
    BY <1>5 DEF BackoffOver
  <2> HIDE DEF d
  <2> QED
    BY <2>1, <2>2, ConnectAttaches DEF Attached
<1>6. ASSUME NEW i \in Sockets, Opened(i) PROVE Attached'
  <2>1. /\ display' = [display EXCEPT !.wsFailures = 0, !.state = "streaming"]
        /\ display.socket = i
        /\ conn' = [conn EXCEPT ![i].client = "open", ![i].up = {display.last}]
    BY <1>6 DEF Opened
  <2>2. display'.state = "streaming" /\ display'.socket = i
    BY <1>0, <2>1 DEF Display
  <2>3. conn'[i].client = "open"
    BY <1>0, <2>1 DEF Connection
  <2> QED
    BY <2>2, <2>3 DEF Attached, Live
<1>7. ASSUME NEW i \in Sockets, HandleSocketFailure(i) PROVE Attached'
  <2>1. \A k \in Sockets : k # i => conn'[k] = conn[k]
    BY <1>0, <1>7 DEF HandleSocketFailure
  <2>2. CASE display.state # "stopped" /\ display.socket = i
    <3> DEFINE d == [display EXCEPT !.socket = None]
    <3>1. d \in Display /\ d.socket = None
      BY <1>0 DEF Display
    <3>2. ScheduleReconnect(d)
      BY <1>7, <2>2 DEF HandleSocketFailure
    <3> HIDE DEF d
    <3>3. display'.socket = None
      BY Zenon, <3>1, <3>2 DEF ScheduleReconnect, Display
    <3> QED
      BY <3>3 DEF Attached
  <2>3. CASE ~ (display.state # "stopped" /\ display.socket = i)
    <3>1. display' = display
      BY <1>7, <2>3 DEF HandleSocketFailure
    <3>2. display.socket # i
      BY <2>3, StreamAssumption DEF Attached, None, Sockets
    <3>3. display.socket # None => display.socket \in Sockets
      BY <1>0 DEF Display
    <3> QED
      BY <2>1, <3>1, <3>2, <3>3 DEF Attached
  <2> QED
    BY <2>2, <2>3
<1>8. ASSUME NEW i \in Sockets, Message(i) PROVE Attached'
  <2>1. display' = WithLast(Head(conn[i].down))
    BY <1>8 DEF Message
  <2>2. display'.socket = display.socket /\ display'.state = display.state
    BY <1>0, <2>1 DEF WithLast, Display
  <2>3. ClientsStay
    BY <1>8, ServerStaysClear
  <2> QED
    BY <2>2, <2>3, StaysAttached
<1>9. ASSUME NEW i \in Sockets,
             \/ Upgrade(i) \/ UpgradeFails(i) \/ Subscribe(i) \/ HangUp(i) \/ ServerCloses(i)
             \/ RevalidationDue(i) \/ Probe(i) \/ Read(i) \/ Send(i) \/ PumpTimer(i)
             \/ PumpFails(i)
      PROVE  Attached'
  <2>1. display' = display
    BY Zenon, <1>9 DEF Upgrade, UpgradeFails, Subscribe, HangUp, ServerCloses, RevalidationDue, Probe,
         Read, Send, PumpTimer, PumpFails, ServerOnly
  <2>2. ClientsStay
    BY <1>9, ServerStaysClear
  <2> QED
    BY <2>1, <2>2, StaysAttached
<1>10. ASSUME NEW j \in Loops, PollStep(j) \/ PollFailed(j) PROVE Attached'
  <2>1. conn' = conn
    BY <1>10 DEF PollStep, PollVerify, PollRead, PollAnswered, PollTimer, PollFailed
  <2>2. ASSUME NEW d, d.socket = display.socket, d.state = display.state, d \in Display,
               RoundOver(d, j)
        PROVE  display'.socket = display.socket /\ display'.state = display.state
    BY <2>2 DEF RoundOver, Display
  <2>3. display'.socket = display.socket /\ display'.state = display.state
    <3>1. CASE PollAnswered(j)
      <4> DEFINE d == WithLast(loop[j].events)
      <4>1. RoundOver(d, j)
        BY <3>1 DEF PollAnswered
      <4>2. \E m : d = [display EXCEPT !.last = m]
        BY Zenon DEF WithLast
      <4>3. display' = d \/ display' = [d EXCEPT !.pollTimer = j]
        BY Zenon, <4>1 DEF RoundOver
      <4> HIDE DEF d
      <4> QED
        BY Zenon, <1>0, <4>2, <4>3 DEF Display
    <3>2. CASE PollVerify(j) \/ PollFailed(j)
      BY <1>0, <2>2, <3>2 DEF PollVerify, PollFailed
    <3>3. CASE PollRead(j)
      BY <3>3 DEF PollRead
    <3>4. CASE PollTimer(j)
      BY <1>0, <3>4 DEF PollTimer, Display
    <3> QED
      BY <1>10, <3>1, <3>2, <3>3, <3>4 DEF PollStep
  <2> QED
    BY <2>1, <2>3 DEF Attached
<1>11. CASE Publish \/ Revoke \/ UNCHANGED vars
  BY <1>1, <1>11 DEF Publish, Revoke, vars
<1> QED
  BY Zenon, <1>2, <1>3, <1>4, <1>5, <1>6, <1>7, <1>8, <1>9, <1>10, <1>11
     DEF Next, SocketStep, PumpStep, Failure, Closed, Dropped

LEMMA StreamStarts == Init => Feeds /\ Attached
<1> SUFFICES ASSUME Init PROVE Feeds /\ Attached
  OBVIOUS
<1>1. /\ published = {} /\ token = "active" /\ applied = << >>
      /\ display = [state |-> "idle", socket |-> None, wsFailures |-> 0, last |-> 0,
                    pendingTimer |-> FALSE, pollTimer |-> None]
      /\ conn = [i \in Sockets |-> Unused]
      /\ loop = [j \in Loops |-> Resting]
      /\ starts = 0 /\ faults = 0
  BY DEF Init
<1>2. display \in Display /\ display.last = 0 /\ display.socket = None /\ display.state = "idle"
  BY <1>1, StreamAssumption DEF Display
<1>3. ASSUME NEW i \in Sockets PROVE Sound(conn[i], published, display.last, token)
  BY <1>1, UnusedSound, StreamAssumption
<1>4. ASSUME NEW j \in Loops PROVE Polling(loop[j], published, display.last)
  <2>1. display.last \in 0 .. MaxEvents /\ MaxEvents \in Nat
    BY <1>2, StreamAssumption
  <2>2. Polling(Resting, published, display.last)
    BY Zenon, <2>1, RestingPolls
  <2> QED
    BY <1>1, <2>2
<1>5. Unused \in Connection /\ Resting \in Loop
  BY StreamAssumption, UnusedSound DEF Sound, Resting, Loop
<1>6. TypeOK
  BY <1>1, <1>2, <1>5, StreamAssumption DEF TypeOK
<1>7. Numbered(published) /\ 1 .. display.last \subseteq published
  BY <1>1, <1>2, FS_EmptySet DEF Numbered
<1>8. applied = Told(display.last)
  BY <1>1, <1>2 DEF Told
<1> QED
  BY <1>1, <1>2, <1>3, <1>4, <1>6, <1>7, <1>8 DEF Feeds, Attached

(* The inductive invariant: what the pump has read, what is on the sockets, *)
(* what the poll loops were answered and what applyEvent has taken join     *)
(* without a gap, over any number of connections, drops and resumes.        *)
THEOREM StreamInvariant == Spec => [](Feeds /\ Attached)
<1>1. Feeds /\ Attached /\ [Next]_vars => Feeds' /\ Attached'
  BY Zenon, StreamAdvances, AttachedStep DEF Advances, Feeds
<1> QED
  BY <1>1, StreamStarts, PTL DEF Spec

(* Types: the fields of display, sockets and poll loops keep their ranges,  *)
(* wsFailures its bound (scheduleReconnect stops counting at the limit).    *)
THEOREM StreamTyped == Spec => []TypeOK
<1>1. Feeds => TypeOK
  BY DEF Feeds
<1> QED
  BY <1>1, StreamInvariant, PTL

(* Once a token is revoked and its connections are dropped, nothing is put  *)
(* on any socket: whatever subscription comes later has to pass the probe   *)
(* first, and a batch read before the kill meets a socket that is closed.   *)
THEOREM KilledIsSilent == Spec => NothingSentAfterKill
<1>1. Feeds /\ Attached /\ [Next]_vars
        => [token = "killed" =>
              \A i \in Sockets : Len(conn'[i].down) <= Len(conn[i].down)]_vars
  BY StreamAdvances DEF Advances
<1> QED
  BY <1>1, StreamInvariant, PTL DEF Spec, NothingSentAfterKill

(* The display implements the feed: lost frames, reconnections, late polls  *)
(* and duplicate answers never make applyEvent skip an event or take one    *)
(* twice, and it takes none that was not published.                         *)
THEOREM DisplayFeeds == Spec => DisplayImplementsFeed
<1>1. Init => Feed!Init
  BY DEF Init, Feed!Init
<1>2. Feeds /\ Attached /\ [Next]_vars => [Feed!Next]_(Feed!vars)
  <2> SUFFICES ASSUME Feeds, Attached, [Next]_vars, Feed!vars' # Feed!vars PROVE Feed!Next
    OBVIOUS
  <2>1. /\ Feeds' /\ published \subseteq published' /\ display.last <= display'.last
        /\ published' = published \/ applied' = applied
    BY StreamAdvances DEF Advances
  <2>2. ASSUME NEW n \in Nat PROVE Feed!Gapless(1 .. n)
    <3>1. n \in (1 .. n) \cup {0}
      OBVIOUS
    <3> QED
      BY <3>1 DEF Feed!Gapless
  <2>3. CASE applied' = applied
    <3>1. published' # published
      BY <2>3 DEF Feed!vars
    <3>2. published' = 1 .. Cardinality(published') /\ published' \subseteq 1 .. MaxEvents
      BY <2>1 DEF Feeds, Numbered, TypeOK, Ids
    <3>3. Cardinality(published') \in Nat
      <4>1. IsFiniteSet(1 .. MaxEvents)
        BY FS_Interval, StreamAssumption
      <4>2. IsFiniteSet(published')
        BY Zenon, <3>2, <4>1, FS_Subset
      <4> QED
        BY <4>2, FS_CardinalityType
    <3>4. Feed!Gapless(published')
      BY <2>2, <3>2, <3>3
    <3> QED
      BY <2>1, <2>3, <3>1, <3>4 DEF Feed!Next, Feed!Publish
  <2>4. CASE published' = published
    <3>1. applied' # applied
      BY <2>4 DEF Feed!vars
    <3>2. /\ applied = Told(display.last) /\ applied' = Told(display'.last)
          /\ 1 .. display'.last \subseteq published
      BY Zenon, <2>1, <2>4 DEF Feeds
    <3>3. display.last \in 0 .. MaxEvents /\ display'.last \in 0 .. MaxEvents
      BY <2>1 DEF Feeds, TypeOK, Display
    <3>4. Len(applied) = display.last
      BY Zenon, <3>2, <3>3, ToldTyped
    <3>5. display'.last # display.last
      BY Zenon, <3>1, <3>2
    <3>6. display'.last > Len(applied) /\ display'.last \in published
      BY <2>1, <3>2, <3>3, <3>4, <3>5, StreamAssumption
    <3> QED
      BY Zenon, <2>4, <3>2, <3>6 DEF Feed!Next, Feed!Deliver, Told
  <2> QED
    BY <2>1, <2>3, <2>4
<1> QED
  BY <1>1, <1>2, StreamInvariant, PTL DEF Spec, DisplayImplementsFeed, Feed!Spec
=============================================================================
