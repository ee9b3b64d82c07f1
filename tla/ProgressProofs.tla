--------------------------- MODULE ProgressProofs ----------------------------
(***************************************************************************)
(* Proofs about the requests of a session: the refresh tokens they present, *)
(* what a pooled connection carries from one call to the next, and what the *)
(* answer of a call says of its transaction.                                *)
(***************************************************************************)
EXTENDS TokenFamilies, Connections, FiniteSetTheorems, TLAPS

-----------------------------------------------------------------------------
(* Refresh tokens: the row lock of the presented token is what keeps a      *)
(* family to one usable token, and the comparison of sec_v what keeps it to *)
(* one role set.                                                            *)

SecVs == {deriveSecV(rs) : rs \in SUBSET RoleIds} \cup {<<>>}
Token == [fam : Nat, revoked : BOOLEAN, secV : SecVs]
Refresh == [pc : {"idle", "derive", "rotate", "replay", "kill", "swap"},
            tok : Nat, secV : SecVs, seen : SUBSET Nat]
InFlight == {d \in Devices : refresh[d].pc # "idle"}

TokensTyped ==
  /\ roles \subseteq RoleIds
  /\ tokens \in Seq(Token)
  /\ holder \in [1 .. MaxTokens -> Devices \cup {0}]
  /\ refresh \in [Devices -> Refresh]

(* There is room for what the refreshes in flight insert. *)
Bounded == Len(tokens) + Cardinality(InFlight) <= MaxTokens

(* Families are numbered by their first token. *)
Families ==
  /\ \A i \in 1 .. Len(tokens) : tokens[i].fam \in 1 .. Len(tokens)
  /\ replayed \subseteq 1 .. Len(tokens)

(* What a refresh in flight knows of its token.  One that is about to swap   *)
(* it holds its row, so that it is still live.                               *)
Known ==
  \A d \in Devices :
    /\ refresh[d].pc # "idle" => refresh[d].tok \in 1 .. Len(tokens)
    /\ refresh[d].pc \in {"rotate", "swap"} => refresh[d].secV = tokens[refresh[d].tok].secV
    /\ refresh[d].pc = "swap" => holder[refresh[d].tok] = d /\ ~tokens[refresh[d].tok].revoked

OneLive == \A i, j \in 1 .. Len(tokens) :
             tokens[i].fam = tokens[j].fam /\ ~tokens[i].revoked /\ ~tokens[j].revoked => i = j

(* The snapshot of a replay holds what is live, unless a rotation crossed it. *)
SnapshotHolds ==
  \A d \in Devices : refresh[d].pc = "kill" /\ tokens[refresh[d].tok].fam \notin crossed
    => \A i \in 1 .. Len(tokens) :
         tokens[i].fam = tokens[refresh[d].tok].fam /\ ~tokens[i].revoked => i \in refresh[d].seen

(* A replayed family has no live token, unless a rotation crossed the replay. *)
ReplayRevoked ==
  \A i \in 1 .. Len(tokens) : tokens[i].fam \in replayed \ crossed => tokens[i].revoked

(* A family has one sec_v. *)
OneSecV ==
  \A i, j \in 1 .. Len(tokens) : tokens[i].fam = tokens[j].fam => tokens[i].secV = tokens[j].secV

FamilyInv == /\ TokensTyped /\ Bounded /\ Families /\ Known
             /\ OneLive /\ SnapshotHolds /\ ReplayRevoked /\ OneSecV

-----------------------------------------------------------------------------
LEMMA FamilyStarts == FamilyInit => FamilyInv
<1> SUFFICES ASSUME FamilyInit PROVE FamilyInv
  OBVIOUS
<1>1. tokens = <<>> /\ Len(tokens) = 0 /\ replayed = {}
  BY DEF FamilyInit
<1>2. NoRefresh \in Refresh /\ NoRefresh.pc = "idle"
  BY DEF NoRefresh, Refresh, SecVs
<1>3. TokensTyped /\ \A d \in Devices : refresh[d].pc = "idle"
  BY <1>2 DEF FamilyInit, TokensTyped
<1>4. Bounded
  <2>1. InFlight = {}
    BY <1>3 DEF InFlight
  <2>2. Cardinality(InFlight) = 0
    BY <2>1, FS_EmptySet
  <2> QED
    BY <1>1, <2>2, DevicesAreNumbered DEF Bounded
<1>5. Families /\ Known /\ OneLive /\ SnapshotHolds
  BY <1>1, <1>3 DEF Families, Known, OneLive, SnapshotHolds
<1>6. ReplayRevoked /\ OneSecV
  BY <1>1 DEF ReplayRevoked, OneSecV
<1> QED
  BY <1>3, <1>4, <1>5, <1>6 DEF FamilyInv

(* Lock rows fit the bound. *)
LEMMA TokensFit ==
  ASSUME FamilyInv
  PROVE  /\ IsFiniteSet(InFlight) /\ Cardinality(InFlight) \in Nat
         /\ Len(tokens) \in Nat /\ Len(tokens) <= MaxTokens
         /\ DOMAIN tokens = 1 .. Len(tokens)
<1>1. IsFiniteSet(InFlight)
  <2>1. InFlight \subseteq Devices
    BY DEF InFlight
  <2> QED
    BY Zenon, <2>1, DevicesAreNumbered, FS_Subset
<1>2. Cardinality(InFlight) \in Nat
  BY <1>1, FS_CardinalityType
<1>3. Len(tokens) \in Nat /\ DOMAIN tokens = 1 .. Len(tokens)
  BY DEF FamilyInv, TokensTyped
<1> QED
  BY <1>1, <1>2, <1>3, DevicesAreNumbered DEF FamilyInv, Bounded

(* The refresh of d ends. *)
LEMMA Ended ==
  ASSUME FamilyInv, NEW d \in Devices, refresh[d].pc # "idle", Done(d)
  PROVE  /\ refresh' \in [Devices -> Refresh]
         /\ refresh'[d].pc = "idle"
         /\ \A e \in Devices : e # d => refresh'[e] = refresh[e]
         /\ Cardinality(InFlight') = Cardinality(InFlight) - 1
<1>1. NoRefresh \in Refresh /\ NoRefresh.pc = "idle"
  BY DEF NoRefresh, Refresh, SecVs
<1>2. /\ refresh' \in [Devices -> Refresh] /\ refresh'[d].pc = "idle"
      /\ \A e \in Devices : e # d => refresh'[e] = refresh[e]
  BY <1>1 DEF Done, FamilyInv, TokensTyped
<1>3. InFlight' = InFlight \ {d} /\ d \in InFlight
  BY <1>2 DEF InFlight
<1>4. Cardinality(InFlight \ {d}) = Cardinality(InFlight) - 1
  BY Zenon, <1>3, TokensFit, FS_RemoveElement
<1> QED
  BY <1>2, <1>3, <1>4

(* The row locks of d are released. *)
LEMMA Unlocked ==
  ASSUME FamilyInv, NEW d \in Devices, Unlock(d)
  PROVE  /\ holder' \in [1 .. MaxTokens -> Devices \cup {0}]
         /\ \A i \in 1 .. MaxTokens : holder[i] # d => holder'[i] = holder[i]
BY DEF Unlock, FamilyInv, TokensTyped

(* A refresh of d that goes on. *)
GoesOn(d) == /\ refresh' \in [Devices -> Refresh]
             /\ \A e \in Devices : e # d => refresh'[e] = refresh[e]
             /\ refresh[d].pc # "idle" /\ refresh'[d].pc # "idle"
             /\ refresh'[d].tok = refresh[d].tok

LEMMA FlightUnchanged == ASSUME NEW d \in Devices, GoesOn(d) PROVE InFlight' = InFlight
BY DEF InFlight, GoesOn

(* Steps that leave the tokens alone. *)
LEMMA SameTokens ==
  ASSUME FamilyInv, UNCHANGED <<tokens, replayed, crossed>>
  PROVE  Families' /\ OneLive' /\ ReplayRevoked' /\ OneSecV'
BY DEF FamilyInv, Families, OneLive, ReplayRevoked, OneSecV

LEMMA QuietSteps ==
  ASSUME FamilyInv, NEW d \in Devices, NEW t \in DOMAIN tokens,
         Present(d, t) \/ CompareSecV(d) \/ LockRow(d) \/ ReplaySee(d) \/ Refuse(d)
  PROVE  FamilyInv'
<1> USE DEF FamilyInv
<1>a. DOMAIN tokens = 1 .. Len(tokens) /\ Len(tokens) \in Nat /\ Len(tokens) <= MaxTokens
  BY TokensFit
<1>b. UNCHANGED <<roles, tokens, replayed, crossed>>
  BY DEF Present, CompareSecV, LockRow, ReplaySee, Refuse
<1>c. Families' /\ OneLive' /\ ReplayRevoked' /\ OneSecV'
  BY <1>b, SameTokens
<1>1. CASE Present(d, t)
  <2>1. /\ refresh' \in [Devices -> Refresh] /\ holder' = holder
        /\ \A e \in Devices : e # d => refresh'[e] = refresh[e]
        /\ refresh[d].pc = "idle" /\ refresh'[d].pc = "derive" /\ refresh'[d].tok = t
    <3> DEFINE r == [refresh[d] EXCEPT !.pc = "derive", !.tok = t]
    <3>0. t \in Nat /\ refresh[d] \in Refresh
      BY <1>a DEF TokensTyped
    <3>1. r \in Refresh /\ r.pc = "derive" /\ r.tok = t
      BY Zenon, <3>0 DEF Refresh
    <3>2. refresh' = [refresh EXCEPT ![d] = r] /\ refresh[d].pc = "idle" /\ holder' = holder
      BY Zenon, <1>1 DEF Present, TokensTyped
    <3> HIDE DEF r
    <3> QED
      BY <3>1, <3>2 DEF TokensTyped
  <2>2. TokensTyped'
    BY <1>b, <2>1 DEF TokensTyped
  <2>3. Bounded'
    <3>1. InFlight' = InFlight \cup {d} /\ d \notin InFlight
      BY <2>1 DEF InFlight
    <3>2. Cardinality(InFlight \cup {d}) = Cardinality(InFlight) + 1
      BY Zenon, <3>1, TokensFit, FS_AddElement
    <3>3. Len(tokens) + Cardinality(InFlight) < MaxTokens
      BY <1>1 DEF Present, Room, InFlight
    <3> QED
      BY <1>a, <1>b, <3>1, <3>2, <3>3, TokensFit, DevicesAreNumbered DEF Bounded
  <2>4. Known'
    BY <1>a, <1>b, <2>1 DEF Known
  <2>5. SnapshotHolds'
    BY <1>b, <2>1 DEF SnapshotHolds
  <2> QED
    BY <1>c, <2>2, <2>3, <2>4, <2>5
<1>2. CASE CompareSecV(d) /\ deriveSecV(roles) = tokens[refresh[d].tok].secV
  <2>1. deriveSecV(roles) \in SecVs
    BY DEF SecVs, TokensTyped
  <2>2. /\ GoesOn(d) /\ holder' = holder
        /\ refresh'[d].pc = "rotate" /\ refresh'[d].secV = tokens[refresh[d].tok].secV
    <3> DEFINE r == [refresh[d] EXCEPT !.pc = "rotate", !.secV = deriveSecV(roles)]
    <3>1. r \in Refresh /\ r.pc = "rotate" /\ r.secV = deriveSecV(roles) /\ r.tok = refresh[d].tok
      BY Zenon, <2>1 DEF TokensTyped, Refresh
    <3>2. refresh' = [refresh EXCEPT ![d] = r] /\ refresh[d].pc = "derive" /\ holder' = holder
      BY Zenon, <1>2 DEF CompareSecV, TokensTyped
    <3> HIDE DEF r
    <3> QED
      BY <1>2, <3>1, <3>2 DEF TokensTyped, GoesOn
  <2>3. TokensTyped' /\ Bounded'
    BY <1>b, <2>2, FlightUnchanged DEF TokensTyped, GoesOn, Bounded
  <2>4. Known' /\ SnapshotHolds'
    BY SMTT(30), <1>b, <2>2 DEF Known, SnapshotHolds, GoesOn
  <2> QED
    BY <1>c, <2>3, <2>4
<1>3. CASE LockRow(d)
  <2>1. refresh[d].tok \in 1 .. Len(tokens) /\ refresh[d].tok \in 1 .. MaxTokens /\ d # 0
    BY SMTT(30), <1>3, <1>a, DevicesAreNumbered DEF LockRow, Known
  <2>2. /\ GoesOn(d) /\ refresh'[d].secV = refresh[d].secV
        /\ refresh[d].pc = "rotate"
        /\ refresh'[d].pc = IF tokens[refresh[d].tok].revoked THEN "replay" ELSE "swap"
    BY ZenonT(60), <1>3 DEF LockRow, Goto, TokensTyped, Refresh, GoesOn
  <2>3. /\ holder' \in [1 .. MaxTokens -> Devices \cup {0}]
        /\ holder'[refresh[d].tok] = d
        /\ \A i \in 1 .. MaxTokens : holder[i] # 0 => holder'[i] = holder[i]
    BY <1>3, <2>1 DEF LockRow, TokensTyped
  <2>4. TokensTyped' /\ Bounded'
    BY <1>b, <2>2, <2>3, FlightUnchanged DEF TokensTyped, GoesOn, Bounded
  <2>5. ASSUME NEW e \in Devices, e # d, refresh[e].pc = "swap"
        PROVE  holder'[refresh[e].tok] = e
    BY <1>a, <2>3, <2>5, DevicesAreNumbered DEF Known
  <2>6. Known'
    BY SMTT(30), <1>b, <2>1, <2>2, <2>3, <2>5 DEF Known, GoesOn
  <2>7. SnapshotHolds'
    BY <1>b, <2>2 DEF SnapshotHolds, GoesOn
  <2> QED
    BY <1>c, <2>4, <2>6, <2>7
<1>4. CASE ReplaySee(d)
  <2>1. Live(tokens[refresh[d].tok].fam) \subseteq Nat
    BY <1>a DEF Live
  <2>2. /\ GoesOn(d) /\ holder' = holder /\ refresh'[d].pc = "kill"
        /\ refresh'[d].seen = Live(tokens[refresh[d].tok].fam)
    BY Zenon, <1>4, <2>1 DEF ReplaySee, TokensTyped, Refresh, GoesOn
  <2>3. TokensTyped' /\ Bounded'
    BY <1>b, <2>2, FlightUnchanged DEF TokensTyped, GoesOn, Bounded
  <2>4. Known'
    BY <1>b, <2>2 DEF Known, GoesOn
  <2>5. SnapshotHolds'
    BY <1>a, <1>b, <2>2 DEF SnapshotHolds, GoesOn, Live
  <2> QED
    BY <1>c, <2>3, <2>4, <2>5
<1>5. CASE Refuse(d) \/ (CompareSecV(d) /\ deriveSecV(roles) # tokens[refresh[d].tok].secV)
  <2>1. refresh[d].pc # "idle" /\ Done(d) /\ (Unlock(d) \/ holder' = holder)
    BY <1>5 DEF Refuse, CompareSecV
  <2>2. /\ refresh' \in [Devices -> Refresh] /\ refresh'[d].pc = "idle"
        /\ \A e \in Devices : e # d => refresh'[e] = refresh[e]
        /\ Cardinality(InFlight') = Cardinality(InFlight) - 1
    BY <2>1, Ended
  <2>3. /\ holder' \in [1 .. MaxTokens -> Devices \cup {0}]
        /\ \A i \in 1 .. MaxTokens : holder[i] # d => holder'[i] = holder[i]
    BY Zenon, <2>1, Unlocked DEF TokensTyped
  <2>4. TokensTyped' /\ Bounded'
    BY <1>a, <1>b, <2>2, <2>3, TokensFit, DevicesAreNumbered DEF TokensTyped, Bounded
  <2>5. ASSUME NEW e \in Devices, e # d, refresh[e].pc = "swap"
        PROVE  holder'[refresh[e].tok] = e
    BY <1>a, <2>3, <2>5, DevicesAreNumbered DEF Known
  <2>6. Known'
    BY <1>b, <2>2, <2>5 DEF Known
  <2>7. SnapshotHolds'
    BY <1>b, <2>2 DEF SnapshotHolds
  <2> QED
    BY <1>c, <2>4, <2>6, <2>7
<1> HIDE DEF FamilyInv
<1> QED
  BY <1>1, <1>2, <1>3, <1>4, <1>5

(* The first token of a new family. *)
LEMMA LoginStep == FamilyInv /\ Login => FamilyInv'
<1> SUFFICES ASSUME FamilyInv, Login PROVE FamilyInv'
  OBVIOUS
<1> USE DEF FamilyInv
<1> DEFINE n == Len(tokens) + 1
<1>a. Len(tokens) \in Nat /\ Len(tokens) <= MaxTokens /\ Cardinality(InFlight) \in Nat
  BY TokensFit
<1>1. /\ tokens' \in Seq(Token) /\ Len(tokens') = n
      /\ \A i \in 1 .. Len(tokens) : tokens'[i] = tokens[i]
      /\ tokens'[n].fam = n
  <2>1. deriveSecV(roles) \in SecVs
    BY DEF SecVs, TokensTyped
  <2>2. NewToken(n, deriveSecV(roles)) \in Token /\ NewToken(n, deriveSecV(roles)).fam = n
    BY <1>a, <2>1 DEF NewToken, Token
  <2>3. tokens' = Append(tokens, NewToken(n, deriveSecV(roles)))
    BY DEF Login
  <2> QED
    BY <2>2, <2>3 DEF TokensTyped
<1>2. UNCHANGED <<roles, holder, refresh, replayed, crossed>> /\ InFlight' = InFlight
  BY DEF Login, InFlight
<1>3. TokensTyped'
  BY <1>1, <1>2 DEF TokensTyped
<1>4. Bounded'
  <2>1. Len(tokens) + Cardinality(InFlight) < MaxTokens
    BY DEF Login, Room, InFlight
  <2> QED
    BY <1>a, <1>1, <1>2, <2>1, DevicesAreNumbered DEF Bounded
<1>5. Families'
  BY <1>a, <1>1, <1>2 DEF Families
<1>6. Known'
  BY <1>a, <1>1, <1>2 DEF Known
(* The number of the new family is larger than those of the others. *)
<1>7. \A i \in 1 .. n : /\ i = n \/ i \in 1 .. Len(tokens)
                        /\ i \in 1 .. Len(tokens) => tokens'[i].fam # n
  BY <1>a, <1>1 DEF Families
<1>8. OneLive' /\ OneSecV'
  <2> HIDE DEF n
  <2>1. ASSUME NEW i \in 1 .. n, NEW j \in 1 .. n, tokens'[i].fam = tokens'[j].fam
        PROVE  i = j \/ (i \in 1 .. Len(tokens) /\ j \in 1 .. Len(tokens))
    BY <1>1, <1>7, <2>1
  <2> QED
    BY SMTT(30), <1>1, <2>1 DEF OneLive, OneSecV
<1>9. SnapshotHolds'
  BY SMTT(30), <1>a, <1>1, <1>2, <1>7 DEF SnapshotHolds, Known
<1>10. ReplayRevoked'
  BY <1>a, <1>1, <1>2, <1>7 DEF ReplayRevoked, Families
<1> QED
  BY <1>3, <1>4, <1>5, <1>6, <1>8, <1>9, <1>10

(* The family of a replayed token is revoked. *)
LEMMA KillStep == ASSUME FamilyInv, NEW d \in Devices, ReplayKill(d) PROVE FamilyInv'
<1> USE DEF FamilyInv
<1> DEFINE seen == refresh[d].seen
           fam == tokens[refresh[d].tok].fam
<1>a. Len(tokens) \in Nat /\ Len(tokens) <= MaxTokens /\ DOMAIN tokens = 1 .. Len(tokens)
  BY TokensFit
<1>1. /\ tokens' \in Seq(Token) /\ Len(tokens') = Len(tokens)
      /\ \A i \in 1 .. Len(tokens) : /\ tokens'[i].fam = tokens[i].fam /\ tokens'[i].secV = tokens[i].secV
                                     /\ i \notin seen => tokens'[i] = tokens[i]
                                     /\ i \in seen => tokens'[i].revoked
  <2> DEFINE new(i) == IF i \in seen THEN [tokens[i] EXCEPT !.revoked = TRUE] ELSE tokens[i]
  <2>1. tokens' = [i \in 1 .. Len(tokens) |-> new(i)]
    BY <1>a DEF ReplayKill
  <2>2. ASSUME NEW i \in 1 .. Len(tokens)
        PROVE  /\ new(i) \in Token /\ new(i).fam = tokens[i].fam /\ new(i).secV = tokens[i].secV
               /\ i \notin seen => new(i) = tokens[i]
               /\ i \in seen => new(i).revoked
    <3>1. tokens[i] \in Token
      BY DEF TokensTyped
    <3> QED
      BY Zenon, <3>1 DEF Token
  <2> HIDE DEF new
  <2> QED
    BY <1>a, <2>1, <2>2
<1>2. refresh[d].pc = "kill" /\ Done(d) /\ Unlock(d) /\ UNCHANGED <<roles, crossed>>
      /\ replayed' = replayed \cup {fam} /\ \A i \in seen : holder[i] \in {0, d}
  BY DEF ReplayKill
<1>3. /\ refresh' \in [Devices -> Refresh] /\ refresh'[d].pc = "idle"
      /\ \A e \in Devices : e # d => refresh'[e] = refresh[e]
      /\ Cardinality(InFlight') = Cardinality(InFlight) - 1
  BY <1>2, Ended
<1>4. /\ holder' \in [1 .. MaxTokens -> Devices \cup {0}]
      /\ \A i \in 1 .. MaxTokens : holder[i] # d => holder'[i] = holder[i]
  BY <1>2, Unlocked
<1>5. TokensTyped' /\ Bounded'
  BY <1>a, <1>1, <1>2, <1>3, <1>4, TokensFit, DevicesAreNumbered DEF TokensTyped, Bounded
<1>6. Families'
  <2>1. fam \in 1 .. Len(tokens)
    BY <1>2 DEF Families, Known
  <2> HIDE DEF fam, seen
  <2> QED
    BY Zenon, <1>1, <1>2, <2>1 DEF Families
(* The row of a rotation is locked, and not among those revoked. *)
<1>7. ASSUME NEW e \in Devices, e # d, refresh[e].pc = "swap"
      PROVE  holder'[refresh[e].tok] = e /\ ~tokens'[refresh[e].tok].revoked
  <2>1. /\ refresh[e].tok \in 1 .. Len(tokens) /\ refresh[e].tok \in 1 .. MaxTokens
        /\ holder[refresh[e].tok] = e /\ ~tokens[refresh[e].tok].revoked
    BY <1>a, <1>7, DevicesAreNumbered DEF Known
  <2>2. refresh[e].tok \notin seen
    BY <1>2, <1>7, <2>1, DevicesAreNumbered
  <2> HIDE DEF seen
  <2> QED
    BY <1>1, <1>4, <1>7, <2>1, <2>2
<1>8. Known'
  BY <1>1, <1>3, <1>7 DEF Known
<1>9. \A i \in 1 .. Len(tokens) : ~tokens'[i].revoked => ~tokens[i].revoked /\ i \notin seen
  BY <1>1
<1>10. OneLive' /\ OneSecV'
  BY <1>1, <1>9 DEF OneLive, OneSecV
<1>11. SnapshotHolds'
  BY SMTT(30), <1>1, <1>2, <1>3, <1>9 DEF SnapshotHolds, Known
<1>12. \A i \in 1 .. Len(tokens) : fam \notin crossed /\ tokens[i].fam = fam => tokens'[i].revoked
  BY <1>2, <1>9 DEF SnapshotHolds
<1>13. ReplayRevoked'
  BY <1>1, <1>2, <1>9, <1>12 DEF ReplayRevoked
<1> QED
  BY <1>5, <1>6, <1>8, <1>10, <1>11, <1>13

(* A token is replaced by the next one of its family. *)
LEMMA SwapStep == ASSUME FamilyInv, NEW d \in Devices, Swap(d) PROVE FamilyInv'
<1> USE DEF FamilyInv
<1> DEFINE t == refresh[d].tok
           fam == tokens[t].fam
           n == Len(tokens) + 1
<1>a. Len(tokens) \in Nat /\ Len(tokens) <= MaxTokens
  BY TokensFit
<1>b. /\ refresh[d].pc = "swap" /\ t \in 1 .. Len(tokens)
      /\ refresh[d].secV = tokens[t].secV /\ ~tokens[t].revoked
  BY DEF Swap, Known
<1>c. tokens[t] \in Token /\ fam \in 1 .. Len(tokens)
  BY <1>b DEF TokensTyped, Families
<1>1. /\ tokens' \in Seq(Token) /\ Len(tokens') = n
      /\ \A i \in 1 .. Len(tokens) : /\ tokens'[i].fam = tokens[i].fam /\ tokens'[i].secV = tokens[i].secV
                                     /\ i # t => tokens'[i] = tokens[i]
      /\ tokens'[t].revoked
      /\ tokens'[n].fam = fam /\ tokens'[n].secV = tokens[t].secV
  <2> DEFINE old == [tokens EXCEPT ![t].revoked = TRUE]
             new == NewToken(fam, refresh[d].secV)
  <2>1. [tokens[t] EXCEPT !.revoked = TRUE] \in Token
    BY Zenon, <1>c DEF Token
  <2>2. old = [tokens EXCEPT ![t] = [tokens[t] EXCEPT !.revoked = TRUE]]
    OBVIOUS
  <2>3. old \in Seq(Token) /\ Len(old) = Len(tokens)
    <3> HIDE DEF old, t
    <3> QED
      BY <1>b, <2>1, <2>2 DEF TokensTyped
  <2>4. /\ old[t].revoked /\ old[t].fam = tokens[t].fam /\ old[t].secV = tokens[t].secV
        /\ \A i \in 1 .. Len(tokens) : i # t => old[i] = tokens[i]
    BY <1>b, <1>c DEF TokensTyped, Token
  <2>5. new \in Token /\ new.fam = fam /\ new.secV = tokens[t].secV
    BY <1>a, <1>b, <1>c DEF NewToken, Token
  <2>6. tokens' = Append(old, new)
    BY DEF Swap
  <2> HIDE DEF old, new
  <2>7. tokens' \in Seq(Token) /\ Len(tokens') = n /\ tokens'[n] = new
        /\ \A i \in 1 .. Len(tokens) : tokens'[i] = old[i]
    BY <2>3, <2>5, <2>6
  <2> HIDE DEF t, n
  <2> QED
    BY <1>b, <2>4, <2>5, <2>7
<1>2. Done(d) /\ Unlock(d) /\ UNCHANGED <<roles, replayed>> /\ crossed \subseteq crossed'
  BY DEF Swap
<1>3. /\ refresh' \in [Devices -> Refresh] /\ refresh'[d].pc = "idle"
      /\ \A e \in Devices : e # d => refresh'[e] = refresh[e]
      /\ Cardinality(InFlight') = Cardinality(InFlight) - 1
  BY <1>b, <1>2, Ended
<1>4. /\ holder' \in [1 .. MaxTokens -> Devices \cup {0}]
      /\ \A i \in 1 .. MaxTokens : holder[i] # d => holder'[i] = holder[i]
  BY <1>2, Unlocked
<1>5. \A e \in Devices : refresh[e].pc = "kill" /\ tokens[refresh[e].tok].fam = fam => fam \in crossed'
  BY DEF Swap
<1>6. TokensTyped' /\ Bounded'
  <2>1. TokensTyped'
    BY Zenon, <1>1, <1>2, <1>3, <1>4 DEF TokensTyped, Swap
  <2>2. Bounded'
    BY <1>a, <1>1, <1>3, TokensFit DEF Bounded
  <2> QED
    BY <2>1, <2>2
<1>7. holder[t] = d
  BY <1>b DEF Known
<1> HIDE DEF t, fam
<1>8. \A i \in 1 .. n : i = n \/ i \in 1 .. Len(tokens)
  BY <1>a
<1>9. Families'
  <2>1. \A i \in 1 .. n : tokens'[i].fam \in 1 .. Len(tokens)
    BY <1>c, <1>1, <1>8 DEF Families
  <2>2. 1 .. Len(tokens) \subseteq 1 .. n
    BY <1>a
  <2> HIDE DEF n
  <2> QED
    BY <1>1, <1>2, <2>1, <2>2 DEF Families
<1>10. ASSUME NEW e \in Devices, e # d, refresh[e].pc # "idle"
       PROVE  /\ refresh[e].tok \in 1 .. Len(tokens) /\ refresh[e].tok \in 1 .. MaxTokens
              /\ refresh[e].pc = "swap" => refresh[e].tok # t /\ holder'[refresh[e].tok] = e
  BY <1>a, <1>4, <1>7, <1>10, DevicesAreNumbered DEF Known
<1>11. Known'
  <2>1. ASSUME NEW e \in Devices, refresh'[e].pc # "idle"
        PROVE  /\ refresh'[e].tok \in 1 .. Len(tokens')
               /\ refresh'[e].pc \in {"rotate", "swap"} => refresh'[e].secV = tokens'[refresh'[e].tok].secV
               /\ refresh'[e].pc = "swap" => /\ holder'[refresh'[e].tok] = e
                                             /\ ~tokens'[refresh'[e].tok].revoked
    <3>1. e # d /\ refresh'[e] = refresh[e]
      BY <1>3, <2>1
    <3>2. /\ refresh[e].tok \in 1 .. Len(tokens)
          /\ refresh[e].pc = "swap" => refresh[e].tok # t /\ holder'[refresh[e].tok] = e
      BY <1>10, <2>1, <3>1
    <3>3. refresh[e].tok \in 1 .. Len(tokens')
      BY <1>a, <1>1, <3>2
    <3> QED
      BY <1>1, <2>1, <3>1, <3>2, <3>3 DEF Known
  <2>2. \A e \in Devices : refresh'[e].pc \in {"rotate", "swap"} => refresh'[e].pc # "idle"
    OBVIOUS
  <2> QED
    BY <2>1, <2>2 DEF Known
(* The presented token was the live one of its family. *)
<1>12. \A i \in 1 .. Len(tokens) : tokens[i].fam = fam => tokens'[i].revoked
  BY <1>b, <1>1 DEF OneLive, fam
<1>13. \A i \in 1 .. Len(tokens) : ~tokens'[i].revoked => ~tokens[i].revoked /\ tokens[i].fam # fam
  BY <1>1, <1>12
<1>14. OneLive'
  BY <1>a, <1>1, <1>8, <1>13 DEF OneLive
<1>15. OneSecV'
  <2>1. \A i \in 1 .. Len(tokens) : tokens[i].fam = fam => tokens[i].secV = tokens[t].secV
    BY <1>b DEF OneSecV, fam
  <2> QED
    BY <1>a, <1>1, <1>8, <2>1 DEF OneSecV
<1>16. SnapshotHolds'
  <2> SUFFICES ASSUME NEW e \in Devices, refresh'[e].pc = "kill",
                      tokens'[refresh'[e].tok].fam \notin crossed',
                      NEW i \in 1 .. Len(tokens'),
                      tokens'[i].fam = tokens'[refresh'[e].tok].fam, ~tokens'[i].revoked
               PROVE  i \in refresh'[e].seen
    BY DEF SnapshotHolds
  <2>1. e # d /\ refresh'[e] = refresh[e] /\ refresh[e].pc = "kill"
    BY <1>3
  <2>2. refresh[e].tok \in 1 .. Len(tokens)
    BY <1>10, <2>1
  <2>3. tokens'[refresh[e].tok].fam = tokens[refresh[e].tok].fam
    BY <1>1, <2>2
  <2>4. tokens[refresh[e].tok].fam # fam /\ tokens[refresh[e].tok].fam \notin crossed
    BY <1>2, <1>5, <2>1, <2>3
  <2>5. i \in 1 .. Len(tokens) /\ tokens'[i].fam = tokens[i].fam
    BY <1>1, <1>8, <2>1, <2>3, <2>4
  <2>6. ~tokens[i].revoked
    BY <1>13, <2>5
  <2> QED
    BY <2>1, <2>3, <2>4, <2>5, <2>6 DEF SnapshotHolds
<1>17. ReplayRevoked'
  <2>1. fam \notin replayed \ crossed
    BY <1>b DEF ReplayRevoked, fam
  <2> QED
    BY <1>a, <1>1, <1>2, <1>8, <1>13, <2>1 DEF ReplayRevoked
<1> QED
  BY <1>6, <1>9, <1>11, <1>14, <1>15, <1>16, <1>17

LEMMA FamilyStep == FamilyInv /\ [FamilyNext]_familyVars => FamilyInv'
<1> SUFFICES ASSUME FamilyInv, [FamilyNext]_familyVars PROVE FamilyInv'
  OBVIOUS
<1>1. CASE Login
  BY <1>1, LoginStep
<1>2. ASSUME NEW d \in Devices, RefreshStep(d) \/ Refuse(d)
      PROVE  FamilyInv'
  <2>1. CASE ReplayKill(d)
    BY <2>1, KillStep
  <2>2. CASE Swap(d)
    BY <2>2, SwapStep
  <2>3. CASE CompareSecV(d) \/ LockRow(d) \/ ReplaySee(d) \/ Refuse(d)
    <3>1. refresh[d].tok \in DOMAIN tokens
      BY <2>3 DEF CompareSecV, LockRow, ReplaySee, Refuse, FamilyInv, Known, TokensTyped
    <3> QED
      BY <2>3, <3>1, QuietSteps
  <2> QED
    BY <1>2, <2>1, <2>2, <2>3 DEF RefreshStep
<1>3. ASSUME NEW d \in Devices, NEW t \in DOMAIN tokens, Present(d, t)
      PROVE  FamilyInv'
  BY <1>3, QuietSteps
<1>4. ASSUME NEW r \in RoleIds, ChangeRoles(r)
      PROVE  FamilyInv'
  <2>1. UNCHANGED <<tokens, holder, refresh, replayed, crossed>> /\ roles' \subseteq RoleIds
    BY <1>4 DEF ChangeRoles, FamilyInv, TokensTyped
  <2> QED
    BY Zenon, <2>1, SameTokens DEF FamilyInv, TokensTyped, Bounded, InFlight, Known, SnapshotHolds
<1>5. CASE UNCHANGED familyVars
  BY Zenon, <1>5, SameTokens DEF familyVars, FamilyInv, TokensTyped, Bounded, InFlight, Known, SnapshotHolds
<1> QED
  BY <1>1, <1>2, <1>3, <1>4, <1>5 DEF FamilyNext

-----------------------------------------------------------------------------
(* rotate: for any number of devices, refreshes and retries, a family never *)
(* has two tokens that can be used.                                         *)
THEOREM OneLiveToken == FamilySpec => []OneLivePerFamily
<1>1. FamilyInv => OneLivePerFamily
  <2> SUFFICES ASSUME FamilyInv, NEW i \in DOMAIN tokens
               PROVE  Cardinality(Live(tokens[i].fam)) <= 1
    BY DEF OneLivePerFamily
  <2>1. \A j, k \in Live(tokens[i].fam) : j = k
    BY TokensFit DEF Live, FamilyInv, OneLive
  <2>2. CASE Live(tokens[i].fam) = {}
    BY <2>2, FS_EmptySet
  <2>3. CASE Live(tokens[i].fam) # {}
    <3>1. PICK j : j \in Live(tokens[i].fam)
      BY <2>3
    <3>2. Live(tokens[i].fam) = {j}
      BY <2>1, <3>1
    <3>3. Cardinality({j}) = 1
      BY FS_Singleton
    <3> QED
      BY <3>2, <3>3
  <2> QED
    BY <2>2, <2>3
<1> QED
  BY FamilyStarts, FamilyStep, <1>1, PTL DEF FamilySpec

(* rotate, the branch of a revoked token: however refreshes interleave,     *)
(* nothing of a replayed family can be used again, unless a rotation of the *)
(* family committed while the replay's UPDATE waited.                       *)
THEOREM ReplayIsFinal == FamilySpec => []ReplayEndsFamily
<1>1. FamilyInv => ReplayEndsFamily
  BY TokensFit DEF FamilyInv, ReplayRevoked, ReplayEndsFamily, Live
<1> QED
  BY FamilyStarts, FamilyStep, <1>1, PTL DEF FamilySpec

(* refresh, the comparison of sec_v: for any changes of the roles at any    *)
(* moment, all the tokens of a family carry the sec_v of its login.         *)
THEOREM FamiliesKeepRoles == FamilySpec => []FamilyKeepsRoles
<1>1. FamilyInv => FamilyKeepsRoles
  BY TokensFit DEF FamilyInv, OneSecV, FamilyKeepsRoles
<1> QED
  BY FamilyStarts, FamilyStep, <1>1, PTL DEF FamilySpec

-----------------------------------------------------------------------------
(* Calls: the answer of a call tells whether its transaction committed.     *)

CallRow == [pc : {"idle", "connect", "begin", "bind", "work", "nested", "resumed", "commit", "rollback",
                  "discard", "answered"},
            answer : {"none", "done", "retry", "error"},
            destroy : BOOLEAN, committed : BOOLEAN, broken : BOOLEAN, outer : SUBSET Calls]

CallsOK == call \in [Calls -> CallRow]

(* Nothing is committed before COMMIT is sent; after it "done" says so, and  *)
(* any other answer to a transaction that committed means a broken           *)
(* connection, which only an "error" may report.                             *)
Tells(r, broken) ==
  /\ r.pc \in {"idle", "connect", "begin", "bind", "work", "nested", "resumed", "commit"}
       => r.answer = "none" /\ ~r.committed
  /\ r.pc = "rollback" => r.answer \in {"retry", "error"}
  /\ r.pc \in {"discard", "answered"} => r.answer # "none"
  /\ r.answer = "done" => r.committed
  /\ r.answer = "retry" => ~r.committed
  /\ r.committed /\ r.answer # "done" => broken

Told(r) == Tells(r, r.broken)

AnswerInv == CallsOK /\ \A c \in Calls : Told(call[c])

LEMMA AnswerInit == Init => AnswerInv
BY DEF Init, NewCall, AnswerInv, CallsOK, CallRow, Told, Tells

(* A step of one call. *)
LEMMA OneCall ==
  ASSUME AnswerInv, NEW c \in Calls, NEW r \in CallRow, call' = [call EXCEPT ![c] = r], Told(r)
  PROVE  AnswerInv'
BY DEF AnswerInv, CallsOK

(* A step of a call and of the one it waits for. *)
LEMMA TwoCalls ==
  ASSUME AnswerInv, NEW c \in Calls, NEW d \in Calls, NEW r \in CallRow, NEW s \in CallRow,
         call' = [call EXCEPT ![c] = r, ![d] = s], Told(r), Told(s)
  PROVE  AnswerInv'
BY DEF AnswerInv, CallsOK

(* The answer to a statement, which may have broken the connection. *)
LEMMA Moved ==
  ASSUME AnswerInv, NEW c \in Calls, NEW reply \in Replies, NEW to \in CallRow, Move(c, to, reply),
         Tells(to, to.broken \/ Died(reply))
  PROVE  AnswerInv'
<1> DEFINE r == [to EXCEPT !.broken = @ \/ Died(reply)]
<1>1. call' = [call EXCEPT ![c] = r]
  BY DEF Move
<1>2. CASE Died(reply)
  <2>1. r = [to EXCEPT !.broken = TRUE]
    BY Zenon, <1>2 DEF CallRow
  <2>2. r \in CallRow /\ Told(r)
    BY Zenon, <1>2, <2>1 DEF CallRow, Told, Tells
  <2> QED
    BY Zenon, <1>1, <2>2, OneCall
<1>3. CASE ~Died(reply)
  <2>1. r = to
    BY <1>3 DEF CallRow
  <2>2. Told(to)
    BY <1>3 DEF CallRow, Told, Tells
  <2> QED
    BY Zenon, <1>1, <2>1, <2>2, OneCall
<1> QED
  BY <1>2, <1>3

LEMMA AnswerStep == AnswerInv /\ [Next]_vars => AnswerInv'
<1> SUFFICES ASSUME AnswerInv, [Next]_vars PROVE AnswerInv'
  OBVIOUS
<1>1. ASSUME NEW c \in Calls, Start(c)
      PROVE  AnswerInv'
  <2>1. [NewCall EXCEPT !.pc = "connect"] \in CallRow /\ Told([NewCall EXCEPT !.pc = "connect"])
    BY Zenon DEF NewCall, CallRow, Told, Tells
  <2> QED
    BY Zenon, <1>1, <2>1, OneCall DEF Start
<1>2. ASSUME NEW c \in Calls, NEW k \in DOMAIN client, Connect(c, k)
      PROVE  AnswerInv'
  <2> DEFINE r == [call[c] EXCEPT !.pc = "begin"]
  <2>1. call[c] \in CallRow /\ Told(call[c])
    BY DEF AnswerInv, CallsOK
  <2>2. r \in CallRow /\ Told(r)
    BY <1>2, <2>1 DEF Connect, CallRow, Told, Tells
  <2>3. call' = [call EXCEPT ![c] = r]
    BY <1>2 DEF Connect
  <2> HIDE DEF r
  <2> QED
    BY Zenon, <2>2, <2>3, OneCall
<1>3. ASSUME NEW c \in Calls, ConnectTimeout(c)
      PROVE  AnswerInv'
  <2> DEFINE r == [call[c] EXCEPT !.pc = "answered", !.answer = "error"]
  <2>1. call[c] \in CallRow /\ Told(call[c])
    BY DEF AnswerInv, CallsOK
  <2>2. r \in CallRow /\ Told(r)
    BY Zenon, <1>3, <2>1 DEF ConnectTimeout, CallRow, Told, Tells
  <2>3. call' = [call EXCEPT ![c] = r]
    BY Zenon, <1>3, <2>1 DEF ConnectTimeout, AnswerInv, CallsOK, CallRow
  <2> HIDE DEF r
  <2> QED
    BY Zenon, <2>2, <2>3, OneCall
<1>4. ASSUME NEW c \in Calls, NEW reply \in Replies, Begin(c, reply)
      PROVE  AnswerInv'
  <2>1. call[c] \in CallRow /\ Told(call[c])
    BY DEF AnswerInv, CallsOK
  <2>2. CASE Failed(reply)
    <3> DEFINE to == [call[c] EXCEPT !.pc = "discard", !.answer = "error"]
    <3>1. to \in CallRow /\ Tells(to, to.broken \/ Died(reply))
      BY Zenon, <1>4, <2>1, <2>2 DEF Begin, CallRow, Told, Tells, mapPostgresError, Failed, Died, Carried, Replies
    <3>2. Move(c, to, reply)
      BY <1>4, <2>2 DEF Begin
    <3> HIDE DEF to
    <3> QED
      BY <3>1, <3>2, Moved
  <2>3. CASE ~Failed(reply)
    <3> DEFINE to == [call[c] EXCEPT !.pc = "bind"]
    <3>1. to \in CallRow /\ Tells(to, to.broken \/ Died(reply))
      BY <1>4, <2>1, <2>3 DEF Begin, CallRow, Told, Tells, mapPostgresError, Failed, Died, Carried, Replies
    <3>2. Move(c, to, reply)
      BY <1>4, <2>3 DEF Begin
    <3> HIDE DEF to
    <3> QED
      BY <3>1, <3>2, Moved
  <2> QED
    BY <2>2, <2>3
<1>5. ASSUME NEW c \in Calls, NEW reply \in Replies, NEW refused \in BOOLEAN, Bind(c, reply, refused)
      PROVE  AnswerInv'
  <2>1. call[c] \in CallRow /\ Told(call[c])
    BY DEF AnswerInv, CallsOK
  <2>2. CASE Failed(reply) \/ refused
    <3> DEFINE to == [call[c] EXCEPT !.pc = "rollback", !.answer = mapPostgresError(reply)]
    <3>1. to \in CallRow /\ Tells(to, to.broken \/ Died(reply))
      BY Zenon, <1>5, <2>1, <2>2 DEF Bind, CallRow, Told, Tells, mapPostgresError, Failed, Died, Carried, Replies
    <3>2. Move(c, to, reply)
      BY <1>5, <2>2 DEF Bind
    <3> HIDE DEF to
    <3> QED
      BY <3>1, <3>2, Moved
  <2>3. CASE ~(Failed(reply) \/ refused)
    <3> DEFINE to == [call[c] EXCEPT !.pc = "work"]
    <3>1. to \in CallRow /\ Tells(to, to.broken \/ Died(reply))
      BY Zenon, <1>5, <2>1, <2>3 DEF Bind, CallRow, Told, Tells, mapPostgresError, Failed, Died, Carried, Replies
    <3>2. Move(c, to, reply)
      BY <1>5, <2>3 DEF Bind
    <3> HIDE DEF to
    <3> QED
      BY <3>1, <3>2, Moved
  <2> QED
    BY <2>2, <2>3
<1>6. ASSUME NEW c \in Calls, NEW reply \in Replies, Work(c, reply)
      PROVE  AnswerInv'
  <2>1. call[c] \in CallRow /\ Told(call[c])
    BY DEF AnswerInv, CallsOK
  <2>2. CASE Failed(reply)
    <3> DEFINE to == [call[c] EXCEPT !.pc = "rollback", !.answer = mapPostgresError(reply)]
    <3>1. to \in CallRow /\ Tells(to, to.broken \/ Died(reply))
      BY Zenon, <1>6, <2>1, <2>2 DEF Work, CallRow, Told, Tells, mapPostgresError, Failed, Died, Carried, Replies
    <3>2. Move(c, to, reply)
      BY <1>6, <2>2 DEF Work
    <3> HIDE DEF to
    <3> QED
      BY <3>1, <3>2, Moved
  <2>3. CASE ~Failed(reply)
    <3> DEFINE to == [call[c] EXCEPT !.pc = "commit"]
    <3>1. to \in CallRow /\ Tells(to, to.broken \/ Died(reply))
      BY <1>6, <2>1, <2>3 DEF Work, CallRow, Told, Tells, mapPostgresError, Failed, Died, Carried, Replies
    <3>2. Move(c, to, reply)
      BY <1>6, <2>3 DEF Work
    <3> HIDE DEF to
    <3> QED
      BY <3>1, <3>2, Moved
  <2> QED
    BY <2>2, <2>3
<1>7. ASSUME NEW c \in Calls, NEW reply \in Replies, Commit(c, reply)
      PROVE  AnswerInv'
  <2>1. call[c] \in CallRow /\ Told(call[c])
    BY DEF AnswerInv, CallsOK
  <2>2. CASE Failed(reply) /\ Carried(reply)
    <3> DEFINE to == [call[c] EXCEPT !.pc = "rollback", !.answer = mapPostgresError(reply), !.committed = TRUE]
    <3>1. to \in CallRow /\ Tells(to, to.broken \/ Died(reply))
      BY Zenon, <1>7, <2>1, <2>2 DEF Commit, CallRow, Told, Tells, mapPostgresError, Failed, Died, Carried, Replies
    <3>2. Move(c, to, reply)
      BY <1>7, <2>2 DEF Commit
    <3> HIDE DEF to
    <3> QED
      BY <3>1, <3>2, Moved
  <2>3. CASE Failed(reply) /\ ~Carried(reply)
    <3> DEFINE to == [call[c] EXCEPT !.pc = "rollback", !.answer = mapPostgresError(reply), !.committed = FALSE]
    <3>1. to \in CallRow /\ Tells(to, to.broken \/ Died(reply))
      BY Zenon, <1>7, <2>1, <2>3 DEF Commit, CallRow, Told, Tells, mapPostgresError, Failed, Died, Carried, Replies
    <3>a. Carried(reply) = FALSE
      <4>1. Carried(reply) \in BOOLEAN
        BY DEF Carried
      <4> QED
        BY <2>3, <4>1
    <3>2. Move(c, to, reply)
      BY Zenon, <1>7, <2>3, <3>a DEF Commit
    <3> HIDE DEF to
    <3> QED
      BY <3>1, <3>2, Moved
  <2>4. CASE ~Failed(reply)
    <3> DEFINE to == [call[c] EXCEPT !.pc = "discard", !.answer = "done", !.committed = TRUE]
    <3>1. to \in CallRow /\ Tells(to, to.broken \/ Died(reply))
      BY Zenon, <1>7, <2>1, <2>4 DEF Commit, CallRow, Told, Tells, mapPostgresError, Failed, Died, Carried, Replies
    <3>a. Carried(reply) = TRUE
      BY <2>4 DEF Carried, Failed
    <3>2. Move(c, to, reply)
      BY <1>7, <2>4, <3>a DEF Commit
    <3> HIDE DEF to
    <3> QED
      BY <3>1, <3>2, Moved
  <2> QED
    BY <2>2, <2>3, <2>4
<1>8. ASSUME NEW c \in Calls, NEW reply \in Replies, Rollback(c, reply)
      PROVE  AnswerInv'
  <2>1. call[c] \in CallRow /\ Told(call[c])
    BY DEF AnswerInv, CallsOK
  <2>2. CASE Failed(reply)
    <3> DEFINE to == [call[c] EXCEPT !.pc = "discard", !.answer = "error", !.destroy = TRUE]
    <3>1. to \in CallRow /\ Tells(to, to.broken \/ Died(reply))
      BY Zenon, <1>8, <2>1, <2>2 DEF Rollback, CallRow, Told, Tells, mapPostgresError, Failed, Died, Carried, Replies
    <3>2. Move(c, to, reply)
      BY <1>8, <2>2 DEF Rollback
    <3> HIDE DEF to
    <3> QED
      BY <3>1, <3>2, Moved
  <2>3. CASE ~Failed(reply)
    <3> DEFINE to == [call[c] EXCEPT !.pc = "discard"]
    <3>1. to \in CallRow /\ Tells(to, to.broken \/ Died(reply))
      BY <1>8, <2>1, <2>3 DEF Rollback, CallRow, Told, Tells, mapPostgresError, Failed, Died, Carried, Replies
    <3>2. Move(c, to, reply)
      BY <1>8, <2>3 DEF Rollback
    <3> HIDE DEF to
    <3> QED
      BY <3>1, <3>2, Moved
  <2> QED
    BY <2>2, <2>3
<1>9. ASSUME NEW c \in Calls, NEW reply \in Replies, discardAndRelease(c, reply)
      PROVE  AnswerInv'
  <2>1. call[c] \in CallRow /\ Told(call[c])
    BY DEF AnswerInv, CallsOK
  <2>2. CASE Failed(reply)
    <3> DEFINE to == [call[c] EXCEPT !.pc = "answered", !.destroy = FALSE, !.broken = TRUE, !.answer = "error"]
    <3>1. to \in CallRow /\ Tells(to, to.broken \/ Died(reply))
      BY Zenon, <1>9, <2>1, <2>2 DEF discardAndRelease, CallRow, Told, Tells, mapPostgresError, Failed, Died, Carried, Replies
    <3>2. Move(c, to, reply)
      BY Zenon, <1>9, <2>2 DEF discardAndRelease
    <3> HIDE DEF to
    <3> QED
      BY <3>1, <3>2, Moved
  <2>3. CASE ~Failed(reply)
    <3> DEFINE to == [call[c] EXCEPT !.pc = "answered", !.destroy = FALSE]
    <3>1. to \in CallRow /\ Tells(to, to.broken \/ Died(reply))
      BY Zenon, <1>9, <2>1, <2>3 DEF discardAndRelease, CallRow, Told, Tells, mapPostgresError, Failed, Died, Carried, Replies
    <3>a. (call[c].broken \/ Failed(reply)) = call[c].broken
      BY <2>1, <2>3 DEF CallRow
    <3>2. Move(c, to, reply)
      <4>1. [call[c] EXCEPT !.pc = "answered", !.destroy = FALSE, !.broken = @ \/ Failed(reply),
                            !.answer = IF Failed(reply) THEN "error" ELSE @] = to
        BY Zenon, <2>1, <2>3, <3>a DEF CallRow
      <4> QED
        BY Zenon, <1>9, <4>1 DEF discardAndRelease
    <3> HIDE DEF to
    <3> QED
      BY <3>1, <3>2, Moved
  <2> QED
    BY <2>2, <2>3
<1>10. ASSUME NEW c \in Calls, NEW d \in Calls, Nest(c, d)
       PROVE  AnswerInv'
  <2> DEFINE r == [call[c] EXCEPT !.pc = "nested"]
             s == [NewCall EXCEPT !.pc = "connect", !.outer = {c}]
  <2>1. call[c] \in CallRow /\ Told(call[c]) /\ call[c].pc = "work"
    BY <1>10 DEF AnswerInv, CallsOK, Nest
  <2>2. r \in CallRow /\ Told(r)
    BY Zenon, <2>1 DEF CallRow, Told, Tells
  <2>3. s \in CallRow /\ Told(s)
    BY Zenon DEF NewCall, CallRow, Told, Tells
  <2>4. call' = [call EXCEPT ![c] = r, ![d] = s]
    BY Zenon, <1>10 DEF Nest
  <2> HIDE DEF r, s
  <2> QED
    BY Zenon, <2>2, <2>3, <2>4, TwoCalls
<1>11. ASSUME NEW c \in Calls, NEW d \in Calls, Resume(c, d)
       PROVE  AnswerInv'
  <2> DEFINE s == [call[d] EXCEPT !.outer = {}]
  <2>1. /\ call[c] \in CallRow /\ Told(call[c]) /\ call[c].pc = "nested"
        /\ call[d] \in CallRow /\ Told(call[d]) /\ call[d].pc = "answered"
    BY <1>11 DEF AnswerInv, CallsOK, Resume
  <2>2. c # d
    BY <2>1
  <2>3. s \in CallRow /\ Told(s)
    BY Zenon, <2>1 DEF CallRow, Told, Tells
  <2>4. CASE call[d].answer = "done"
    <3> DEFINE r == [call[c] EXCEPT !.pc = "resumed"]
    <3>1. r \in CallRow /\ Told(r)
      BY Zenon, <2>1 DEF CallRow, Told, Tells
    <3>2. call' = [call EXCEPT ![c] = r, ![d] = s]
      BY <1>11, <2>2, <2>4 DEF Resume, AnswerInv, CallsOK
    <3> HIDE DEF r, s
    <3> QED
      BY Zenon, <2>3, <3>1, <3>2, TwoCalls
  <2>5. CASE call[d].answer # "done"
    <3> DEFINE r == [call[c] EXCEPT !.pc = "rollback", !.answer = call[d].answer]
    <3>1. call[d].answer \in {"retry", "error"}
      BY <2>1, <2>5 DEF CallRow, Told, Tells
    <3>2. r \in CallRow /\ Told(r)
      BY Zenon, <2>1, <3>1 DEF CallRow, Told, Tells
    <3>3. call' = [call EXCEPT ![c] = r, ![d] = s]
      BY <1>11, <2>2, <2>5 DEF Resume, AnswerInv, CallsOK
    <3> HIDE DEF r, s
    <3> QED
      BY Zenon, <2>3, <3>2, <3>3, TwoCalls
  <2> QED
    BY <2>4, <2>5
<1>12. CASE UNCHANGED vars
  BY <1>12 DEF vars, AnswerInv, CallsOK
<1> QED
  BY <1>1, <1>2, <1>3, <1>4, <1>5, <1>6, <1>7, <1>8, <1>9, <1>10, <1>11, <1>12 DEF Next, Step, Lend, Return

(* withTenantContext: for any number of concurrent calls and whatever the   *)
(* replies, a call that returns has committed, a call that may be retried    *)
(* has not, and an error hides a commit only when the connection broke.      *)
THEOREM AnswersTellCommits == Spec => []AnswerTellsCommit
<1>1. AnswerInv => AnswerTellsCommit
  BY DEF AnswerInv, Told, Tells, AnswerTellsCommit
<1> QED
  BY AnswerInit, AnswerStep, <1>1, PTL DEF Spec

-----------------------------------------------------------------------------
ClientRow == [there : BOOLEAN, by : SUBSET Calls, tx : {"none", "open", "aborted"},
              bound : BOOLEAN, dead : BOOLEAN]

Busy == {"begin", "bind", "work", "nested", "resumed", "commit", "rollback", "discard"}

(* A call between its connection and its answer has exactly one connection. *)
Lent ==
  /\ \A c \in Calls : call[c].pc \in Busy => \E k \in 1 .. PoolMax : c \in client[k].by
  /\ \A k \in 1 .. PoolMax : \A c \in client[k].by : call[c].pc \in Busy
  /\ \A k, l \in 1 .. PoolMax : \A c \in client[k].by : c \in client[l].by => k = l
  /\ \A k \in 1 .. PoolMax : \A c, d \in client[k].by : c = d

(* The tenant is bound inside a transaction, for as long as it lasts. *)
Sessions ==
  /\ \A k \in 1 .. PoolMax : client[k].tx = "none" => ~client[k].bound
  /\ \A k \in 1 .. PoolMax : \A c \in client[k].by : call[c].pc = "bind" => client[k].tx = "open"

FreeIsFresh == \A k \in 1 .. PoolMax : client[k].by = {} => client[k] \in {Idle, Absent}

ClientInv == /\ CallsOK
             /\ client \in [1 .. PoolMax -> ClientRow]
             /\ Lent /\ Sessions /\ FreeIsFresh

LEMMA ClientInit == Init => ClientInv
<1> SUFFICES ASSUME Init PROVE ClientInv
  OBVIOUS
<1>1. Absent \in ClientRow /\ Absent.by = {} /\ ~Absent.bound
  BY DEF Absent, Fresh, ClientRow
<1>2. client \in [1 .. PoolMax -> ClientRow] /\ \A k \in 1 .. PoolMax : client[k] = Absent
  BY <1>1 DEF Init
<1>3. CallsOK /\ \A c \in Calls : call[c].pc = "idle"
  BY AnswerInit DEF Init, NewCall, AnswerInv
<1> QED
  BY <1>1, <1>2, <1>3 DEF ClientInv, Lent, Sessions, FreeIsFresh, Busy

LEMMA HeldConnection ==
  ASSUME ClientInv, NEW c \in Calls, call[c].pc \in Busy
  PROVE  Of(c) \in 1 .. PoolMax /\ c \in client[Of(c)].by
BY DEF ClientInv, Lent, Of

(* What a statement leaves of a session. *)
LEMMA AfterStatement ==
  ASSUME NEW session \in ClientRow, NEW reply \in Replies,
         NEW stmt \in {"BEGIN", "bind", "work", "COMMIT", "ROLLBACK"},
         session.tx = "none" => ~session.bound,
         stmt = "bind" => session.tx = "open"
  PROVE  /\ After(stmt, session, reply) \in ClientRow
         /\ After(stmt, session, reply).by = session.by
         /\ After(stmt, session, reply).tx = "none" => ~After(stmt, session, reply).bound
         /\ stmt = "BEGIN" /\ reply = "ok" => After(stmt, session, reply).tx = "open"
<1>1. ASSUME NEW kept \in ClientRow, kept.by = session.by, kept.tx = "none" => ~kept.bound
      PROVE  LET r == [kept EXCEPT !.dead = @ \/ Died(reply)]
             IN r \in ClientRow /\ r.by = session.by /\ (r.tx = "none" => ~r.bound) /\ r.tx = kept.tx
  BY Zenon, <1>1 DEF ClientRow
<1> DEFINE done == CASE stmt = "BEGIN" -> [session EXCEPT !.tx = "open"]
                     [] stmt = "bind" -> [session EXCEPT !.bound = TRUE]
                     [] stmt \in {"COMMIT", "ROLLBACK"} -> [session EXCEPT !.tx = "none", !.bound = FALSE]
                     [] OTHER -> session
           kept == IF Carried(reply) THEN done
                   ELSE IF stmt = "COMMIT" THEN [session EXCEPT !.tx = "none", !.bound = FALSE]
                   ELSE IF session.tx = "open" THEN [session EXCEPT !.tx = "aborted"] ELSE session
<1>2. done \in ClientRow /\ done.by = session.by /\ (done.tx = "none" => ~done.bound)
      /\ (stmt = "BEGIN" => done.tx = "open")
  <2>1. CASE stmt = "BEGIN"
    BY <2>1 DEF ClientRow
  <2>2. CASE stmt = "bind"
    BY Zenon, <2>2 DEF ClientRow
  <2>3. CASE stmt \in {"COMMIT", "ROLLBACK"}
    BY Zenon, <2>3 DEF ClientRow
  <2>4. CASE stmt = "work"
    BY <2>4 DEF ClientRow
  <2> QED
    BY <2>1, <2>2, <2>3, <2>4
<1>3. kept \in ClientRow /\ kept.by = session.by /\ (kept.tx = "none" => ~kept.bound)
      /\ (stmt = "BEGIN" /\ reply = "ok" => kept.tx = "open")
  <2> HIDE DEF done
  <2>1. CASE Carried(reply)
    BY <1>2, <2>1
  <2>2. CASE ~Carried(reply) /\ stmt = "COMMIT"
    BY Zenon, <2>2 DEF ClientRow
  <2>3. CASE ~Carried(reply) /\ stmt # "COMMIT"
    BY Zenon, <2>3 DEF ClientRow, Carried
  <2> QED
    BY <2>1, <2>2, <2>3
<1>4. After(stmt, session, reply) = [kept EXCEPT !.dead = @ \/ Died(reply)]
  BY DEF After
<1> HIDE DEF kept
<1> QED
  BY <1>1, <1>3, <1>4

(* Where a call goes. *)
LEMMA MovedTo ==
  ASSUME CallsOK, NEW c \in Calls, NEW reply, NEW to, "pc" \in DOMAIN to, Move(c, to, reply)
  PROVE  call'[c].pc = to.pc /\ \A d \in Calls : d # c => call'[d] = call[d]
BY DEF Move, CallsOK

(* A statement of a call that keeps its connection. *)
LEMMA StatementKeeps ==
  ASSUME ClientInv, NEW c \in Calls, NEW reply \in Replies,
         NEW stmt \in {"BEGIN", "bind", "work", "COMMIT", "ROLLBACK"},
         NEW to, "pc" \in DOMAIN to, Move(c, to, reply),
         call[c].pc \in Busy, to.pc \in Busy, Statement(c, stmt, reply), CallsOK',
         stmt = "bind" => call[c].pc = "bind",
         to.pc = "bind" => stmt = "BEGIN" /\ reply = "ok"
  PROVE  ClientInv'
<1> DEFINE k == Of(c)
           row == After(stmt, client[k], reply)
<1>1. k \in 1 .. PoolMax /\ c \in client[k].by
  BY HeldConnection
<1>2. /\ client[k] \in ClientRow
      /\ client[k].tx = "none" => ~client[k].bound
      /\ stmt = "bind" => client[k].tx = "open"
  BY <1>1 DEF ClientInv, Sessions
<1>3. /\ row \in ClientRow /\ row.by = client[k].by
      /\ row.tx = "none" => ~row.bound
      /\ stmt = "BEGIN" /\ reply = "ok" => row.tx = "open"
  BY Zenon, <1>2, AfterStatement
<1>4. client' = [client EXCEPT ![k] = row]
  BY DEF Statement
<1>5. /\ call'[c].pc = to.pc
      /\ \A d \in Calls : d # c => call'[d] = call[d]
  BY MovedTo DEF ClientInv
<1> HIDE DEF k, row
<1>6. /\ client' \in [1 .. PoolMax -> ClientRow]
      /\ \A l \in 1 .. PoolMax : client'[l].by = client[l].by
      /\ \A l \in 1 .. PoolMax : l # k => client'[l] = client[l]
      /\ client'[k] = row
  BY <1>1, <1>3, <1>4 DEF ClientInv
<1>7. \A l \in 1 .. PoolMax : client[l].by \subseteq Calls
  BY DEF ClientInv, ClientRow
<1>8. Lent'
  BY <1>5, <1>6, <1>7 DEF ClientInv, Lent
<1>9. \A l \in 1 .. PoolMax : c \in client[l].by => l = k
  BY <1>1 DEF ClientInv, Lent
<1>10. Sessions'
  <2>1. \A l \in 1 .. PoolMax : client'[l].tx = "none" => ~client'[l].bound
    BY <1>3, <1>6 DEF ClientInv, Sessions
  <2>2. ASSUME NEW l \in 1 .. PoolMax, NEW d \in client'[l].by, call'[d].pc = "bind"
        PROVE  client'[l].tx = "open"
    <3>1. d \in Calls /\ d \in client[l].by
      BY <1>6, <1>7
    <3>2. CASE d = c
      BY <1>3, <1>5, <1>6, <1>9, <2>2, <3>1, <3>2
    <3>3. CASE d # c
      <4>1. call[d].pc = "bind" /\ client[l].tx = "open"
        BY <1>5, <2>2, <3>1, <3>3 DEF ClientInv, Sessions
      <4>2. CASE l = k
        BY <1>1, <3>1, <3>3, <4>2 DEF ClientInv, Lent
      <4>3. CASE l # k
        BY <1>6, <4>1, <4>3
      <4> QED
        BY <4>2, <4>3
    <3> QED
      BY <3>2, <3>3
  <2> QED
    BY <2>1, <2>2 DEF Sessions
<1>11. FreeIsFresh'
  BY <1>1, <1>6 DEF ClientInv, FreeIsFresh
<1> QED
  BY <1>6, <1>8, <1>10, <1>11 DEF ClientInv

LEMMA ClientStep == AnswerInv /\ AnswerInv' /\ ClientInv /\ [Next]_vars => ClientInv'
<1> SUFFICES ASSUME AnswerInv, AnswerInv', ClientInv, [Next]_vars PROVE ClientInv'
  OBVIOUS
<1>a. CallsOK /\ CallsOK' /\ \A c \in Calls : call[c] \in CallRow
  BY DEF AnswerInv, CallsOK
<1>b. \A k \in 1 .. PoolMax : client[k].by \subseteq Calls /\ client[k] \in ClientRow
  BY DEF ClientInv, ClientRow
<1>1. ASSUME NEW c \in Calls, Start(c) \/ ConnectTimeout(c)
      PROVE  ClientInv'
  <2>1. /\ client' = client
        /\ call[c].pc \notin Busy /\ call'[c].pc \notin Busy
        /\ \A d \in Calls : d # c => call'[d] = call[d]
    BY <1>1, <1>a DEF Start, Free, ConnectTimeout, NewCall, CallRow, CallsOK, Busy
  <2>2. Lent' /\ Sessions' /\ FreeIsFresh'
    BY <2>1, <1>b DEF ClientInv, Lent, Sessions, FreeIsFresh
  <2> QED
    BY <1>a, <2>1, <2>2 DEF ClientInv
<1>2. ASSUME NEW c \in Calls, NEW k \in DOMAIN client, Connect(c, k)
      PROVE  ClientInv'
  <2>1. /\ call[c].pc = "connect" /\ call'[c].pc = "begin"
        /\ \A d \in Calls : d # c => call'[d] = call[d]
    BY <1>2, <1>a DEF Connect, CallRow, CallsOK
  <2>2. /\ k \in 1 .. PoolMax /\ client[k].by = {} /\ client' \in [1 .. PoolMax -> ClientRow]
        /\ client'[k].by = {c} /\ client'[k].tx = client[k].tx /\ client'[k].bound = client[k].bound
        /\ \A l \in 1 .. PoolMax : l # k => client'[l] = client[l]
    BY ZenonT(60), <1>2, <1>b DEF Connect, ClientInv, ClientRow
  <2>3. \A l \in 1 .. PoolMax : c \notin client[l].by
    BY <2>1 DEF ClientInv, Lent, Busy
  <2>4. Lent'
    BY <1>b, <2>1, <2>2, <2>3 DEF ClientInv, Lent, Busy
  <2>5. Sessions' /\ FreeIsFresh'
    BY <1>b, <2>1, <2>2, <2>3 DEF ClientInv, Sessions, FreeIsFresh
  <2> QED
    BY <1>a, <2>2, <2>4, <2>5 DEF ClientInv
<1>3. ASSUME NEW c \in Calls, NEW reply \in Replies, NEW refused \in BOOLEAN,
             Begin(c, reply) \/ Bind(c, reply, refused) \/ Work(c, reply)
               \/ Commit(c, reply) \/ Rollback(c, reply)
      PROVE  ClientInv'
  <2>1. CASE Begin(c, reply)
    <3> DEFINE to == IF Failed(reply) THEN [call[c] EXCEPT !.pc = "discard", !.answer = "error"]
                        ELSE [call[c] EXCEPT !.pc = "bind"]
    <3>1. "pc" \in DOMAIN to /\ to.pc \in Busy /\ (to.pc = "bind" => reply = "ok")
      BY <1>a DEF CallRow, Busy, Failed
    <3>2. Move(c, to, reply)
      BY <2>1 DEF Begin
    <3> HIDE DEF to
    <3> QED
      BY <1>a, <2>1, <3>1, <3>2, StatementKeeps DEF Begin, Busy
  <2>2. CASE Bind(c, reply, refused)
    <3> DEFINE to == IF Failed(reply) \/ refused
                        THEN [call[c] EXCEPT !.pc = "rollback", !.answer = mapPostgresError(reply)]
                        ELSE [call[c] EXCEPT !.pc = "work"]
    <3>1. "pc" \in DOMAIN to /\ to.pc \in Busy /\ to.pc # "bind"
      BY <1>a DEF CallRow, Busy
    <3>2. Move(c, to, reply)
      BY <2>2 DEF Bind
    <3> HIDE DEF to
    <3> QED
      BY <1>a, <2>2, <3>1, <3>2, StatementKeeps DEF Bind, Busy
  <2>3. CASE Work(c, reply)
    <3> DEFINE to == IF Failed(reply)
                        THEN [call[c] EXCEPT !.pc = "rollback", !.answer = mapPostgresError(reply)]
                        ELSE [call[c] EXCEPT !.pc = "commit"]
    <3>1. "pc" \in DOMAIN to /\ to.pc \in Busy /\ to.pc # "bind"
      BY <1>a DEF CallRow, Busy
    <3>2. Move(c, to, reply)
      BY <2>3 DEF Work
    <3> HIDE DEF to
    <3> QED
      BY <1>a, <2>3, <3>1, <3>2, StatementKeeps DEF Work, Busy
  <2>4. CASE Commit(c, reply)
    <3> DEFINE to == [call[c] EXCEPT !.pc = IF Failed(reply) THEN "rollback" ELSE "discard",
                            !.answer = IF Failed(reply) THEN mapPostgresError(reply) ELSE "done",
                            !.committed = Carried(reply)]
    <3>1. "pc" \in DOMAIN to /\ to.pc \in Busy /\ to.pc # "bind"
      BY <1>a DEF CallRow, Busy
    <3>2. Move(c, to, reply)
      BY <2>4 DEF Commit
    <3> HIDE DEF to
    <3> QED
      BY <1>a, <2>4, <3>1, <3>2, StatementKeeps DEF Commit, Busy
  <2>5. CASE Rollback(c, reply)
    <3> DEFINE to == IF Failed(reply)
                        THEN [call[c] EXCEPT !.pc = "discard", !.answer = "error", !.destroy = TRUE]
                        ELSE [call[c] EXCEPT !.pc = "discard"]
    <3>1. "pc" \in DOMAIN to /\ to.pc \in Busy /\ to.pc # "bind"
      BY <1>a DEF CallRow, Busy
    <3>2. Move(c, to, reply)
      BY <2>5 DEF Rollback
    <3> HIDE DEF to
    <3> QED
      BY <1>a, <2>5, <3>1, <3>2, StatementKeeps DEF Rollback, Busy
  <2> QED
    BY <1>3, <2>1, <2>2, <2>3, <2>4, <2>5
<1>4. ASSUME NEW c \in Calls, NEW reply \in Replies, discardAndRelease(c, reply)
      PROVE  ClientInv'
  <2> DEFINE k == Of(c)
  <2>1. call[c].pc = "discard" /\ CanReply("DISCARD ALL", client[k], reply)
    BY Zenon, <1>4 DEF discardAndRelease
  <2>2. k \in 1 .. PoolMax /\ c \in client[k].by
    BY Zenon, <2>1, HeldConnection DEF Busy
  <2>3. /\ call'[c].pc = "answered"
        /\ \A d \in Calls : d # c => call'[d] = call[d]
    <3> DEFINE to == [call[c] EXCEPT !.pc = "answered", !.destroy = FALSE, !.broken = @ \/ Failed(reply),
                                     !.answer = IF Failed(reply) THEN "error" ELSE @]
    <3>1. "pc" \in DOMAIN to /\ to.pc = "answered"
      BY <1>a DEF CallRow
    <3>2. Move(c, to, reply)
      BY Zenon, <1>4 DEF discardAndRelease
    <3> HIDE DEF to
    <3> QED
      BY <1>a, <3>1, <3>2, MovedTo
  <2>4. client' = [client EXCEPT ![k] = IF Failed(reply) \/ call[c].destroy THEN Absent
                                        ELSE [client[k] EXCEPT !.by = {}]]
    BY Zenon, <1>4 DEF discardAndRelease
  (* A connection that goes back answered DISCARD ALL: it is alive and in no *)
  (* transaction.                                                            *)
  <2>5. client'[k] \in {Idle, Absent}
    <3>1. CASE Failed(reply) \/ call[c].destroy
      BY <2>2, <2>4, <3>1 DEF ClientInv
    <3>2. CASE ~(Failed(reply) \/ call[c].destroy)
      <4>1. reply = "ok"
        BY <3>2 DEF Failed
      <4>2. client[k].tx = "none" /\ ~client[k].dead /\ ~client[k].bound
        BY <2>1, <2>2, <4>1 DEF CanReply, ClientInv, Sessions
      <4>3. client'[k] = [client[k] EXCEPT !.by = {}]
        BY <2>2, <2>4, <3>2 DEF ClientInv
      <4>4. client[k] \in ClientRow
        BY <2>2, <1>b
      <4> HIDE DEF k
      <4>5. CASE client[k].there
        <5>1. client[k].there = TRUE /\ client[k].bound = FALSE /\ client[k].dead = FALSE
          BY <4>2, <4>4, <4>5 DEF ClientRow
        <5>2. client'[k] = Idle
          BY Zenon, <4>2, <4>3, <4>4, <5>1 DEF ClientRow, Idle, Fresh
        <5> QED
          BY <5>2
      <4>6. CASE ~client[k].there
        <5>1. client'[k] = Absent
          BY Zenon, <4>2, <4>3, <4>4, <4>6 DEF ClientRow, Absent, Fresh
        <5> QED
          BY <5>1
      <4> QED
        BY <4>5, <4>6
    <3> QED
      BY <3>1, <3>2
  <2> HIDE DEF k
  <2>6. Idle \in ClientRow /\ Absent \in ClientRow
    BY DEF Idle, Absent, Fresh, ClientRow
  <2>7. Idle.by = {} /\ Absent.by = {} /\ ~Idle.bound /\ ~Absent.bound
    BY DEF Idle, Absent, Fresh
  <2>8. /\ client' \in [1 .. PoolMax -> ClientRow]
        /\ \A l \in 1 .. PoolMax : l # k => client'[l] = client[l]
        /\ client'[k].by = {} /\ ~client'[k].bound
    <3>1. client'[k] \in ClientRow /\ client'[k].by = {} /\ ~client'[k].bound
      BY <2>5, <2>6, <2>7
    <3>2. client' = [client EXCEPT ![k] = client'[k]]
      BY <2>2, <2>4 DEF ClientInv
    <3> QED
      BY Zenon, <2>2, <3>1, <3>2 DEF ClientInv
  <2>9. Lent'
    BY <1>b, <2>2, <2>3, <2>8 DEF ClientInv, Lent, Busy
  <2>10. Sessions'
    BY <1>b, <2>2, <2>3, <2>8 DEF ClientInv, Sessions, Lent, Busy
  <2>11. FreeIsFresh'
    BY <2>5, <2>8 DEF ClientInv, FreeIsFresh
  <2> QED
    BY <1>a, <2>8, <2>9, <2>10, <2>11 DEF ClientInv
<1>5. ASSUME NEW c \in Calls, NEW d \in Calls, Nest(c, d) \/ Resume(c, d)
      PROVE  ClientInv'
  <2>1. /\ client' = client /\ c # d
        /\ call[c].pc \in Busy \ {"bind"} /\ call'[c].pc \in Busy \ {"bind"}
        /\ call[d].pc \notin Busy /\ call'[d].pc \notin Busy
        /\ \A e \in Calls : e # c /\ e # d => call'[e] = call[e]
    <3>1. CASE Nest(c, d)
      BY <1>a, <3>1 DEF Nest, Free, NewCall, CallRow, CallsOK, Busy
    <3>2. CASE Resume(c, d)
      <4> DEFINE r == IF call[d].answer = "done" THEN [call[c] EXCEPT !.pc = "resumed"]
                      ELSE [call[c] EXCEPT !.pc = "rollback", !.answer = call[d].answer]
                 s == [call[d] EXCEPT !.outer = {}]
      <4>1. client' = client /\ call[c].pc = "nested" /\ call[d].pc = "answered"
        BY <3>2 DEF Resume
      <4>2. r.pc \in {"resumed", "rollback"} /\ s.pc = "answered"
        BY <1>a, <4>1 DEF CallRow
      <4>3. c # d
        BY <4>1
      <4>4. call' = [call EXCEPT ![c] = r, ![d] = s]
        BY <1>a, <3>2, <4>3 DEF Resume, CallsOK
      <4> HIDE DEF r, s
      <4>5. call'[c] = r /\ call'[d] = s /\ \A e \in Calls : e # c /\ e # d => call'[e] = call[e]
        BY <1>a, <4>3, <4>4 DEF CallsOK
      <4> QED
        BY <4>1, <4>2, <4>3, <4>5 DEF Busy
    <3> QED
      BY <1>5, <3>1, <3>2
  <2>2. Lent' /\ Sessions' /\ FreeIsFresh'
    BY <2>1, <1>b DEF ClientInv, Lent, Sessions, FreeIsFresh
  <2> QED
    BY <1>a, <2>1, <2>2 DEF ClientInv
<1>6. CASE UNCHANGED vars
  BY <1>6 DEF vars, ClientInv, CallsOK, Lent, Sessions, FreeIsFresh
<1> QED
  BY Zenon, <1>1, <1>2, <1>3, <1>4, <1>5, <1>6 DEF Next, Step, Lend, Return

(* discardAndRelease: whatever fails, at whatever statement, in any number  *)
(* of calls over a pool of any size, a connection that waits in the pool     *)
(* carries no transaction, no tenant and no dead socket.                     *)
THEOREM IdleConnectionsAreClean == Spec => []IdleIsClean
<1>1. ClientInv => IdleIsClean
  <2>1. ~Absent.there
    BY DEF Absent, Fresh
  <2> QED
    BY <2>1 DEF ClientInv, FreeIsFresh, IdleIsClean
<1> QED
  BY AnswerInit, AnswerStep, ClientInit, ClientStep, <1>1, PTL DEF Spec
=============================================================================
