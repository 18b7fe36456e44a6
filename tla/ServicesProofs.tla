----------------------------- MODULE ServicesProofs -----------------------------
(* Theorems of Monitor and of Policy, and of the six parts of MCServices together. *)
EXTENDS MCServices, SignInProofs, OutagesProofs, FunctionTheorems, TLAPS

(* Monitor: types *)

LEMMA LoadedIsNoView ==
    ASSUME NEW g \in View
    PROVE  /\ g # Loaded /\ g.at # "loaded" /\ g.looked \in Int
           /\ g.at \in {"look", "join", "lead", "wait"}
<1>1. g.at \in {"look", "join", "lead", "wait"} /\ Loaded.at = "loaded"
  BY DEF View, Loaded
<1>2. g.looked \in Int
  BY ClockAssumption DEF View, Never
<1>3. QED
  BY <1>1, <1>2

LEMMA ViewUnderWay ==
    ASSUME MonitorTypeOK, NEW v \in Views, NEW p \in Panels,
           views[v][p].at # "loaded" \/ views[v][p] # Loaded
    PROVE  views[v][p] \in View
<1>1. views[v][p] \in View \cup {Loaded}
  BY DEF MonitorTypeOK
<1>2. Loaded.at = "loaded"
  BY DEF Loaded
<1>3. QED
  BY <1>1, <1>2

LEMMA ViewWritten ==
    ASSUME MonitorTypeOK, NEW v \in Views, NEW p \in Panels, NEW g \in View \cup {Loaded},
           views' = [views EXCEPT ![v][p] = g]
    PROVE  /\ views' \in [Views -> [Panels -> View \cup {Loaded}]]
           /\ views'[v][p] = g
           /\ \A u \in Views, q \in Panels : u # v \/ q # p => views'[u][q] = views[u][q]
BY DEF MonitorTypeOK

\* The goroutine of v for p goes from one step to the next.
LEMMA LookSteps ==
    ASSUME MonitorTypeOK, NEW v \in Views, NEW p \in Panels, views[v][p].at = "look",
           views' = [views EXCEPT ![v][p].at = "join", ![v][p].looked = now]
    PROVE  \E g \in View : /\ g.at = "join" /\ g.looked = now
                           /\ views' = [views EXCEPT ![v][p] = g]
<1>1. PICK h : h = views[v][p]
  OBVIOUS
<1>2. h \in View
  BY <1>1, ViewUnderWay
<1>3. PICK g : g = [[h EXCEPT !.at = "join"] EXCEPT !.looked = now]
  OBVIOUS
<1>4. now \in 0..MaxTime
  BY DEF MonitorTypeOK
<1>5. g \in View /\ g.at = "join" /\ g.looked = now
  BY <1>2, <1>3, <1>4 DEF View
<1>6. views' = [views EXCEPT ![v][p] = g]
  BY <1>1, <1>3 DEF MonitorTypeOK
<1>7. QED
  BY <1>5, <1>6

LEMMA JoinSteps ==
    ASSUME MonitorTypeOK, NEW v \in Views, NEW p \in Panels, Join(v, p)
    PROVE  \E g \in View : /\ g.at \in {"lead", "wait"} /\ g.looked = views[v][p].looked
                           /\ views' = [views EXCEPT ![v][p] = g]
<1>1. PICK h : h = views[v][p]
  OBVIOUS
<1>2. h \in View
  BY <1>1, ViewUnderWay DEF Join
<1>3. PICK next \in {"lead", "wait"} : views' = [views EXCEPT ![v][p].at = next]
  BY DEF Join
<1>4. PICK g : g = [h EXCEPT !.at = next]
  OBVIOUS
<1>5. g \in View /\ g.at = next /\ g.looked = h.looked
  BY <1>2, <1>3, <1>4 DEF View
<1>6. views' = [views EXCEPT ![v][p] = g]
  BY <1>1, <1>3, <1>4 DEF MonitorTypeOK
<1>7. QED
  BY <1>1, <1>3, <1>5, <1>6

LEMMA ListTypes ==
    ASSUME MonitorTypeOK, NEW v \in Views, NEW kind \in {"live", "summary"}, List(v, kind)
    PROVE  MonitorTypeOK'
<1>1. PICK g : g = [at |-> "look", kind |-> kind, looked |-> Never]
  OBVIOUS
<1>2. g \in View
  BY <1>1 DEF View
<1>3. views' = [views EXCEPT ![v] = [p \in Panels |-> IF p \in active THEN g ELSE Loaded]]
  BY <1>1 DEF List
<1>4. views' \in [Views -> [Panels -> View \cup {Loaded}]]
  BY <1>2, <1>3 DEF MonitorTypeOK
<1>5. entries' \in [Views -> [Panels -> Entry]]
  BY DEF List, MonitorTypeOK, Entry, Blank
<1>6. loads' \in 0..MaxLoads
  BY MonitorAssumption DEF List, Load, MonitorTypeOK
<1>7. QED
  BY <1>4, <1>5, <1>6 DEF List, MonitorTypeOK

LEMMA LookTypes ==
    ASSUME MonitorTypeOK, NEW v \in Views, NEW p \in Panels, Look(v, p)
    PROVE  MonitorTypeOK'
<1>1. views' \in [Views -> [Panels -> View \cup {Loaded}]]
  BY LookSteps, ViewWritten DEF Look
<1>2. entries' \in [Views -> [Panels -> Entry]]
  <2>1. PICK e \in Entry : e = [status |-> statusAt[p], looked |-> now]
    BY DEF MonitorTypeOK, Entry
  <2>2. entries' = entries \/ entries' = [entries EXCEPT ![v][p] = e]
    BY <2>1 DEF Look
  <2>3. entries \in [Views -> [Panels -> Entry]]
    BY DEF MonitorTypeOK
  <2>4. QED
    BY <2>2, <2>3
<1>3. QED
  BY <1>1, <1>2 DEF Look, MonitorTypeOK

LEMMA JoinTypes ==
    ASSUME MonitorTypeOK, NEW v \in Views, NEW p \in Panels, Join(v, p)
    PROVE  MonitorTypeOK'
<1>1. views' \in [Views -> [Panels -> View \cup {Loaded}]]
  BY JoinSteps, ViewWritten
<1>2. repeats' \in [Panels -> Nat]
  BY DEF Join, MonitorTypeOK
<1>3. QED
  BY <1>1, <1>2 DEF Join, MonitorTypeOK

LEMMA FetchTypes ==
    ASSUME MonitorTypeOK, NEW p \in Panels, NEW ok \in BOOLEAN, FetchStatus(p, ok)
    PROVE  MonitorTypeOK'
<1>1. views' \in [Views -> [Panels -> View \cup {Loaded}]]
  BY DEF FetchStatus, MonitorTypeOK
<1>2. ASSUME NEW v \in Views PROVE entries'[v] \in [Panels -> Entry]
  <2>1. CASE v \notin Party(p)
    BY <2>1 DEF FetchStatus, MonitorTypeOK
  <2>2. CASE v \in Party(p)
    <3>1. views[v][p] \in View
      BY <2>2, ViewUnderWay DEF Party
    <3>2. views[v][p].looked \in 0..MaxTime \cup {Never} /\ now \in 0..MaxTime
      BY <3>1 DEF View, MonitorTypeOK
    <3>3. [status |-> IF ok THEN now ELSE Never, looked |-> views[v][p].looked] \in Entry
      BY <3>2 DEF Entry
    <3>4. entries[v] \in [Panels -> Entry]
      BY DEF MonitorTypeOK
    <3>5. entries'[v] = [entries[v] EXCEPT
             ![p] = [status |-> IF ok THEN now ELSE Never, looked |-> views[v][p].looked]]
      BY <2>2 DEF FetchStatus
    <3>6. QED
      BY <3>3, <3>4, <3>5
  <2>3. QED
    BY <2>1, <2>2
<1>3. entries' \in [Views -> [Panels -> Entry]]
  BY <1>2 DEF FetchStatus
<1>4. statusAt' \in [Panels -> 0..MaxTime \cup {Never}] /\ repeats' \in [Panels -> Nat]
  BY DEF FetchStatus, MonitorTypeOK
<1>5. QED
  BY <1>1, <1>3, <1>4 DEF FetchStatus, MonitorTypeOK

LEMMA MonitorStepTypes ==
    ASSUME MonitorTypeOK, MonitorNext
    PROVE  MonitorTypeOK'
<1>1. ASSUME NEW v \in Views, NEW p \in Panels, Unopened(v, p) PROVE MonitorTypeOK'
  <2>1. views' \in [Views -> [Panels -> View \cup {Loaded}]]
    BY <1>1, ViewWritten DEF Unopened
  <2>2. QED
    BY <1>1, <2>1 DEF Unopened, MonitorTypeOK
<1>2. ASSUME NEW p \in Panels, ChangeRow(p) PROVE MonitorTypeOK'
  <2>1. loads' \in 0..MaxLoads
    BY <1>2, MonitorAssumption DEF ChangeRow, Load, MonitorTypeOK
  <2>2. QED
    BY <1>2, <2>1 DEF ChangeRow, MonitorTypeOK
<1>3. CASE MonitorTick
  BY <1>3, ClockAssumption DEF MonitorTick, Tick, MonitorTypeOK
<1>4. QED
  BY <1>1, <1>2, <1>3, ListTypes, LookTypes, JoinTypes, FetchTypes DEF MonitorNext

LEMMA MonitorInitTypes ==
    ASSUME MonitorInit
    PROVE  MonitorTypeOK
BY MonitorAssumption, ClockAssumption DEF MonitorInit, MonitorTypeOK, Entry, Blank

\* A goroutine looks, joins, leads or waits with the instant of its look, and what is
\* cached and shown are instants of the clock.
THEOREM MonitorTypeCorrect == MonitorSpec => []MonitorTypeOK
<1>1. MonitorInit => MonitorTypeOK
  BY MonitorInitTypes
<1>2. MonitorTypeOK /\ [MonitorNext]_monitorVars => MonitorTypeOK'
  <2>1. ASSUME MonitorTypeOK, UNCHANGED monitorVars PROVE MonitorTypeOK'
    BY <2>1 DEF monitorVars, MonitorTypeOK
  <2>2. QED
    BY <2>1, MonitorStepTypes
<1>3. QED
  BY <1>1, <1>2, PTL DEF MonitorSpec

-----------------------------------------------------------------------------
(* Monitor: the shared status.  A load that looked before the status was stored asks  *)
(* again at most once, and the load that stored it is not among them.                *)

Joining(p) == {v \in Views : views[v][p].at = "join"}
ShownInTime(v, p) ==
    entries[v][p].status # Never => entries[v][p].status > entries[v][p].looked - StatusTTL
ShareAt(p) ==
    /\ repeats[p] < Cardinality(Views)
    /\ statusAt[p] <= now
    /\ Fresh(p) => repeats[p] + Cardinality(Joining(p)) < Cardinality(Views)
    /\ \A v \in Views : (views[v][p] # Loaded => views[v][p].looked <= now) /\ ShownInTime(v, p)
ShareInv == \A p \in Panels : ShareAt(p)

LEMMA ShareNumbers ==
    ASSUME MonitorTypeOK, NEW p \in Panels
    PROVE  /\ repeats[p] \in Nat /\ statusAt[p] \in Int /\ now \in Nat
           /\ \A v \in Views : entries[v][p].status \in Int /\ entries[v][p].looked \in Int
           /\ Cardinality(Joining(p)) \in Nat /\ Cardinality(Views) \in Nat /\ Cardinality(Views) > 0
           /\ StatusTTL \in Nat /\ StatusTTL > 0
<1>1. repeats[p] \in Nat /\ statusAt[p] \in 0..MaxTime \cup {Never} /\ now \in 0..MaxTime
  BY DEF MonitorTypeOK
<1>2. statusAt[p] \in Int /\ now \in Nat
  BY <1>1, ClockAssumption DEF Never
<1>3. ASSUME NEW v \in Views PROVE entries[v][p].status \in Int /\ entries[v][p].looked \in Int
  <2>1. entries[v][p] \in Entry
    BY DEF MonitorTypeOK
  <2>2. QED
    BY <2>1, ClockAssumption DEF Entry, Never
<1>4. IsFiniteSet(Views) /\ Views # {} /\ Joining(p) \subseteq Views
  BY MonitorAssumption DEF Joining
<1>5. Cardinality(Joining(p)) \in Nat /\ Cardinality(Views) \in Nat
  BY <1>4, FS_CardinalityType, FS_Subset
<1>6. Cardinality(Views) # 0
  BY <1>4, FS_EmptySet
<1>7. QED
  BY <1>1, <1>2, <1>3, <1>5, <1>6, MonitorAssumption

\* What a step does not touch of a server keeps its share.
LEMMA ShareStays ==
    ASSUME MonitorTypeOK, ShareInv, NEW p \in Panels,
           now' = now, repeats'[p] = repeats[p], statusAt'[p] = statusAt[p],
           \A v \in Views : /\ views'[v][p] = views[v][p] \/ views'[v][p] = Loaded
                               \/ (views'[v][p].at # "join" /\ views'[v][p].looked <= now)
                            /\ entries'[v][p] = entries[v][p] \/ ShownInTime(v, p)'
    PROVE  ShareAt(p)'
<1>1. ShareAt(p)
  BY DEF ShareInv
<1>2. Loaded.at # "join"
  BY DEF Loaded
<1>3. Joining(p)' \subseteq Joining(p)
  BY <1>2 DEF Joining
<1>4. PICK less, more : less = Joining(p)' /\ more = Joining(p)
  OBVIOUS
<1>5. less \subseteq more /\ more \subseteq Views /\ IsFiniteSet(Views)
  BY <1>3, <1>4, MonitorAssumption DEF Joining
<1>6. /\ Cardinality(less) \in Nat /\ Cardinality(more) \in Nat
      /\ Cardinality(less) <= Cardinality(more)
  BY <1>5, FS_Subset, FS_CardinalityType
<1>7. Fresh(p)' <=> Fresh(p)
  BY DEF Fresh
<1>8. Fresh(p)' => repeats'[p] + Cardinality(Joining(p)') < Cardinality(Views)
  <2>1. PICK k \in Nat, all \in Nat : k = repeats[p] /\ all = Cardinality(Views)
    BY ShareNumbers
  <2>2. Fresh(p) => k + Cardinality(more) < all
    BY <1>1, <1>4, <2>1 DEF ShareAt
  <2>3. QED
    BY <1>4, <1>6, <1>7, <2>1, <2>2
<1>9. \A v \in Views : (views'[v][p] # Loaded => views'[v][p].looked <= now') /\ ShownInTime(v, p)'
  BY <1>1 DEF ShareAt, ShownInTime
<1>10. QED
  BY <1>1, <1>8, <1>9 DEF ShareAt

LEMMA ListShares ==
    ASSUME MonitorTypeOK, ShareInv, NEW v \in Views, NEW kind \in {"live", "summary"},
           List(v, kind)
    PROVE  ShareInv'
<1>1. PICK g : g = [at |-> "look", kind |-> kind, looked |-> Never]
  OBVIOUS
<1>2. g.at # "join" /\ g.looked = Never /\ Never <= now
  BY <1>1, ClockAssumption DEF Never, MonitorTypeOK
<1>3. views' = [views EXCEPT ![v] = [p \in Panels |-> IF p \in active THEN g ELSE Loaded]]
  BY <1>1 DEF List
<1>4. Blank.status = Never
  BY DEF Blank
<1>5. ASSUME NEW p \in Panels, NEW u \in Views
      PROVE  /\ views'[u][p] = views[u][p] \/ views'[u][p] = Loaded \/ views'[u][p] = g
             /\ entries'[u][p] = entries[u][p] \/ entries'[u][p] = Blank
  BY <1>3 DEF List, MonitorTypeOK
<1>6. ASSUME NEW p \in Panels PROVE ShareAt(p)'
  BY <1>2, <1>4, <1>5, ShareStays DEF List, ShownInTime
<1>7. QED
  BY <1>6 DEF ShareInv

LEMMA LookShares ==
    ASSUME MonitorTypeOK, ShareInv, NEW v \in Views, NEW p \in Panels, Look(v, p)
    PROVE  ShareInv'
<1>1. UNCHANGED <<now, repeats, statusAt>>
  BY DEF Look
<1>2. CASE Fresh(p)
  <2>1. PICK e : e = [status |-> statusAt[p], looked |-> now]
    OBVIOUS
  <2>2. /\ e.status = statusAt[p] /\ e.looked = now
        /\ entries' = [entries EXCEPT ![v][p] = e]
        /\ views' = [views EXCEPT ![v][p] = Loaded]
    BY <1>2, <2>1 DEF Look
  <2>3. statusAt[p] > now - StatusTTL
    BY <1>2, ShareNumbers DEF Fresh
  <2>4. entries'[v][p] = e /\ \A u \in Views, q \in Panels :
                                u # v \/ q # p => entries'[u][q] = entries[u][q]
    BY <2>2 DEF MonitorTypeOK
  <2>5. \A u \in Views, q \in Panels : views'[u][q] = views[u][q] \/ views'[u][q] = Loaded
    BY <2>2, ViewWritten
  <2>6. ShownInTime(v, p)'
    BY <2>2, <2>3, <2>4 DEF ShownInTime
  <2>7. ASSUME NEW q \in Panels PROVE ShareAt(q)'
    BY <1>1, <2>4, <2>5, <2>6, ShareStays
  <2>8. QED
    BY <2>7 DEF ShareInv
<1>3. CASE ~Fresh(p)
  <2>1. PICK g \in View : /\ g.at = "join" /\ g.looked = now
                          /\ views' = [views EXCEPT ![v][p] = g]
    BY <1>3, LookSteps DEF Look
  <2>2. views'[v][p] = g /\ \A u \in Views, q \in Panels :
                              u # v \/ q # p => views'[u][q] = views[u][q]
    <3>1. views \in [Views -> [Panels -> View \cup {Loaded}]]
      BY DEF MonitorTypeOK
    <3>2. QED
      BY <2>1, <3>1
  <2>3. entries' = entries
    BY <1>3 DEF Look
  <2>4. ASSUME NEW q \in Panels, q # p PROVE ShareAt(q)'
    BY <1>1, <2>2, <2>3, <2>4, ShareStays
  <2>5. ~Fresh(p)'
    BY <1>1, <1>3 DEF Fresh
  <2>6. ShareAt(p)
    BY DEF ShareInv
  <2>7. \A u \in Views : views'[u][p] # Loaded => views'[u][p].looked <= now
    <3>1. now <= now
      BY ShareNumbers
    <3>2. QED
      BY <2>1, <2>2, <2>6, <3>1 DEF ShareAt
  <2>8. \A u \in Views : ShownInTime(u, p)'
    BY <2>3, <2>6 DEF ShareAt, ShownInTime
  <2>9. ShareAt(p)'
    BY <1>1, <2>5, <2>6, <2>7, <2>8 DEF ShareAt
  <2>10. QED
    BY <2>4, <2>9 DEF ShareInv
<1>4. QED
  BY <1>2, <1>3

LEMMA JoinShares ==
    ASSUME MonitorTypeOK, ShareInv, NEW v \in Views, NEW p \in Panels, Join(v, p)
    PROVE  ShareInv'
<1>1. UNCHANGED <<now, statusAt, entries>> /\ views[v][p].at = "join"
  BY DEF Join
<1>2. \/ repeats' = repeats
      \/ repeats' = [repeats EXCEPT ![p] = IF Fresh(p) THEN @ + 1 ELSE @]
  BY DEF Join
<1>3. PICK g \in View : /\ g.at # "join" /\ g.looked = views[v][p].looked
                        /\ views' = [views EXCEPT ![v][p] = g]
  BY JoinSteps
<1>4. views'[v][p] = g /\ \A u \in Views, q \in Panels :
                            u # v \/ q # p => views'[u][q] = views[u][q]
  <2>1. views \in [Views -> [Panels -> View \cup {Loaded}]]
    BY DEF MonitorTypeOK
  <2>2. QED
    BY <1>3, <2>1
<1>5. views[v][p] \in View
  BY <1>1, ViewUnderWay
<1>6. g.looked <= now
  BY <1>3, <1>5, LoadedIsNoView DEF ShareInv, ShareAt
<1>7. ASSUME NEW q \in Panels, q # p \/ repeats'[q] = repeats[q] PROVE ShareAt(q)'
  <2>1. repeats'[q] = repeats[q]
    BY <1>2, <1>7 DEF MonitorTypeOK
  <2>2. \A u \in Views : views'[u][q] = views[u][q]
                         \/ (views'[u][q].at # "join" /\ views'[u][q].looked <= now)
    BY <1>3, <1>4, <1>6
  <2>3. QED
    BY <1>1, <2>1, <2>2, ShareStays
<1>8. ASSUME repeats'[p] # repeats[p] PROVE ShareAt(p)'
  <2>1. Fresh(p) /\ repeats'[p] = repeats[p] + 1
    BY <1>2, <1>8 DEF MonitorTypeOK
  <2>2. Joining(p)' = Joining(p) \ {v}
    BY <1>3, <1>4 DEF Joining
  <2>3. v \in Joining(p)
    BY <1>1 DEF Joining
  <2>4. IsFiniteSet(Joining(p))
    BY MonitorAssumption, FS_Subset DEF Joining
  <2>5. PICK k \in Nat, n \in Nat, all \in Nat :
          k = repeats[p] /\ n = Cardinality(Joining(p)) /\ all = Cardinality(Views)
    BY ShareNumbers
  <2>6. ShareAt(p)
    BY DEF ShareInv
  <2>7. k + n < all
    BY <2>1, <2>5, <2>6 DEF ShareAt
  <2>8. Cardinality(Joining(p) \ {v}) = n - 1
    BY <2>3, <2>4, <2>5, FS_RemoveElement
  <2>9. n # 0
    BY <2>3, <2>4, <2>5, FS_EmptySet
  <2>10. repeats'[p] = k + 1 /\ Cardinality(Joining(p)') = n - 1
    BY <2>1, <2>2, <2>5, <2>8
  <2>11. repeats'[p] < all /\ repeats'[p] + Cardinality(Joining(p)') < all
    BY <2>7, <2>9, <2>10
  <2>12. \A u \in Views : (views'[u][p] # Loaded => views'[u][p].looked <= now) /\ ShownInTime(u, p)'
    BY <1>1, <1>4, <1>6, <2>6 DEF ShareAt, ShownInTime
  <2>13. QED
    BY <1>1, <2>5, <2>6, <2>11, <2>12 DEF ShareAt
<1>9. QED
  BY <1>7, <1>8 DEF ShareInv

LEMMA FetchShares ==
    ASSUME MonitorTypeOK, ShareInv, NEW p \in Panels, NEW ok \in BOOLEAN, FetchStatus(p, ok)
    PROVE  ShareInv'
<1>1. UNCHANGED now /\ now \in Nat
  BY ShareNumbers DEF FetchStatus
<1>2. ASSUME NEW u \in Views, NEW q \in Panels
      PROVE  /\ u \notin Party(p) \/ q # p =>
                   views'[u][q] = views[u][q] /\ entries'[u][q] = entries[u][q]
             /\ u \in Party(p) /\ q = p =>
                   views'[u][q] = Loaded /\ entries'[u][q].looked = views[u][q].looked
                   /\ entries'[u][q].status = IF ok THEN now ELSE Never
  BY DEF FetchStatus, MonitorTypeOK
<1>3. ASSUME NEW u \in Party(p) PROVE ShownInTime(u, p)'
  <2>1. u \in Views /\ views[u][p] \in View
    BY ViewUnderWay DEF Party
  <2>2. views[u][p].looked <= now /\ views[u][p].looked \in Int
    BY <2>1, LoadedIsNoView DEF ShareInv, ShareAt
  <2>3. PICK looked \in Int : looked = views[u][p].looked /\ looked <= now
    BY <2>2
  <2>4. entries'[u][p].looked = looked /\ (~ok => entries'[u][p].status = Never)
        /\ (ok => entries'[u][p].status = now)
    BY <1>2, <2>1, <2>3
  <2>5. now > looked - StatusTTL
    BY <1>1, <2>3, MonitorAssumption
  <2>6. QED
    BY <2>4, <2>5 DEF ShownInTime
<1>4. ASSUME NEW q \in Panels, q # p \/ ~ok PROVE ShareAt(q)'
  <2>1. repeats'[q] = repeats[q] /\ statusAt'[q] = statusAt[q]
    BY <1>4 DEF FetchStatus, MonitorTypeOK
  <2>2. QED
    BY <1>1, <1>2, <1>3, <2>1, ShareStays
<1>5. ASSUME ok PROVE ShareAt(p)'
  <2>1. repeats'[p] = 0 /\ statusAt'[p] = now
    BY <1>5 DEF FetchStatus, MonitorTypeOK
  <2>2. PICK leader \in Views : views[leader][p].at = "lead"
    BY DEF FetchStatus, Leading
  <2>3. Joining(p)' \subseteq Views \ {leader}
    <3>1. leader \in Party(p)
      BY <2>2 DEF Party
    <3>2. views'[leader][p].at # "join"
      BY <1>2, <3>1 DEF Loaded
    <3>3. QED
      BY <3>2 DEF Joining
  <2>4. PICK all \in Nat : all = Cardinality(Views) /\ all > 0
    BY ShareNumbers
  <2>5. IsFiniteSet(Views \ {leader}) /\ Cardinality(Views \ {leader}) = all - 1
    BY <2>4, MonitorAssumption, FS_RemoveElement
  <2>6. Cardinality(Joining(p)') \in Nat /\ Cardinality(Joining(p)') <= all - 1
    <3>1. PICK joining : joining = Joining(p)'
      OBVIOUS
    <3>2. IsFiniteSet(joining) /\ Cardinality(joining) <= Cardinality(Views \ {leader})
      BY <2>3, <2>5, <3>1, FS_Subset
    <3>3. Cardinality(joining) \in Nat
      BY <3>2, FS_CardinalityType
    <3>4. QED
      BY <2>5, <3>1, <3>2, <3>3
  <2>7. repeats'[p] < all /\ repeats'[p] + Cardinality(Joining(p)') < all
    BY <2>1, <2>4, <2>6
  <2>8. ShareAt(p)
    BY DEF ShareInv
  <2>9. \A u \in Views : (views'[u][p] # Loaded => views'[u][p].looked <= now) /\ ShownInTime(u, p)'
    BY <1>2, <1>3, <2>8 DEF ShareAt, ShownInTime
  <2>10. statusAt'[p] <= now'
    BY <1>1, <2>1
  <2>11. QED
    BY <1>1, <2>4, <2>7, <2>9, <2>10 DEF ShareAt
<1>6. QED
  BY <1>4, <1>5 DEF ShareInv

LEMMA TickShares ==
    ASSUME MonitorTypeOK, ShareInv, MonitorTick
    PROVE  ShareInv'
<1>1. now' = now + 1 /\ UNCHANGED <<statusAt, views, entries, repeats>>
  BY DEF MonitorTick, Tick
<1>2. ASSUME NEW p \in Panels PROVE ShareAt(p)'
  <2>1. ShareAt(p) /\ statusAt[p] \in Int /\ now \in Nat /\ StatusTTL \in Nat
    BY ShareNumbers DEF ShareInv
  <2>2. Fresh(p)' => Fresh(p)
    BY <1>1, <2>1 DEF Fresh
  <2>3. Joining(p)' = Joining(p)
    BY <1>1 DEF Joining
  <2>4. \A v \in Views : views[v][p] # Loaded => views[v][p].looked \in Int
    BY ViewUnderWay, LoadedIsNoView
  <2>5. \A v \in Views : (views'[v][p] # Loaded => views'[v][p].looked <= now') /\ ShownInTime(v, p)'
    BY <1>1, <2>1, <2>4 DEF ShareAt, ShownInTime
  <2>6. statusAt'[p] <= now'
    BY <1>1, <2>1 DEF ShareAt
  <2>7. Fresh(p)' => repeats'[p] + Cardinality(Joining(p)') < Cardinality(Views)
    BY <1>1, <2>1, <2>2, <2>3 DEF ShareAt
  <2>8. QED
    BY <1>1, <2>1, <2>5, <2>6, <2>7 DEF ShareAt
<1>3. QED
  BY <1>2 DEF ShareInv

LEMMA ShareStep ==
    ASSUME MonitorTypeOK, ShareInv, MonitorNext
    PROVE  ShareInv'
<1>1. ASSUME NEW v \in Views, NEW p \in Panels, Unopened(v, p) PROVE ShareInv'
  <2>1. \A u \in Views, q \in Panels : views'[u][q] = views[u][q] \/ views'[u][q] = Loaded
    BY <1>1, ViewWritten DEF Unopened
  <2>2. ASSUME NEW q \in Panels PROVE ShareAt(q)'
    BY <1>1, <2>1, ShareStays DEF Unopened
  <2>3. QED
    BY <2>2 DEF ShareInv
<1>2. ASSUME NEW p \in Panels, ChangeRow(p) PROVE ShareInv'
  <2>1. ASSUME NEW q \in Panels PROVE ShareAt(q)'
    BY <1>2, ShareStays DEF ChangeRow
  <2>2. QED
    BY <2>1 DEF ShareInv
<1>3. QED
  BY <1>1, <1>2, ListShares, LookShares, JoinShares, FetchShares, TickShares DEF MonitorNext

\* However many loads look at once, no panel is asked again under a status that holds by
\* more than the loads that looked before it was stored, and no view shows a status that
\* was a statusCacheTTL old when it looked.
THEOREM StatusSharedHolds == MonitorSpec => []StatusShared
<1>1. MonitorInit => ShareInv
  <2>1. SUFFICES ASSUME MonitorInit, NEW p \in Panels PROVE ShareAt(p)
    BY DEF ShareInv
  <2>2. MonitorTypeOK
    BY <2>1, MonitorInitTypes
  <2>3. statusAt[p] = Never /\ repeats[p] = 0 /\ now = 0 /\ Never <= 0
    BY <2>1 DEF MonitorInit, Never
  <2>4. \A v \in Views : views[v][p] = Loaded /\ entries[v][p].status = Never
    BY <2>1 DEF MonitorInit, Blank
  <2>5. Cardinality(Views) > 0
    BY <2>2, ShareNumbers
  <2>6. QED
    BY <2>3, <2>4, <2>5 DEF ShareAt, ShownInTime, Fresh
<1>2. MonitorTypeOK /\ ShareInv /\ [MonitorNext]_monitorVars => ShareInv'
  <2>1. ASSUME ShareInv, UNCHANGED monitorVars PROVE ShareInv'
    BY <2>1 DEF monitorVars, ShareInv, ShareAt, ShownInTime, Joining, Fresh
  <2>2. QED
    BY <2>1, ShareStep
<1>3. ShareInv => StatusShared
  BY DEF ShareInv, ShareAt, ShownInTime, StatusShared
<1>4. QED
  BY <1>1, <1>2, <1>3, MonitorTypeCorrect, PTL DEF MonitorSpec

-----------------------------------------------------------------------------
(* Policy: the versions in use have an order, most servers first and then by name, so *)
(* that the list majorityVersion sorts is there whatever the fleet runs.             *)

Ahead(count, v, w) == count[v] > count[w] \/ (count[v] = count[w] /\ v < w)
InFront(S, count, v) == {u \in S : Ahead(count, u, v)}
SortedBy(S, count, sorted) ==
    /\ sorted \in SetToSeqs(S)
    /\ \A i, j \in DOMAIN sorted : i < j => Ahead(count, sorted[i], sorted[j])

\* Who is ahead of another has fewer in front.
LEMMA FewerInFront ==
    ASSUME NEW S, S \subseteq Nat, IsFiniteSet(S), NEW count \in [S -> Nat],
           NEW v \in S, NEW w \in S, Ahead(count, v, w)
    PROVE  Cardinality(InFront(S, count, v)) < Cardinality(InFront(S, count, w))
<1>1. v \in Nat /\ w \in Nat /\ count[v] \in Nat /\ count[w] \in Nat
  OBVIOUS
<1>2. InFront(S, count, v) \subseteq InFront(S, count, w)
  <2>1. SUFFICES ASSUME NEW u \in S, Ahead(count, u, v) PROVE Ahead(count, u, w)
    BY DEF InFront
  <2>2. u \in Nat /\ count[u] \in Nat
    OBVIOUS
  <2>3. QED
    BY <1>1, <2>1, <2>2 DEF Ahead
<1>3. v \in InFront(S, count, w) /\ v \notin InFront(S, count, v)
  BY <1>1 DEF InFront, Ahead
<1>4. IsFiniteSet(InFront(S, count, w)) /\ IsFiniteSet(InFront(S, count, v))
  BY FS_Subset DEF InFront
<1>5. /\ Cardinality(InFront(S, count, v)) \in Nat /\ Cardinality(InFront(S, count, w)) \in Nat
      /\ Cardinality(InFront(S, count, v)) <= Cardinality(InFront(S, count, w))
      /\ Cardinality(InFront(S, count, v)) # Cardinality(InFront(S, count, w))
  BY <1>2, <1>3, <1>4, FS_Subset, FS_CardinalityType
<1>6. QED
  BY <1>5

LEMMA SortedIsThere ==
    ASSUME NEW S, S \subseteq Nat, IsFiniteSet(S), NEW count \in [S -> Nat]
    PROVE  \E sorted : SortedBy(S, count, sorted)
<1>1. PICK n \in Nat : n = Cardinality(S)
  BY FS_CardinalityType
<1>2. PICK rank : rank = [v \in S |-> Cardinality(InFront(S, count, v)) + 1]
  OBVIOUS
<1>3. ASSUME NEW v \in S PROVE rank[v] \in 1..n
  <2>1. InFront(S, count, v) \subseteq S \ {v}
    <3>1. count[v] \in Nat /\ v \in Nat
      OBVIOUS
    <3>2. QED
      BY <3>1 DEF InFront, Ahead
  <2>2. IsFiniteSet(S \ {v}) /\ Cardinality(S \ {v}) = n - 1
    BY <1>1, FS_RemoveElement
  <2>3. PICK k : k = Cardinality(InFront(S, count, v))
    OBVIOUS
  <2>4. k \in Nat /\ k <= n - 1
    BY <2>1, <2>2, <2>3, FS_Subset, FS_CardinalityType
  <2>5. rank[v] = k + 1
    BY <1>2, <2>3
  <2>6. QED
    BY <2>4, <2>5
<1>4. ASSUME NEW v \in S, NEW w \in S, Ahead(count, v, w) PROVE rank[v] < rank[w]
  <2>1. PICK j \in Nat, k \in Nat : /\ j = Cardinality(InFront(S, count, v))
                                    /\ k = Cardinality(InFront(S, count, w))
    BY FS_Subset, FS_CardinalityType DEF InFront
  <2>2. j < k
    BY <1>4, <2>1, FewerInFront
  <2>3. rank[v] = j + 1 /\ rank[w] = k + 1
    BY <1>2, <2>1
  <2>4. QED
    BY <2>2, <2>3
<1>5. ASSUME NEW v \in S, NEW w \in S, v # w PROVE Ahead(count, v, w) \/ Ahead(count, w, v)
  <2>1. v \in Nat /\ w \in Nat /\ count[v] \in Nat /\ count[w] \in Nat
    OBVIOUS
  <2>2. QED
    BY <1>5, <2>1 DEF Ahead
<1>6. ASSUME NEW v \in S, NEW w \in S, v # w PROVE rank[v] # rank[w]
  <2>1. rank[v] \in Nat /\ rank[w] \in Nat
    BY <1>3
  <2>2. rank[v] < rank[w] \/ rank[w] < rank[v]
    BY <1>4, <1>5, <1>6
  <2>3. QED
    BY <2>1, <2>2
<1>7. rank \in Surjection(S, 1..n)
  <2>1. rank \in [S -> 1..n]
    BY <1>2, <1>3
  <2>2. rank \in Injection(S, 1..n)
    BY <1>6, <2>1 DEF Injection, IsInjective
  <2>3. IsFiniteSet(1..n) /\ Cardinality(1..n) = n
    BY FS_Interval
  <2>4. QED
    BY <1>1, <2>2, <2>3, FS_Injection
<1>8. PICK sorted : sorted = [i \in 1..n |-> CHOOSE v \in S : rank[v] = i]
  OBVIOUS
<1>9. ASSUME NEW i \in 1..n PROVE sorted[i] \in S /\ rank[sorted[i]] = i
  <2>1. \E v \in S : rank[v] = i
    BY <1>7 DEF Surjection
  <2>2. QED
    BY <1>8, <2>1
<1>10. sorted \in SetToSeqs(S)
  BY <1>1, <1>8, <1>9 DEF SetToSeqs
<1>11. ASSUME NEW i \in DOMAIN sorted, NEW j \in DOMAIN sorted, i < j
       PROVE  Ahead(count, sorted[i], sorted[j])
  <2>1. i \in 1..n /\ j \in 1..n
    BY <1>8
  <2>2. PICK v \in S, w \in S : v = sorted[i] /\ w = sorted[j] /\ rank[v] = i /\ rank[w] = j
    BY <1>9, <2>1
  <2>3. v # w /\ ~(rank[w] < rank[v])
    BY <1>11, <2>1, <2>2
  <2>4. QED
    BY <1>4, <1>5, <2>2, <2>3
<1>12. QED
  BY <1>10, <1>11 DEF SortedBy

-----------------------------------------------------------------------------
(* Policy: the majority. *)

InUse(listed) == {v \in Versions : Uses(listed, v) > 0}
Strongest(listed, w) == \A u \in Versions \ {w} : Uses(listed, w) > Uses(listed, u)

LEMMA UsesCounts ==
    ASSUME NEW listed, NEW v
    PROVE  /\ Uses(listed, v) \in Nat
           /\ Uses(listed, v) > 0 <=> \E s \in Fleet : listed[s].status # "disabled"
                                                       /\ listed[s].version = v
<1>1. PICK who : who = {s \in Fleet : listed[s].status # "disabled" /\ listed[s].version = v}
  OBVIOUS
<1>2. IsFiniteSet(who)
  BY <1>1, PolicyAssumption, FS_Subset
<1>3. Cardinality(who) \in Nat /\ (Cardinality(who) = 0 <=> who = {})
  BY <1>2, FS_CardinalityType, FS_EmptySet
<1>4. Uses(listed, v) = Cardinality(who)
  BY <1>1 DEF Uses
<1>5. QED
  BY <1>1, <1>3, <1>4

LEMMA InUseIsFinite ==
    ASSUME NEW listed
    PROVE  IsFiniteSet(InUse(listed)) /\ InUse(listed) \subseteq Nat
<1>1. PICK f, run : /\ f = [s \in Fleet |-> listed[s].version]
                    /\ run = {listed[s].version : s \in Fleet}
  OBVIOUS
<1>2. f \in Surjection(Fleet, run)
  BY <1>1 DEF Surjection
<1>3. IsFiniteSet(run)
  BY <1>2, PolicyAssumption, FS_Surjection
<1>4. InUse(listed) \subseteq run
  BY <1>1, UsesCounts DEF InUse
<1>5. QED
  BY <1>3, <1>4, PolicyAssumption, FS_Subset DEF InUse

\* The list majorityVersion looks at the first two of.
IsListing(listed, list, n) ==
    /\ list \in [1..n -> InUse(listed)]
    /\ \A v \in InUse(listed) : \E i \in 1..n : list[i] = v
    /\ \A i, j \in 1..n : i < j =>
         /\ list[i] # list[j]
         /\ \/ Uses(listed, list[i]) > Uses(listed, list[j])
            \/ Uses(listed, list[i]) = Uses(listed, list[j]) /\ list[i] < list[j]
    /\ majorityVersion(listed) =
         IF n = 0 THEN NoVersion
         ELSE IF n > 1 /\ Uses(listed, list[1]) = Uses(listed, list[2]) THEN NoVersion
         ELSE list[1]

LEMMA ListOfVersions ==
    ASSUME NEW listed
    PROVE  \E n \in Nat : \E list : IsListing(listed, list, n)
<1>1. PICK S : S = InUse(listed)
  OBVIOUS
<1>2. IsFiniteSet(S) /\ S \subseteq Nat
  BY <1>1, InUseIsFinite
<1>3. PICK count : count = [v \in S |-> Uses(listed, v)]
  OBVIOUS
<1>4. count \in [S -> Nat]
  BY <1>3, UsesCounts
<1>5. PICK n \in Nat : n = Cardinality(S)
  BY <1>2, FS_CardinalityType
<1>. DEFINE Precedes(v, w) == \/ Uses(listed, v) > Uses(listed, w)
                              \/ Uses(listed, v) = Uses(listed, w) /\ v < w
            IsList(sorted) == \A i, j \in DOMAIN sorted : i < j => Precedes(sorted[i], sorted[j])
<1>6. \E sorted \in SetToSeqs(S) : IsList(sorted)
  <2>1. PICK sorted : SortedBy(S, count, sorted)
    BY <1>2, <1>4, SortedIsThere
  <2>2. sorted \in [1..n -> S]
    BY <1>5, <2>1 DEF SortedBy, SetToSeqs
  <2>3. ASSUME NEW i \in 1..n, NEW j \in 1..n, i < j PROVE Precedes(sorted[i], sorted[j])
    <3>1. sorted[i] \in S /\ sorted[j] \in S
      BY <2>2
    <3>2. Ahead(count, sorted[i], sorted[j])
      BY <2>1, <2>2, <2>3 DEF SortedBy
    <3>3. QED
      BY <1>3, <3>1, <3>2 DEF Ahead
  <2>4. QED
    BY <2>1, <2>2, <2>3 DEF SortedBy
<1>7. PICK list : list = CHOOSE sorted \in SetToSeqs(S) : IsList(sorted)
  OBVIOUS
<1>8. list \in SetToSeqs(S) /\ IsList(list)
  BY <1>6, <1>7
<1>9. list \in [1..n -> S] /\ \A i, j \in 1..n : i # j => list[i] # list[j]
  BY <1>5, <1>8 DEF SetToSeqs
<1>10. Len(list) = n /\ list \in Seq(S) /\ (list = <<>> <=> n = 0)
  BY <1>9
<1>11. \A v \in S : \E i \in 1..n : list[i] = v
  <2>1. list \in Injection(1..n, S)
    BY <1>9 DEF Injection, IsInjective
  <2>2. Cardinality(1..n) = n
    BY FS_Interval
  <2>3. list \in Surjection(1..n, S)
    BY <1>2, <1>5, <2>1, <2>2, FS_Injection
  <2>4. QED
    BY <2>3 DEF Surjection
<1>12. majorityVersion(listed) =
         IF list = <<>> THEN NoVersion
         ELSE IF Len(list) > 1 /\ Uses(listed, list[1]) = Uses(listed, list[2]) THEN NoVersion
         ELSE list[1]
  BY <1>1, <1>7 DEF majorityVersion, First, InUse
<1>13. ASSUME NEW i \in 1..n, NEW j \in 1..n, i < j
       PROVE  list[i] # list[j] /\ Precedes(list[i], list[j])
  <2>1. DOMAIN list = 1..n /\ i # j
    BY <1>9, <1>13
  <2>2. QED
    BY <1>8, <1>9, <1>13, <2>1
<1>14. majorityVersion(listed) =
         IF n = 0 THEN NoVersion
         ELSE IF n > 1 /\ Uses(listed, list[1]) = Uses(listed, list[2]) THEN NoVersion
         ELSE list[1]
  BY <1>10, <1>12
<1>15. IsListing(listed, list, n)
  BY <1>1, <1>9, <1>11, <1>13, <1>14 DEF IsListing
<1>16. QED
  BY <1>15

\* The majority is the version that runs on more servers than any other does.
LEMMA MajorityIsStrongest ==
    ASSUME NEW listed
    PROVE  /\ majorityVersion(listed) # NoVersion =>
                /\ majorityVersion(listed) \in Versions
                /\ Uses(listed, majorityVersion(listed)) > 0
                /\ Strongest(listed, majorityVersion(listed))
           /\ \A w \in Versions : Uses(listed, w) > 0 /\ Strongest(listed, w) =>
                                  majorityVersion(listed) = w
<1>0. PICK n \in Nat : \E list : IsListing(listed, list, n)
  BY ListOfVersions
<1>1. PICK list :
        /\ list \in [1..n -> InUse(listed)]
        /\ \A v \in InUse(listed) : \E i \in 1..n : list[i] = v
        /\ \A i, j \in 1..n : i < j =>
             /\ list[i] # list[j]
             /\ \/ Uses(listed, list[i]) > Uses(listed, list[j])
                \/ Uses(listed, list[i]) = Uses(listed, list[j]) /\ list[i] < list[j]
        /\ majorityVersion(listed) =
             IF n = 0 THEN NoVersion
             ELSE IF n > 1 /\ Uses(listed, list[1]) = Uses(listed, list[2]) THEN NoVersion
             ELSE list[1]
  BY <1>0 DEF IsListing
<1>2. \A v : Uses(listed, v) \in Nat
  BY UsesCounts
<1>3. \A i \in 1..n : list[i] \in Versions /\ Uses(listed, list[i]) > 0
  BY <1>1 DEF InUse
<1>4. \A i, j \in 1..n : i < j => Uses(listed, list[i]) >= Uses(listed, list[j])
  <2>1. SUFFICES ASSUME NEW i \in 1..n, NEW j \in 1..n, i < j
                 PROVE  Uses(listed, list[i]) >= Uses(listed, list[j])
    OBVIOUS
  <2>2. PICK a \in Nat, b \in Nat : a = Uses(listed, list[i]) /\ b = Uses(listed, list[j])
    BY <1>2
  <2>3. a > b \/ a = b
    BY <1>1, <2>1, <2>2
  <2>4. QED
    BY <2>2, <2>3
<1>5. ASSUME majorityVersion(listed) # NoVersion
      PROVE  /\ majorityVersion(listed) \in Versions
             /\ Uses(listed, majorityVersion(listed)) > 0
             /\ Strongest(listed, majorityVersion(listed))
  <2>1. /\ n >= 1 /\ majorityVersion(listed) = list[1] /\ 1 \in 1..n
        /\ n > 1 => Uses(listed, list[1]) # Uses(listed, list[2])
    BY <1>1, <1>5
  <2>2. ASSUME NEW u \in Versions \ {list[1]} PROVE Uses(listed, list[1]) > Uses(listed, u)
    <3>1. CASE Uses(listed, u) > 0
      <4>1. PICK i \in 1..n : list[i] = u
        BY <1>1, <3>1 DEF InUse
      <4>2. i >= 2 /\ n > 1 /\ 2 \in 1..n
        BY <2>2, <4>1
      <4>3. Uses(listed, list[1]) > Uses(listed, list[2])
        BY <1>2, <1>4, <2>1, <4>2
      <4>4. Uses(listed, list[2]) >= Uses(listed, list[i])
        BY <1>2, <1>4, <4>2
      <4>5. QED
        BY <1>2, <4>1, <4>3, <4>4
    <3>2. CASE ~(Uses(listed, u) > 0)
      BY <1>2, <1>3, <2>1, <3>2
    <3>3. QED
      BY <3>1, <3>2
  <2>3. QED
    BY <1>3, <2>1, <2>2 DEF Strongest
<1>6. ASSUME NEW w \in Versions, Uses(listed, w) > 0, Strongest(listed, w)
      PROVE  majorityVersion(listed) = w
  <2>1. PICK i \in 1..n : list[i] = w
    BY <1>1, <1>6 DEF InUse
  <2>2. \A j \in 1..n : list[j] # w => Uses(listed, w) > Uses(listed, list[j])
    BY <1>3, <1>6 DEF Strongest
  <2>3. i = 1
    <3>1. SUFFICES ASSUME i > 1 PROVE FALSE
      OBVIOUS
    <3>2. 1 \in 1..n /\ list[1] # list[i] /\ Uses(listed, list[1]) >= Uses(listed, list[i])
      BY <1>1, <1>4, <3>1
    <3>3. Uses(listed, list[i]) > Uses(listed, list[1])
      BY <2>1, <2>2, <3>2
    <3>4. QED
      BY <1>2, <3>2, <3>3
  <2>4. n > 1 => Uses(listed, list[1]) # Uses(listed, list[2])
    <3>1. SUFFICES ASSUME n > 1 PROVE Uses(listed, list[1]) # Uses(listed, list[2])
      OBVIOUS
    <3>2. 2 \in 1..n /\ list[1] # list[2]
      BY <1>1, <3>1
    <3>3. Uses(listed, list[1]) > Uses(listed, list[2])
      BY <2>1, <2>2, <2>3, <3>2
    <3>4. QED
      BY <1>2, <3>3
  <2>5. n # 0
    OBVIOUS
  <2>6. QED
    BY <1>1, <2>1, <2>3, <2>4, <2>5
<1>7. QED
  BY <1>5, <1>6

-----------------------------------------------------------------------------
(* Policy: types, and what a page shows. *)

LEMMA EvaluateFinds ==
    ASSUME NEW listed, NEW time
    PROVE  /\ Evaluate(listed, time) \subseteq Violation
           /\ \A s \in Fleet :
                (\E v \in Evaluate(listed, time) : v.server = s /\ v.check = "version_drift") <=>
                  /\ listed[s].status # "disabled"
                  /\ majorityVersion(listed) # NoVersion
                  /\ listed[s].version \notin {NoVersion, majorityVersion(listed)}
<1>1. PICK drifting : drifting =
        {s \in Fleet : /\ listed[s].status # "disabled"
                       /\ majorityVersion(listed) # NoVersion
                       /\ listed[s].version \notin {NoVersion, majorityVersion(listed)}}
  OBVIOUS
<1>2. PICK drifts : drifts =
        [server : drifting, check : {"version_drift"}, severity : {"info"}]
  OBVIOUS
<1>3. drifts \subseteq Evaluate(listed, time)
  BY <1>1, <1>2 DEF Evaluate
<1>4. ASSUME NEW v \in Evaluate(listed, time)
      PROVE  v \in Violation /\ (v.check = "version_drift" => v \in drifts)
  BY <1>1, <1>2 DEF Evaluate, Violation, Checks
<1>5. ASSUME NEW s \in Fleet
      PROVE  (\E v \in drifts : v.server = s /\ v.check = "version_drift") <=> s \in drifting
  <2>1. ASSUME s \in drifting
        PROVE  [server |-> s, check |-> "version_drift", severity |-> "info"] \in drifts
    BY <1>2, <2>1
  <2>2. \A v \in drifts : v.server \in drifting
    BY <1>2
  <2>3. QED
    BY <2>1, <2>2
<1>6. ASSUME NEW s \in Fleet
      PROVE  (\E v \in Evaluate(listed, time) : v.server = s /\ v.check = "version_drift") <=>
               s \in drifting
  BY <1>3, <1>4, <1>5
<1>7. QED
  BY <1>1, <1>4, <1>6

PolicyInv == PolicyTypeOK /\ said = exceptions

LEMMA ShowsTypes ==
    ASSUME PolicyInv, PolicyShows
    PROVE  PolicyInv'
<1>. DEFINE Waived(found) == {v \in Evaluate(page.rows, page.time) : <<v.server, v.check>> \in found}
            Shown(read, found) == [at |-> "shown", read |-> read,
                                   active |-> Evaluate(page.rows, page.time) \ Waived(found),
                                   ignored |-> Waived(found)]
<1>1. PICK read \in BOOLEAN : \E found : page' = Shown(read, found)
  BY DEF PolicyShows
<1>2. PICK found : page' = Shown(read, found)
  BY <1>1
<1>3. /\ page'.at = "shown" /\ DOMAIN page' = DOMAIN Closed /\ page'.read \in BOOLEAN
      /\ page'.active \cup page'.ignored = Evaluate(page.rows, page.time)
  BY <1>1, <1>2 DEF Closed
<1>4. Evaluate(page.rows, page.time) \subseteq Violation
  BY EvaluateFinds
<1>5. QED
  BY <1>3, <1>4 DEF PolicyShows, PolicyInv, PolicyTypeOK

LEMMA InstructTypes ==
    ASSUME PolicyInv, NEW k \in Fleet \X Instructed, NEW expires \in Expiries \cup {Never},
           Restore(k) \/ Ignore(k, expires)
    PROVE  PolicyInv'
<1>1. k \in Subjects /\ [expires |-> expires] \in Exception
  BY PolicyAssumption DEF Subjects, Exception
<1>2. PICK e \in Exception \cup {NoException} :
        exceptions' = [exceptions EXCEPT ![k] = e] /\ said' = [said EXCEPT ![k] = e]
  BY <1>1 DEF Restore, Ignore
<1>3. /\ exceptions' \in [Subjects -> Exception \cup {NoException}]
      /\ said' \in [Subjects -> Exception \cup {NoException}] /\ said' = exceptions'
  BY <1>1, <1>2 DEF PolicyInv, PolicyTypeOK
<1>4. UNCHANGED <<now, rows, page>> /\ policyCalls' \in 0..MaxPolicyCalls
  BY PolicyAssumption DEF Restore, Ignore, Instruct, PolicyInv, PolicyTypeOK
<1>5. QED
  BY <1>3, <1>4 DEF PolicyInv, PolicyTypeOK

LEMMA PolicyStep ==
    ASSUME PolicyInv, PolicyNext
    PROVE  PolicyInv'
<1>1. CASE PolicyLists
  <2>1. page' = [at |-> "listed", rows |-> rows, time |-> now] /\ UNCHANGED <<now, rows, exceptions, said>>
    BY <1>1 DEF PolicyLists
  <2>2. page'.at = "listed" /\ page' \in Listed
    BY <2>1 DEF Listed, PolicyInv, PolicyTypeOK
  <2>3. policyCalls' \in 0..MaxPolicyCalls
    BY <1>1, PolicyAssumption DEF PolicyLists, Instruct, PolicyInv, PolicyTypeOK
  <2>4. QED
    BY <2>1, <2>2, <2>3 DEF PolicyInv, PolicyTypeOK
<1>2. ASSUME NEW s \in Fleet, WriteRow(s) PROVE PolicyInv'
  <2>1. rows' \in [Fleet -> Rows]
    BY <1>2 DEF WriteRow, PolicyInv, PolicyTypeOK
  <2>2. policyCalls' \in 0..MaxPolicyCalls /\ UNCHANGED <<now, exceptions, page, said>>
    BY <1>2, PolicyAssumption DEF WriteRow, Instruct, PolicyInv, PolicyTypeOK
  <2>3. QED
    BY <2>1, <2>2 DEF PolicyInv, PolicyTypeOK
<1>3. CASE PolicyTick
  <2>1. now' \in 0..MaxTime
    BY <1>3, ClockAssumption DEF PolicyTick, Tick, PolicyInv, PolicyTypeOK
  <2>2. QED
    BY <1>3, <2>1 DEF PolicyTick, PolicyInv, PolicyTypeOK
<1>4. ASSUME NEW k \in Fleet \X Instructed,
             Restore(k) \/ \E expires \in Expiries \cup {Never} : Ignore(k, expires)
      PROVE  PolicyInv'
  BY <1>4, InstructTypes
<1>5. QED
  BY <1>1, <1>2, <1>3, <1>4, ShowsTypes DEF PolicyNext

LEMMA PolicyInitInv ==
    ASSUME PolicyInit
    PROVE  PolicyInv
<1>1. page = Closed /\ Closed.at # "listed" /\ Closed.read = FALSE
      /\ Closed.active \cup Closed.ignored = {}
  BY DEF PolicyInit, Closed
<1>2. rows \in [Fleet -> Rows]
  BY DEF PolicyInit
<1>3. policyCalls \in 0..MaxPolicyCalls /\ now \in 0..MaxTime
  BY PolicyAssumption, ClockAssumption DEF PolicyInit
<1>4. QED
  BY <1>1, <1>2, <1>3 DEF PolicyInit, PolicyInv, PolicyTypeOK

LEMMA PolicyStutter ==
    ASSUME PolicyInv, UNCHANGED policyVars
    PROVE  PolicyInv'
BY DEF policyVars, PolicyInv, PolicyTypeOK

THEOREM PolicyInvariant == PolicySpec => []PolicyInv
<1>1. PolicyInv /\ [PolicyNext]_policyVars => PolicyInv'
  BY PolicyStep, PolicyStutter
<1>2. QED
  BY <1>1, PolicyInitInv, PTL DEF PolicySpec

\* A load of the page has listed rows of servers, or shows violations.
THEOREM PolicyTypeCorrect == PolicySpec => []PolicyTypeOK
<1>1. PolicyInv => PolicyTypeOK
  BY DEF PolicyInv
<1>2. QED
  BY <1>1, PolicyInvariant, PTL

\* Who drifts, told by the servers that run each version.
LEMMA MinorityDrifts ==
    ASSUME PolicyInv, page.at = "listed", NEW s \in Fleet
    PROVE  (/\ page.rows[s].status # "disabled"
            /\ majorityVersion(page.rows) # NoVersion
            /\ page.rows[s].version \notin {NoVersion, majorityVersion(page.rows)})
           <=>
           (/\ Watched(s)
            /\ \E w \in Versions \ {page.rows[s].version} : \A u \in Versions \ {w} :
                 Cardinality(Running(w)) > Cardinality(Running(u)))
<1>1. PICK listed : listed = page.rows
  OBVIOUS
<1>2. listed[s].version \in Versions \cup {NoVersion}
  <2>1. listed \in [Fleet -> Rows]
    BY <1>1 DEF PolicyInv, PolicyTypeOK, Listed
  <2>2. listed[s] \in ServerColumns
    BY <2>1, PolicyAssumption
  <2>3. QED
    BY <2>2 DEF ServerColumns
<1>3. ASSUME NEW w \in Versions PROVE Cardinality(Running(w)) = Uses(listed, w)
  <2>1. w # NoVersion
    BY PolicyAssumption
  <2>2. Running(w) = {t \in Fleet : listed[t].status # "disabled" /\ listed[t].version = w}
    BY <1>1, <2>1 DEF Running, Watched
  <2>3. QED
    BY <2>2 DEF Uses
<1>4. PICK major : major = majorityVersion(listed)
  OBVIOUS
<1>5. \A w \in Versions :
        Strongest(listed, w) <=>
          \A u \in Versions \ {w} : Cardinality(Running(w)) > Cardinality(Running(u))
  BY <1>3 DEF Strongest
<1>6. ASSUME listed[s].status # "disabled", major # NoVersion,
             listed[s].version \notin {NoVersion, major}
      PROVE  major \in Versions \ {listed[s].version} /\ Strongest(listed, major)
  BY <1>4, <1>6, MajorityIsStrongest
<1>7. ASSUME Watched(s), NEW w \in Versions \ {listed[s].version}, Strongest(listed, w)
      PROVE  major = w /\ w # NoVersion
  <2>1. listed[s].version \in Versions \ {w}
    BY <1>1, <1>2, <1>7 DEF Watched
  <2>2. Uses(listed, w) > Uses(listed, listed[s].version)
    BY <1>7, <2>1 DEF Strongest
  <2>3. Uses(listed, w) > 0
    <3>1. \A v : Uses(listed, v) \in Nat
      BY UsesCounts
    <3>2. QED
      BY <2>2, <3>1
  <2>4. QED
    BY <1>4, <1>7, <2>3, MajorityIsStrongest, PolicyAssumption
<1>8. QED
  BY <1>1, <1>4, <1>5, <1>6, <1>7 DEF Watched

LEMMA PageIsTrueOfStep ==
    ASSUME PolicyInv, PolicyNext, PageShows
    PROVE  DriftMeansMinority /\ WaiversStand
<1>1. PolicyShows
  <2>1. page.at = "listed" /\ page'.at = "shown" /\ page' # page
    BY DEF PageShows
  <2>2. QED
    BY <2>1 DEF PolicyNext, PolicyLists, Restore, Ignore, WriteRow, PolicyTick
<1>2. PICK all : all = Evaluate(page.rows, page.time)
  OBVIOUS
<1>3. PICK read \in BOOLEAN : \E ignored :
        /\ ignored = {v \in Evaluate(page.rows, page.time) : <<v.server, v.check>> \in
                         IF read THEN ListActive(page.time) ELSE {}}
        /\ page' = [at |-> "shown", read |-> read,
                    active |-> Evaluate(page.rows, page.time) \ ignored, ignored |-> ignored]
  BY <1>1 DEF PolicyShows
<1>4. /\ Found = all /\ page'.read = read
      /\ page'.ignored =
           {v \in all : <<v.server, v.check>> \in IF read THEN ListActive(page.time) ELSE {}}
  BY <1>2, <1>3 DEF Found
<1>5. DriftMeansMinority
  <2>1. \A s \in Fleet : (\E v \in Found : v.server = s /\ v.check = "version_drift") <=>
          /\ page.rows[s].status # "disabled"
          /\ majorityVersion(page.rows) # NoVersion
          /\ page.rows[s].version \notin {NoVersion, majorityVersion(page.rows)}
    BY <1>2, <1>4, EvaluateFinds
  <2>2. QED
    BY <2>1, MinorityDrifts DEF PageShows, DriftMeansMinority
<1>6. WaiversStand
  <2>1. ASSUME NEW v \in all
        PROVE  <<v.server, v.check>> \in (IF read THEN ListActive(page.time) ELSE {}) <=>
                 /\ read /\ said[<<v.server, v.check>>] # NoException
                 /\ \/ said[<<v.server, v.check>>].expires = Never
                    \/ page.time < said[<<v.server, v.check>>].expires
    <3>1. v \in Violation
      BY <1>2, EvaluateFinds
    <3>2. <<v.server, v.check>> \in Subjects
      BY <3>1 DEF Violation, Subjects
    <3>3. said = exceptions
      BY DEF PolicyInv
    <3>4. QED
      BY <3>2, <3>3 DEF ListActive, Outlasts
  <2>2. QED
    BY <1>4, <2>1 DEF WaiversStand
<1>7. QED
  BY <1>5, <1>6

\* Whatever changes while a page is worked out, it calls drifting who runs another version
\* than the one most servers run, and ignores what the last instruction asks it to.
THEOREM PageIsTrueHolds == PolicySpec => PageIsTrue
<1>1. PolicyInv /\ [PolicyNext]_policyVars =>
        [PageShows => DriftMeansMinority /\ WaiversStand]_policyVars
  <2>1. ASSUME PolicyInv, PolicyNext, PageShows
        PROVE  DriftMeansMinority /\ WaiversStand
    BY <2>1, PageIsTrueOfStep
  <2>2. QED
    BY <2>1
<1>2. QED
  BY <1>1, PolicyInvariant, PTL DEF PolicySpec, PageIsTrue

-----------------------------------------------------------------------------
(* The six parts together.  A step of one part is a stutter of the others, or, when *)
(* the clock moves, a tick of theirs: a behaviour of all of them is one of each.    *)

LEMMA TimeMovesByTicks ==
    ASSUME LoginNext \/ PasskeysNext \/ TokensNext \/ OutagesNext \/ MonitorNext \/ PolicyNext
    PROVE  Tick \/ UNCHANGED now
<1>1. LoginNext => Tick \/ UNCHANGED now
  BY DEF LoginNext, Admit, Authenticate, FailLogin, CreateNotice, Record, LoginRestart,
         LoginTick
<1>2. PasskeysNext => Tick \/ UNCHANGED now
  BY DEF PasskeysNext, Begin, LoginTake, RegisterTake, Register, Verify, Stamp, DeletePasskey,
         PasskeysRestart, PasskeysTick
<1>3. TokensNext => Tick \/ UNCHANGED now
  <2>1. ASSUME NEW t \in Tokens, Revoke(t) \/ CheckTokenExpiry(t) PROVE UNCHANGED now
    BY <2>1 DEF Revoke, CheckTokenExpiry
  <2>2. ASSUME NEW t \in Unused, NEW days, NEW scopes, NEW allowed, NEW limit,
               Mint(t, days, scopes, allowed, limit)
        PROVE  UNCHANGED now
    BY <2>2 DEF Mint
  <2>3. ASSUME NEW t \in Tokens, NEW o \in Rotators, RotateLookup(o, t) \/ Rotate(o)
        PROVE  UNCHANGED now
    BY <2>3 DEF RotateLookup, Rotate, Replace
  <2>4. ASSUME NEW t \in Tokens, NEW q \in Clients, NEW secret, NEW source, NEW path,
               Validate(q, t, secret, source, path)
        PROVE  UNCHANGED now
    BY <2>4 DEF Validate
  <2>5. ASSUME NEW q \in Clients, StampUse(q) \/ Allow(q) PROVE UNCHANGED now
    BY <2>5 DEF StampUse, Allow
  <2>6. ListExpiring \/ TokensRestart => UNCHANGED now
    BY DEF ListExpiring, TokensRestart
  <2>7. (\E o \in Rotators : Rotate(o)) => UNCHANGED now
    BY DEF Rotate, Replace
  <2>8. QED
    BY <2>1, <2>2, <2>3, <2>4, <2>5, <2>6, <2>7 DEF TokensNext, TokensTick
<1>4. OutagesNext => Tick \/ UNCHANGED now
  <2>1. ASSUME NEW s \in Servers,
               \/ Probe(s) \/ Store(s) \/ Alert(s) \/ CheckCert(s) \/ Warn(s)
        PROVE  UNCHANGED now
    BY <2>1 DEF Probe, Store, Alert, CheckCert, Warn
  <2>2. ASSUME NEW s \in Servers, Remediate(s) \/ RestartService(s) PROVE UNCHANGED now
    BY <2>2 DEF Remediate, RestartService, RestartPanel
  <2>3. ASSUME NEW s \in Servers,
               \/ ManualCheck(s) \/ HandlerReads(s) \/ HandlerSaves(s) \/ ImportServer(s)
               \/ Maintain(s) \/ Renew(s)
        PROVE  UNCHANGED now
    BY <2>3 DEF ManualCheck, HandlerReads, HandlerSaves, ImportServer, Maintain, Renew
  <2>4. ASSUME NEW c \in Channels, CreateChannel(c) \/ UpdateChannel(c) \/ DeleteChannel(c)
        PROVE  UNCHANGED now
    BY <2>4 DEF CreateChannel, UpdateChannel, DeleteChannel
  <2>5. PollOnce \/ OutagesRestart => UNCHANGED now
    BY DEF PollOnce, OutagesRestart
  <2>6. QED
    BY <2>1, <2>2, <2>3, <2>4, <2>5 DEF OutagesNext, OutagesTick
<1>5. MonitorNext => Tick \/ UNCHANGED now
  BY DEF MonitorNext, List, Unopened, Look, Join, ChangeRow, FetchStatus, MonitorTick
<1>6. PolicyNext => Tick \/ UNCHANGED now
  BY DEF PolicyNext, PolicyLists, PolicyShows, Restore, Ignore, WriteRow, PolicyTick
<1>7. QED
  BY <1>1, <1>2, <1>3, <1>4, <1>5, <1>6

\* Whichever part a step is of, it is a step or a stutter of every one.
LEMMA EveryPartSteps ==
    ASSUME [Next]_vars
    PROVE  /\ [LoginNext]_loginVars /\ [PasskeysNext]_passkeyVars /\ [TokensNext]_tokenVars
           /\ [OutagesNext]_outageVars /\ [MonitorNext]_monitorVars /\ [PolicyNext]_policyVars
<1>1. Tick \/ UNCHANGED now
  BY TimeMovesByTicks DEF Next, vars
<1>2. UNCHANGED loginOnly => [LoginNext]_loginVars
  BY <1>1 DEF loginOnly, loginVars, LoginNext, LoginTick
<1>3. UNCHANGED passkeysOnly => [PasskeysNext]_passkeyVars
  BY <1>1 DEF passkeysOnly, passkeyVars, PasskeysNext, PasskeysTick
<1>4. UNCHANGED tokensOnly => [TokensNext]_tokenVars
  BY <1>1 DEF tokensOnly, tokenVars, TokensNext, TokensTick
<1>5. UNCHANGED outagesOnly => [OutagesNext]_outageVars
  BY <1>1 DEF outagesOnly, outageVars, OutagesNext, OutagesTick
<1>6. UNCHANGED monitorOnly => [MonitorNext]_monitorVars
  BY <1>1 DEF monitorOnly, monitorVars, MonitorNext, MonitorTick
<1>7. UNCHANGED policyOnly => [PolicyNext]_policyVars
  BY <1>1 DEF policyOnly, policyVars, PolicyNext, PolicyTick
<1>8. /\ LoginNext \/ UNCHANGED loginOnly
      /\ PasskeysNext \/ UNCHANGED passkeysOnly
      /\ TokensNext \/ UNCHANGED tokensOnly
      /\ OutagesNext \/ UNCHANGED outagesOnly
      /\ MonitorNext \/ UNCHANGED monitorOnly
      /\ PolicyNext \/ UNCHANGED policyOnly
  BY DEF Next, vars
<1>9. QED
  BY <1>2, <1>3, <1>4, <1>5, <1>6, <1>7, <1>8

\* Every behaviour of the six parts on one clock is a behaviour of each, so that what is
\* proved of a part alone holds beside the others.
THEOREM PartsHold ==
    Spec => /\ LoginSpec /\ PasskeysSpec /\ TokensSpec
            /\ OutagesSpec /\ MonitorSpec /\ PolicySpec
<1>1. Init => /\ LoginInit /\ PasskeysInit /\ TokensInit
              /\ OutagesInit /\ MonitorInit /\ PolicyInit
  BY DEF Init
<1>2. [Next]_vars =>
           /\ [LoginNext]_loginVars /\ [PasskeysNext]_passkeyVars /\ [TokensNext]_tokenVars
           /\ [OutagesNext]_outageVars /\ [MonitorNext]_monitorVars /\ [PolicyNext]_policyVars
  BY EveryPartSteps
<1>3. QED
  BY <1>1, <1>2, PTL
     DEF Spec, LoginSpec, PasskeysSpec, TokensSpec, OutagesSpec, MonitorSpec, PolicySpec

\* The state of all six parts keeps its types while they share the clock.
THEOREM ServicesTypeCorrect == Spec => []TypeOK
<1>1. Spec => []LoginTypeOK /\ []PasskeysTypeOK /\ []TokensTypeOK
  BY PartsHold, LoginTypeCorrect, PasskeysTypeCorrect, TokensTypeCorrect
<1>2. Spec => []OutagesTypeOK /\ []MonitorTypeOK /\ []PolicyTypeOK
  BY PartsHold, OutagesTypeCorrect, MonitorTypeCorrect, PolicyTypeCorrect
<1>3. ASSUME LoginTypeOK, PasskeysTypeOK, TokensTypeOK, OutagesTypeOK, MonitorTypeOK, PolicyTypeOK
      PROVE  TypeOK
  BY <1>3 DEF TypeOK
<1>4. QED
  BY <1>1, <1>2, <1>3, PTL
=============================================================================
