--------------------------- MODULE QuestsProofs ---------------------------
(***************************************************************************)
(* Proofs about Quests, for any number of quests, items, requirements,     *)
(* slots and fields of the log: the log the client sees, the status data   *)
(* the server decides with and the rows in the database agree, but for     *)
(* what is on its way or was not written (QInv); a reward takes its items, *)
(* once, one that is refused at most those, and a giver is back.           *)
(*                                                                         *)
(* How many items of a kind there are is counted by units: a stack of n is *)
(* n of them.  What is taken or made is an initial part of the units in    *)
(* the order of the slots (OneAfterTheOther), so that as many go or come   *)
(* as were asked for (TakenCounts, CreatedCounts).                         *)
(***************************************************************************)
EXTENDS MCRestarts, FiniteSetTheorems, TLAPS

\* A character's quests, and an inventory, of the right types.
Typed(j) ==
  j \in [data : [Quest -> Data], log : [LogSlot -> Entry], needed : [Item -> Int], told : [Quest -> Data]]
Sound(p) ==
  /\ p \in [Slot -> Stack]
  /\ \A s \in Slot : p[s].count <= MaxStack /\ (p[s].count = 0 <=> p[s].item = NoItem)

\* The log shows the quests, but maybe those of X, and only some of those of W.
Shows(data, log, X, W) ==
  /\ \A q \in Quest \ X : q \notin W /\ data[q].status \in Logged => \E s \in LogSlot : log[s].quest = q
  /\ \A s, t \in LogSlot : log[s].quest # NoQuest /\ log[s].quest = log[t].quest => s = t
  /\ \A s \in LogSlot : log[s].quest \in Quest \ X =>
       /\ data[log[s].quest].status \in Logged
       /\ log[s].state = data[log[s].quest].status
       /\ log[s].kills = data[log[s].quest].kills

\* Quests nobody has accepted have no kills.
Untouched(data) == \A q \in Quest : data[q].status = "Available" => data[q].kills = 0

\* The log shows all quests but those of X and W, the realm was told all but those of Y.
Good(j, X, Y, W) ==
  /\ Typed(j)
  /\ Shows(j.data, j.log, X, W)
  /\ Untouched(j.data)
  /\ \A q \in Quest \ Y : j.told[q] = j.data[q]

\* Credit changes the quests of the log only, and leaves them there.
Credited(j, k) ==
  /\ \A q \in Quest : (j.data[q].status \in Logged /\ k.data[q].status \in Logged) \/ k.data[q] = j.data[q]
  /\ \A s \in LogSlot : k.log[s].quest = j.log[s].quest

\* The same quests are rewarded.
SameRewards(j, k) == \A q \in Quest : k.data[q].status = "Rewarded" <=> j.data[q].status = "Rewarded"

\* After a login with more quests than the log can show, it may miss any.
Hidden == IF stored.overfull THEN Quest ELSE {}

\* The database has what the realm was told, but for what is on its way or was
\* not written, and no reward the character does not have.
StoredOK ==
  /\ stored \in [rows : [Quest -> Data], due : SUBSET Quest, failed : SUBSET Quest, overfull : BOOLEAN]
  /\ Untouched(stored.rows)
  /\ \A q \in Quest \ (stored.due \union stored.failed) : stored.rows[q] = quests.told[q]
  /\ \A q \in Quest : stored.rows[q].status = "Rewarded" => quests.data[q].status = "Rewarded"

QInv == Good(quests, {}, {}, Hidden) /\ Sound(pack) /\ Sound(savedPack) /\ StoredOK

\* A step that keeps the character's part of it.
Kept == Good(quests', {}, {}, Hidden) /\ Sound(pack') /\ Sound(savedPack')

-----------------------------------------------------------------------------
(* The parts of a change. *)

(* Zero is neither a quest nor an item. *)
LEMMA Ids ==
  /\ Quest \subseteq Nat /\ NoQuest \notin Quest /\ IsFiniteSet(Quest)
  /\ Item \subseteq Nat /\ NoItem \notin Item
  /\ LogSize \in Nat /\ PackSize \in Nat /\ MaxStack \in Nat /\ MaxStack >= 1
  /\ \A S \in SUBSET Quest : IsFiniteSet(S) /\ Cardinality(S) \in Nat
<1>1. IsFiniteSet(Quest)
  BY QuestAssumption
<1>2. \A S \in SUBSET Quest : IsFiniteSet(S) /\ Cardinality(S) \in Nat
  BY <1>1, FS_Subset, FS_CardinalityType
<1> QED BY <1>2, QuestAssumption DEF NoQuest, NoItem

(* A field of the record that is replaced. *)
LEMMA Needing ==
  ASSUME NEW j, NEW W, NEW X, NEW Y, Good(j, X, Y, W), NEW f \in [Item -> Int]
  PROVE  Good([j EXCEPT !.needed = f], X, Y, W) /\ Credited(j, [j EXCEPT !.needed = f])
BY DEF Good, Typed, Credited

(* The status and the flags are set together. *)
LEMMA Marking ==
  ASSUME NEW j, NEW W, NEW X, NEW Y, Good(j, X, Y, W), NEW Q \in SUBSET Quest, NEW st \in Logged,
         \A q \in Q : j.data[q].status \in Logged
  PROVE  Good(Marked(j, Q, st), X, Y \union Q, W) /\ Credited(j, Marked(j, Q, st))
<1> DEFINE k == Marked(j, Q, st)
<1> DEFINE newData == [q \in Quest |-> IF q \in Q THEN [j.data[q] EXCEPT !.status = st] ELSE j.data[q]]
           newLog == [s \in LogSlot |-> IF j.log[s].quest \in Q THEN [j.log[s] EXCEPT !.state = st] ELSE j.log[s]]
<1>a. k = [j EXCEPT !.data = newData, !.log = newLog]
  BY DEF Marked
<1>1. /\ k.data = newData /\ k.log = newLog
      /\ k.needed = j.needed /\ k.told = j.told
      /\ k = [data |-> k.data, log |-> k.log, needed |-> k.needed, told |-> k.told]
  <2> HIDE DEF k, newData, newLog
  <2> QED BY <1>a DEF Good, Typed
<1> HIDE DEF k
<1>2. Typed(j) /\ j.data \in [Quest -> Data] /\ j.log \in [LogSlot -> Entry]
  BY DEF Good, Typed
<1>3. \A q \in Quest :
        /\ q \in Q => k.data[q].status = st /\ k.data[q].kills = j.data[q].kills
                      /\ k.data[q].explored = j.data[q].explored /\ k.data[q] \in Data
        /\ q \notin Q => k.data[q] = j.data[q] /\ k.data[q] \in Data
  BY <1>1, <1>2 DEF Data, Logged, Status
<1>4. \A s \in LogSlot :
        /\ k.log[s].quest = j.log[s].quest /\ k.log[s].kills = j.log[s].kills /\ k.log[s] \in Entry
        /\ k.log[s].state = IF j.log[s].quest \in Q THEN st ELSE j.log[s].state
  BY <1>1, <1>2 DEF Entry, Logged
<1>5. Typed(k)
  <2>1. k.data \in [Quest -> Data]
    BY <1>1, <1>3
  <2>2. k.log \in [LogSlot -> Entry]
    BY <1>1, <1>4
  <2> QED BY <1>1, <1>2, <2>1, <2>2 DEF Typed
<1>6. Shows(k.data, k.log, X, W)
  BY <1>3, <1>4 DEF Good, Shows
<1>7. Untouched(k.data)
  BY <1>3 DEF Good, Untouched, Logged
<1>8. \A q \in Quest \ (Y \union Q) : k.told[q] = k.data[q]
  BY <1>1, <1>3 DEF Good
<1>9. Credited(j, k)
  BY <1>3, <1>4 DEF Credited
<1> QED BY <1>5, <1>6, <1>7, <1>8, <1>9 DEF Good, k

(* Kills are counted in both. *)
LEMMA Counting ==
  ASSUME NEW j, NEW W, NEW X, NEW Y, Good(j, X, Y, W), NEW Q \in SUBSET Quest,
         \A q \in Q : j.data[q].status \in Logged
  PROVE  /\ Good(CountedUp(j, Q), X, Y \union Q, W) /\ Credited(j, CountedUp(j, Q))
         /\ \A q \in Quest : CountedUp(j, Q).data[q].status = j.data[q].status
<1> DEFINE k == CountedUp(j, Q)
<1> DEFINE newData == [q \in Quest |-> IF q \in Q THEN OneMore(j.data[q]) ELSE j.data[q]]
           newLog == [s \in LogSlot |-> IF j.log[s].quest \in Q THEN OneMore(j.log[s]) ELSE j.log[s]]
<1>a. k = [j EXCEPT !.data = newData, !.log = newLog]
  BY DEF CountedUp
<1>1. /\ k.data = newData /\ k.log = newLog
      /\ k.needed = j.needed /\ k.told = j.told
      /\ k = [data |-> k.data, log |-> k.log, needed |-> k.needed, told |-> k.told]
  <2> HIDE DEF k, newData, newLog
  <2> QED BY <1>a DEF Good, Typed
<1> HIDE DEF k
<1>2. Typed(j) /\ j.data \in [Quest -> Data] /\ j.log \in [LogSlot -> Entry]
  BY DEF Good, Typed
<1>3. \A q \in Quest :
        /\ q \in Q => k.data[q].status = j.data[q].status /\ k.data[q].kills = j.data[q].kills + 1
                      /\ k.data[q].explored = j.data[q].explored /\ k.data[q] \in Data
        /\ q \notin Q => k.data[q] = j.data[q] /\ k.data[q] \in Data
  BY <1>1, <1>2 DEF Data, OneMore
<1>4. \A s \in LogSlot :
        /\ k.log[s].quest = j.log[s].quest /\ k.log[s].state = j.log[s].state /\ k.log[s] \in Entry
        /\ k.log[s].kills = IF j.log[s].quest \in Q THEN j.log[s].kills + 1 ELSE j.log[s].kills
  BY <1>1, <1>2 DEF Entry, OneMore
<1>5. Typed(k)
  <2>1. k.data \in [Quest -> Data]
    BY <1>1, <1>3
  <2>2. k.log \in [LogSlot -> Entry]
    BY <1>1, <1>4
  <2> QED BY <1>1, <1>2, <2>1, <2>2 DEF Typed
<1>6. Shows(k.data, k.log, X, W)
  BY <1>3, <1>4 DEF Good, Shows
<1>7. Untouched(k.data)
  BY <1>3 DEF Good, Untouched, Logged
<1>8. \A q \in Quest \ (Y \union Q) : k.told[q] = k.data[q]
  BY <1>1, <1>3 DEF Good
<1>9. Credited(j, k)
  BY <1>3, <1>4 DEF Credited
<1> QED BY <1>3, <1>5, <1>6, <1>7, <1>8, <1>9 DEF Good, k

(* What is saved is in the database. *)
LEMMA Saving ==
  ASSUME NEW j, NEW W, NEW X, NEW Y, Good(j, X, Y, W), NEW Q \in SUBSET Quest
  PROVE  Good(Saved(j, Q), X, Y \ Q, W) /\ Credited(j, Saved(j, Q)) /\ Saved(j, Q).data = j.data
<1> DEFINE k == Saved(j, Q)
<1>1. /\ k.told = [q \in Quest |-> IF q \in Q THEN j.data[q] ELSE j.told[q]]
      /\ k.needed = j.needed /\ k.data = j.data /\ k.log = j.log
      /\ k = [data |-> k.data, log |-> k.log, needed |-> k.needed, told |-> k.told]
  BY DEF Saved, Good, Typed
<1> HIDE DEF k
<1>2. Typed(k)
  BY <1>1 DEF Good, Typed
<1> QED BY <1>1, <1>2 DEF Good, Credited, k

(* One change after the other. *)
LEMMA CreditedTwice ==
  ASSUME NEW j, NEW k, NEW l, Credited(j, k), Credited(k, l)
  PROVE  Credited(j, l)
BY DEF Credited

LEMMA CreditedRewards ==
  ASSUME NEW j, NEW k, Credited(j, k)
  PROVE  SameRewards(j, k)
BY DEF Credited, SameRewards, Logged

(* Quests of the log that become what they are in both, and are saved. *)
LEMMA MarkingSaved ==
  ASSUME NEW j, NEW W, NEW X, NEW Y, Good(j, X, Y, W), NEW Q \in SUBSET Quest, NEW st \in Logged,
         \A q \in Q : j.data[q].status \in Logged, NEW R \in SUBSET Quest, Q \subseteq R
  PROVE  Good(Saved(Marked(j, Q, st), R), X, Y \ R, W) /\ Credited(j, Saved(Marked(j, Q, st), R))
<1>1. Good(Marked(j, Q, st), X, Y \union Q, W) /\ Credited(j, Marked(j, Q, st))
  BY Marking
<1>2. /\ Good(Saved(Marked(j, Q, st), R), X, (Y \union Q) \ R, W)
      /\ Credited(Marked(j, Q, st), Saved(Marked(j, Q, st), R))
  BY <1>1, Saving
<1>3. (Y \union Q) \ R = Y \ R
  OBVIOUS
<1> QED BY <1>1, <1>2, <1>3, CreditedTwice

-----------------------------------------------------------------------------
(* The inventory. *)

(* Units of finitely many slots can be counted. *)
LEMMA UnitsFinite ==
  ASSUME NEW S \in SUBSET Slot
  PROVE  IsFiniteSet(S \X (1 .. MaxStack))
<1>1. IsFiniteSet(Slot) /\ IsFiniteSet(1 .. MaxStack)
  BY Ids, FS_Interval DEF Slot
<1>2. IsFiniteSet(S)
  BY <1>1, FS_Subset
<1> QED BY <1>1, <1>2, FS_Product

LEMMA CountType ==
  ASSUME NEW p, NEW S \in SUBSET Slot
  PROVE  CountIn(p, S) \in Nat
<1> DEFINE U == {u \in S \X (1 .. MaxStack) : u[2] <= p[u[1]].count}
<1>1. U \in SUBSET (S \X (1 .. MaxStack))
  OBVIOUS
<1> HIDE DEF U
<1>2. Cardinality(U) \in Nat
  BY <1>1, UnitsFinite, FS_Subset, FS_CardinalityType
<1> QED BY <1>2 DEF CountIn, U

LEMMA RoomType ==
  ASSUME NEW p, NEW i, NEW S \in SUBSET Slot
  PROVE  RoomFor(p, i, S) \in Nat
<1> DEFINE U == {u \in S \X (1 .. MaxStack) : u[2] <= Room(p, i, u[1])}
<1>1. U \in SUBSET (S \X (1 .. MaxStack))
  OBVIOUS
<1> HIDE DEF U
<1>2. Cardinality(U) \in Nat
  BY <1>1, UnitsFinite, FS_Subset, FS_CardinalityType
<1> QED BY <1>2 DEF RoomFor, U

(* A number kept between two others. *)
LEMMA Clamped ==
  ASSUME NEW n \in Int, NEW high \in Nat
  PROVE  Clamp(n, 0, high) \in 0 .. high
BY DEF Clamp

(* Items are created where there is room for them. *)
LEMMA CreatedSound ==
  ASSUME NEW p, Sound(p), NEW i \in Item, NEW n \in Nat
  PROVE  Sound(Created(p, i, n))
<1> DEFINE given == [s \in Slot |-> Clamp(n - RoomFor(p, i, RoomBefore(p, i, s)), 0, Room(p, i, s))]
           made == [s \in Slot |-> IF given[s] > 0 THEN [item |-> i, count |-> p[s].count + given[s]] ELSE p[s]]
<1>0. Created(p, i, n) = made
  BY DEF Created
<1>1. ASSUME NEW s \in Slot
      PROVE  /\ p[s] \in Stack /\ p[s].count <= MaxStack /\ (p[s].count = 0 <=> p[s].item = NoItem)
             /\ p[s].count \in Nat
  BY DEF Sound, Stack
<1>2. ASSUME NEW s \in Slot
      PROVE  Room(p, i, s) \in Nat /\ (Room(p, i, s) = 0 \/ p[s].count + Room(p, i, s) <= MaxStack)
  <2>1. Empty.count = 0
    BY DEF Empty
  <2> QED BY <1>1, <2>1, Ids DEF Room
<1>3. ASSUME NEW s \in Slot
      PROVE  given[s] \in Nat /\ (given[s] = 0 \/ p[s].count + given[s] <= MaxStack)
  <2>1. RoomBefore(p, i, s) \in SUBSET Slot
    BY DEF RoomBefore
  <2> DEFINE before == RoomFor(p, i, RoomBefore(p, i, s))
  <2>2. before \in Nat
    BY <2>1, RoomType
  <2>3. given[s] = Clamp(n - before, 0, Room(p, i, s))
    OBVIOUS
  <2> HIDE DEF before, given
  <2>4. n - before \in Int
    BY <2>2
  <2>5. given[s] \in 0 .. Room(p, i, s)
    BY <2>3, <2>4, <1>2, Clamped
  <2>6. p[s].count \in Nat /\ Room(p, i, s) \in Nat
        /\ (Room(p, i, s) = 0 \/ p[s].count + Room(p, i, s) <= MaxStack)
    BY <1>1, <1>2
  <2>7. MaxStack \in Nat
    BY Ids
  <2> QED BY <2>5, <2>6, <2>7
<1> HIDE DEF given
<1>4. ASSUME NEW s \in Slot
      PROVE  /\ made[s] \in Stack /\ made[s].count <= MaxStack
             /\ (made[s].count = 0 <=> made[s].item = NoItem)
  <2>1. CASE given[s] > 0
    <3>1. made[s] = [item |-> i, count |-> p[s].count + given[s]]
      BY <2>1
    <3>2. p[s].count + given[s] \in Nat /\ p[s].count + given[s] # 0 /\ p[s].count + given[s] <= MaxStack
      BY <2>1, <1>1, <1>3
    <3> HIDE DEF made
    <3> QED BY <3>1, <3>2, Ids DEF Stack
  <2>2. CASE ~(given[s] > 0)
    BY <2>2, <1>1
  <2> QED BY <2>1, <2>2
<1>5. made \in [Slot -> Stack]
  BY <1>4
<1> HIDE DEF made
<1> QED BY <1>0, <1>4, <1>5 DEF Sound

(* No more is taken from a slot than it has. *)
LEMMA TakenType ==
  ASSUME NEW p, Sound(p), NEW D \in SUBSET Item, NEW n \in [D -> Nat]
  PROVE  /\ TakenFrom(p, n) \in [Slot -> Nat]
         /\ \A s \in Slot : TakenFrom(p, n)[s] <= p[s].count
<1> SUFFICES ASSUME NEW s \in Slot
             PROVE  TakenFrom(p, n)[s] \in Nat /\ TakenFrom(p, n)[s] <= p[s].count
  BY DEF TakenFrom
<1>1. p[s].count \in Nat
  BY DEF Sound, Stack
<1>2. CASE p[s].item \notin D
  BY <1>1, <1>2 DEF TakenFrom
<1>3. CASE p[s].item \in D
  <2> DEFINE before == CountIn(p, {t \in SlotsWith(p, p[s].item) : t < s})
  <2>1. {t \in SlotsWith(p, p[s].item) : t < s} \in SUBSET Slot
    BY DEF SlotsWith
  <2>2. before \in Nat
    BY <2>1, CountType
  <2>3. TakenFrom(p, n)[s] = Clamp(n[p[s].item] - before, 0, p[s].count)
    BY <1>3 DEF TakenFrom
  <2> HIDE DEF before
  <2>4. n[p[s].item] - before \in Int
    BY <2>2, <1>3
  <2>5. TakenFrom(p, n)[s] \in 0 .. p[s].count
    BY <1>1, <2>3, <2>4, Clamped
  <2> QED BY <1>1, <2>5
<1> QED BY <1>2, <1>3

(* What is left after taking some. *)
LEMMA WithoutSound ==
  ASSUME NEW p, Sound(p), NEW taken \in [Slot -> Nat], \A s \in Slot : taken[s] <= p[s].count
  PROVE  Sound(Without(p, taken)) /\ Sound(LeftEmpty(p, taken))
<1>1. ASSUME NEW s \in Slot
      PROVE  /\ p[s] \in Stack /\ p[s].count <= MaxStack /\ (p[s].count = 0 <=> p[s].item = NoItem)
             /\ p[s].count \in Nat /\ taken[s] \in Nat /\ taken[s] <= p[s].count
  BY DEF Sound, Stack
<1>2. Empty \in Stack /\ Empty.count = 0 /\ Empty.item = NoItem /\ Empty.count <= MaxStack
  BY Ids DEF Empty, Stack
<1>3. ASSUME NEW s \in Slot, taken[s] # p[s].count
      PROVE  /\ [p[s] EXCEPT !.count = p[s].count - taken[s]] \in Stack
             /\ [p[s] EXCEPT !.count = p[s].count - taken[s]].count = p[s].count - taken[s]
             /\ [p[s] EXCEPT !.count = p[s].count - taken[s]].item = p[s].item
             /\ p[s].count - taken[s] # 0 /\ p[s].count - taken[s] <= MaxStack /\ p[s].count # 0
  <2>1. /\ p[s].count - taken[s] \in Nat /\ p[s].count - taken[s] # 0
        /\ p[s].count - taken[s] <= MaxStack /\ p[s].count # 0
    BY <1>1, <1>3, Ids
  <2> QED BY <1>1, <2>1 DEF Stack
<1> DEFINE l == LeftEmpty(p, taken)
           w == Without(p, taken)
<1>4. Sound(l)
  <2>1. l = [s \in Slot |-> IF taken[s] = p[s].count THEN Empty ELSE p[s]]
    BY DEF LeftEmpty
  <2> HIDE DEF l
  <2>2. l \in [Slot -> Stack]
    BY <2>1, <1>1, <1>2
  <2>3. \A s \in Slot : l[s] = Empty \/ l[s] = p[s]
    BY <2>1
  <2> QED BY <2>2, <2>3, <1>1, <1>2 DEF Sound
<1>5. Sound(w)
  <2>1. w = [s \in Slot |-> IF taken[s] = p[s].count THEN Empty ELSE [p[s] EXCEPT !.count = p[s].count - taken[s]]]
    BY DEF Without
  <2> HIDE DEF w
  <2>2. w \in [Slot -> Stack]
    BY <2>1, <1>1, <1>2, <1>3
  <2>3. \A s \in Slot : w[s].count <= MaxStack /\ (w[s].count = 0 <=> w[s].item = NoItem)
    BY <2>1, <1>1, <1>2, <1>3
  <2> QED BY <2>2, <2>3 DEF Sound
<1> QED BY <1>4, <1>5

-----------------------------------------------------------------------------
(* Credit. *)

LEMMA AddedKeeps ==
  ASSUME NEW j, NEW W, NEW X, NEW Y, Good(j, X, Y, W), NEW p, NEW i \in Item
  PROVE  Good(AddedCredit(j, p, i), X, Y, W) /\ Credited(j, AddedCredit(j, p, i))
<1> DEFINE enough == {q \in WithStatus(j, "Incomplete") \intersect Wanting(i) : ItemCount(p, i) >= Wants[q][i]}
           done == {q \in enough : Fulfilled(j.data, p, q)}
           f == [j.needed EXCEPT ![i] = @ - Cardinality(enough)]
           k == [j EXCEPT !.needed = f]
<1>1. enough \in SUBSET Quest /\ done \in SUBSET Quest /\ \A q \in done : j.data[q].status = "Incomplete"
  BY DEF WithStatus
<1>2. AddedCredit(j, p, i) = Saved(Marked(k, done, "Complete"), done)
  BY DEF AddedCredit
<1> HIDE DEF enough, done
<1>3. f \in [Item -> Int]
  <2>1. Cardinality(enough) \in Nat
    BY <1>1, Ids
  <2>2. j.needed \in [Item -> Int]
    BY DEF Good, Typed
  <2>3. j.needed[i] - Cardinality(enough) \in Int
    BY <2>1, <2>2
  <2> QED BY <2>2, <2>3
<1>4. k.data = j.data
  BY DEF Good, Typed
<1> HIDE DEF f
<1>5. Good(k, X, Y, W) /\ Credited(j, k)
  BY <1>3, Needing
<1> HIDE DEF k
<1>6. \A q \in done : k.data[q].status \in Logged
  BY <1>1, <1>4 DEF Logged
<1>7. /\ Good(Saved(Marked(k, done, "Complete"), done), X, Y \ done, W)
      /\ Credited(k, Saved(Marked(k, done, "Complete"), done))
  BY <1>1, <1>5, <1>6, MarkingSaved DEF Logged
<1>8. Good(Saved(Marked(k, done, "Complete"), done), X, Y, W)
  BY <1>7 DEF Good
<1> QED BY <1>2, <1>5, <1>7, <1>8, CreditedTwice

LEMMA RemovedKeeps ==
  ASSUME NEW j, NEW W, NEW X, NEW Y, Good(j, X, Y, W), NEW p, NEW items \in SUBSET Item
  PROVE  Good(RemovedCredit(j, p, items), X, Y, W) /\ Credited(j, RemovedCredit(j, p, items))
<1> DEFINE lacking(i) == {q \in WithStatus(j, "Complete") \intersect Wanting(i) : ItemCount(p, i) < Wants[q][i]}
           lackingBefore(i) == UNION {lacking(k) : k \in {k \in items : k < i}}
           missing == UNION {lacking(i) : i \in items}
           f == [i \in Item |-> IF i \in items THEN j.needed[i] + Cardinality(lacking(i) \ lackingBefore(i)) ELSE j.needed[i]]
           k == [j EXCEPT !.needed = f]
<1>1. \A i : lacking(i) \in SUBSET Quest /\ \A q \in lacking(i) : j.data[q].status = "Complete"
  BY DEF WithStatus
<1>2. RemovedCredit(j, p, items) = Saved(Marked(k, missing, "Incomplete"), missing)
  BY DEF RemovedCredit
<1> HIDE DEF lacking
<1>3. missing \in SUBSET Quest /\ \A q \in missing : j.data[q].status = "Complete"
  BY <1>1
<1>4. f \in [Item -> Int]
  <2>1. j.needed \in [Item -> Int]
    BY DEF Good, Typed
  <2>2. ASSUME NEW i \in Item
        PROVE  j.needed[i] + Cardinality(lacking(i) \ lackingBefore(i)) \in Int
    <3>1. lacking(i) \ lackingBefore(i) \in SUBSET Quest
      BY <1>1
    <3>2. Cardinality(lacking(i) \ lackingBefore(i)) \in Nat
      BY <3>1, Ids
    <3> QED BY <2>1, <3>2
  <2> QED BY <2>1, <2>2
<1> HIDE DEF missing, lackingBefore
<1>5. k.data = j.data
  BY DEF Good, Typed
<1> HIDE DEF f
<1>6. Good(k, X, Y, W) /\ Credited(j, k)
  BY <1>4, Needing
<1> HIDE DEF k
<1>7. \A q \in missing : k.data[q].status \in Logged
  BY <1>3, <1>5 DEF Logged
<1>8. /\ Good(Saved(Marked(k, missing, "Incomplete"), missing), X, Y \ missing, W)
      /\ Credited(k, Saved(Marked(k, missing, "Incomplete"), missing))
  BY <1>3, <1>6, <1>7, MarkingSaved DEF Logged
<1>9. Good(Saved(Marked(k, missing, "Incomplete"), missing), X, Y, W)
  BY <1>8 DEF Good
<1> QED BY <1>2, <1>6, <1>8, <1>9, CreditedTwice

LEMMA NeededKeeps ==
  ASSUME NEW j, NEW W, NEW X, NEW Y, Good(j, X, Y, W), NEW Q \in SUBSET Quest, NEW n \in Int
  PROVE  /\ Good(NeededMore(j, Q, n), X, Y, W) /\ Credited(j, NeededMore(j, Q, n))
         /\ NeededMore(j, Q, n).data = j.data /\ NeededMore(j, Q, n).log = j.log
<1> DEFINE f == [i \in Item |-> j.needed[i] + n * Cardinality(Q \intersect Wanting(i))]
<1>1. f \in [Item -> Int]
  <2>1. ASSUME NEW i \in Item
        PROVE  j.needed[i] + n * Cardinality(Q \intersect Wanting(i)) \in Int
    <3>1. j.needed[i] \in Int
      BY DEF Good, Typed
    <3>2. Cardinality(Q \intersect Wanting(i)) \in Nat
      BY Ids
    <3> QED BY <3>1, <3>2
  <2> QED BY <2>1
<1>2. NeededMore(j, Q, n) = [j EXCEPT !.needed = f]
  BY DEF NeededMore
<1> HIDE DEF f
<1>3. [j EXCEPT !.needed = f].data = j.data /\ [j EXCEPT !.needed = f].log = j.log
  BY DEF Good, Typed
<1> QED BY <1>1, <1>2, <1>3, Needing

(* Items that are created or removed, with their credit. *)
LEMMA CreationKeeps ==
  ASSUME NEW j, NEW W, NEW X, NEW Y, Good(j, X, Y, W), NEW p, Sound(p), NEW i \in Item, NEW n \in Nat
  PROVE  /\ Good(Creation(j, p, i, n).j, X, Y, W) /\ Credited(j, Creation(j, p, i, n).j)
         /\ Sound(Creation(j, p, i, n).p)
BY AddedKeeps, CreatedSound DEF Creation

LEMMA RemovalKeeps ==
  ASSUME NEW j, NEW W, NEW X, NEW Y, Good(j, X, Y, W), NEW p, Sound(p), NEW D \in SUBSET Item, NEW n \in [D -> Nat]
  PROVE  /\ Good(Removal(j, p, n).j, X, Y, W) /\ Credited(j, Removal(j, p, n).j)
         /\ Sound(Removal(j, p, n).p)
<1> DEFINE taken == TakenFrom(p, n)
           items == {i \in DOMAIN n : \E s \in SlotsWith(p, i) : taken[s] = p[s].count}
<1>1. items \in SUBSET Item
  OBVIOUS
<1>2. taken \in [Slot -> Nat] /\ \A s \in Slot : taken[s] <= p[s].count
  BY TakenType
<1>3. Removal(j, p, n) = [j |-> RemovedCredit(j, LeftEmpty(p, taken), items), p |-> Without(p, taken)]
  BY DEF Removal
<1> HIDE DEF taken, items
<1>4. Sound(Without(p, taken))
  BY <1>2, WithoutSound
<1>5. Good(RemovedCredit(j, LeftEmpty(p, taken), items), X, Y, W) /\ Credited(j, RemovedCredit(j, LeftEmpty(p, taken), items))
  BY <1>1, RemovedKeeps
<1> QED BY <1>3, <1>4, <1>5

LEMMA RemovalOfAllKeeps ==
  ASSUME NEW j, NEW W, NEW X, NEW Y, Good(j, X, Y, W), NEW p, Sound(p), NEW items \in SUBSET Item
  PROVE  /\ Good(RemovalOfAll(j, p, items).j, X, Y, W) /\ Credited(j, RemovalOfAll(j, p, items).j)
         /\ Sound(RemovalOfAll(j, p, items).p)
<1>1. \A i \in items : ItemCount(p, i) \in Nat
  <2>1. \A i : SlotsWith(p, i) \in SUBSET Slot
    BY DEF SlotsWith
  <2> QED BY <2>1, CountType DEF ItemCount
<1> DEFINE n == [i \in items |-> ItemCount(p, i)]
<1>2. n \in [items -> Nat]
  BY <1>1
<1>3. RemovalOfAll(j, p, items) = Removal(j, p, n)
  BY DEF RemovalOfAll
<1> HIDE DEF n
<1> QED BY <1>2, <1>3, RemovalKeeps

-----------------------------------------------------------------------------
(* Units: what is counted when stacks are. *)

Heights == [Slot -> 0 .. MaxStack]
Units(h) == {u \in Slot \X (1 .. MaxStack) : u[2] <= h[u[1]]}
Total(h) == Cardinality(Units(h))
Only(h, T) == [s \in Slot |-> IF s \in T THEN h[s] ELSE 0]

LEMMA TotalType ==
  ASSUME NEW h
  PROVE  IsFiniteSet(Units(h)) /\ Total(h) \in Nat /\ Units(h) \in SUBSET (Slot \X (1 .. MaxStack))
<1>1. Slot \in SUBSET Slot
  OBVIOUS
<1>2. IsFiniteSet(Slot \X (1 .. MaxStack))
  BY <1>1, UnitsFinite
<1>3. Units(h) \in SUBSET (Slot \X (1 .. MaxStack))
  BY DEF Units
<1> QED BY <1>2, <1>3, FS_Subset, FS_CardinalityType DEF Total

(* Higher stacks have more units. *)
LEMMA TotalGrows ==
  ASSUME NEW a \in Heights, NEW b \in Heights, \A s \in Slot : a[s] <= b[s]
  PROVE  Total(a) <= Total(b)
<1>1. ASSUME NEW u \in Units(a) PROVE u \in Units(b)
  <2>1. u \in Slot \X (1 .. MaxStack) /\ u[2] <= a[u[1]]
    BY DEF Units
  <2>2. u[1] \in Slot /\ u[2] \in 1 .. MaxStack
    BY <2>1
  <2>3. u[2] \in Int /\ a[u[1]] \in Int /\ b[u[1]] \in Int /\ a[u[1]] <= b[u[1]]
    BY <2>2, Ids DEF Heights
  <2>4. u[2] <= b[u[1]]
    BY <2>1, <2>3
  <2> QED BY <2>1, <2>4 DEF Units
<1>2. Units(a) \in SUBSET Units(b)
  BY <1>1
<1> QED BY <1>2, TotalType, FS_Subset DEF Total

(* Stacks that are put on each other. *)
LEMMA TotalAdds ==
  ASSUME NEW a \in Heights, NEW b \in Heights, NEW c \in Heights, \A s \in Slot : c[s] = a[s] + b[s]
  PROVE  Total(c) = Total(a) + Total(b)
<1> DEFINE R == Units(c) \ Units(a)
           f == [u \in Units(b) |-> <<u[1], u[2] + a[u[1]]>>]
<1>1. \A s \in Slot : a[s] \in 0 .. MaxStack /\ b[s] \in 0 .. MaxStack /\ c[s] \in 0 .. MaxStack /\ c[s] = a[s] + b[s]
  BY DEF Heights
<1>2. MaxStack \in Nat
  BY Ids
<1>3. \A u : u \in R <=> \E s \in Slot, n \in 1 .. MaxStack : u = <<s, n>> /\ n <= c[s] /\ ~(n <= a[s])
  BY DEF Units
<1>4. \A u : u \in Units(b) <=> \E s \in Slot, n \in 1 .. MaxStack : u = <<s, n>> /\ n <= b[s]
  BY DEF Units
<1>5. Units(a) \in SUBSET Units(c)
  <2> SUFFICES ASSUME NEW u \in Units(a) PROVE u \in Units(c)
    OBVIOUS
  <2>1. u \in Slot \X (1 .. MaxStack) /\ u[2] <= a[u[1]]
    BY DEF Units
  <2>2. u[1] \in Slot /\ u[2] \in 1 .. MaxStack
    BY <2>1
  <2>3. a[u[1]] \in 0 .. MaxStack /\ b[u[1]] \in 0 .. MaxStack /\ c[u[1]] = a[u[1]] + b[u[1]]
    BY <1>1, <2>2
  <2>4. u[2] <= c[u[1]]
    BY <1>2, <2>1, <2>2, <2>3
  <2> QED BY <2>1, <2>4 DEF Units
<1> HIDE DEF R
<1>6. ASSUME NEW s \in Slot, NEW n \in 1 .. MaxStack, n <= b[s]
      PROVE  /\ f[<<s, n>>] = <<s, n + a[s]>> /\ n + a[s] \in 1 .. MaxStack
             /\ n + a[s] <= c[s] /\ ~(n + a[s] <= a[s])
  <2>1. <<s, n>> \in Units(b)
    BY <1>4, <1>6
  <2>2. f[<<s, n>>] = <<s, n + a[s]>>
    BY <2>1
  <2>3. a[s] \in 0 .. MaxStack /\ b[s] \in 0 .. MaxStack /\ c[s] \in 0 .. MaxStack /\ c[s] = a[s] + b[s]
    BY <1>1
  <2>4. n + a[s] \in 1 .. MaxStack /\ n + a[s] <= c[s] /\ ~(n + a[s] <= a[s])
    BY <1>2, <1>6, <2>3
  <2> QED BY <2>2, <2>4
<1>7. f \in [Units(b) -> R]
  <2>1. \A u \in Units(b) : f[u] \in R
    <3> SUFFICES ASSUME NEW u \in Units(b) PROVE f[u] \in R
      OBVIOUS
    <3> HIDE DEF f
    <3>1. PICK s \in Slot, n \in 1 .. MaxStack : u = <<s, n>> /\ n <= b[s]
      BY <1>4
    <3> QED BY <3>1, <1>3, <1>6
  <2> QED BY <2>1
<1>8. ASSUME NEW u \in Units(b), NEW v \in Units(b), f[u] = f[v] PROVE u = v
  <2> HIDE DEF f
  <2>1. PICK s \in Slot, n \in 1 .. MaxStack : u = <<s, n>> /\ n <= b[s]
    BY <1>4
  <2>2. PICK t \in Slot, m \in 1 .. MaxStack : v = <<t, m>> /\ m <= b[t]
    BY <1>4
  <2>3. s = t /\ n + a[s] = m + a[t]
    BY <1>6, <1>8, <2>1, <2>2
  <2>4. a[s] \in Int /\ n \in Int /\ m \in Int /\ n + a[s] = m + a[s]
    BY <1>1, <1>2, <2>3
  <2>5. n = m
    BY <2>4
  <2> QED BY <2>1, <2>2, <2>3, <2>5
<1>9. \A u \in R : \E v \in Units(b) : f[v] = u
  <2> SUFFICES ASSUME NEW u \in R PROVE \E v \in Units(b) : f[v] = u
    OBVIOUS
  <2> HIDE DEF f
  <2>1. PICK s \in Slot, n \in 1 .. MaxStack : u = <<s, n>> /\ n <= c[s] /\ ~(n <= a[s])
    BY <1>3
  <2>2. a[s] \in 0 .. MaxStack /\ b[s] \in 0 .. MaxStack /\ c[s] = a[s] + b[s]
    BY <1>1
  <2>3. n - a[s] \in 1 .. MaxStack /\ n - a[s] <= b[s] /\ (n - a[s]) + a[s] = n
    BY <1>2, <2>1, <2>2
  <2>4. <<s, n - a[s]>> \in Units(b)
    BY <1>4, <2>3
  <2>5. f[<<s, n - a[s]>>] = <<s, (n - a[s]) + a[s]>>
    BY <1>6, <2>3
  <2> QED BY <2>1, <2>3, <2>4, <2>5
<1> HIDE DEF f
<1>10. f \in Injection(Units(b), R) /\ f \in Surjection(Units(b), R)
  BY <1>7, <1>8, <1>9 DEF Injection, IsInjective, Surjection
<1>11. Cardinality(R) = Total(b)
  <2>1. IsFiniteSet(Units(b))
    BY TotalType
  <2> QED BY <1>10, <2>1, FS_Surjection DEF Total
<1>12. Cardinality(R) = Total(c) - Total(a)
  <2>1. Units(c) \intersect Units(a) = Units(a)
    BY <1>5
  <2>2. Cardinality(R) = Cardinality(Units(c)) - Cardinality(Units(c) \intersect Units(a))
    BY TotalType, FS_Difference DEF R
  <2> QED BY <2>1, <2>2 DEF Total
<1>13. Total(a) \in Nat /\ Total(b) \in Nat /\ Total(c) \in Nat
  BY TotalType
<1> QED BY <1>11, <1>12, <1>13

(* One stack has as many units as it is high. *)
LEMMA TotalOfOne ==
  ASSUME NEW h \in Heights, NEW s \in Slot
  PROVE  Only(h, {s}) \in Heights /\ Total(Only(h, {s})) = h[s]
<1> DEFINE U == Units(Only(h, {s}))
           f == [n \in 1 .. h[s] |-> <<s, n>>]
<1>1. h[s] \in 0 .. MaxStack /\ MaxStack \in Nat
  BY Ids DEF Heights
<1>2. \A n \in 1 .. h[s] : n \in 1 .. MaxStack /\ n <= h[s]
  BY <1>1
<1>3. \A t \in Slot : Only(h, {s})[t] = IF t = s THEN h[s] ELSE 0
  BY DEF Only
<1>4. Only(h, {s}) \in Heights
  BY <1>1, <1>3 DEF Only, Heights
<1>5. \A u : u \in U <=> \E n \in 1 .. h[s] : u = <<s, n>>
  <2>1. ASSUME NEW u \in U PROVE \E n \in 1 .. h[s] : u = <<s, n>>
    <3>1. PICK t \in Slot, n \in 1 .. MaxStack : u = <<t, n>> /\ n <= Only(h, {s})[t]
      BY DEF Units
    <3>2. t = s /\ n <= h[s]
      BY <1>1, <1>3, <3>1
    <3>3. n \in 1 .. h[s]
      BY <1>1, <3>2
    <3> QED BY <3>1, <3>2, <3>3
  <2>2. ASSUME NEW n \in 1 .. h[s] PROVE <<s, n>> \in U
    BY <1>2, <1>3 DEF Units
  <2> QED BY <2>1, <2>2
<1> HIDE DEF U
<1>6. f \in Injection(1 .. h[s], U) /\ f \in Surjection(1 .. h[s], U)
  BY <1>5 DEF Injection, IsInjective, Surjection
<1>7. IsFiniteSet(1 .. h[s]) /\ Cardinality(1 .. h[s]) = h[s]
  <2>1. h[s] \in Int /\ h[s] >= 0
    BY <1>1
  <2>2. /\ IsFiniteSet(1 .. h[s])
        /\ Cardinality(1 .. h[s]) = IF 1 > h[s] THEN 0 ELSE h[s] - 1 + 1
    BY <2>1, FS_Interval
  <2> QED BY <2>1, <2>2
<1> HIDE DEF f
<1>8. Cardinality(U) = h[s]
  BY <1>6, <1>7, FS_Surjection
<1> QED BY <1>4, <1>8 DEF Total, U

(* The units of some slots and of another one. *)
LEMMA TotalOfMore ==
  ASSUME NEW h \in Heights, NEW g \in Heights, NEW T \in SUBSET Slot, NEW s \in Slot, s \notin T,
         \A x \in T : h[x] <= g[x], h[s] <= g[s]
  PROVE  Total(Only(h, T)) + h[s] <= Total(g)
<1> DEFINE a == Only(h, T)
           b == Only(h, {s})
           c == Only(h, T \union {s})
<1>1. \A x \in Slot : h[x] \in 0 .. MaxStack /\ g[x] \in 0 .. MaxStack
  BY DEF Heights
<1>2. MaxStack \in Nat
  BY Ids
<1>3. 0 \in 0 .. MaxStack
  BY <1>2
<1>4. a \in Heights /\ b \in Heights /\ c \in Heights
  BY <1>1, <1>3 DEF Only, Heights
<1>5. \A x \in Slot : c[x] = a[x] + b[x]
  <2> SUFFICES ASSUME NEW x \in Slot PROVE c[x] = a[x] + b[x]
    OBVIOUS
  <2>1. h[x] \in Int
    BY <1>1
  <2> QED BY <2>1 DEF Only
<1>6. \A x \in Slot : c[x] <= g[x]
  <2> SUFFICES ASSUME NEW x \in Slot PROVE c[x] <= g[x]
    OBVIOUS
  <2>1. h[x] \in 0 .. MaxStack /\ g[x] \in 0 .. MaxStack
    BY <1>1
  <2>2. CASE x \in T \union {s}
    BY <2>2 DEF Only
  <2>3. CASE x \notin T \union {s}
    BY <2>1, <2>3, <1>2 DEF Only
  <2> QED BY <2>2, <2>3
<1> HIDE DEF a, b, c
<1>7. Total(c) = Total(a) + Total(b) /\ Total(c) <= Total(g)
  BY <1>4, <1>5, <1>6, TotalAdds, TotalGrows
<1>8. Total(b) = h[s]
  BY TotalOfOne DEF b
<1> QED BY <1>7, <1>8 DEF a

(* The first ones of things with a place. *)
LEMMA FirstOnes ==
  ASSUME NEW U, IsFiniteSet(U), NEW r \in Injection(U, 1 .. Cardinality(U)), NEW n \in Nat, n <= Cardinality(U)
  PROVE  Cardinality({u \in U : r[u] <= n}) = n
<1> DEFINE W == {u \in U : r[u] <= n}
           g == [u \in W |-> r[u]]
           C == Cardinality(U)
<1>1. C \in Nat
  BY FS_CardinalityType
<1>2. IsFiniteSet(1 .. C) /\ Cardinality(1 .. C) = C
  BY <1>1, FS_Interval
<1>3. r \in Surjection(U, 1 .. C)
  BY <1>2, FS_Injection
<1>4. /\ \A u \in U : r[u] \in 1 .. C
      /\ \A u, v \in U : r[u] = r[v] => u = v
      /\ \A m \in 1 .. C : \E u \in U : r[u] = m
  BY <1>3 DEF Injection, IsInjective, Surjection
<1>5. \A u : u \in W <=> u \in U /\ r[u] <= n
  OBVIOUS
<1> HIDE DEF W, C
<1>6. \A m \in 1 .. C : m <= n => m \in 1 .. n
  BY <1>1
<1>7. \A m \in 1 .. n : m \in 1 .. C /\ m <= n
  BY <1>1 DEF C
<1>8. g \in [W -> 1 .. n]
  BY <1>4, <1>5, <1>6
<1>9. \A u, v \in W : g[u] = g[v] => u = v
  BY <1>4, <1>5
<1>10. \A m \in 1 .. n : \E u \in W : g[u] = m
  BY <1>4, <1>5, <1>7
<1> HIDE DEF g
<1>11. g \in Injection(W, 1 .. n) /\ g \in Surjection(W, 1 .. n)
  BY <1>8, <1>9, <1>10 DEF Injection, IsInjective, Surjection
<1>12. IsFiniteSet(1 .. n) /\ Cardinality(1 .. n) = n
  BY FS_Interval
<1>13. Cardinality(W) = n
  BY <1>11, <1>12, FS_Injection
<1> QED BY <1>13 DEF W

(* Slots come one after the other. *)
InOrder(h, B) ==
  /\ B \in [Slot -> SUBSET Slot]
  /\ \A s \in Slot : s \notin B[s]
  /\ \A s, t \in Slot : h[s] > 0 /\ h[t] > 0 /\ s # t =>
       \/ s \in B[t] /\ \A x \in B[s] : h[x] > 0 => x \in B[t]
       \/ t \in B[s] /\ \A x \in B[t] : h[x] > 0 => x \in B[s]

(* What is taken from slots in order, or put there, is as much as was asked for. *)
LEMMA OneAfterTheOther ==
  ASSUME NEW h \in Heights, NEW B, InOrder(h, B), NEW n \in Nat, n <= Total(h), NEW piece,
         piece = [s \in Slot |-> Clamp(n - Total(Only(h, B[s])), 0, h[s])]
  PROVE  piece \in Heights /\ Total(piece) = n /\ \A s \in Slot : piece[s] <= h[s]
<1> DEFINE before(s) == Total(Only(h, B[s]))
           r == [u \in Units(h) |-> before(u[1]) + u[2]]
<1>1. \A s \in Slot : h[s] \in 0 .. MaxStack /\ before(s) \in Nat /\ B[s] \in SUBSET Slot /\ s \notin B[s]
  BY TotalType DEF Heights, InOrder
<1>2. MaxStack \in Nat /\ Total(h) \in Nat
  BY Ids, TotalType
<1>3. \A s \in Slot : piece[s] = Clamp(n - before(s), 0, h[s])
  OBVIOUS
<1>4. \A s \in Slot : Only(h, B[s]) \in Heights
  <2>1. 0 \in 0 .. MaxStack
    BY <1>2
  <2> QED BY <1>1, <2>1 DEF Only, Heights
<1>5. \A s \in Slot : before(s) + h[s] <= Total(h)
  <2> SUFFICES ASSUME NEW s \in Slot PROVE before(s) + h[s] <= Total(h)
    OBVIOUS
  <2>1. \A x \in Slot : h[x] \in Int
    BY <1>1
  <2>2. B[s] \in SUBSET Slot /\ s \notin B[s]
    BY <1>1
  <2>3. \A x \in B[s] : h[x] <= h[x]
    BY <2>1, <2>2
  <2>4. h[s] <= h[s]
    BY <2>1
  <2> QED BY <2>2, <2>3, <2>4, TotalOfMore
<1>6. ASSUME NEW s \in Slot, NEW t \in Slot, h[s] > 0, s \in B[t], \A x \in B[s] : h[x] > 0 => x \in B[t]
      PROVE  before(s) + h[s] <= before(t)
  <2> DEFINE g == Only(h, B[t])
             T == {x \in B[s] : h[x] > 0}
  <2>1. T \in SUBSET Slot /\ s \notin T /\ g \in Heights
    BY <1>1, <1>4
  <2>c. \A x \in Slot : g[x] = IF x \in B[t] THEN h[x] ELSE 0
    BY DEF Only
  <2>d. \A x \in Slot : h[x] \in Int
    BY <1>1
  <2> HIDE DEF g
  <2>a. \A x \in Slot : h[x] \in Int /\ g[x] = IF x \in B[t] THEN h[x] ELSE 0
    BY <2>c, <2>d
  <2>b. \A x \in T : x \in Slot /\ x \in B[t]
    BY <1>1, <1>6
  <2>2. \A x \in T : h[x] \in Int /\ g[x] = h[x]
    BY <2>a, <2>b
  <2>3. g[s] = h[s] /\ h[s] \in Int
    BY <2>a, <1>6
  <2>4. Only(h, T) = Only(h, B[s])
    <3>1. ASSUME NEW x \in Slot PROVE (IF x \in T THEN h[x] ELSE 0) = IF x \in B[s] THEN h[x] ELSE 0
      <4>1. h[x] \in 0 .. MaxStack
        BY <1>1
      <4>2. h[x] > 0 \/ h[x] = 0
        BY <4>1, <1>2
      <4> QED BY <4>2
    <3> HIDE DEF T
    <3> QED BY <3>1 DEF Only
  <2> HIDE DEF T, g
  <2>5. \A x \in T : h[x] <= g[x]
    BY <2>2
  <2>6. h[s] <= g[s]
    BY <2>3
  <2>7. Total(Only(h, T)) + h[s] <= Total(g)
    BY <2>1, <2>5, <2>6, TotalOfMore
  <2> QED BY <2>4, <2>7 DEF g
<1>7. \A u \in Units(h) : /\ u[1] \in Slot /\ u[2] \in 1 .. MaxStack /\ u[2] <= h[u[1]] /\ u = <<u[1], u[2]>>
                          /\ r[u] = before(u[1]) + u[2]
  BY DEF Units
<1> HIDE DEF before, r
<1>8. \A u \in Units(h) : h[u[1]] > 0
  <2> SUFFICES ASSUME NEW u \in Units(h) PROVE h[u[1]] > 0
    OBVIOUS
  <2>1. u[1] \in Slot /\ u[2] \in 1 .. MaxStack /\ u[2] <= h[u[1]]
    BY <1>7
  <2>2. h[u[1]] \in 0 .. MaxStack
    BY <1>1, <2>1
  <2> QED BY <1>2, <2>1, <2>2
<1>9. ASSUME NEW u \in Units(h), NEW v \in Units(h), r[u] = r[v]
      PROVE  u = v
  <2> DEFINE s == u[1]
             t == v[1]
  <2>1. /\ s \in Slot /\ u[2] \in 1 .. MaxStack /\ u[2] <= h[s] /\ u = <<s, u[2]>>
        /\ t \in Slot /\ v[2] \in 1 .. MaxStack /\ v[2] <= h[t] /\ v = <<t, v[2]>>
        /\ before(s) + u[2] = before(t) + v[2] /\ h[s] > 0 /\ h[t] > 0
    BY <1>7, <1>8, <1>9
  <2> HIDE DEF s, t
  <2>2. before(s) \in Nat /\ before(t) \in Nat /\ h[s] \in 0 .. MaxStack /\ h[t] \in 0 .. MaxStack
    BY <1>1, <2>1
  <2>3. CASE s = t
    <3>1. u[2] = v[2]
      BY <2>1, <2>2, <2>3, <1>2
    <3> QED BY <3>1, <2>1, <2>3
  <2>4. CASE s # t
    <3>1. before(s) + h[s] <= before(t) \/ before(t) + h[t] <= before(s)
      BY <1>6, <2>1, <2>4 DEF InOrder
    <3>2. before(s) + u[2] # before(t) + v[2]
      BY <3>1, <2>1, <2>2, <1>2
    <3> QED BY <3>2, <2>1
  <2> QED BY <2>3, <2>4
<1>10. \A u \in Units(h) : r[u] \in 1 .. Total(h)
  <2> SUFFICES ASSUME NEW u \in Units(h) PROVE r[u] \in 1 .. Total(h)
    OBVIOUS
  <2>1. u[1] \in Slot /\ u[2] \in 1 .. MaxStack /\ u[2] <= h[u[1]] /\ r[u] = before(u[1]) + u[2]
    BY <1>7
  <2>2. before(u[1]) \in Nat /\ before(u[1]) + h[u[1]] <= Total(h) /\ h[u[1]] \in 0 .. MaxStack
    BY <1>1, <1>5, <2>1
  <2> QED BY <2>1, <2>2, <1>2
<1>11. r \in [Units(h) -> 1 .. Total(h)]
  BY <1>10 DEF r
<1>12. r \in Injection(Units(h), 1 .. Cardinality(Units(h)))
  BY <1>9, <1>11 DEF Injection, IsInjective, Total
<1>13. Cardinality({u \in Units(h) : r[u] <= n}) = n
  BY <1>12, TotalType, FirstOnes DEF Total
<1>14. ASSUME NEW s \in Slot
       PROVE  /\ piece[s] \in 0 .. MaxStack /\ piece[s] <= h[s]
              /\ \A m \in 1 .. MaxStack : m <= piece[s] <=> m <= h[s] /\ before(s) + m <= n
  <2>1. piece[s] = Clamp(n - before(s), 0, h[s]) /\ before(s) \in Nat /\ h[s] \in 0 .. MaxStack
    BY <1>1, <1>3
  <2>2. \/ n - before(s) < 0 /\ piece[s] = 0
        \/ n - before(s) > h[s] /\ piece[s] = h[s]
        \/ n - before(s) >= 0 /\ n - before(s) <= h[s] /\ piece[s] = n - before(s)
    BY <2>1, <1>2 DEF Clamp
  <2> QED BY <2>1, <2>2, <1>2
<1>15. piece \in Heights
  BY <1>14 DEF Heights
<1>16. Units(piece) = {u \in Units(h) : r[u] <= n}
  <2>1. ASSUME NEW u \in Units(piece) PROVE u \in Units(h) /\ r[u] <= n
    <3>1. u \in Slot \X (1 .. MaxStack) /\ u[1] \in Slot /\ u[2] \in 1 .. MaxStack /\ u[2] <= piece[u[1]]
      BY DEF Units
    <3>2. u[2] <= h[u[1]] /\ before(u[1]) + u[2] <= n
      BY <3>1, <1>14
    <3>3. u \in Units(h)
      BY <3>1, <3>2 DEF Units
    <3> QED BY <3>2, <3>3, <1>7
  <2>2. ASSUME NEW u \in Units(h), r[u] <= n PROVE u \in Units(piece)
    <3>1. u[1] \in Slot /\ u[2] \in 1 .. MaxStack /\ u[2] <= h[u[1]] /\ before(u[1]) + u[2] <= n
      BY <1>7, <2>2
    <3>2. u[2] <= piece[u[1]]
      BY <3>1, <1>14
    <3> QED BY <3>2 DEF Units
  <2> QED BY <2>1, <2>2
<1> QED BY <1>13, <1>14, <1>15, <1>16 DEF Total

-----------------------------------------------------------------------------
(* How many of an item an inventory has. *)

Held(p, i) == [s \in Slot |-> IF p[s].item = i THEN p[s].count ELSE 0]

LEMMA SlotsOf ==
  ASSUME NEW p, Sound(p), NEW s \in Slot
  PROVE  /\ p[s].count \in 0 .. MaxStack /\ p[s].item \in Item \union {NoItem}
         /\ (p[s].count = 0 <=> p[s].item = NoItem)
         /\ (p[s] = Empty <=> p[s].item = NoItem)
         /\ p[s] = [item |-> p[s].item, count |-> p[s].count]
<1>1. p[s] \in Stack /\ p[s].count <= MaxStack /\ (p[s].count = 0 <=> p[s].item = NoItem)
  BY DEF Sound
<1>2. p[s] = [item |-> p[s].item, count |-> p[s].count] /\ p[s].count \in Nat /\ p[s].item \in Item \union {NoItem}
  BY <1>1 DEF Stack
<1>3. p[s].count \in 0 .. MaxStack
  BY <1>1, <1>2, Ids
<1> QED BY <1>1, <1>2, <1>3 DEF Empty

LEMMA HeldHeights ==
  ASSUME NEW p, Sound(p), NEW i
  PROVE  Held(p, i) \in Heights
<1>1. \A s \in Slot : p[s].count \in 0 .. MaxStack
  BY SlotsOf
<1>2. 0 \in 0 .. MaxStack
  BY Ids
<1> QED BY <1>1, <1>2 DEF Held, Heights

(* Units of nothing do not exist. *)
LEMMA UnitsOfSome ==
  ASSUME NEW h \in Heights, NEW S \in SUBSET Slot
  PROVE  Units(Only(h, S)) = {u \in S \X (1 .. MaxStack) : u[2] <= h[u[1]]}
<1>1. ASSUME NEW u \in Units(Only(h, S)) PROVE u \in S \X (1 .. MaxStack) /\ u[2] <= h[u[1]]
  <2>1. u \in Slot \X (1 .. MaxStack) /\ u[1] \in Slot /\ u[2] \in 1 .. MaxStack
        /\ u[2] <= IF u[1] \in S THEN h[u[1]] ELSE 0
    BY DEF Units, Only
  <2>2. ~(u[2] <= 0)
    BY <2>1, Ids
  <2>3. u[1] \in S /\ u[2] <= h[u[1]]
    BY <2>1, <2>2
  <2> QED BY <2>1, <2>3
<1>2. ASSUME NEW u \in S \X (1 .. MaxStack), u[2] <= h[u[1]] PROVE u \in Units(Only(h, S))
  BY <1>2 DEF Units, Only
<1> QED BY <1>1, <1>2

LEMMA CountIsTotal ==
  ASSUME NEW p, Sound(p), NEW i, NEW S \in SUBSET SlotsWith(p, i)
  PROVE  CountIn(p, S) = Total(Only(Held(p, i), S))
<1>1. S \in SUBSET Slot /\ \A s \in S : Held(p, i)[s] = p[s].count
  BY DEF SlotsWith, Held
<1>2. Held(p, i) \in Heights
  BY HeldHeights
<1>3. Units(Only(Held(p, i), S)) = {u \in S \X (1 .. MaxStack) : u[2] <= Held(p, i)[u[1]]}
  BY <1>1, <1>2, UnitsOfSome
<1>4. {u \in S \X (1 .. MaxStack) : u[2] <= Held(p, i)[u[1]]} = {u \in S \X (1 .. MaxStack) : u[2] <= p[u[1]].count}
  BY <1>1
<1> QED BY <1>3, <1>4 DEF CountIn, Total

LEMMA ItemsHeld ==
  ASSUME NEW p, Sound(p), NEW i
  PROVE  ItemCount(p, i) = Total(Held(p, i)) /\ ItemCount(p, i) \in Nat
<1>1. Only(Held(p, i), SlotsWith(p, i)) = Held(p, i)
  BY DEF Only, Held, SlotsWith
<1>2. CountIn(p, SlotsWith(p, i)) = Total(Only(Held(p, i), SlotsWith(p, i)))
  BY CountIsTotal
<1> QED BY <1>1, <1>2, TotalType DEF ItemCount

(* Inventories that hold the same of an item. *)
LEMMA SameHeld ==
  ASSUME NEW p, NEW c, Sound(p), Sound(c), NEW i, \A s \in Slot : Held(c, i)[s] = Held(p, i)[s]
  PROVE  ItemCount(c, i) = ItemCount(p, i)
<1>1. Held(c, i) = Held(p, i)
  BY DEF Held
<1> QED BY <1>1, ItemsHeld

(* removeItems takes what it is asked for, if there is enough, and nothing else. *)
LEMMA TakenCounts ==
  ASSUME NEW p, Sound(p), NEW D \in SUBSET Item, NEW n \in [D -> Nat], NEW i \in Item
  PROVE  /\ i \in D /\ n[i] <= ItemCount(p, i) =>
              ItemCount(Without(p, TakenFrom(p, n)), i) = ItemCount(p, i) - n[i]
         /\ i \notin D => ItemCount(Without(p, TakenFrom(p, n)), i) = ItemCount(p, i)
<1> DEFINE taken == TakenFrom(p, n)
           w == Without(p, taken)
           h == Held(p, i)
<1>1. taken \in [Slot -> Nat] /\ \A s \in Slot : taken[s] \in Nat /\ taken[s] <= p[s].count
  BY TakenType
<1>2. \A s \in Slot : taken[s] = IF p[s].item \notin D THEN 0
                                 ELSE Clamp(n[p[s].item] - CountIn(p, {t \in SlotsWith(p, p[s].item) : t < s}), 0, p[s].count)
  BY DEF TakenFrom
<1> HIDE DEF taken
<1>3. Sound(w)
  BY <1>1, WithoutSound
<1>4. \A s \in Slot : w[s] = IF taken[s] = p[s].count THEN Empty ELSE [p[s] EXCEPT !.count = p[s].count - taken[s]]
  BY DEF Without
<1> HIDE DEF w
<1>5. h \in Heights /\ Held(w, i) \in Heights
  BY <1>3, HeldHeights
<1>6. i # NoItem /\ MaxStack \in Nat
  BY Ids
<1>7. ASSUME NEW s \in Slot
      PROVE  /\ p[s].item = i => Held(w, i)[s] = p[s].count - taken[s] /\ h[s] = p[s].count
             /\ p[s].item # i => Held(w, i)[s] = 0 /\ h[s] = 0
  <2>1. Empty.item = NoItem /\ Empty.count = 0
    BY DEF Empty
  <2>2. /\ Held(w, i)[s] = IF w[s].item = i THEN w[s].count ELSE 0
        /\ h[s] = IF p[s].item = i THEN p[s].count ELSE 0
    BY DEF Held
  <2>3. p[s].count \in Int /\ taken[s] \in Int /\ p[s] = [item |-> p[s].item, count |-> p[s].count]
    BY <1>1, SlotsOf
  <2>4. CASE taken[s] = p[s].count
    <3>1. w[s] = Empty
      BY <2>4, <1>4
    <3>2. p[s].count - taken[s] = 0
      BY <2>3, <2>4
    <3> QED BY <3>1, <3>2, <2>1, <2>2, <1>6
  <2>5. CASE taken[s] # p[s].count
    <3>1. w[s] = [p[s] EXCEPT !.count = p[s].count - taken[s]]
      BY <2>5, <1>4
    <3>2. w[s].item = p[s].item /\ w[s].count = p[s].count - taken[s]
      BY <3>1, <2>3
    <3> QED BY <3>2, <2>2
  <2> QED BY <2>4, <2>5
<1>8. CASE i \in D
  <2> DEFINE B == [s \in Slot |-> {t \in SlotsWith(p, i) : t < s}]
             piece == [s \in Slot |-> Clamp(n[i] - Total(Only(h, B[s])), 0, h[s])]
  <2>1. \A s \in Slot : p[s].item = i => taken[s] = piece[s]
    <3> SUFFICES ASSUME NEW s \in Slot, p[s].item = i PROVE taken[s] = piece[s]
      OBVIOUS
    <3>1. taken[s] = Clamp(n[i] - CountIn(p, B[s]), 0, p[s].count)
      BY <1>2, <1>8
    <3>2. B[s] \in SUBSET SlotsWith(p, i)
      OBVIOUS
    <3>3. CountIn(p, B[s]) = Total(Only(h, B[s]))
      BY <3>2, CountIsTotal
    <3>4. h[s] = p[s].count
      BY <1>7
    <3>5. piece[s] = Clamp(n[i] - Total(Only(h, B[s])), 0, h[s])
      OBVIOUS
    <3> QED BY <3>1, <3>3, <3>4, <3>5
  <2>2. InOrder(h, B)
    <3>1. Slot \subseteq Int
      BY DEF Slot
    <3>2. B \in [Slot -> SUBSET Slot]
      BY DEF SlotsWith
    <3>3. \A s \in Slot : s \notin B[s]
      BY <3>1
    <3>4. \A s \in Slot : h[s] > 0 => p[s].item = i
      BY <1>7
    <3>5. \A s, t \in Slot : t \in B[s] <=> p[t].item = i /\ t < s
      BY DEF SlotsWith
    <3> HIDE DEF B, h
    <3>6. ASSUME NEW s \in Slot, NEW t \in Slot, h[s] > 0, h[t] > 0, s # t
          PROVE  \/ s \in B[t] /\ \A x \in B[s] : h[x] > 0 => x \in B[t]
                 \/ t \in B[s] /\ \A x \in B[t] : h[x] > 0 => x \in B[s]
      <4>1. s < t \/ t < s
        BY <3>1, <3>6
      <4>2. \A x \in Slot : (x < s /\ s < t => x < t) /\ (x < t /\ t < s => x < s)
        BY <3>1
      <4>3. \A x \in B[s] : x \in Slot
        BY <3>2
      <4>4. \A x \in B[t] : x \in Slot
        BY <3>2
      <4>5. CASE s < t
        BY <4>2, <4>3, <4>5, <3>4, <3>5, <3>6
      <4>6. CASE t < s
        BY <4>2, <4>4, <4>6, <3>4, <3>5, <3>6
      <4> QED BY <4>1, <4>5, <4>6
    <3> QED BY <3>2, <3>3, <3>6 DEF InOrder
  <2>3. piece = [s \in Slot |-> Clamp(n[i] - Total(Only(h, B[s])), 0, h[s])]
    OBVIOUS
  <2>4. n[i] \in Nat
    BY <1>8
  <2> HIDE DEF piece, B, h
  <2>5. ASSUME n[i] <= Total(h)
        PROVE  ItemCount(w, i) = ItemCount(p, i) - n[i]
    <3>1. piece \in Heights /\ Total(piece) = n[i] /\ \A s \in Slot : piece[s] <= h[s]
      BY <1>5, <2>2, <2>3, <2>4, <2>5, OneAfterTheOther
    <3>2. \A s \in Slot : h[s] = piece[s] + Held(w, i)[s]
      <4> SUFFICES ASSUME NEW s \in Slot PROVE h[s] = piece[s] + Held(w, i)[s]
        OBVIOUS
      <4>1. piece[s] \in 0 .. MaxStack /\ piece[s] <= h[s] /\ p[s].count \in 0 .. MaxStack
        BY <3>1, SlotsOf DEF Heights
      <4>2. CASE p[s].item = i
        <5>1. Held(w, i)[s] = p[s].count - piece[s] /\ h[s] = p[s].count
          BY <4>2, <1>7, <2>1
        <5> QED BY <5>1, <4>1, <1>6
      <4>3. CASE p[s].item # i
        <5>1. Held(w, i)[s] = 0 /\ h[s] = 0
          BY <4>3, <1>7
        <5> QED BY <5>1, <4>1, <1>6
      <4> QED BY <4>2, <4>3
    <3>3. Total(h) = Total(piece) + Total(Held(w, i))
      BY <1>5, <3>1, <3>2, TotalAdds
    <3>4. ItemCount(w, i) = Total(Held(w, i)) /\ ItemCount(p, i) = Total(h) /\ ItemCount(w, i) \in Nat
      BY <1>3, ItemsHeld DEF h
    <3> QED BY <3>1, <3>3, <3>4, <2>4
  <2>6. ItemCount(p, i) = Total(h)
    BY ItemsHeld DEF h
  <2> QED BY <1>8, <2>5, <2>6 DEF w, taken
<1>9. CASE i \notin D
  <2>1. \A s \in Slot : Held(w, i)[s] = h[s]
    <3> SUFFICES ASSUME NEW s \in Slot PROVE Held(w, i)[s] = h[s]
      OBVIOUS
    <3>1. CASE p[s].item = i
      <4>1. taken[s] = 0 /\ p[s].count \in 0 .. MaxStack
        BY <3>1, <1>2, <1>9, SlotsOf
      <4>2. p[s].count - taken[s] = p[s].count
        BY <4>1
      <4> QED BY <3>1, <4>2, <1>7
    <3>2. CASE p[s].item # i
      BY <3>2, <1>7
    <3> QED BY <3>1, <3>2
  <2>2. ItemCount(w, i) = ItemCount(p, i)
    BY <1>3, <2>1, SameHeld
  <2> QED BY <1>9, <2>2 DEF w, taken
<1> QED BY <1>8, <1>9

(* createItems makes what it is asked for, if there is room, and nothing else. *)
LEMMA CreatedCounts ==
  ASSUME NEW p, Sound(p), NEW i \in Item, NEW n \in Nat
  PROVE  /\ \A k \in Item \ {i} : ItemCount(Created(p, i, n), k) = ItemCount(p, k)
         /\ CanCreate(p, i, n) => ItemCount(Created(p, i, n), i) = ItemCount(p, i) + n
         /\ \A s \in Slot : p[s] = Empty /\ n <= MaxStack => CanCreate(p, i, n)
<1> DEFINE h == [s \in Slot |-> Room(p, i, s)]
           B == [s \in Slot |-> RoomBefore(p, i, s)]
           given == [s \in Slot |-> Clamp(n - RoomFor(p, i, RoomBefore(p, i, s)), 0, Room(p, i, s))]
           c == Created(p, i, n)
<1>1. /\ Sound(c)
      /\ \A s \in Slot : c[s] = IF given[s] > 0 THEN [item |-> i, count |-> p[s].count + given[s]] ELSE p[s]
  BY CreatedSound DEF Created
<1>2. i # NoItem /\ MaxStack \in Nat
  BY Ids
<1>3. ASSUME NEW s \in Slot
      PROVE  /\ h[s] \in 0 .. MaxStack
             /\ p[s].item = i => h[s] = MaxStack - p[s].count
             /\ p[s] = Empty => h[s] = MaxStack
             /\ p[s].item # i /\ p[s] # Empty => h[s] = 0
  <2>1. p[s].count \in 0 .. MaxStack /\ (p[s] = Empty <=> p[s].item = NoItem)
    BY SlotsOf
  <2> QED BY <2>1, <1>2 DEF Room
<1>4. h \in Heights
  BY <1>3 DEF Heights
<1>5. \A S \in SUBSET Slot : RoomFor(p, i, S) = Total(Only(h, S))
  <2> SUFFICES ASSUME NEW S \in SUBSET Slot PROVE RoomFor(p, i, S) = Total(Only(h, S))
    OBVIOUS
  <2>1. Units(Only(h, S)) = {u \in S \X (1 .. MaxStack) : u[2] <= h[u[1]]}
    BY <1>4, UnitsOfSome
  <2>2. \A u \in S \X (1 .. MaxStack) : h[u[1]] = Room(p, i, u[1])
    OBVIOUS
  <2>3. {u \in S \X (1 .. MaxStack) : u[2] <= h[u[1]]} = {u \in S \X (1 .. MaxStack) : u[2] <= Room(p, i, u[1])}
    BY <2>2
  <2> QED BY <2>1, <2>3 DEF RoomFor, Total
<1>6. B \in [Slot -> SUBSET Slot]
  BY DEF RoomBefore
<1>7. given = [s \in Slot |-> Clamp(n - Total(Only(h, B[s])), 0, h[s])]
  <2>1. \A s \in Slot : B[s] \in SUBSET Slot /\ B[s] = RoomBefore(p, i, s) /\ h[s] = Room(p, i, s)
    BY <1>6
  <2> HIDE DEF h, B
  <2> QED BY <2>1, <1>5
<1>8. InOrder(h, B)
  <2>1. Slot \subseteq Int
    BY DEF Slot
  <2>2. \A s, t \in Slot : t \in B[s] <=> (p[t].item = p[s].item /\ t < s) \/ (p[s] = Empty /\ p[t].item = i)
    BY DEF RoomBefore
  <2>3. \A s \in Slot : h[s] > 0 => p[s].item = i \/ p[s] = Empty
    BY <1>3
  <2>4. \A s \in Slot : p[s] = Empty <=> p[s].item = NoItem
    BY SlotsOf
  <2> HIDE DEF h, B
  <2>5. \A s \in Slot : s \notin B[s]
    <3> SUFFICES ASSUME NEW s \in Slot PROVE s \notin B[s]
      OBVIOUS
    <3>1. ~(s < s)
      BY <2>1
    <3> QED BY <3>1, <2>2, <2>4, <1>2
  <2>6. \A s, t, x \in Slot : (s < t \/ t < s \/ s = t) /\ (x < s /\ s < t => x < t)
    BY <2>1
  <2>7. \A s \in Slot : \A x \in B[s] : x \in Slot
    BY <1>6
  <2>8. ASSUME NEW s \in Slot, NEW t \in Slot, h[s] > 0, h[t] > 0, s # t,
               (p[s].item = i /\ p[t].item # i) \/ (p[s].item = p[t].item /\ s < t)
        PROVE  s \in B[t] /\ \A x \in B[s] : h[x] > 0 => x \in B[t]
    <3>1. CASE p[s].item = i /\ p[t].item # i
      <4>1. p[t] = Empty
        BY <3>1, <2>3, <2>8
      <4>2. \A x \in B[s] : p[x].item = i
        BY <3>1, <2>2, <2>4, <2>7, <1>2
      <4> QED BY <3>1, <4>1, <4>2, <2>2, <2>7
    <3>2. CASE p[s].item = p[t].item /\ s < t
      <4>1. s \in B[t]
        BY <3>2, <2>2
      <4>2. \A x \in B[s] : x \in B[t]
        BY <3>2, <2>2, <2>4, <2>6, <2>7
      <4> QED BY <4>1, <4>2
    <3> QED BY <2>8, <3>1, <3>2
  <2>9. ASSUME NEW s \in Slot, NEW t \in Slot, h[s] > 0, h[t] > 0, s # t
        PROVE  \/ s \in B[t] /\ \A x \in B[s] : h[x] > 0 => x \in B[t]
               \/ t \in B[s] /\ \A x \in B[t] : h[x] > 0 => x \in B[s]
    <3>1. p[s].item = i \/ p[s].item = NoItem
      BY <2>3, <2>4, <2>9
    <3>2. p[t].item = i \/ p[t].item = NoItem
      BY <2>3, <2>4, <2>9
    <3>3. \/ (p[s].item = i /\ p[t].item # i) \/ (p[s].item = p[t].item /\ s < t)
          \/ (p[t].item = i /\ p[s].item # i) \/ (p[t].item = p[s].item /\ t < s)
      BY <3>1, <3>2, <2>6, <2>9, <1>2
    <3> QED BY <3>3, <2>8, <2>9
  <2> QED BY <1>6, <2>5, <2>9 DEF InOrder
<1>9. Only(h, Slot) = h
  BY DEF Only
<1>10. CanCreate(p, i, n) <=> n <= Total(h)
  BY <1>5, <1>9 DEF CanCreate
<1>11. \A s \in Slot : given[s] \in 0 .. h[s]
  <2> SUFFICES ASSUME NEW s \in Slot PROVE given[s] \in 0 .. h[s]
    OBVIOUS
  <2>1. given[s] = Clamp(n - Total(Only(h, B[s])), 0, h[s])
    BY <1>7
  <2>2. Total(Only(h, B[s])) \in Nat
    BY TotalType
  <2>3. h[s] \in Nat
    BY <1>3, <1>2
  <2> HIDE DEF h, B, given
  <2>4. n - Total(Only(h, B[s])) \in Int
    BY <2>2
  <2> QED BY <2>1, <2>3, <2>4, Clamped
<1> HIDE DEF h, B, given, c
<1>12. ASSUME NEW s \in Slot
       PROVE  /\ given[s] \in 0 .. MaxStack /\ p[s].count \in 0 .. MaxStack
              /\ given[s] > 0 => c[s].item = i /\ c[s].count = p[s].count + given[s] /\ (p[s].item = i \/ p[s] = Empty)
              /\ ~(given[s] > 0) => c[s] = p[s] /\ given[s] = 0
  <2>1. given[s] \in 0 .. h[s] /\ h[s] \in 0 .. MaxStack /\ p[s].count \in 0 .. MaxStack
    BY <1>3, <1>11, SlotsOf
  <2>2. given[s] \in 0 .. MaxStack /\ (~(given[s] > 0) => given[s] = 0) /\ (given[s] > 0 => h[s] # 0)
    BY <2>1, <1>2
  <2>3. h[s] # 0 => p[s].item = i \/ p[s] = Empty
    BY <1>3
  <2>4. c[s] = IF given[s] > 0 THEN [item |-> i, count |-> p[s].count + given[s]] ELSE p[s]
    BY <1>1
  <2>5. given[s] > 0 => c[s].item = i /\ c[s].count = p[s].count + given[s]
    BY <2>4
  <2>6. ~(given[s] > 0) => c[s] = p[s]
    BY <2>4
  <2> QED BY <2>1, <2>2, <2>3, <2>5, <2>6
<1>13. Empty.item = NoItem /\ Empty.count = 0
  BY DEF Empty
<1>14. ASSUME NEW k \in Item \ {i} PROVE ItemCount(c, k) = ItemCount(p, k)
  <2>1. k # NoItem
    BY Ids
  <2>2. \A s \in Slot : Held(c, k)[s] = Held(p, k)[s]
    BY <1>12, <1>13, <2>1 DEF Held
  <2> QED BY <1>1, <2>2, SameHeld
<1>15. ASSUME CanCreate(p, i, n) PROVE ItemCount(c, i) = ItemCount(p, i) + n
  <2>1. given \in Heights /\ Total(given) = n
    BY <1>4, <1>7, <1>8, <1>10, <1>15, OneAfterTheOther
  <2>2. \A s \in Slot : Held(c, i)[s] = Held(p, i)[s] + given[s]
    <3> SUFFICES ASSUME NEW s \in Slot PROVE Held(c, i)[s] = Held(p, i)[s] + given[s]
      OBVIOUS
    <3>1. /\ Held(c, i)[s] = IF c[s].item = i THEN c[s].count ELSE 0
          /\ Held(p, i)[s] = IF p[s].item = i THEN p[s].count ELSE 0
      BY DEF Held
    <3>2. CASE given[s] > 0
      <4>1. c[s].item = i /\ c[s].count = p[s].count + given[s] /\ (p[s].item = i \/ (p[s].item = NoItem /\ p[s].count = 0))
        BY <3>2, <1>12, <1>13
      <4>2. given[s] \in Int /\ p[s].count \in Int
        BY <1>12
      <4> QED BY <3>1, <4>1, <4>2
    <3>3. CASE ~(given[s] > 0)
      <4>1. c[s] = p[s] /\ given[s] = 0 /\ p[s].count \in Int
        BY <3>3, <1>12
      <4> QED BY <3>1, <4>1
    <3> QED BY <3>2, <3>3
  <2>3. Held(c, i) \in Heights /\ Held(p, i) \in Heights
    BY <1>1, HeldHeights
  <2>4. Total(Held(c, i)) = Total(Held(p, i)) + Total(given)
    BY <2>1, <2>2, <2>3, TotalAdds
  <2>5. ItemCount(c, i) = Total(Held(c, i)) /\ ItemCount(p, i) = Total(Held(p, i))
    BY <1>1, ItemsHeld
  <2> QED BY <2>1, <2>4, <2>5
<1>16. ASSUME NEW s \in Slot, p[s] = Empty, n <= MaxStack PROVE CanCreate(p, i, n)
  <2>1. h[s] = MaxStack
    BY <1>3, <1>16
  <2>2. {} \in SUBSET Slot /\ s \notin {} /\ h[s] <= h[s]
    BY <2>1, <1>2
  <2>3. Total(Only(h, {})) + h[s] <= Total(h)
    BY <2>2, <1>4, TotalOfMore
  <2>4. Total(Only(h, {})) \in Nat /\ Total(h) \in Nat
    BY TotalType
  <2>5. n <= Total(h)
    BY <2>1, <2>3, <2>4, <1>2, <1>16
  <2> QED BY <2>5, <1>10
<1> QED BY <1>14, <1>15, <1>16 DEF c

-----------------------------------------------------------------------------
(* Changes of one quest. *)

(* Exploring changes neither status nor kills. *)
LEMMA Exploring ==
  ASSUME NEW j, NEW W, NEW X, NEW Y, Good(j, X, Y, W), NEW Q \in SUBSET Quest, NEW d \in [Quest -> Data],
         \A q \in Quest : d[q].status = j.data[q].status /\ d[q].kills = j.data[q].kills,
         \A q \in Quest \ Q : d[q] = j.data[q]
  PROVE  Good([j EXCEPT !.data = d], X, Y \union Q, W) /\ SameRewards(j, [j EXCEPT !.data = d])
<1> DEFINE k == [j EXCEPT !.data = d]
<1>1. /\ k.data = d /\ k.log = j.log /\ k.needed = j.needed /\ k.told = j.told
      /\ k = [data |-> k.data, log |-> k.log, needed |-> k.needed, told |-> k.told]
  BY DEF Good, Typed
<1> HIDE DEF k
<1>2. Typed(k)
  BY <1>1 DEF Good, Typed
<1>3. Shows(k.data, k.log, X, W) /\ Untouched(k.data)
  BY <1>1 DEF Good, Shows, Untouched
<1>4. \A q \in Quest \ (Y \union Q) : k.told[q] = k.data[q]
  BY <1>1 DEF Good
<1>5. SameRewards(j, k)
  BY <1>1 DEF SameRewards
<1> QED BY <1>2, <1>3, <1>4, <1>5 DEF Good, k

(* A quest need not be shown. *)
LEMMA Showing ==
  ASSUME NEW j, NEW W, NEW Y, NEW q \in Quest, Good(j, {}, Y, W)
  PROVE  Good(j, {q}, Y, W)
BY DEF Good, Shows

\* The quests with other data for one of them.
Reset(j, q, d) ==
  [data |-> [j.data EXCEPT ![q] = d], log |-> j.log, needed |-> j.needed, told |-> j.told]

(* A quest gets other data, whatever the log shows of it. *)
LEMMA Resetting ==
  ASSUME NEW j, NEW W, NEW Y, NEW q \in Quest, Good(j, {q}, Y, W), NEW d \in Data,
         d.status = "Available" => d.kills = 0, NEW k, k = Reset(j, q, d)
  PROVE  Good(k, {q}, Y \union {q}, W) /\ k.data[q] = d /\ k.log = j.log
<1>1. /\ k.data = [j.data EXCEPT ![q] = d] /\ k.log = j.log /\ k.needed = j.needed /\ k.told = j.told
      /\ k = [data |-> k.data, log |-> k.log, needed |-> k.needed, told |-> k.told]
  BY DEF Reset
<1>2. /\ j.data \in [Quest -> Data] /\ j.log \in [LogSlot -> Entry] /\ j.needed \in [Item -> Int]
      /\ j.told \in [Quest -> Data]
  BY DEF Good, Typed
<1>3. /\ k.data \in [Quest -> Data] /\ k.data[q] = d
      /\ \A r \in Quest \ {q} : k.data[r] = j.data[r]
  BY <1>1, <1>2
<1>4. Typed(k)
  BY <1>1, <1>2, <1>3 DEF Typed
<1>5. Shows(k.data, k.log, {q}, W)
  BY <1>1, <1>3 DEF Good, Shows
<1>6. Untouched(k.data)
  BY <1>3 DEF Good, Untouched
<1>7. \A r \in Quest \ (Y \union {q}) : k.told[r] = k.data[r]
  BY <1>1, <1>3 DEF Good
<1> QED BY <1>1, <1>3, <1>4, <1>5, <1>6, <1>7 DEF Good

(* The entry of a quest is cleared. *)
LEMMA Clearing ==
  ASSUME NEW j, NEW W, NEW Y, NEW q \in Quest, Good(j, {q}, Y, W), NEW k, k = ClearedEntry(j, q)
  PROVE  /\ Good(k, {q}, Y, W)
         /\ k.data = j.data /\ k.told = j.told /\ k.needed = j.needed
         /\ \A s \in LogSlot : k.log[s].quest # q
<1> DEFINE newLog == [s \in LogSlot |-> IF j.log[s].quest = q THEN NoEntry ELSE j.log[s]]
<1>a. k = [j EXCEPT !.log = newLog]
  BY DEF ClearedEntry
<1>1. /\ k.log = newLog /\ k.data = j.data /\ k.needed = j.needed /\ k.told = j.told
      /\ k = [data |-> k.data, log |-> k.log, needed |-> k.needed, told |-> k.told]
  <2> HIDE DEF newLog
  <2> QED BY <1>a DEF Good, Typed
<1> HIDE DEF newLog
<1>2. /\ j.data \in [Quest -> Data] /\ j.log \in [LogSlot -> Entry] /\ j.needed \in [Item -> Int]
      /\ j.told \in [Quest -> Data]
  BY DEF Good, Typed
<1>3. NoEntry \in Entry /\ NoEntry.quest = NoQuest /\ NoQuest # q
  BY Ids DEF NoEntry, Entry, NoQuest
<1>4. \A s \in LogSlot : /\ j.log[s].quest = q => k.log[s] = NoEntry
                         /\ j.log[s].quest # q => k.log[s] = j.log[s]
  BY <1>1 DEF newLog
<1>5. k.log \in [LogSlot -> Entry]
  BY <1>1, <1>2, <1>3 DEF newLog
<1>6. Typed(k)
  BY <1>1, <1>2, <1>5 DEF Typed
<1>7. Shows(k.data, k.log, {q}, W)
  <2>1. Shows(j.data, j.log, {q}, W)
    BY DEF Good
  <2>2. ASSUME NEW r \in Quest \ {q}, r \notin W, k.data[r].status \in Logged
        PROVE  \E s \in LogSlot : k.log[s].quest = r
    BY <1>1, <1>4, <2>1, <2>2 DEF Shows
  <2>3. ASSUME NEW s \in LogSlot, NEW t \in LogSlot, k.log[s].quest # NoQuest, k.log[s].quest = k.log[t].quest
        PROVE  s = t
    BY <1>3, <1>4, <2>1, <2>3 DEF Shows
  <2>4. ASSUME NEW s \in LogSlot, k.log[s].quest \in Quest \ {q}
        PROVE  /\ k.data[k.log[s].quest].status \in Logged
               /\ k.log[s].state = k.data[k.log[s].quest].status
               /\ k.log[s].kills = k.data[k.log[s].quest].kills
    <3>1. k.log[s] = j.log[s]
      BY <1>3, <1>4, <2>4, Ids
    <3> QED BY <1>1, <3>1, <2>1, <2>4 DEF Shows
  <2> QED BY <2>2, <2>3, <2>4 DEF Shows
<1>8. \A s \in LogSlot : k.log[s].quest # q
  BY <1>3, <1>4
<1> QED BY <1>1, <1>6, <1>7, <1>8 DEF Good

(* A quest that is in the log no more need not be shown. *)
LEMMA Unshown ==
  ASSUME NEW j, NEW W, NEW Y, NEW q \in Quest, Good(j, {q}, Y, W), j.data[q].status \notin Logged,
         \A s \in LogSlot : j.log[s].quest # q
  PROVE  Good(j, {}, Y, W)
BY DEF Good, Shows

(* What a handler has changed is on its way. *)
LEMMA SendKeeps ==
  ASSUME QInv, Kept, Send,
         \A q \in Quest : quests.data[q].status = "Rewarded" => quests'.data[q].status = "Rewarded"
  PROVE  QInv'
<1>1. /\ stored \in [rows : [Quest -> Data], due : SUBSET Quest, failed : SUBSET Quest, overfull : BOOLEAN]
      /\ News \in SUBSET Quest
  BY DEF QInv, StoredOK, News
<1>2. /\ stored'.rows = stored.rows /\ stored'.overfull = stored.overfull
      /\ stored'.due = stored.due \union News /\ stored'.failed = stored.failed \ News
      /\ stored' \in [rows : [Quest -> Data], due : SUBSET Quest, failed : SUBSET Quest, overfull : BOOLEAN]
  BY <1>1 DEF Send
<1>3. \A q \in Quest \ (stored'.due \union stored'.failed) : stored'.rows[q] = quests'.told[q]
  BY <1>2 DEF QInv, StoredOK, News
<1>4. Untouched(stored'.rows)
  BY <1>2 DEF QInv, StoredOK
<1>5. \A q \in Quest : stored'.rows[q].status = "Rewarded" => quests'.data[q].status = "Rewarded"
  BY <1>2 DEF QInv, StoredOK
<1>6. StoredOK'
  BY <1>2, <1>3, <1>4, <1>5 DEF StoredOK, Untouched
<1>7. Hidden' = Hidden
  BY <1>2 DEF Hidden
<1> QED BY <1>6, <1>7 DEF QInv, Kept

(* Zero or one entry; none of a quest that must be shown only after a login with too many. *)
LEMMA InvariantAgrees == QInv => QuestsAgree
<1> SUFFICES ASSUME QInv PROVE QuestsAgree
  OBVIOUS
<1>1. QuestTypeOK
  BY DEF QInv, Good, Typed, Sound, StoredOK, QuestTypeOK
<1>2. ProgressStored
  <2>1. \A q \in Quest : quests.told[q] = quests.data[q]
    BY DEF QInv, Good
  <2>2. \A q \in Quest \ (stored.due \union stored.failed) : stored.rows[q] = quests.told[q]
    BY DEF QInv, StoredOK
  <2> QED BY <2>1, <2>2 DEF ProgressStored
<1>3. Shows(quests.data, quests.log, {}, Hidden)
  BY DEF QInv, Good
<1>4. ASSUME NEW q \in Quest
      PROVE  LET entries == Cardinality({s \in LogSlot : quests.log[s].quest = q})
             IN  IF quests.data[q].status \in Logged THEN entries = 1 \/ (entries = 0 /\ stored.overfull)
                                                     ELSE entries = 0
  <2> DEFINE S == {s \in LogSlot : quests.log[s].quest = q}
  <2>1. CASE \E s \in LogSlot : quests.log[s].quest = q
    <3>1. PICK s \in LogSlot : quests.log[s].quest = q
      BY <2>1
    <3>2. S = {s} /\ quests.data[q].status \in Logged
      BY <1>3, <3>1, Ids DEF Shows
    <3> HIDE DEF S
    <3>3. Cardinality(S) = 1
      BY <3>2, FS_Singleton
    <3> QED BY <3>2, <3>3 DEF S
  <2>2. CASE ~\E s \in LogSlot : quests.log[s].quest = q
    <3>1. S = {} /\ (quests.data[q].status \in Logged => stored.overfull)
      BY <1>3, <2>2 DEF Shows, Hidden
    <3> HIDE DEF S
    <3>2. Cardinality(S) = 0
      BY <3>1, FS_EmptySet
    <3> QED BY <3>1, <3>2 DEF S
  <2> QED BY <2>1, <2>2
<1>5. ASSUME NEW s \in LogSlot, quests.log[s].quest # NoQuest
      PROVE  /\ quests.log[s].state = quests.data[quests.log[s].quest].status
             /\ quests.log[s].kills = quests.data[quests.log[s].quest].kills
  <2>1. quests.log[s].quest \in Quest
    BY <1>5 DEF QInv, Good, Typed, Entry
  <2> QED BY <1>3, <2>1 DEF Shows
<1>6. LogAgrees
  BY <1>4, <1>5 DEF LogAgrees
<1> QED BY <1>1, <1>2, <1>6 DEF QuestsAgree

(* Initially nothing is in the log. *)
LEMMA InitQInv == QuestInit => QInv
<1> SUFFICES ASSUME QuestInit PROVE QInv
  OBVIOUS
<1>1. /\ NoQuestData \in Data /\ NoQuestData.status = "Available" /\ NoQuestData.kills = 0
      /\ NoEntry \in Entry /\ NoEntry.quest = NoQuest
      /\ Empty \in Stack /\ Empty.count = 0 /\ Empty.item = NoItem /\ 0 <= MaxStack
  BY Ids DEF NoQuestData, Data, Status, NoEntry, Entry, Empty, Stack
<1>2. /\ quests.data = [q \in Quest |-> NoQuestData] /\ quests.log = [s \in LogSlot |-> NoEntry]
      /\ quests.told = [q \in Quest |-> NoQuestData]
      /\ quests.needed = [i \in Item |-> 0]
      /\ quests = [data |-> quests.data, log |-> quests.log, needed |-> quests.needed, told |-> quests.told]
      /\ pack = [s \in Slot |-> Empty] /\ savedPack = pack
      /\ stored = [rows |-> [q \in Quest |-> NoQuestData], due |-> {}, failed |-> {}, overfull |-> FALSE]
  BY DEF QuestInit
<1>3. Typed(quests)
  BY <1>1, <1>2 DEF Typed
<1>4. Shows(quests.data, quests.log, {}, Hidden) /\ Untouched(quests.data)
  <2>1. \A q \in Quest : quests.data[q].status \notin Logged /\ quests.data[q].kills = 0
    BY <1>1, <1>2 DEF Logged
  <2>2. \A s \in LogSlot : quests.log[s].quest = NoQuest
    BY <1>1, <1>2
  <2> QED BY <2>1, <2>2, Ids DEF Shows, Untouched
<1>5. Sound(pack)
  BY <1>1, <1>2 DEF Sound
<1>6. StoredOK
  <2>1. /\ stored.rows = [q \in Quest |-> NoQuestData] /\ stored.due = {} /\ stored.failed = {}
        /\ stored \in [rows : [Quest -> Data], due : SUBSET Quest, failed : SUBSET Quest, overfull : BOOLEAN]
    BY <1>1, <1>2
  <2>2. Untouched(stored.rows)
    BY <2>1, <1>1 DEF Untouched
  <2> QED BY <2>1, <2>2, <1>1, <1>2 DEF StoredOK
<1> QED BY <1>2, <1>3, <1>4, <1>5, <1>6 DEF QInv, Good

-----------------------------------------------------------------------------
(* Places in the log and in the inventory. *)

(* The places of finitely many numbers. *)
LEMMA RankIsPlace ==
  ASSUME NEW K \in SUBSET Nat, IsFiniteSet(K)
  PROVE  /\ Cardinality(K) \in Nat
         /\ \A n \in 1 .. Cardinality(K) : Nth(K, n) \in K /\ Rank(K, Nth(K, n)) = n
         /\ \A i \in K : Rank(K, i) \in 1 .. Cardinality(K) /\ Nth(K, Rank(K, i)) = i
<1> DEFINE f == [i \in K |-> Rank(K, i)]
<1>1. Cardinality(K) \in Nat
  BY FS_CardinalityType
<1>2. ASSUME NEW i \in K PROVE Rank(K, i) \in 1 .. Cardinality(K)
  <2> DEFINE T == {j \in K : j <= i}
  <2>1. T \in SUBSET K /\ i \in T
    OBVIOUS
  <2>2. IsFiniteSet(T) /\ Cardinality(T) <= Cardinality(K)
    BY <2>1, FS_Subset
  <2>3. Cardinality(T) \in Nat /\ Cardinality(T) # 0
    BY <2>1, <2>2, FS_CardinalityType, FS_EmptySet
  <2> QED BY <1>1, <2>2, <2>3 DEF Rank
<1>3. ASSUME NEW i \in K, NEW j \in K, i < j PROVE Rank(K, i) # Rank(K, j)
  <2> DEFINE A == {k \in K : k <= i}
             B == {k \in K : k <= j}
  <2>1. i \in Nat /\ j \in Nat /\ \A k \in K : k \in Nat
    OBVIOUS
  <2>2. j <= j /\ ~(j <= i) /\ \A k \in K : k <= i => k <= j
    BY <1>3, <2>1
  <2>3. B \in SUBSET K /\ A \in SUBSET B /\ j \in B /\ j \notin A
    BY <2>2
  <2>4. IsFiniteSet(B)
    BY <2>3, FS_Subset
  <2> HIDE DEF A, B
  <2>5. Cardinality(A) # Cardinality(B)
    BY <2>3, <2>4, FS_Subset
  <2> QED BY <2>5 DEF Rank, A, B
<1>4. ASSUME NEW i \in K, NEW j \in K, Rank(K, i) = Rank(K, j) PROVE i = j
  BY <1>3, <1>4
<1>5. f \in Injection(K, 1 .. Cardinality(K))
  BY <1>2, <1>4 DEF Injection, IsInjective
<1>6. IsFiniteSet(1 .. Cardinality(K)) /\ Cardinality(1 .. Cardinality(K)) = Cardinality(K)
  BY <1>1, FS_Interval
<1>7. f \in Surjection(K, 1 .. Cardinality(K))
  BY <1>5, <1>6, FS_Injection
<1>8. \A n \in 1 .. Cardinality(K) : \E i \in K : Rank(K, i) = n
  BY <1>7 DEF Surjection
<1>9. \A n \in 1 .. Cardinality(K) : Nth(K, n) \in K /\ Rank(K, Nth(K, n)) = n
  BY <1>8 DEF Nth
<1>10. \A i \in K : Nth(K, Rank(K, i)) = i
  BY <1>2, <1>4, <1>9
<1> QED BY <1>1, <1>2, <1>9, <1>10

LEMMA FirstIsIn ==
  ASSUME NEW n \in Nat, NEW S \in SUBSET (1 .. n), S # {}
  PROVE  Nth(S, 1) \in S
<1>1. IsFiniteSet(1 .. n) /\ (1 .. n) \subseteq Nat
  BY FS_Interval
<1>2. IsFiniteSet(S) /\ S \in SUBSET Nat
  BY <1>1, FS_Subset
<1>3. Cardinality(S) \in Nat /\ Cardinality(S) # 0
  BY <1>2, FS_CardinalityType, FS_EmptySet
<1>4. 1 \in 1 .. Cardinality(S)
  BY <1>3
<1> QED BY <1>2, <1>4, RankIsPlace

-----------------------------------------------------------------------------
(* Accepting. *)

Started(j, q, e) ==
  [j EXCEPT !.data[q].status = "Incomplete", !.log[e] = [quest |-> q, state |-> "Incomplete", kills |-> 0]]

(* A free entry shows the quest, which is incomplete from then on. *)
LEMMA Starting ==
  ASSUME NEW j, NEW W, Good(j, {}, {}, W), NEW q \in Quest, j.data[q].status = "Available",
         NEW e \in LogSlot, j.log[e].quest = NoQuest
  PROVE  /\ Good(Started(j, q, e), {}, {q}, W) /\ Started(j, q, e).data[q].status = "Incomplete"
         /\ Started(j, q, e).log[e].quest = q /\ SameRewards(j, Started(j, q, e))
<1> DEFINE k == Started(j, q, e)
           d == [j.data[q] EXCEPT !.status = "Incomplete"]
           entry == [quest |-> q, state |-> "Incomplete", kills |-> 0]
<1>1. /\ j.data \in [Quest -> Data] /\ j.log \in [LogSlot -> Entry] /\ j.needed \in [Item -> Int]
      /\ j.told \in [Quest -> Data] /\ j.data[q] \in Data
      /\ j = [data |-> j.data, log |-> j.log, needed |-> j.needed, told |-> j.told]
  BY DEF Good, Typed
<1>a. k = [j EXCEPT !.data[q].status = "Incomplete",
                    !.log[e] = [quest |-> q, state |-> "Incomplete", kills |-> 0]]
  BY DEF Started
<1>2. /\ k.data = [j.data EXCEPT ![q] = d] /\ k.log = [j.log EXCEPT ![e] = entry]
      /\ k.needed = j.needed /\ k.told = j.told
      /\ k = [data |-> k.data, log |-> k.log, needed |-> k.needed, told |-> k.told]
  <2> HIDE DEF k
  <2> QED BY <1>1, <1>a
<1> HIDE DEF k
<1>3. d \in Data /\ d.status = "Incomplete" /\ d.kills = 0
  BY <1>1 DEF Data, Status, Good, Untouched
<1>4. entry \in Entry /\ entry.quest = q /\ entry.state = "Incomplete" /\ entry.kills = 0
  BY DEF Entry, Logged
<1> HIDE DEF d, entry
<1>5. /\ k.data \in [Quest -> Data] /\ k.log \in [LogSlot -> Entry]
      /\ k.data[q] = d /\ k.log[e] = entry
      /\ \A r \in Quest \ {q} : k.data[r] = j.data[r]
      /\ \A s \in LogSlot \ {e} : k.log[s] = j.log[s]
  BY <1>1, <1>2, <1>3, <1>4
<1>6. Typed(k)
  BY <1>1, <1>2, <1>5 DEF Typed
<1>7. \A s \in LogSlot : j.log[s].quest # q
  BY Ids DEF Good, Shows, Logged
<1>8. Shows(k.data, k.log, {}, W)
  <2>1. Shows(j.data, j.log, {}, W)
    BY DEF Good
  <2>2. ASSUME NEW r \in Quest, r \notin W, k.data[r].status \in Logged
        PROVE  \E s \in LogSlot : k.log[s].quest = r
    <3>1. CASE r = q
      BY <3>1, <1>4, <1>5
    <3>2. CASE r # q
      <4>1. PICK s \in LogSlot : j.log[s].quest = r
        BY <3>2, <2>2, <2>1, <1>5 DEF Shows
      <4>2. s # e
        BY <4>1, Ids
      <4> QED BY <4>1, <4>2, <1>5
    <3> QED BY <3>1, <3>2
  <2>3. ASSUME NEW s \in LogSlot, NEW t \in LogSlot, k.log[s].quest # NoQuest, k.log[s].quest = k.log[t].quest
        PROVE  s = t
    BY <1>4, <1>5, <1>7, <2>1, <2>3 DEF Shows
  <2>4. ASSUME NEW s \in LogSlot, k.log[s].quest \in Quest
        PROVE  /\ k.data[k.log[s].quest].status \in Logged
               /\ k.log[s].state = k.data[k.log[s].quest].status
               /\ k.log[s].kills = k.data[k.log[s].quest].kills
    <3>1. CASE s = e
      <4>1. k.log[s] = entry /\ k.data[q] = d
        BY <3>1, <1>5
      <4>2. k.log[s].quest = q /\ k.log[s].state = "Incomplete" /\ k.log[s].kills = 0
        BY <4>1, <1>4
      <4>3. k.data[q].status = "Incomplete" /\ k.data[q].kills = 0
        BY <4>1, <1>3
      <4> QED BY <4>2, <4>3 DEF Logged
    <3>2. CASE s # e
      BY <3>2, <1>5, <1>7, <2>1, <2>4 DEF Shows
    <3> QED BY <3>1, <3>2
  <2> QED BY <2>2, <2>3, <2>4 DEF Shows
<1>9. Untouched(k.data)
  BY <1>3, <1>5 DEF Good, Untouched
<1>10. \A r \in Quest \ {q} : k.told[r] = k.data[r]
  BY <1>2, <1>5 DEF Good
<1>11. SameRewards(j, k)
  BY <1>3, <1>5 DEF SameRewards
<1> QED BY <1>3, <1>4, <1>5, <1>6, <1>8, <1>9, <1>10, <1>11 DEF Good, k

LEMMA AcceptedKeeps ==
  ASSUME NEW j, NEW W, Good(j, {}, {}, W), NEW p, Sound(p), NEW q \in Quest,
         j.data[q].status = "Available", FreeEntries(j, q) # {}
  PROVE  /\ Good(Accepted(j, p, q).j, {}, {}, W) /\ Sound(Accepted(j, p, q).p)
         /\ SameRewards(j, Accepted(j, p, q).j) /\ InLog(Accepted(j, p, q).j, q)
<1> DEFINE given == IF SourceItem[q] = NoItem THEN [j |-> j, p |-> p] ELSE Creation(j, p, SourceItem[q], 1)
           e == Nth(FreeEntries(j, q), 1)
           started == Started(given.j, q, e)
           begun == IF Fulfilled(started.data, given.p, q) THEN Marked(started, {q}, "Complete")
                    ELSE NeededMore(started, {q}, 1)
<1>0. Accepted(j, p, q) = [j |-> Saved(begun, {q}), p |-> given.p]
  BY DEF Accepted, Started
<1>1. Good(given.j, {}, {}, W) /\ Credited(j, given.j) /\ Sound(given.p)
  <2>1. CASE SourceItem[q] = NoItem
    BY <2>1 DEF Credited
  <2>2. CASE SourceItem[q] # NoItem
    <3>1. SourceItem[q] \in Item
      BY <2>2, QuestAssumption
    <3> QED BY <2>2, <3>1, CreationKeeps
  <2> QED BY <2>1, <2>2
<1>2. e \in LogSlot /\ j.log[e].quest = NoQuest
  <2>1. FreeEntries(j, q) \in SUBSET (1 .. LogSize)
    BY DEF FreeEntries, LogSlot
  <2>2. e \in FreeEntries(j, q)
    BY <2>1, FirstIsIn, Ids
  <2> HIDE DEF e
  <2>3. e \in LogSlot /\ j.log[e].quest \in {NoQuest, q}
    BY <2>2 DEF FreeEntries
  <2>4. j.log[e].quest # q
    BY <2>3 DEF Good, Shows, Logged
  <2> QED BY <2>3, <2>4
<1> HIDE DEF given, e
<1>3. given.j.data[q].status = "Available" /\ given.j.log[e].quest = NoQuest
  BY <1>1, <1>2 DEF Credited, Logged
<1>4. /\ Good(started, {}, {q}, W) /\ started.data[q].status = "Incomplete" /\ started.log[e].quest = q
      /\ SameRewards(given.j, started)
  BY <1>1, <1>2, <1>3, Starting
<1> HIDE DEF started
<1>5. Good(begun, {}, {q}, W) /\ Credited(started, begun)
  <2>1. /\ Good(Marked(started, {q}, "Complete"), {}, {q} \union {q}, W)
        /\ Credited(started, Marked(started, {q}, "Complete"))
    BY <1>4, Marking DEF Logged
  <2>2. Good(NeededMore(started, {q}, 1), {}, {q}, W) /\ Credited(started, NeededMore(started, {q}, 1))
    BY <1>4, NeededKeeps
  <2>3. {q} \union {q} = {q}
    OBVIOUS
  <2> QED BY <2>1, <2>2, <2>3
<1> HIDE DEF begun
<1>6. Good(Saved(begun, {q}), {}, {q} \ {q}, W) /\ Credited(begun, Saved(begun, {q}))
  BY <1>5, Saving
<1>7. {q} \ {q} = {}
  OBVIOUS
<1>8. SameRewards(j, Saved(begun, {q}))
  <2>1. SameRewards(j, given.j) /\ SameRewards(started, begun) /\ SameRewards(begun, Saved(begun, {q}))
    BY <1>1, <1>5, <1>6, CreditedRewards
  <2> QED BY <2>1, <1>4 DEF SameRewards
<1>9. InLog(Saved(begun, {q}), q)
  BY <1>2, <1>4, <1>5, <1>6 DEF Credited, InLog
<1> QED BY <1>0, <1>1, <1>6, <1>7, <1>8, <1>9

LEMMA AcceptKeeps ==
  ASSUME QInv, NEW q \in Quest, AcceptQuest(q)
  PROVE  Kept /\ SameRewards(quests, quests')
<1>1. quests.data[q].status = "Available" /\ FreeEntries(quests, q) # {}
  BY DEF AcceptQuest, CanAccept, Available
<1> QED BY <1>1, AcceptedKeeps DEF AcceptQuest, Become, Kept, QInv

LEMMA AcceptItemKeeps ==
  ASSUME QInv, NEW q \in Quest, NEW s \in Slot, AcceptFromItem(q, s)
  PROVE  Kept /\ SameRewards(quests, quests')
<1> DEFINE p == [pack EXCEPT ![s] = Empty]
           j == RemovedCredit(quests, p, {Giver[q]})
<1>1. Giver[q] \in Item
  BY QuestAssumption DEF AcceptFromItem
<1>2. Sound(p) /\ Good(quests, {}, {}, Hidden) /\ Sound(savedPack)
  BY Ids DEF Kept, QInv, Sound, Empty, Stack
<1>3. pack[s].count \in Nat
  BY DEF Kept, QInv, Sound, Stack
<1>4. /\ Become(CASE CanAccept(j, p, q) -> Accepted(j, p, q)
                  [] ~CanAccept(j, p, q) /\ CanCreate(p, Giver[q], pack[s].count) ->
                       Creation(j, p, Giver[q], pack[s].count)
                  [] OTHER -> [j |-> j, p |-> p])
  BY DEF AcceptFromItem
<1> HIDE DEF p
<1>5. {Giver[q]} \in SUBSET Item
  BY <1>1
<1>6. Good(j, {}, {}, Hidden) /\ SameRewards(quests, j)
  BY <1>2, <1>5, RemovedKeeps, CreditedRewards
<1> HIDE DEF j
<1>7. CASE CanAccept(j, p, q)
  <2>1. j.data[q].status = "Available" /\ FreeEntries(j, q) # {}
    BY <1>7 DEF CanAccept, Available
  <2>2. /\ Good(Accepted(j, p, q).j, {}, {}, Hidden) /\ Sound(Accepted(j, p, q).p)
        /\ SameRewards(j, Accepted(j, p, q).j)
    BY <1>2, <1>6, <2>1, AcceptedKeeps
  <2>3. Become(Accepted(j, p, q))
    BY <1>4, <1>7
  <2> QED BY <2>2, <2>3, <1>2, <1>6 DEF Become, Kept, QInv, SameRewards
<1>8. CASE ~CanAccept(j, p, q) /\ CanCreate(p, Giver[q], pack[s].count)
  <2>1. /\ Good(Creation(j, p, Giver[q], pack[s].count).j, {}, {}, Hidden)
        /\ Sound(Creation(j, p, Giver[q], pack[s].count).p)
        /\ SameRewards(j, Creation(j, p, Giver[q], pack[s].count).j)
    BY <1>1, <1>2, <1>3, <1>6, CreationKeeps, CreditedRewards
  <2>2. Become(Creation(j, p, Giver[q], pack[s].count))
    BY <1>4, <1>8
  <2> QED BY <2>1, <2>2, <1>2, <1>6 DEF Become, Kept, QInv, SameRewards
<1>9. CASE ~CanAccept(j, p, q) /\ ~CanCreate(p, Giver[q], pack[s].count)
  <2>1. Become([j |-> j, p |-> p])
    BY <1>4, <1>9
  <2> QED BY <2>1, <1>2, <1>6 DEF Become, Kept, QInv
<1> QED BY <1>7, <1>8, <1>9

-----------------------------------------------------------------------------
(* Abandoning, completing, failing. *)

LEMMA AbandonKeeps ==
  ASSUME QInv, NEW q \in Quest, AbandonQuest(q)
  PROVE  Kept /\ SameRewards(quests, quests')
<1> DEFINE reset == [quests EXCEPT !.data[q] = [@ EXCEPT !.status = "Available", !.kills = 0]]
           start == IF SourceItem[q] = NoItem THEN [j |-> reset, p |-> pack] ELSE RemovalOfAll(reset, pack, {SourceItem[q]})
           items == WantedBy(q) \intersect QuestItems
           end == RemovalOfAll(start.j, start.p, items)
           less == NeededMore(end.j, {q}, -1)
           cleared == ClearedEntry(less, q)
<1>1. Become([j |-> Saved(cleared, {q}), p |-> end.p])
  BY DEF AbandonQuest
<1>2. items \in SUBSET Item
  BY DEF WantedBy
<1>3. /\ Good(reset, {q}, {q}, Hidden) /\ reset.data[q].status = "Available"
      /\ \A r \in Quest \ {q} : reset.data[r] = quests.data[r]
  <2> DEFINE d == [quests.data[q] EXCEPT !.status = "Available", !.kills = 0]
  <2>1. quests.data \in [Quest -> Data] /\ Good(quests, {q}, {}, Hidden) /\ Typed(quests)
    BY Showing DEF Kept, QInv, Good, Typed
  <2>2. d \in Data /\ d.status = "Available" /\ d.kills = 0
    BY <2>1 DEF Data, Status
  <2>3. reset = Reset(quests, q, d)
    BY <2>1 DEF Typed, Reset
  <2> HIDE DEF reset, d
  <2>b. reset.data = [quests.data EXCEPT ![q] = d]
    BY <2>3 DEF Reset
  <2>a. Good(reset, {q}, {} \union {q}, Hidden) /\ reset.data[q] = d
    BY <2>1, <2>2, <2>3, Resetting
  <2>4. /\ Good(reset, {q}, {} \union {q}, Hidden) /\ reset.data[q] = d
        /\ \A r \in Quest \ {q} : reset.data[r] = quests.data[r]
    BY <2>1, <2>a, <2>b
  <2>5. {} \union {q} = {q}
    OBVIOUS
  <2> QED BY <2>2, <2>4, <2>5
<1> HIDE DEF reset, items
<1>4. Good(start.j, {q}, {q}, Hidden) /\ Credited(reset, start.j) /\ Sound(start.p)
  <2>1. CASE SourceItem[q] = NoItem
    BY <2>1, <1>3 DEF Credited, QInv
  <2>2. CASE SourceItem[q] # NoItem
    <3>1. {SourceItem[q]} \in SUBSET Item
      BY <2>2, QuestAssumption
    <3>2. start = RemovalOfAll(reset, pack, {SourceItem[q]})
      BY <2>2
    <3> QED BY <3>1, <3>2, <1>3, RemovalOfAllKeeps DEF Kept, QInv
  <2> QED BY <2>1, <2>2
<1> HIDE DEF start
<1>5. Good(end.j, {q}, {q}, Hidden) /\ Credited(start.j, end.j) /\ Sound(end.p)
  BY <1>2, <1>4, RemovalOfAllKeeps
<1> HIDE DEF end
<1>6. end.j.data[q].status = "Available"
  BY <1>3, <1>4, <1>5 DEF Credited, Logged
<1>7. Good(less, {q}, {q}, Hidden) /\ less.data = end.j.data
  BY <1>5, NeededKeeps
<1> HIDE DEF less
<1>8. Good(cleared, {q}, {q}, Hidden) /\ cleared.data = less.data /\ \A s \in LogSlot : cleared.log[s].quest # q
  <2>1. Good(less, {q}, {q}, Hidden)
    BY <1>7
  <2>2. cleared = ClearedEntry(less, q)
    OBVIOUS
  <2> HIDE DEF cleared
  <2> QED BY ONLY <2>1, <2>2, q \in Quest, Clearing
<1> HIDE DEF cleared
<1>9. Good(cleared, {}, {q}, Hidden)
  BY <1>6, <1>7, <1>8, Unshown DEF Logged
<1>10. Good(Saved(cleared, {q}), {}, {q} \ {q}, Hidden) /\ Saved(cleared, {q}).data = cleared.data
  BY <1>9, Saving
<1>11. {q} \ {q} = {}
  OBVIOUS
<1>12. SameRewards(quests, Saved(cleared, {q}))
  <2>1. quests.data[q].status \in Logged
    BY DEF AbandonQuest, InLog, QInv, Good, Shows
  <2>2. SameRewards(quests, reset)
    BY <2>1, <1>3 DEF SameRewards, Logged
  <2>3. SameRewards(reset, start.j) /\ SameRewards(start.j, end.j)
    BY <1>4, <1>5, CreditedRewards
  <2> QED BY <2>2, <2>3, <1>7, <1>8, <1>10 DEF SameRewards
<1> QED BY <1>1, <1>5, <1>10, <1>11, <1>12 DEF Become, Kept, QInv

LEMMA CompleteKeeps ==
  ASSUME QInv, NEW q \in Quest, CompleteQuest(q)
  PROVE  Kept /\ SameRewards(quests, quests')
<1> DEFINE explored == [quests EXCEPT !.data[q].explored = @ \/ q \in Exploration]
           Q == {q} \intersect Uncounted(quests)
           counted == CountedUp(explored, Q)
<1>0. /\ quests' = Saved(Marked(counted, {q}, "Complete"), {q})
      /\ UNCHANGED <<pack, savedPack>> /\ q \in WithStatus(quests, "Incomplete")
  BY DEF CompleteQuest
<1>1. Q \in SUBSET Quest /\ Q \subseteq {q}
  OBVIOUS
<1>2. Good(explored, {}, {q}, Hidden) /\ explored.data[q].status = "Incomplete" /\ SameRewards(quests, explored)
  <2> DEFINE now == quests.data[q].explored \/ q \in Exploration
             d == [quests.data EXCEPT ![q] = [quests.data[q] EXCEPT !.explored = now]]
  <2>1. quests.data \in [Quest -> Data] /\ Good(quests, {}, {}, Hidden) /\ Typed(quests)
    BY DEF Kept, QInv, Good, Typed
  <2>2. explored = [quests EXCEPT !.data = d]
    BY <2>1 DEF Typed
  <2>3. now \in BOOLEAN
    BY <2>1 DEF Data
  <2> HIDE DEF now
  <2>4. d \in [Quest -> Data] /\ \A r \in Quest : d[r].status = quests.data[r].status /\ d[r].kills = quests.data[r].kills
    BY <2>1, <2>3 DEF Data
  <2>5. \A r \in Quest \ {q} : d[r] = quests.data[r]
    BY <2>1
  <2> HIDE DEF d, explored
  <2>6. Good(explored, {}, {} \union {q}, Hidden) /\ SameRewards(quests, explored)
    BY <2>1, <2>2, <2>4, <2>5, Exploring
  <2>7. explored.data = d
    BY <2>2, <2>1 DEF Typed
  <2>8. {} \union {q} = {q}
    OBVIOUS
  <2> QED BY <2>4, <2>6, <2>7, <2>8, <1>0 DEF WithStatus
<1> HIDE DEF explored, Q
<1>3. Good(counted, {}, {q} \union Q, Hidden) /\ counted.data[q].status = "Incomplete" /\ Credited(explored, counted)
  BY <1>1, <1>2, Counting DEF Logged
<1>4. {q} \union Q = {q} /\ {q} \ {q} = {}
  BY <1>1
<1> HIDE DEF counted
<1>5. /\ Good(Saved(Marked(counted, {q}, "Complete"), {q}), {}, {q} \ {q}, Hidden)
      /\ Credited(counted, Saved(Marked(counted, {q}, "Complete"), {q}))
  BY <1>3, <1>4, MarkingSaved DEF Logged
<1>6. SameRewards(quests, quests')
  <2>1. SameRewards(explored, counted) /\ SameRewards(counted, quests')
    BY <1>0, <1>3, <1>5, CreditedRewards
  <2> QED BY <2>1, <1>2 DEF SameRewards
<1> QED BY <1>0, <1>4, <1>5, <1>6 DEF Kept, QInv

LEMMA KilledKeeps ==
  ASSUME QInv, CharacterKilled
  PROVE  Kept /\ SameRewards(quests, quests')
<1> DEFINE failed == StayAlive \intersect (WithStatus(quests, "Incomplete") \union WithStatus(quests, "Complete"))
           f == [i \in Item |-> quests.needed[i] - Cardinality({q \in failed \intersect Wanting(i) : ItemCount(pack, i) < Wants[q][i]})]
           unneeded == [quests EXCEPT !.needed = f]
<1>0. quests' = Saved(Marked(unneeded, failed, "Failed"), failed) /\ UNCHANGED <<pack, savedPack>>
  BY DEF CharacterKilled
<1>1. failed \in SUBSET Quest /\ \A q \in failed : quests.data[q].status \in Logged
  BY DEF WithStatus, Logged
<1> HIDE DEF failed
<1>2. f \in [Item -> Int]
  <2>1. ASSUME NEW i \in Item
        PROVE  quests.needed[i] - Cardinality({q \in failed \intersect Wanting(i) : ItemCount(pack, i) < Wants[q][i]}) \in Int
    <3>1. {q \in failed \intersect Wanting(i) : ItemCount(pack, i) < Wants[q][i]} \in SUBSET Quest
      BY <1>1
    <3>2. Cardinality({q \in failed \intersect Wanting(i) : ItemCount(pack, i) < Wants[q][i]}) \in Nat
      BY <3>1, Ids
    <3>3. quests.needed[i] \in Int
      BY DEF Kept, QInv, Good, Typed
    <3> QED BY <3>2, <3>3
  <2> QED BY <2>1
<1> HIDE DEF f
<1>3. Good(unneeded, {}, {}, Hidden) /\ unneeded.data = quests.data
  BY <1>2, Needing DEF Kept, QInv, Good, Typed
<1> HIDE DEF unneeded
<1>4. /\ Good(Saved(Marked(unneeded, failed, "Failed"), failed), {}, {} \ failed, Hidden)
      /\ Credited(unneeded, Saved(Marked(unneeded, failed, "Failed"), failed))
  BY <1>1, <1>3, MarkingSaved DEF Logged
<1>5. {} \ failed = {}
  OBVIOUS
<1>6. SameRewards(unneeded, quests')
  BY <1>0, <1>4, CreditedRewards
<1> QED BY <1>0, <1>3, <1>4, <1>5, <1>6 DEF Kept, QInv, SameRewards

-----------------------------------------------------------------------------
(* Credit for deeds. *)

(* Counted kills complete some of the quests they count for. *)
LEMMA DeedCounts ==
  ASSUME QInv, NEW counted \in SUBSET Quest, \A q \in counted : quests.data[q].status = "Incomplete",
         NEW done \in SUBSET counted, NEW j, j = CountedUp(quests, counted),
         NEW k, k = j \/ k = NeededMore(j, done, -1),
         quests' = Saved(Marked(k, done, "Complete"), counted), UNCHANGED <<pack, savedPack>>
  PROVE  Kept /\ SameRewards(quests, quests')
<1>1. /\ Good(j, {}, {} \union counted, Hidden)
      /\ \A q \in Quest : j.data[q].status = quests.data[q].status
  BY Counting DEF Kept, QInv, Logged
<1>2. {} \union counted = counted /\ counted \ counted = {} /\ done \in SUBSET Quest
  OBVIOUS
<1>3. Good(k, {}, counted, Hidden) /\ k.data = j.data
  BY <1>1, <1>2, NeededKeeps
<1>4. \A q \in done : k.data[q].status \in Logged
  BY <1>1, <1>3 DEF Logged
<1>5. /\ Good(Saved(Marked(k, done, "Complete"), counted), {}, counted \ counted, Hidden)
      /\ Credited(k, Saved(Marked(k, done, "Complete"), counted))
  BY <1>2, <1>3, <1>4, MarkingSaved DEF Logged
<1>6. SameRewards(k, quests')
  BY <1>5, CreditedRewards
<1> QED BY <1>1, <1>2, <1>3, <1>5, <1>6 DEF Kept, QInv, SameRewards

LEMMA KillKeeps ==
  ASSUME QInv, NEW c \in CreatureEntry, KillCredit(c)
  PROVE  Kept /\ SameRewards(quests, quests')
<1> DEFINE counted == {q \in WithStatus(quests, "Incomplete") \intersect Uncounted(quests) : Prey[q] = c}
           j == CountedUp(quests, counted)
           done == {q \in counted : Fulfilled(j.data, pack, q)}
           k == NeededMore(j, done, -1)
<1>1. counted \in SUBSET Quest /\ \A q \in counted : quests.data[q].status = "Incomplete"
  BY DEF WithStatus
<1>2. done \in SUBSET counted
  OBVIOUS
<1>3. quests' = Saved(Marked(k, done, "Complete"), counted) /\ UNCHANGED <<pack, savedPack>>
  BY DEF KillCredit
<1>4. j = CountedUp(quests, counted) /\ k = NeededMore(j, done, -1)
  OBVIOUS
<1> HIDE DEF k, done, j, counted
<1> QED BY <1>1, <1>2, <1>3, <1>4, DeedCounts

LEMMA SpellKeeps ==
  ASSUME QInv, NEW c \in CreatureEntry, SpellCastCredit(c)
  PROVE  Kept /\ SameRewards(quests, quests')
<1> DEFINE counted == {q \in CastOn \intersect WithStatus(quests, "Incomplete") \intersect Uncounted(quests) : Prey[q] = c}
           j == CountedUp(quests, counted)
           done == {q \in counted : Fulfilled(j.data, pack, q)}
<1>1. counted \in SUBSET Quest /\ \A q \in counted : quests.data[q].status = "Incomplete"
  BY DEF WithStatus
<1>2. done \in SUBSET counted
  OBVIOUS
<1>3. quests' = Saved(Marked(j, done, "Complete"), counted) /\ UNCHANGED <<pack, savedPack>>
  BY DEF SpellCastCredit
<1>4. j = CountedUp(quests, counted)
  OBVIOUS
<1> HIDE DEF done, j, counted
<1> QED BY <1>1, <1>2, <1>3, <1>4, DeedCounts

LEMMA ExplorationKeeps ==
  ASSUME QInv, ExplorationCredit
  PROVE  Kept /\ SameRewards(quests, quests')
<1> DEFINE found == {q \in Exploration \intersect WithStatus(quests, "Incomplete") : ~quests.data[q].explored}
           d == [q \in Quest |-> IF q \in found THEN [quests.data[q] EXCEPT !.explored = TRUE] ELSE quests.data[q]]
           j == [quests EXCEPT !.data = d]
           done == {q \in found : Fulfilled(j.data, pack, q)}
<1>0. quests' = Saved(Marked(j, done, "Complete"), found) /\ UNCHANGED <<pack, savedPack>>
  BY DEF ExplorationCredit
<1>1. /\ found \in SUBSET Quest /\ done \in SUBSET found /\ done \in SUBSET Quest
      /\ \A q \in found : quests.data[q].status = "Incomplete"
  BY DEF WithStatus
<1> HIDE DEF done, found
<1>2. quests.data \in [Quest -> Data] /\ Good(quests, {}, {}, Hidden) /\ Typed(quests)
  BY DEF Kept, QInv, Good, Typed
<1>3. d \in [Quest -> Data] /\ \A q \in Quest : d[q].status = quests.data[q].status /\ d[q].kills = quests.data[q].kills
  BY <1>2 DEF Data
<1>4. \A q \in Quest \ found : d[q] = quests.data[q]
  BY <1>2
<1> HIDE DEF d
<1>5. Good(j, {}, {} \union found, Hidden) /\ SameRewards(quests, j)
  BY <1>1, <1>2, <1>3, <1>4, Exploring
<1>6. {} \union found = found /\ found \ found = {}
  OBVIOUS
<1>7. j.data = d
  BY <1>2 DEF Typed
<1> HIDE DEF j
<1>8. \A q \in done : j.data[q].status \in Logged
  BY <1>1, <1>3, <1>7 DEF Logged
<1>9. /\ Good(Saved(Marked(j, done, "Complete"), found), {}, found \ found, Hidden)
      /\ Credited(j, Saved(Marked(j, done, "Complete"), found))
  BY <1>1, <1>5, <1>6, <1>8, MarkingSaved DEF Logged
<1>10. SameRewards(j, quests')
  BY <1>0, <1>9, CreditedRewards
<1> QED BY <1>0, <1>5, <1>6, <1>9, <1>10 DEF Kept, QInv, SameRewards

-----------------------------------------------------------------------------
(* The reward, and other items. *)

\* A step that rewards q, which was complete, for its items.
RewardedOnce(q) ==
  /\ quests.data[q].status = "Complete"
  /\ \A r \in Quest \ {q} : quests'.data[r].status = "Rewarded" <=> quests.data[r].status = "Rewarded"
  /\ \A i \in Item \ {SourceItem[q], Prize[q]} : ItemCount(pack', i) = ItemCount(pack, i) - Wants[q][i]

\* Of i nothing was taken, or what q asks for, and of the items before i too.
TakenInOrder(p, after, q, i) ==
  \/ ItemCount(after, i) = ItemCount(p, i)
  \/ i \in WantedBy(q) /\ \A k \in WantedBy(q) : k <= i => ItemCount(after, k) = ItemCount(p, k) - Wants[q][k]

LEMMA CollectedKeeps ==
  ASSUME NEW j, NEW W, Good(j, {}, {}, W), NEW p, Sound(p), NEW q \in Quest, NEW r, r = [j |-> j, p |-> p]
  PROVE  /\ Good(Collected(r, q).j, {}, {}, W) /\ Credited(j, Collected(r, q).j)
         /\ Sound(Collected(r, q).p)
         /\ Collected(r, q).ok => \A i \in Item : ItemCount(Collected(r, q).p, i) = ItemCount(p, i) - Wants[q][i]
         /\ \A i \in Item : TakenInOrder(p, Collected(r, q).p, q, i)
<1> DEFINE had == {i \in WantedBy(q) : \A k \in WantedBy(q) : k <= i => ItemCount(r.p, k) >= Wants[q][k]}
           n == [i \in had |-> Wants[q][i]]
           taken == Removal(r.j, r.p, n)
<1>1. had \in SUBSET Item
  BY DEF WantedBy
<1>2. Collected(r, q) = [j |-> taken.j, p |-> taken.p, ok |-> had = WantedBy(q)]
  BY DEF Collected
<1> HIDE DEF had
<1>3. n \in [had -> Nat]
  BY <1>1, QuestAssumption
<1> HIDE DEF n
<1>4. Good(taken.j, {}, {}, W) /\ Credited(j, taken.j) /\ Sound(taken.p)
  BY <1>1, <1>3, RemovalKeeps
<1>5. ASSUME had = WantedBy(q), NEW i \in Item
      PROVE  ItemCount(taken.p, i) = ItemCount(p, i) - Wants[q][i]
  <2>1. taken.p = Without(p, TakenFrom(p, n))
    BY DEF Removal
  <2>2. Wants[q][i] \in Nat /\ ItemCount(p, i) \in Nat
    BY QuestAssumption, ItemsHeld
  <2>3. CASE i \in had
    <3>1. i <= i
      BY Ids
    <3>2. ItemCount(p, i) >= Wants[q][i] /\ n[i] = Wants[q][i]
      BY <2>3, <3>1, <1>5 DEF had, n
    <3>3. n[i] <= ItemCount(p, i)
      BY <3>2, <2>2
    <3> QED BY <1>1, <1>3, <2>1, <2>3, <3>2, <3>3, TakenCounts
  <2>4. CASE i \notin had
    <3>1. Wants[q][i] = 0
      BY <2>2, <2>4, <1>5 DEF WantedBy
    <3>2. ItemCount(taken.p, i) = ItemCount(p, i)
      BY <1>1, <1>3, <2>1, <2>4, TakenCounts
    <3> QED BY <3>1, <3>2, <2>2
  <2> QED BY <2>3, <2>4
<1>7. ASSUME NEW i \in Item
      PROVE  TakenInOrder(p, taken.p, q, i)
  <2>1. taken.p = Without(p, TakenFrom(p, n))
    BY DEF Removal
  <2> HIDE DEF taken
  <2>2. CASE i \notin had
    <3>1. ItemCount(taken.p, i) = ItemCount(p, i)
      BY <1>1, <1>3, <2>1, <2>2, TakenCounts
    <3> QED BY <3>1 DEF TakenInOrder
  <2>3. CASE i \in had
    <3>1. i \in WantedBy(q) /\ \A k \in WantedBy(q) : k <= i => ItemCount(p, k) >= Wants[q][k]
      BY <2>3 DEF had
    <3>2. ASSUME NEW k \in WantedBy(q), k <= i
          PROVE  ItemCount(taken.p, k) = ItemCount(p, k) - Wants[q][k]
      <4>1. k \in Item /\ k \in Nat /\ i \in Nat
        BY Ids DEF WantedBy
      <4>2. \A l \in WantedBy(q) : l <= k => l <= i
        <5>1. \A l \in WantedBy(q) : l \in Nat
          BY Ids DEF WantedBy
        <5> QED BY <3>2, <4>1, <5>1
      <4>3. k \in had
        BY <3>1, <4>2 DEF had
      <4>4. ItemCount(p, k) >= Wants[q][k] /\ n[k] = Wants[q][k]
        BY <3>1, <3>2, <4>3 DEF n
      <4>5. Wants[q][k] \in Nat /\ ItemCount(p, k) \in Nat
        BY <4>1, QuestAssumption, ItemsHeld
      <4>6. n[k] <= ItemCount(p, k)
        BY <4>4, <4>5
      <4> QED BY <1>1, <1>3, <2>1, <4>1, <4>3, <4>4, <4>6, TakenCounts
    <3> QED BY <3>1, <3>2 DEF TakenInOrder
  <2> QED BY <2>2, <2>3
<1> HIDE DEF taken
<1>6. /\ Collected(r, q).j = taken.j /\ Collected(r, q).p = taken.p
      /\ Collected(r, q).ok => had = WantedBy(q)
  <2> DEFINE all == had = WantedBy(q)
  <2>1. Collected(r, q) = [j |-> taken.j, p |-> taken.p, ok |-> all]
    BY <1>2
  <2> HIDE DEF all
  <2>2. Collected(r, q).j = taken.j /\ Collected(r, q).p = taken.p /\ Collected(r, q).ok = all
    BY <2>1
  <2> QED BY <2>2, Zenon DEF all
<1> QED BY <1>4, <1>5, <1>6, <1>7

LEMMA RewardKeeps ==
  ASSUME QInv, NEW q \in Quest, RewardQuest(q)
  PROVE  Kept /\ \/ SameRewards(quests, quests') /\ \A i \in Item : TakenInOrder(pack, pack', q, i)
                 \/ RewardedOnce(q) /\ quests'.data[q].status = "Rewarded"
<1> DEFINE before == [j |-> quests, p |-> pack]
           taken == Collected(before, q)
           room == Prize[q] = NoItem \/ CanCreate(taken.p, Prize[q], 1)
           given == IF Prize[q] = NoItem THEN taken ELSE Creation(taken.j, taken.p, Prize[q], 1)
           counted == NeededMore(given.j, {q}, -1)
           cleaned == IF SourceItem[q] = NoItem THEN [j |-> counted, p |-> given.p]
                      ELSE RemovalOfAll(counted, given.p, {SourceItem[q]})
           cleared == ClearedEntry(cleaned.j, q)
           rewarded == [cleared EXCEPT !.data[q].status = "Rewarded"]
<1>a. \/ Become(taken)
      \/ taken.ok /\ room /\ Become([j |-> Saved(rewarded, {q}), p |-> cleaned.p])
  BY DEF RewardQuest
<1>1. /\ Good(taken.j, {}, {}, Hidden) /\ Sound(taken.p) /\ SameRewards(quests, taken.j)
      /\ taken.ok => \A i \in Item : ItemCount(taken.p, i) = ItemCount(pack, i) - Wants[q][i]
      /\ \A i \in Item : TakenInOrder(pack, taken.p, q, i)
  BY CollectedKeeps, CreditedRewards DEF Kept, QInv
<1>b. quests.data[q].status = "Complete"
  BY DEF RewardQuest
<1> HIDE DEF taken, room
<1>2. /\ Good(given.j, {}, {}, Hidden) /\ Sound(given.p) /\ SameRewards(taken.j, given.j)
      /\ \A i \in Item \ {Prize[q]} : ItemCount(given.p, i) = ItemCount(taken.p, i)
  <2>1. CASE Prize[q] = NoItem
    BY <2>1, <1>1 DEF SameRewards
  <2>2. CASE Prize[q] # NoItem
    <3>1. Prize[q] \in Item
      BY <2>2, QuestAssumption
    <3>2. given = Creation(taken.j, taken.p, Prize[q], 1)
      BY <2>2
    <3>3. Good(given.j, {}, {}, Hidden) /\ Sound(given.p) /\ Credited(taken.j, given.j)
      BY <1>1, <3>1, <3>2, CreationKeeps
    <3>4. given.p = Created(taken.p, Prize[q], 1)
      BY <3>2 DEF Creation
    <3> HIDE DEF given
    <3>5. \A i \in Item \ {Prize[q]} : ItemCount(given.p, i) = ItemCount(taken.p, i)
      BY <1>1, <3>1, <3>4, CreatedCounts
    <3> QED BY <3>3, <3>5, CreditedRewards
  <2> QED BY <2>1, <2>2
<1> HIDE DEF given
<1>3. Good(counted, {}, {}, Hidden) /\ counted.data = given.j.data
  BY <1>2, NeededKeeps
<1> HIDE DEF counted
<1>4. /\ Good(cleaned.j, {}, {}, Hidden) /\ Sound(cleaned.p) /\ SameRewards(counted, cleaned.j)
      /\ \A i \in Item \ {SourceItem[q]} : ItemCount(cleaned.p, i) = ItemCount(given.p, i)
  <2>1. CASE SourceItem[q] = NoItem
    BY <2>1, <1>2, <1>3 DEF SameRewards
  <2>2. CASE SourceItem[q] # NoItem
    <3>1. {SourceItem[q]} \in SUBSET Item
      BY <2>2, QuestAssumption
    <3>2. cleaned = RemovalOfAll(counted, given.p, {SourceItem[q]})
      BY <2>2
    <3>3. Good(cleaned.j, {}, {}, Hidden) /\ Sound(cleaned.p) /\ Credited(counted, cleaned.j)
      BY <3>1, <3>2, <1>2, <1>3, RemovalOfAllKeeps
    <3> DEFINE n == [i \in {SourceItem[q]} |-> ItemCount(given.p, i)]
    <3>4. cleaned.p = Without(given.p, TakenFrom(given.p, n))
      BY <3>2 DEF RemovalOfAll, Removal
    <3>5. n \in [{SourceItem[q]} -> Nat]
      BY <1>2, ItemsHeld
    <3> HIDE DEF cleaned, n
    <3>6. \A i \in Item \ {SourceItem[q]} : ItemCount(cleaned.p, i) = ItemCount(given.p, i)
      BY <1>2, <3>1, <3>4, <3>5, TakenCounts
    <3> QED BY <3>3, <3>6, CreditedRewards
  <2> QED BY <2>1, <2>2
<1> HIDE DEF cleaned
<1>5. Good(cleared, {q}, {}, Hidden) /\ cleared.data = cleaned.j.data /\ \A s \in LogSlot : cleared.log[s].quest # q
  <2>1. Good(cleaned.j, {q}, {}, Hidden)
    BY <1>4, Showing
  <2>2. cleared = ClearedEntry(cleaned.j, q)
    OBVIOUS
  <2> HIDE DEF cleared
  <2> QED BY ONLY <2>1, <2>2, q \in Quest, Clearing
<1> HIDE DEF cleared
<1>6. /\ Good(rewarded, {q}, {q}, Hidden) /\ rewarded.data[q].status = "Rewarded" /\ rewarded.log = cleared.log
      /\ \A r \in Quest \ {q} : rewarded.data[r] = cleared.data[r]
  <2> DEFINE d == [cleared.data[q] EXCEPT !.status = "Rewarded"]
  <2>1. cleared.data \in [Quest -> Data] /\ Typed(cleared)
    BY <1>5 DEF Good, Typed
  <2>2. d \in Data /\ d.status = "Rewarded" /\ (d.status = "Available" => d.kills = 0)
    BY <2>1 DEF Data, Status
  <2>3. rewarded = Reset(cleared, q, d)
    BY <2>1 DEF Typed, Reset
  <2> HIDE DEF rewarded, d
  <2>4. {} \union {q} = {q}
    OBVIOUS
  <2>5. Good(rewarded, {q}, {} \union {q}, Hidden) /\ rewarded.data[q] = d /\ rewarded.log = cleared.log
    <3>1. Good(cleared, {q}, {}, Hidden)
      BY <1>5
    <3> QED BY <3>1, <2>2, <2>3, Resetting
  <2>6. rewarded.data = [cleared.data EXCEPT ![q] = d]
    BY <2>3 DEF Reset
  <2> QED BY <2>1, <2>2, <2>4, <2>5, <2>6
<1> HIDE DEF rewarded
<1>7. Good(rewarded, {}, {q}, Hidden)
  BY <1>5, <1>6, Unshown DEF Logged
<1>8. Good(Saved(rewarded, {q}), {}, {q} \ {q}, Hidden) /\ Saved(rewarded, {q}).data = rewarded.data
  BY <1>7, Saving
<1>9. {q} \ {q} = {}
  OBVIOUS
<1>10. CASE Become(taken)
  BY <1>10, <1>1 DEF Become, Kept, QInv
<1>11. CASE taken.ok /\ room /\ Become([j |-> Saved(rewarded, {q}), p |-> cleaned.p])
  <2>1. quests' = Saved(rewarded, {q}) /\ pack' = cleaned.p /\ savedPack' = savedPack
    BY <1>11 DEF Become
  <2>2. Kept
    BY <2>1, <1>4, <1>8, <1>9 DEF Kept, QInv
  <2>5. quests'.data[q].status = "Rewarded"
    BY <2>1, <1>6, <1>8
  <2>3. \A r \in Quest \ {q} : quests'.data[r].status = "Rewarded" <=> quests.data[r].status = "Rewarded"
    <3> SUFFICES ASSUME NEW r \in Quest \ {q}
                 PROVE  quests'.data[r].status = "Rewarded" <=> quests.data[r].status = "Rewarded"
      OBVIOUS
    <3>1. quests'.data[r] = cleaned.j.data[r]
      BY <2>1, <1>5, <1>6, <1>8
    <3> QED BY <3>1, <1>1, <1>2, <1>3, <1>4 DEF SameRewards
  <2>4. \A i \in Item \ {SourceItem[q], Prize[q]} : ItemCount(pack', i) = ItemCount(pack, i) - Wants[q][i]
    BY <2>1, <1>1, <1>2, <1>4, <1>11
  <2> QED BY <2>2, <2>3, <2>4, <2>5, <1>b DEF RewardedOnce
<1> QED BY <1>a, <1>10, <1>11

LEMMA LootKeeps ==
  ASSUME QInv, NEW i \in Item, Loot(i)
  PROVE  Kept /\ SameRewards(quests, quests')
BY CreationKeeps, CreditedRewards DEF Loot, Become, Kept, QInv

LEMMA ReceiveKeeps ==
  ASSUME QInv, NEW i \in Item, Receive(i, 1)
  PROVE  Kept /\ SameRewards(quests, quests')
<1> DEFINE s == Nth(SlotsWith(pack, NoItem), 1)
<1>1. s \in Slot
  <2>1. SlotsWith(pack, NoItem) \in SUBSET (1 .. PackSize) /\ SlotsWith(pack, NoItem) # {}
    BY DEF SlotsWith, Slot, Receive
  <2>2. s \in SlotsWith(pack, NoItem)
    BY <2>1, FirstIsIn, Ids
  <2> QED BY <2>1, <2>2 DEF Slot
<1>2. pack' = [pack EXCEPT ![s] = [item |-> i, count |-> 1]] /\ UNCHANGED <<quests, savedPack>>
  BY DEF Receive
<1> HIDE DEF s
<1>3. Sound(pack')
  <2>1. [item |-> i, count |-> 1] \in Stack /\ 1 <= MaxStack /\ i # NoItem
    BY Ids DEF Stack
  <2> QED BY <1>1, <1>2, <2>1 DEF Kept, QInv, Sound
<1> QED BY <1>2, <1>3 DEF Kept, QInv, SameRewards

LEMMA DestroyKeeps ==
  ASSUME QInv, NEW s \in Slot, NEW n \in 1 .. MaxStack, Destroy(s, n)
  PROVE  Kept /\ SameRewards(quests, quests')
<1> DEFINE taken == [t \in Slot |-> IF t = s THEN n ELSE 0]
<1>1. /\ n \in 1 .. pack[s].count /\ pack' = Without(pack, taken)
      /\ quests' = RemovedCredit(quests, pack', {pack[s].item}) /\ savedPack' = savedPack
  BY DEF Destroy
<1>2. ASSUME NEW t \in Slot PROVE taken[t] \in Nat /\ taken[t] <= pack[t].count
  <2>1. pack[t].count \in Nat
    BY DEF Kept, QInv, Sound, Stack
  <2> QED BY <1>1, <2>1
<1>3. taken \in [Slot -> Nat]
  BY <1>2
<1> HIDE DEF taken
<1>4. Sound(pack')
  BY <1>1, <1>2, <1>3, WithoutSound DEF Kept, QInv
<1>5. {pack[s].item} \in SUBSET Item
  <2>1. pack[s] \in Stack /\ (pack[s].count = 0 <=> pack[s].item = NoItem) /\ pack[s].count \in Nat
    BY DEF Kept, QInv, Sound, Stack
  <2>2. pack[s].count # 0
    BY <1>1, <2>1
  <2> QED BY <2>1, <2>2 DEF Stack
<1>6. Good(quests', {}, {}, Hidden) /\ SameRewards(quests, quests')
  BY <1>1, <1>5, RemovedKeeps, CreditedRewards DEF Kept, QInv
<1> QED BY <1>1, <1>4, <1>6 DEF Kept, QInv

-----------------------------------------------------------------------------
(* Saving and loading. *)

(* The log is filled with the quests of the rows; there is a field for each. *)
LEMMA FreshIsGood ==
  ASSUME NEW rows \in [Quest -> Data], Untouched(rows), NEW W,
         Cardinality({q \in Quest : rows[q].status \in Logged}) > LogSize => W = Quest, NEW k,
         k = [data |-> rows, log |-> LoadedLog(rows), needed |-> [i \in Item |-> 0], told |-> rows]
  PROVE  Good(k, {}, {}, W) /\ k.data = rows
<1> DEFINE logged == {q \in Quest : rows[q].status \in Logged}
           C == Cardinality(logged)
<1>2. logged \in SUBSET Nat /\ logged \in SUBSET Quest /\ IsFiniteSet(logged)
  BY Ids
<1>4. \A q \in logged : rows[q].status \in Logged
  OBVIOUS
<1>5. \A q \in Quest : rows[q].status \in Logged => q \in logged
  OBVIOUS
<1>6. \A s \in LogSlot : LoadedLog(rows)[s] =
        IF s <= C
        THEN [quest |-> Nth(logged, s), state |-> rows[Nth(logged, s)].status, kills |-> rows[Nth(logged, s)].kills]
        ELSE NoEntry
  BY DEF LoadedLog
<1>7. k.log = [s \in LogSlot |-> LoadedLog(rows)[s]]
  BY DEF LoadedLog
<1>1. C > LogSize => W = Quest
  OBVIOUS
<1> HIDE DEF logged
<1>8. /\ C \in Nat
      /\ \A n \in 1 .. C : Nth(logged, n) \in logged /\ Rank(logged, Nth(logged, n)) = n
      /\ \A q \in logged : Rank(logged, q) \in 1 .. C /\ Nth(logged, Rank(logged, q)) = q
  BY <1>2, RankIsPlace
<1>9. \A q \in Quest : q \notin W => C <= LogSize
  BY <1>1, <1>8, Ids
<1> HIDE DEF C
<1>10. \A s \in LogSlot : s <= C => s \in 1 .. C
  BY <1>8, Ids DEF LogSlot
<1>11. ASSUME C <= LogSize, NEW n \in 1 .. C
       PROVE  n \in LogSlot /\ n <= C
  BY <1>8, <1>11, Ids DEF LogSlot
<1>12. NoEntry \in Entry /\ NoEntry.quest = NoQuest
  BY DEF NoEntry, Entry
<1>13. ASSUME NEW s \in LogSlot
       PROVE  \/ /\ s \in 1 .. C /\ k.log[s] \in Entry /\ k.log[s].quest = Nth(logged, s) /\ k.log[s].quest \in logged
                 /\ k.log[s].state = rows[k.log[s].quest].status
                 /\ k.log[s].kills = rows[k.log[s].quest].kills
              \/ k.log[s] = NoEntry
  <2>1. k.log[s] = LoadedLog(rows)[s]
    BY <1>7
  <2>2. CASE s <= C
    <3>1. Nth(logged, s) \in logged /\ s \in 1 .. C
      BY <2>2, <1>8, <1>10
    <3>2. rows[Nth(logged, s)] \in Data /\ rows[Nth(logged, s)].status \in Logged /\ Nth(logged, s) \in Quest
      BY <3>1, <1>2, <1>4
    <3>3. k.log[s] = [quest |-> Nth(logged, s), state |-> rows[Nth(logged, s)].status, kills |-> rows[Nth(logged, s)].kills]
      BY <2>1, <2>2, <1>6
    <3> QED BY <3>1, <3>2, <3>3 DEF Entry, Data
  <2>3. CASE ~(s <= C)
    BY <2>1, <2>3, <1>6
  <2> QED BY <2>2, <2>3
<1>14. ASSUME C <= LogSize, NEW n \in 1 .. C
       PROVE  k.log[n].quest = Nth(logged, n)
  <2>1. n \in LogSlot /\ n <= C
    BY <1>11, <1>14
  <2>2. k.log[n] = [quest |-> Nth(logged, n), state |-> rows[Nth(logged, n)].status, kills |-> rows[Nth(logged, n)].kills]
    BY <2>1, <1>6, <1>7
  <2> QED BY <2>2
<1>15. /\ k.data = rows /\ k.told = rows /\ k.needed = [i \in Item |-> 0]
       /\ k = [data |-> k.data, log |-> k.log, needed |-> k.needed, told |-> k.told]
  OBVIOUS
<1>16. Typed(k)
  <2>1. k.log \in [LogSlot -> Entry]
    BY <1>7, <1>12, <1>13
  <2>2. k.needed \in [Item -> Int]
    BY <1>15
  <2> QED BY <1>15, <2>1, <2>2 DEF Typed
<1>17. Shows(k.data, k.log, {}, W)
  <2>1. ASSUME NEW q \in Quest, q \notin W, k.data[q].status \in Logged
        PROVE  \E s \in LogSlot : k.log[s].quest = q
    <3>1. q \in logged
      BY <2>1, <1>5, <1>15
    <3>2. C <= LogSize
      BY <2>1, <1>9
    <3>3. Rank(logged, q) \in 1 .. C /\ Nth(logged, Rank(logged, q)) = q
      BY <3>1, <1>8
    <3> QED BY <3>2, <3>3, <1>11, <1>14
  <2>2. ASSUME NEW s \in LogSlot, NEW t \in LogSlot, k.log[s].quest # NoQuest, k.log[s].quest = k.log[t].quest
        PROVE  s = t
    BY <2>2, <1>8, <1>12, <1>13
  <2>3. ASSUME NEW s \in LogSlot, k.log[s].quest \in Quest
        PROVE  /\ k.data[k.log[s].quest].status \in Logged
               /\ k.log[s].state = k.data[k.log[s].quest].status
               /\ k.log[s].kills = k.data[k.log[s].quest].kills
    BY <2>3, <1>4, <1>12, <1>13, <1>15, Ids
  <2> QED BY <2>1, <2>2, <2>3 DEF Shows
<1>18. Untouched(k.data)
  BY <1>15 DEF Untouched
<1> QED BY <1>15, <1>16, <1>17, <1>18 DEF Good

LEMMA LoadedKeeps ==
  ASSUME NEW rows \in [Quest -> Data], Untouched(rows), NEW p, NEW W,
         Cardinality({q \in Quest : rows[q].status \in Logged}) > LogSize => W = Quest
  PROVE  /\ Good(Loaded(rows, p), {}, {}, W)
         /\ \A q \in Quest : Loaded(rows, p).data[q].status = "Rewarded" <=> rows[q].status = "Rewarded"
<1> DEFINE fresh == [data |-> rows, log |-> LoadedLog(rows), needed |-> [i \in Item |-> 0], told |-> rows]
           counted == NeededMore(fresh, {q \in Quest : rows[q].status = "Incomplete"}, 1)
           upTo(s) == [t \in Slot |-> IF t <= s THEN p[t] ELSE Empty]
           enough(s) == {q \in WithStatus(fresh, "Incomplete") :
                           p[s] # Empty /\ Wants[q][p[s].item] > 0 /\ ItemCount(upTo(s), p[s].item) >= Wants[q][p[s].item]}
           doneAt(s) == {q \in enough(s) : Fulfilled(rows, upTo(s), q)}
           doneBefore(s) == UNION {doneAt(t) : t \in {t \in Slot : t < s}}
           credits(i) == {u \in Slot \X Quest : p[u[1]].item = i /\ u[2] \in enough(u[1]) \ doneBefore(u[1])}
           done == UNION {doneAt(s) : s \in Slot}
           f == [i \in Item |-> counted.needed[i] - Cardinality(credits(i))]
           unneeded == [counted EXCEPT !.needed = f]
<1>0. Loaded(rows, p) = Saved(Marked(unneeded, done, "Complete"), done)
  BY DEF Loaded
<1>1. Good(fresh, {}, {}, W) /\ fresh.data = rows
  BY FreshIsGood
<1>2. done \in SUBSET Quest /\ \A q \in done : fresh.data[q].status = "Incomplete"
  <2>1. \A s : doneAt(s) \in SUBSET WithStatus(fresh, "Incomplete")
    OBVIOUS
  <2> HIDE DEF doneAt, fresh
  <2>2. done \in SUBSET WithStatus(fresh, "Incomplete")
    BY <2>1
  <2> HIDE DEF done
  <2> QED BY <2>2 DEF WithStatus
<1>3. \A i : credits(i) \in SUBSET (Slot \X Quest)
  OBVIOUS
<1> HIDE DEF done, credits, fresh
<1>4. Good(counted, {}, {}, W) /\ counted.data = fresh.data
  BY <1>1, NeededKeeps
<1> HIDE DEF counted
<1>5. f \in [Item -> Int]
  <2>a. IsFiniteSet(Slot)
    BY Ids, FS_Interval DEF Slot
  <2>1. IsFiniteSet(Slot \X Quest)
    BY <2>a, Ids, FS_Product
  <2>2. ASSUME NEW i \in Item
        PROVE  counted.needed[i] - Cardinality(credits(i)) \in Int
    <3>1. Cardinality(credits(i)) \in Nat
      BY <2>1, <1>3, FS_Subset, FS_CardinalityType
    <3>2. counted.needed[i] \in Int
      BY <1>4 DEF Good, Typed
    <3> QED BY <3>1, <3>2
  <2> QED BY <2>2
<1> HIDE DEF f
<1>6. Good(unneeded, {}, {}, W) /\ unneeded.data = counted.data
  BY <1>4, <1>5, Needing DEF Good, Typed
<1> HIDE DEF unneeded
<1>7. \A q \in done : unneeded.data[q].status \in Logged
  BY <1>2, <1>4, <1>6 DEF Logged
<1>8. /\ Good(Saved(Marked(unneeded, done, "Complete"), done), {}, {} \ done, W)
      /\ Credited(unneeded, Saved(Marked(unneeded, done, "Complete"), done))
  BY <1>2, <1>6, <1>7, MarkingSaved DEF Logged
<1>9. {} \ done = {}
  OBVIOUS
<1>10. SameRewards(unneeded, Loaded(rows, p))
  BY <1>0, <1>8, CreditedRewards
<1>11. unneeded.data = rows
  BY <1>1, <1>4, <1>6
<1> QED BY <1>0, <1>8, <1>9, <1>10, <1>11 DEF SameRewards

(* A message arrives. *)
LEMMA UpdateKeeps ==
  ASSUME QInv, NEW q \in Quest, NEW written \in BOOLEAN, HandleQuestUpdate(q, written)
  PROVE  QInv' /\ SameRewards(quests, quests')
<1>1. /\ stored \in [rows : [Quest -> Data], due : SUBSET Quest, failed : SUBSET Quest, overfull : BOOLEAN]
      /\ stored' = [stored EXCEPT !.due = stored.due \ {q},
                                  !.rows = [stored.rows EXCEPT ![q] = IF written THEN quests.told[q] ELSE stored.rows[q]],
                                  !.failed = IF written THEN stored.failed ELSE stored.failed \union {q}]
      /\ quests' = quests /\ pack' = pack /\ savedPack' = savedPack
  BY DEF QInv, StoredOK, HandleQuestUpdate
<1>2. /\ stored'.due = stored.due \ {q} /\ stored'.overfull = stored.overfull
      /\ stored'.failed = IF written THEN stored.failed ELSE stored.failed \union {q}
      /\ stored'.rows = [stored.rows EXCEPT ![q] = IF written THEN quests.told[q] ELSE stored.rows[q]]
      /\ stored' = [rows |-> stored'.rows, due |-> stored'.due, failed |-> stored'.failed, overfull |-> stored'.overfull]
  BY <1>1
<1>3. quests.told[q] = quests.data[q] /\ quests.data \in [Quest -> Data] /\ Untouched(quests.data)
  BY DEF QInv, Good, Typed
<1>4. /\ stored'.rows \in [Quest -> Data]
      /\ stored'.rows[q] = IF written THEN quests.data[q] ELSE stored.rows[q]
      /\ \A r \in Quest \ {q} : stored'.rows[r] = stored.rows[r]
  BY <1>1, <1>2, <1>3
<1>5. stored' \in [rows : [Quest -> Data], due : SUBSET Quest, failed : SUBSET Quest, overfull : BOOLEAN]
  <2>1. /\ stored'.due \in SUBSET Quest /\ stored'.overfull \in BOOLEAN /\ stored'.failed \in SUBSET Quest
    BY <1>1, <1>2
  <2> QED BY <2>1, <1>2, <1>4
<1>6. Untouched(stored'.rows)
  BY <1>3, <1>4 DEF Untouched, QInv, StoredOK
<1>7. \A r \in Quest \ (stored'.due \union stored'.failed) : stored'.rows[r] = quests.told[r]
  BY <1>2, <1>3, <1>4 DEF QInv, StoredOK
<1>8. \A r \in Quest : stored'.rows[r].status = "Rewarded" => quests.data[r].status = "Rewarded"
  BY <1>3, <1>4 DEF QInv, StoredOK
<1>9. StoredOK'
  BY <1>1, <1>5, <1>6, <1>7, <1>8 DEF StoredOK, Untouched
<1>10. Hidden' = Hidden
  BY <1>2 DEF Hidden
<1> QED BY <1>1, <1>9, <1>10 DEF QInv, SameRewards

\* A login goes by the rows.
TakenBack == \A q \in Quest : quests'.data[q].status = "Rewarded" <=> stored.rows[q].status = "Rewarded"

LEMMA LoginKeeps ==
  ASSUME QInv, NEW p, Sound(p), Login(p)
  PROVE  QInv' /\ TakenBack
<1> DEFINE rows == stored.rows
           over == Cardinality({q \in Quest : rows[q].status \in Logged}) > LogSize
           W == IF over THEN Quest ELSE {}
<1>1. /\ stored \in [rows : [Quest -> Data], due : SUBSET Quest, failed : SUBSET Quest, overfull : BOOLEAN]
      /\ rows \in [Quest -> Data] /\ Untouched(rows)
  BY DEF QInv, StoredOK
<1>2. pack' = p /\ savedPack' = p /\ quests' = Loaded(rows, p)
  BY DEF Login
<1>3. /\ stored'.rows = rows /\ stored'.due = {q \in Quest : quests'.told[q] # rows[q]}
      /\ stored'.failed = {}
      /\ stored' = [rows |-> stored'.rows, due |-> stored'.due, failed |-> stored'.failed, overfull |-> stored'.overfull]
  <2>1. stored' = [stored EXCEPT !.due = {q \in Quest : quests'.told[q] # rows[q]}, !.failed = {}, !.overfull = over]
    BY DEF Login
  <2> HIDE DEF over
  <2> QED BY <1>1, <2>1
<1>4. stored'.overfull = over
  <2>1. stored' = [stored EXCEPT !.due = {q \in Quest : quests'.told[q] # rows[q]}, !.failed = {}, !.overfull = over]
    BY DEF Login
  <2> HIDE DEF over
  <2> QED BY <1>1, <2>1
<1>5. over => W = Quest
  OBVIOUS
<1>6. over \in BOOLEAN
  OBVIOUS
<1>7. Hidden' = W
  BY <1>4 DEF Hidden
<1> HIDE DEF W
<1>8. Good(quests', {}, {}, W) /\ TakenBack
  <2>1. Cardinality({q \in Quest : rows[q].status \in Logged}) > LogSize => W = Quest
    BY <1>5
  <2> HIDE DEF rows
  <2>2. /\ Good(Loaded(rows, p), {}, {}, W)
        /\ \A q \in Quest : Loaded(rows, p).data[q].status = "Rewarded" <=> rows[q].status = "Rewarded"
    BY ONLY <2>1, <1>1, LoadedKeeps
  <2> QED BY <1>2, <2>2 DEF TakenBack, rows
<1>9. StoredOK'
  <2>1. stored' \in [rows : [Quest -> Data], due : SUBSET Quest, failed : SUBSET Quest, overfull : BOOLEAN]
    <3>1. stored'.overfull \in BOOLEAN
      BY <1>4, <1>6, Zenon
    <3> HIDE DEF rows, over
    <3> QED BY <3>1, <1>1, <1>3
  <2>2. \A q \in Quest \ (stored'.due \union stored'.failed) : stored'.rows[q] = quests'.told[q]
    BY <1>3
  <2>3. \A q \in Quest : stored'.rows[q].status = "Rewarded" => quests'.data[q].status = "Rewarded"
    BY <1>3, <1>8 DEF TakenBack
  <2>4. Untouched(stored'.rows)
    BY <1>1, <1>3
  <2> QED BY <2>1, <2>2, <2>3, <2>4 DEF StoredOK, Untouched
<1> QED BY <1>2, <1>7, <1>8, <1>9 DEF QInv, Sound

-----------------------------------------------------------------------------

\* What a step does to the rewards.
Rewarding == SameRewards(quests, quests') \/ (\E q \in Quest : RewardedOnce(q)) \/ TakenBack

(* Every handler sends what it has changed, and takes no reward back. *)
LEMMA HandlerKeeps ==
  ASSUME QInv, Kept, Send, SameRewards(quests, quests') \/ \E q \in Quest : RewardedOnce(q) /\ quests'.data[q].status = "Rewarded"
  PROVE  QInv' /\ Rewarding
<1>1. \A r \in Quest : quests.data[r].status = "Rewarded" => quests'.data[r].status = "Rewarded"
  BY DEF SameRewards, RewardedOnce
<1> QED BY <1>1, SendKeeps DEF Rewarding

LEMMA DeedsQInv == ASSUME QInv, Deeds PROVE QInv' /\ Rewarding
<1>1. ASSUME NEW c \in CreatureEntry, KillCredit(c) PROVE QInv' /\ Rewarding
  <2>1. Kept /\ SameRewards(quests, quests') /\ Send
    BY <1>1, KillKeeps DEF KillCredit
  <2> QED BY <2>1, HandlerKeeps
<1>2. ASSUME NEW c \in CreatureEntry, SpellCastCredit(c) PROVE QInv' /\ Rewarding
  <2>1. Kept /\ SameRewards(quests, quests') /\ Send
    BY <1>2, SpellKeeps DEF SpellCastCredit
  <2> QED BY <2>1, HandlerKeeps
<1>3. CASE ExplorationCredit
  <2>1. Kept /\ SameRewards(quests, quests') /\ Send
    BY <1>3, ExplorationKeeps DEF ExplorationCredit
  <2> QED BY <2>1, HandlerKeeps
<1>4. CASE CharacterKilled
  <2>1. Kept /\ SameRewards(quests, quests') /\ Send
    BY <1>4, KilledKeeps DEF CharacterKilled
  <2> QED BY <2>1, HandlerKeeps
<1> QED BY <1>1, <1>2, <1>3, <1>4 DEF Deeds

LEMMA PossessionsQInv == ASSUME QInv, Possessions PROVE QInv' /\ Rewarding
<1>1. ASSUME NEW i \in Item, Loot(i) PROVE QInv' /\ Rewarding
  <2>1. Kept /\ SameRewards(quests, quests') /\ Send
    BY <1>1, LootKeeps DEF Loot, Become
  <2> QED BY <2>1, HandlerKeeps
<1>2. ASSUME NEW i \in Item, Receive(i, 1) PROVE QInv' /\ Rewarding
  <2>1. Kept /\ SameRewards(quests, quests') /\ quests' = quests /\ stored' = stored
    BY <1>2, ReceiveKeeps DEF Receive
  <2>2. StoredOK' /\ Hidden' = Hidden
    BY <2>1 DEF QInv, StoredOK, Hidden
  <2> QED BY <2>1, <2>2 DEF QInv, Kept, Rewarding
<1>3. ASSUME NEW s \in Slot, NEW n \in 1 .. MaxStack, Destroy(s, n) PROVE QInv' /\ Rewarding
  <2>1. Kept /\ SameRewards(quests, quests') /\ Send
    BY <1>3, DestroyKeeps DEF Destroy
  <2> QED BY <2>1, HandlerKeeps
<1> QED BY <1>1, <1>2, <1>3 DEF Possessions

LEMMA DealingsQInv == ASSUME QInv, Dealings PROVE QInv' /\ Rewarding
<1> SUFFICES ASSUME NEW q \in Quest,
                    \/ AcceptQuest(q) \/ AbandonQuest(q) \/ CompleteQuest(q) \/ RewardQuest(q)
                    \/ \E s \in Slot : AcceptFromItem(q, s)
             PROVE  QInv' /\ Rewarding
  BY DEF Dealings
<1>1. CASE AcceptQuest(q)
  <2>1. Kept /\ SameRewards(quests, quests') /\ Send
    BY <1>1, AcceptKeeps DEF AcceptQuest, Become
  <2> QED BY <2>1, HandlerKeeps
<1>2. CASE AbandonQuest(q)
  <2>1. Kept /\ SameRewards(quests, quests')
    BY <1>2, AbandonKeeps
  <2>2. Send
    BY <1>2 DEF AbandonQuest, Become
  <2> QED BY <2>1, <2>2, HandlerKeeps
<1>3. CASE CompleteQuest(q)
  <2>1. Kept /\ SameRewards(quests, quests') /\ Send
    BY <1>3, CompleteKeeps DEF CompleteQuest
  <2> QED BY <2>1, HandlerKeeps
<1>4. CASE RewardQuest(q)
  <2>1. Kept /\ (SameRewards(quests, quests') \/ (RewardedOnce(q) /\ quests'.data[q].status = "Rewarded"))
    BY <1>4, RewardKeeps
  <2>2. Send
    BY <1>4 DEF RewardQuest, Become
  <2> QED BY <2>1, <2>2, HandlerKeeps
<1>5. ASSUME NEW s \in Slot, AcceptFromItem(q, s) PROVE QInv' /\ Rewarding
  <2>1. Kept /\ SameRewards(quests, quests')
    BY <1>5, AcceptItemKeeps
  <2>2. Send
    BY <1>5 DEF AcceptFromItem, Become
  <2> QED BY <2>1, <2>2, HandlerKeeps
<1> QED BY <1>1, <1>2, <1>3, <1>4, <1>5

(* Every step keeps the quests in agreement; it rewards at most one, or goes by
   the rows. *)
LEMMA NextQInv ==
  ASSUME QInv, [QuestNext]_questVars
  PROVE  QInv' /\ Rewarding
<1>1. CASE SaveInventory
  <2>1. savedPack' = pack /\ UNCHANGED <<quests, pack, stored>>
    BY <1>1 DEF SaveInventory
  <2>2. StoredOK' /\ Hidden' = Hidden
    BY <2>1 DEF QInv, StoredOK, Hidden
  <2> QED BY <2>1, <2>2 DEF QInv, Rewarding, SameRewards
<1>2. CASE Relog \/ NodeCrash
  <2>1. PICK p : Sound(p) /\ Login(p)
    BY <1>2 DEF Relog, NodeCrash, QInv
  <2> QED BY <2>1, LoginKeeps DEF Rewarding
<1>3. ASSUME NEW q \in Quest, NEW written \in BOOLEAN, HandleQuestUpdate(q, written) PROVE QInv' /\ Rewarding
  BY <1>3, UpdateKeeps DEF Rewarding
<1>4. CASE UNCHANGED questVars
  <2>1. quests' = quests /\ pack' = pack /\ savedPack' = savedPack /\ stored' = stored
    BY <1>4 DEF questVars
  <2>2. StoredOK' /\ Hidden' = Hidden
    BY <2>1 DEF QInv, StoredOK, Hidden
  <2> QED BY <2>1, <2>2 DEF QInv, Rewarding, SameRewards
<1> QED BY <1>1, <1>2, <1>3, <1>4, DeedsQInv, PossessionsQInv, DealingsQInv DEF QuestNext

(* Types, of the inventory that was saved too. *)
THEOREM QuestTypeCorrect == QuestSpec => []QuestTypeOK
<1>1. QuestInit => QInv
  BY InitQInv
<1>2. QInv /\ [QuestNext]_questVars => QInv'
  BY NextQInv
<1>3. QInv => QuestTypeOK
  BY DEF QInv, Good, Typed, Sound, StoredOK, QuestTypeOK
<1> QED BY <1>1, <1>2, <1>3, PTL DEF QuestSpec

(* The log the client sees and the status data the server decides with agree,
   and so do the rows in the database, but for quests of which a message is on
   its way or the last message could not be written: also after the crash of a
   world node or a broken link, for all quests and inventories (GameCharacter's
   quest handlers, questDataChanged, setQuestData, handleQuestUpdate). *)
THEOREM QuestsStayTrue == QuestSpec => []QuestsAgree
<1>1. QuestInit => QInv
  BY InitQInv
<1>2. QInv /\ [QuestNext]_questVars => QInv'
  BY NextQInv
<1>3. QInv => QuestsAgree
  BY InvariantAgrees
<1> QED BY <1>1, <1>2, <1>3, PTL DEF QuestSpec

(* A reward is given once, from complete, for what was asked; only a row that
   does not know of it takes it back. *)
LEMMA RewardIsOnce ==
  ASSUME QInv, QInv', Rewarding, NEW q \in Quest
  PROVE  /\ quests.data[q].status = "Rewarded" /\ quests'.data[q].status # "Rewarded" =>
              stored.rows[q].status # "Rewarded" /\ q \in stored.due \union stored.failed
         /\ quests'.data[q].status = "Rewarded" /\ quests.data[q].status # "Rewarded" =>
              /\ quests.data[q].status = "Complete"
              /\ \A i \in Item \ {SourceItem[q], Prize[q]} :
                   ItemCount(pack', i) = ItemCount(pack, i) - Wants[q][i]
<1>1. CASE SameRewards(quests, quests')
  BY <1>1 DEF SameRewards
<1>2. ASSUME NEW r \in Quest, RewardedOnce(r)
      PROVE  /\ quests.data[q].status = "Rewarded" => quests'.data[q].status = "Rewarded"
             /\ quests'.data[q].status = "Rewarded" /\ quests.data[q].status # "Rewarded" => q = r
  BY <1>2 DEF RewardedOnce
<1>3. CASE TakenBack
  <2>1. quests'.data[q].status = "Rewarded" <=> stored.rows[q].status = "Rewarded"
    BY <1>3 DEF TakenBack
  <2>2. stored.rows[q].status = "Rewarded" => quests.data[q].status = "Rewarded"
    BY DEF QInv, StoredOK
  <2>3. q \notin stored.due \union stored.failed => stored.rows[q] = quests.data[q]
    BY DEF QInv, StoredOK, Good
  <2> QED BY <2>1, <2>2, <2>3
<1> QED BY <1>1, <1>2, <1>3 DEF RewardedOnce, Rewarding

(* An item that offers a quest is created again in the slot it was taken from. *)
LEMMA OfferIsKept ==
  ASSUME QInv, NEW q \in Quest, NEW s \in Slot, AcceptFromItem(q, s), ~InLog(quests', q), NEW i \in Item
  PROVE  ItemCount(pack', i) = ItemCount(pack, i)
<1> DEFINE p == [pack EXCEPT ![s] = Empty]
           j == RemovedCredit(quests, p, {Giver[q]})
           n == pack[s].count
           g == Giver[q]
<1>1. g \in Item /\ pack[s].item = g /\ g # NoItem
  BY QuestAssumption DEF AcceptFromItem
<1>2. Sound(p) /\ Sound(pack) /\ Good(quests, {}, {}, Hidden)
  BY Ids DEF QInv, Sound, Empty, Stack
<1>3. n \in 0 .. MaxStack
  BY <1>2, SlotsOf
<1>4. Become(CASE CanAccept(j, p, q) -> Accepted(j, p, q)
               [] ~CanAccept(j, p, q) /\ CanCreate(p, g, n) -> Creation(j, p, g, n)
               [] OTHER -> [j |-> j, p |-> p])
  BY DEF AcceptFromItem
<1>5. /\ p[s] = Empty /\ \A t \in Slot \ {s} : p[t] = pack[t]
      /\ Empty.item = NoItem /\ Empty.count = 0
  BY <1>2 DEF Sound, Empty
<1> HIDE DEF p, n
<1>6. {g} \in SUBSET Item
  BY <1>1
<1>7. Good(j, {}, {}, Hidden)
  BY <1>2, <1>6, RemovedKeeps
<1> HIDE DEF j, g
<1>8. n \in Nat /\ n <= MaxStack
  BY <1>3, Ids
<1>9. CanCreate(p, g, n)
  BY <1>1, <1>2, <1>5, <1>8, CreatedCounts
<1>10. ~CanAccept(j, p, q)
  <2> SUFFICES ASSUME CanAccept(j, p, q) PROVE FALSE
    OBVIOUS
  <2>1. j.data[q].status = "Available" /\ FreeEntries(j, q) # {}
    BY DEF CanAccept, Available
  <2>2. InLog(Accepted(j, p, q).j, q)
    BY <1>2, <1>7, <2>1, AcceptedKeeps
  <2>3. quests' = Accepted(j, p, q).j
    BY <1>4 DEF Become
  <2> QED BY <2>2, <2>3
<1>11. pack' = Created(p, g, n)
  <2>1. Become(Creation(j, p, g, n))
    BY <1>4, <1>9, <1>10
  <2> QED BY <2>1 DEF Become, Creation
<1>12. CASE i # g
  <2>1. ItemCount(pack', i) = ItemCount(p, i)
    BY <1>1, <1>2, <1>8, <1>11, <1>12, CreatedCounts
  <2>2. \A t \in Slot : Held(p, i)[t] = Held(pack, i)[t]
    <3>1. i # NoItem /\ pack[s].item # i
      BY <1>1, <1>12, Ids
    <3> QED BY <3>1, <1>5 DEF Held
  <2>3. ItemCount(p, i) = ItemCount(pack, i)
    BY <1>2, <2>2, SameHeld
  <2> QED BY <2>1, <2>3
<1>13. CASE i = g
  <2>1. ItemCount(pack', i) = ItemCount(p, i) + n
    BY <1>1, <1>2, <1>8, <1>9, <1>11, <1>13, CreatedCounts
  <2>2. Held(p, i) \in Heights /\ Held(pack, i) \in Heights
    BY <1>2, HeldHeights
  <2>3. Only(Held(pack, i), {s}) \in Heights /\ Total(Only(Held(pack, i), {s})) = Held(pack, i)[s]
    BY <2>2, TotalOfOne
  <2>4. Held(pack, i)[s] = n
    BY <1>1, <1>13 DEF Held, n
  <2>5. \A t \in Slot : Held(pack, i)[t] = Held(p, i)[t] + Only(Held(pack, i), {s})[t]
    <3> SUFFICES ASSUME NEW t \in Slot PROVE Held(pack, i)[t] = Held(p, i)[t] + Only(Held(pack, i), {s})[t]
      OBVIOUS
    <3>1. CASE t = s
      <4>1. Held(p, i)[t] = 0
        BY <3>1, <1>1, <1>5, <1>13 DEF Held
      <4>2. Only(Held(pack, i), {s})[t] = Held(pack, i)[t] /\ Held(pack, i)[t] \in Int
        BY <3>1, <2>4, <1>3 DEF Only
      <4> QED BY <4>1, <4>2
    <3>2. CASE t # s
      <4>1. Held(p, i)[t] = Held(pack, i)[t]
        BY <3>2, <1>5 DEF Held
      <4>2. Only(Held(pack, i), {s})[t] = 0
        BY <3>2 DEF Only
      <4>3. Held(pack, i)[t] \in Int
        BY <2>2, Ids DEF Heights
      <4> QED BY <4>1, <4>2, <4>3
    <3> QED BY <3>1, <3>2
  <2>6. Total(Held(pack, i)) = Total(Held(p, i)) + n
    <3> DEFINE one == Only(Held(pack, i), {s})
    <3>1. /\ one \in Heights /\ Total(one) = n
          /\ \A t \in Slot : Held(pack, i)[t] = Held(p, i)[t] + one[t]
      BY <2>3, <2>4, <2>5
    <3> HIDE DEF one
    <3>2. Total(Held(pack, i)) = Total(Held(p, i)) + Total(one)
      BY <2>2, <3>1, TotalAdds
    <3> QED BY <3>1, <3>2
  <2>7. ItemCount(pack, i) = Total(Held(pack, i)) /\ ItemCount(p, i) = Total(Held(p, i))
    BY <1>2, ItemsHeld
  <2> QED BY <2>1, <2>6, <2>7
<1> QED BY <1>12, <1>13

(* Quests take from a character's items what they ask for, once and from
   complete; a reward that is refused has taken at most that, of one item after
   the other, and an offer that is refused nothing: the item that offers a quest
   is there again (rewardQuest, handleQuestgiverAcceptQuest). *)
THEOREM ItemsAreForQuests == QuestSpec => QuestItemsKept
<1> DEFINE once == \A q \in Quest :
             /\ quests.data[q].status = "Rewarded" /\ quests'.data[q].status # "Rewarded" =>
                  stored.rows[q].status # "Rewarded" /\ q \in stored.due \union stored.failed
             /\ quests'.data[q].status = "Rewarded" /\ quests.data[q].status # "Rewarded" =>
                  /\ quests.data[q].status = "Complete"
                  /\ \A i \in Item \ {SourceItem[q], Prize[q]} :
                       ItemCount(pack', i) = ItemCount(pack, i) - Wants[q][i]
           refused == \A q \in Quest :
             RewardQuest(q) /\ quests'.data[q].status # "Rewarded" =>
               \A i \in Item :
                 \/ ItemCount(pack', i) = ItemCount(pack, i)
                 \/ i \in WantedBy(q) /\ \A k \in WantedBy(q) : k <= i => ItemCount(pack', k) = ItemCount(pack, k) - Wants[q][k]
           kept == \A q \in Quest, s \in Slot :
             AcceptFromItem(q, s) /\ ~InLog(quests', q) => \A i \in Item : ItemCount(pack', i) = ItemCount(pack, i)
<1>1. QuestInit => QInv
  BY InitQInv
<1>2. QInv /\ [QuestNext]_questVars => QInv'
  BY NextQInv
<1>3. QInv /\ [QuestNext]_questVars => once
  BY NextQInv, RewardIsOnce
<1>4. QInv => refused
  BY RewardKeeps DEF TakenInOrder
<1>5. QInv => kept
  BY OfferIsKept
<1>6. QInv /\ [QuestNext]_questVars => [once]_questVars /\ [refused]_pack /\ [kept]_pack
  BY <1>3, <1>4, <1>5
<1>7. QuestSpec => [][once]_questVars /\ [][refused]_pack /\ [][kept]_pack
  <2> HIDE DEF once, refused, kept
  <2> QED BY <1>1, <1>2, <1>6, PTL DEF QuestSpec
<1> QED BY <1>7 DEF QuestItemsKept, RewardedForItems, RefusedReward, GiverKept

-----------------------------------------------------------------------------
(* A behaviour of MCRestarts is one of each of its parts, so that it keeps
   what was shown of them. *)
THEOREM PartsOfRestarts == RestartsSpec => HistorySpec /\ QuestSpec
<1>1. RestartsInit => HistoryInit /\ QuestInit
  BY DEF RestartsInit
<1>2. [RestartsNext]_keptVars => [HistoryNext]_historyVars
  BY DEF RestartsNext, keptVars
<1>3. [RestartsNext]_keptVars => [QuestNext]_questVars
  BY DEF RestartsNext, keptVars
<1> QED
  BY <1>1, <1>2, <1>3, PTL DEF RestartsSpec, HistorySpec, QuestSpec
=============================================================================
