-------------------------------- MODULE Auras --------------------------------
(***************************************************************************)
(* The auras of units: the list each unit keeps, the fields its client is  *)
(* shown, and what follows from the list and is kept apart from it: stun   *)
(* and root, the shape, the passive spell of a shape, and the unit a       *)
(* caster's single-target spell is on.                                     *)
(*                                                                         *)
(* Auras overwrite, stack, expire, break and are dispelled; some of it     *)
(* happens inside of the application of another aura, and some in          *)
(* functions that are posted to the world's event loop and run later.      *)
(* Base points and durations are left out.                                 *)
(***************************************************************************)
EXTENDS Naturals, Sequences, FiniteSets

CONSTANTS
  AuraSpell, NoAura,
  Bearer, Nobody,      \* units; a null pointer to one
  Mechanic, NoMechanic,  \* mechanics of spells
  Entry,               \* the static data of each spell
  PositiveSlot, NegativeSlot,  \* the fields for positive and negative auras
  MaxAuras             \* bound: auras of a unit

Slot == PositiveSlot \union NegativeSlot
NoSlot == 0
Flag == {"Positive", "Passive", "DeathPersistent", "Curse", "Lasting", "SingleTarget",
         "BreakableByDamage", "Damage", "TicksAtOnce", "Stun", "Root", "ShapeShift"}

\* `charges' and `stackamount' may be 0, `passive' is what a shape casts.
SpellEntry == [baseid : AuraSpell, rank : Nat, charges : Nat, stackamount : Nat,
               mechanic : Mechanic, passive : AuraSpell \union {NoAura}, is : SUBSET Flag]

ASSUME AurasAssumption ==
  /\ NoAura \notin AuraSpell /\ Nobody \notin Bearer
  /\ NoMechanic \in Mechanic
  /\ PositiveSlot \subseteq Nat \ {0} /\ NegativeSlot \subseteq Nat \ {0} /\ PositiveSlot \intersect NegativeSlot = {}
  /\ Entry \in [AuraSpell -> SpellEntry] /\ MaxAuras \in Nat
  /\ \A s \in AuraSpell : Entry[s].passive # NoAura =>
       "ShapeShift" \in Entry[s].is /\ Entry[Entry[s].passive].is = {"Positive", "Passive"}

VARIABLES
  unit,     \* units, with their AuraContainer and the fields
  tracked,  \* GameUnit::m_trackAuras of each unit
  leaving,  \* posted removals of the passive spells of shapes
  stray,    \* a posted function refers to an aura that is gone
  fault     \* an aura that is not applied was misapplied, or a stray function ran

auraVars == <<unit, tracked, leaving, stray, fault>>

\* How far the aura listens to damage.
Aura == [spell : AuraSpell, caster : Bearer, slot : Slot \union {NoSlot}, charges : Nat, stacks : Nat \ {0},
         breaks : {"never", "posted", "listens"}]
UnitRecord == [auras : Seq(Aura), field : [Slot -> AuraSpell \union {NoAura}], stunned : BOOLEAN, rooted : BOOLEAN,
               form : AuraSpell \union {NoAura}, alive : BOOLEAN]

(* Types. *)
AurasTypeOK ==
  /\ unit \in [Bearer -> UnitRecord]
  /\ tracked \in [Bearer -> [Mechanic -> Bearer \union {Nobody}]]
  /\ leaving \in [Bearer -> [AuraSpell -> Nat]]
  /\ stray \in BOOLEAN /\ fault \in {"none", "unapplied", "dangling"}

AurasInit ==
  /\ unit = [u \in Bearer |-> [auras |-> <<>>, field |-> [i \in Slot |-> NoAura], stunned |-> FALSE,
                               rooted |-> FALSE, form |-> NoAura, alive |-> TRUE]]
  /\ tracked = [c \in Bearer |-> [m \in Mechanic |-> Nobody]]
  /\ leaving = [u \in Bearer |-> [s \in AuraSpell |-> 0]]
  /\ stray = FALSE /\ fault = "none"

-----------------------------------------------------------------------------
(* A handler threads the state w of all five. *)

AurasNow == [unit |-> unit, tracked |-> tracked, leaving |-> leaving, stray |-> stray, fault |-> fault]
AurasSetTo(w) ==
  /\ \A u \in Bearer : Len(w.unit[u].auras) <= MaxAuras
  /\ unit' = w.unit /\ tracked' = w.tracked /\ leaving' = w.leaving /\ stray' = w.stray /\ fault' = w.fault

Is(a, flag) == flag \in Entry[a.spell].is
\* Indices of the auras of u that are so.
Those(w, u, P(_)) == {i \in DOMAIN w.unit[u].auras : P(w.unit[u].auras[i])}
\* hasAura
Has(auras, flag) == \E i \in DOMAIN auras : Is(auras[i], flag)

First(S) == CHOOSE i \in S : \A j \in S : i <= j
\* The place of i among the indices of K; the list without those of S.
Rank(K, i) == Cardinality({j \in K : j <= i})
Nth(K, n) == CHOOSE i \in K : Rank(K, i) = n
Without(auras, S) ==
  LET kept == DOMAIN auras \ S
  IN  [n \in 1 .. Cardinality(kept) |-> auras[Nth(kept, n)]]

\* What is left of a unit when the auras of gone end: notifyStunChanged and
\* notifyRootChanged look at the list, the shape ends in any case.
Freed(r, gone, list) ==
  [r EXCEPT !.stunned = IF Has(gone, "Stun") THEN Has(list, "Stun") ELSE @,
            !.rooted = IF Has(gone, "Root") THEN Has(list, "Root") ELSE @,
            !.form = IF Has(gone, "ShapeShift") THEN NoAura ELSE @,
            !.field = [n \in Slot |-> IF \E i \in DOMAIN gone : gone[i].slot = n THEN NoAura ELSE @[n]]]
\* The single target of c by a spell of the mechanic m
Single(a, c, m) == Is(a, "SingleTarget") /\ a.caster = c /\ Entry[a.spell].mechanic = m
Untracked(t, gone) ==
  [c \in Bearer |-> [m \in Mechanic |-> IF \E i \in DOMAIN gone : Single(gone[i], c, m) THEN Nobody ELSE t[c][m]]]
\* The passive spells of shapes are removed later.
PostedRemovals(l, gone) ==
  [s \in AuraSpell |-> l[s] + Cardinality({i \in DOMAIN gone : Entry[gone[i].spell].passive = s})]
Unconnected(gone) == \E i \in DOMAIN gone : Is(gone[i], "BreakableByDamage") /\ gone[i].breaks = "posted"
Misapplied(w, u, gone, list) ==
  [w EXCEPT !.unit[u] = Freed(@, gone, list), !.tracked = Untracked(@, gone),
            !.leaving[u] = PostedRemovals(@, gone), !.stray = @ \/ Unconnected(gone)]

\* Each aura is misapplied while it is still in the list.
RemovedEarly(w, u, S) ==
  LET auras == w.unit[u].auras
  IN  [Misapplied(w, u, [i \in S |-> auras[i]], auras) EXCEPT !.unit[u].auras = Without(auras, S)]
\* removeAura, for all indices of S: first off the list, then misapplied.
Removed(w, u, S) ==
  LET auras == w.unit[u].auras
  IN  [Misapplied(w, u, [i \in S |-> auras[i]], Without(auras, S)) EXCEPT !.unit[u].auras = Without(auras, S)]

RemovedBySpell(w, u, s) == Removed(w, u, Those(w, u, LAMBDA a : a.spell = s))
RemovedByMechanic(w, u, m) == Removed(w, u, Those(w, u, LAMBDA a : Entry[a.spell].mechanic = m))

\* handleTargetDeath
Killed(w, u) ==
  Removed([w EXCEPT !.unit[u].alive = FALSE], u,
          Those(w, u, LAMBDA a : ~Is(a, "Passive") /\ ~Is(a, "DeathPersistent")))

-----------------------------------------------------------------------------
(* A new aura. *)

NewAura(s, c, slot) ==
  [spell |-> s, caster |-> c, slot |-> slot, charges |-> Entry[s].charges, stacks |-> 1,
   breaks |-> IF {"BreakableByDamage", "Damage"} \intersect Entry[s].is # {} THEN "posted" ELSE "never"]

\* A single-target spell leaves the unit it was on.
Tracked(w, u, a) ==
  LET m == Entry[a.spell].mechanic
      old == w.tracked[a.caster][m]
      left == IF old \notin {Nobody, u} THEN RemovedByMechanic(w, old, m) ELSE w
  IN  IF Is(a, "SingleTarget") THEN [left EXCEPT !.tracked[a.caster][m] = u] ELSE w

\* A shape casts its passive spell on the unit.
ShapeShifted(w, u, a) ==
  LET p == Entry[a.spell].passive
  IN  IF ~Is(a, "ShapeShift") THEN w
      ELSE [w EXCEPT !.unit[u].form = a.spell,
                     !.unit[u].auras = IF p = NoAura THEN @ ELSE Append(@, NewAura(p, u, NoSlot))]

\* applyEffects: the fields come last.  A first tick that kills removes the
\* aura before it counts as applied.
Applied(w, u, a, kills) ==
  LET x == ShapeShifted(Tracked(w, u, a), u, a)
      y == [x EXCEPT !.unit[u].stunned = @ \/ Is(a, "Stun"), !.unit[u].rooted = @ \/ Is(a, "Root")]
      z == IF kills THEN Killed(y, u) ELSE y
  IN  IF kills /\ ~Is(a, "DeathPersistent") THEN [z EXCEPT !.fault = "unapplied"]
      ELSE [z EXCEPT !.unit[u].field = [n \in Slot |-> IF n = a.slot THEN a.spell ELSE @[n]]]

Unshaped(w, u, s) ==
  IF "ShapeShift" \in Entry[s].is THEN Removed(w, u, Those(w, u, LAMBDA a : Is(a, "ShapeShift"))) ELSE w
Pushed(w, u, a, kills) ==
  Applied([Unshaped(w, u, a.spell) EXCEPT !.unit[u].auras = Append(@, a)], u, a, kills)

\* shouldOverwriteAura, for auras that no item has cast
Overwrites(s, c, b) ==
  /\ b.slot # NoSlot /\ b.caster = c
  /\ \/ Entry[s].baseid = Entry[b.spell].baseid
     \/ "Curse" \in Entry[s].is /\ Is(b, "Curse")

FreeSlots(w, u, s) ==
  {n \in (IF "Positive" \in Entry[s].is THEN PositiveSlot ELSE NegativeSlot) : w.unit[u].field[n] = NoAura}

Stacked(w, u, i) ==
  [w EXCEPT !.unit[u].auras[i].stacks = IF @ = Entry[w.unit[u].auras[i].spell].stackamount THEN @ ELSE @ + 1]

\* addAura: the first aura it may overwrite decides.
Added(w, u, s, c, kills) ==
  LET over == Those(w, u, LAMBDA b : Overwrites(s, c, b))
      i == First(over)
      old == w.unit[u].auras[i]
      lesser == Entry[old.spell].baseid = Entry[s].baseid /\ Entry[old.spell].rank > Entry[s].rank
  IN  CASE "Passive" \in Entry[s].is -> Pushed(w, u, NewAura(s, c, NoSlot), kills)
        [] "Passive" \notin Entry[s].is /\ over = {} ->
             IF FreeSlots(w, u, s) = {} THEN w
             ELSE Pushed(w, u, NewAura(s, c, First(FreeSlots(w, u, s))), kills)
        [] OTHER ->
             IF lesser THEN w
             ELSE IF old.spell = s /\ Entry[s].stackamount > 0 THEN Stacked(w, u, i)
             ELSE Pushed(Removed(w, u, {i}), u, NewAura(s, c, old.slot), kills)

-----------------------------------------------------------------------------

\* A spell hits a unit, which its other effects may have killed; shapes are
\* one's own.
ApplyAura(u, s, c, kills) ==
  /\ unit[u].alive \/ "DeathPersistent" \in Entry[s].is
  /\ "ShapeShift" \in Entry[s].is => u = c
  /\ kills => "TicksAtOnce" \in Entry[s].is /\ unit[u].alive
  /\ \A f \in AuraSpell : Entry[f].passive # s
  /\ AurasSetTo(Added(AurasNow, u, s, c, kills))

\* onExpiration, a dispel, or a listener with a condition of its own
AuraEnds(u, i) ==
  /\ i \in DOMAIN unit[u].auras /\ Is(unit[u].auras[i], "Lasting")
  /\ AurasSetTo(Removed(AurasNow, u, {i}))

\* The client cancels a spell, a channel ends, a spell is unlearned.
SpellEnds(u, s) ==
  /\ "Positive" \in Entry[s].is /\ "Passive" \notin Entry[s].is
  /\ AurasSetTo(RemovedBySpell(AurasNow, u, s))

DispelMechanic(u, m) == m # NoMechanic /\ AurasSetTo(RemovedByMechanic(AurasNow, u, m))

\* removeProcCharges: without charges the aura stays.
RemoveProcCharges(u, i) ==
  /\ i \in DOMAIN unit[u].auras /\ unit[u].auras[i].charges > 0
  /\ LET spent == [AurasNow EXCEPT !.unit[u].auras[i].charges = @ - 1]
     IN  AurasSetTo(IF unit[u].auras[i].charges = 1 THEN Removed(spent, u, {i}) ELSE spent)

\* takenDamage and spellProcEvent; some auras break by chance only.
TakenDamage(u) ==
  \E S \in SUBSET Those(AurasNow, u, LAMBDA a : a.breaks = "listens") :
    /\ \A i \in DOMAIN unit[u].auras :
         unit[u].auras[i].breaks = "listens" /\ Is(unit[u].auras[i], "Damage") => i \in S
    /\ AurasSetTo(Removed(AurasNow, u, S))

BearerDies(u) == unit[u].alive /\ AurasSetTo(Killed(AurasNow, u))
BearerRevives(u) == ~unit[u].alive /\ AurasSetTo([AurasNow EXCEPT !.unit[u].alive = TRUE])

\* Functions posted to the universe.
Connects(u, i) ==
  /\ i \in DOMAIN unit[u].auras /\ unit[u].auras[i].breaks = "posted"
  /\ AurasSetTo([AurasNow EXCEPT !.unit[u].auras[i].breaks = "listens"])
PassiveLeaves(u, s) ==
  /\ leaving[u][s] > 0
  /\ AurasSetTo(RemovedBySpell([AurasNow EXCEPT !.leaving[u][s] = @ - 1], u, s))
StrayConnects == stray /\ AurasSetTo([AurasNow EXCEPT !.fault = "dangling"])

\* Units, spells and casters may be restricted.
AurasStep(units, spells, casters) ==
  /\ fault = "none"
  /\ \/ \E u \in units, c \in casters, s \in spells, kills \in BOOLEAN : ApplyAura(u, s, c, kills)
     \/ \E u \in units, i \in 1 .. MaxAuras : AuraEnds(u, i) \/ RemoveProcCharges(u, i) \/ Connects(u, i)
     \/ \E u \in units, s \in spells : SpellEnds(u, s)
     \/ \E u \in units, s \in AuraSpell : PassiveLeaves(u, s)
     \/ \E u \in units, m \in Mechanic : DispelMechanic(u, m)
     \/ \E u \in units : TakenDamage(u) \/ BearerDies(u) \/ BearerRevives(u)
     \/ StrayConnects

AurasNext == AurasStep(Bearer, AuraSpell, Bearer)
AurasSpec == AurasInit /\ [][AurasNext]_auraVars

-----------------------------------------------------------------------------
(* Properties. *)

\* A field shows the one aura that has it, and is empty without one.
FieldsShowAuras ==
  \A u \in Bearer, n \in Slot :
    LET holders == Those(AurasNow, u, LAMBDA a : a.slot = n)
    IN  IF unit[u].field[n] = NoAura THEN holders = {}
        ELSE Cardinality(holders) = 1 /\ \A i \in holders : unit[u].auras[i].spell = unit[u].field[n]

\* A unit is stunned, rooted or shifted as long as an aura of it says so,
\* whichever of several ends first.
StatesFollowAuras ==
  \A u \in Bearer :
    LET shapes == Those(AurasNow, u, LAMBDA a : Is(a, "ShapeShift"))
    IN  /\ unit[u].stunned <=> Has(unit[u].auras, "Stun")
        /\ unit[u].rooted <=> Has(unit[u].auras, "Root")
        /\ {unit[u].auras[i].spell : i \in shapes} = {unit[u].form} \ {NoAura}
        /\ Cardinality(shapes) <= 1

\* The passive spell of a shape does not outlive it for good.
PassivesEnd ==
  \A u \in Bearer, f \in AuraSpell :
    LET p == Entry[f].passive
    IN  p # NoAura /\ Those(AurasNow, u, LAMBDA a : a.spell = p) # {} =>
          leaving[u][p] > 0 \/ (unit[u].form # NoAura /\ Entry[unit[u].form].passive = p)

\* Nothing in the code makes sure of it, and the next two depend on it: of a
\* family all spells or none are curses, a single-target spell is not passive,
\* and the single-target spells of a mechanic are a family.
SpellsApart ==
  \A s, t \in AuraSpell :
    /\ Entry[s].baseid = Entry[t].baseid => ("Curse" \in Entry[s].is <=> "Curse" \in Entry[t].is)
    /\ "SingleTarget" \in Entry[s].is => "Passive" \notin Entry[s].is
    /\ {"SingleTarget"} \subseteq Entry[s].is \intersect Entry[t].is /\ Entry[s].mechanic = Entry[t].mechanic =>
         Entry[s].baseid = Entry[t].baseid

\* One caster's auras of a spell do not pile up on a unit.
OneOfACaster ==
  \A u \in Bearer : \A i, j \in DOMAIN unit[u].auras :
    LET a == unit[u].auras[i]
        b == unit[u].auras[j]
    IN  i # j /\ a.slot # NoSlot /\ b.slot # NoSlot /\ a.caster = b.caster =>
          Entry[a.spell].baseid # Entry[b.spell].baseid

\* A single-target spell is on the unit its caster remembers and on no other.
OneTarget ==
  \A u, c \in Bearer, m \in Mechanic :
    tracked[c][m] = u <=>
      Those(AurasNow, u, LAMBDA a : Single(a, c, m)) # {}

\* Death leaves what is persistent.
DeathEndsAuras ==
  \A u \in Bearer : ~unit[u].alive =>
    \A i \in DOMAIN unit[u].auras : {"Passive", "DeathPersistent"} \intersect Entry[unit[u].auras[i].spell].is # {}

(* What is shown of auras and what they do to a unit follow the list, however
   auras overwrite, break and end each other (AuraContainer). *)
AurasAgree ==
  fault = "none" =>
    /\ FieldsShowAuras /\ StatesFollowAuras /\ PassivesEnd
    /\ OneOfACaster /\ OneTarget /\ DeathEndsAuras
=============================================================================
