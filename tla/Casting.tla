------------------------------ MODULE Casting ------------------------------
(***************************************************************************)
(* A character casts spells and attacks.  Two timers of the same unit get  *)
(* in each other's way: the countdown of a cast or a channel, in the       *)
(* SingleCastState that SpellCast points to, and the countdown of the next *)
(* swing, which a cast pauses and its end starts again.  A strike is cast  *)
(* at once but waits, as a callback of GameUnit, for the next swing.       *)
(*                                                                         *)
(* Distances, amounts and the many reasons to refuse a cast are left to    *)
(* chance; what a spell is made of are sets of spells.                     *)
(***************************************************************************)
EXTENDS Naturals, Functions

CONSTANTS
  Spell, NoSpell, Foe, NoFoe,
  Timed,         \* spells with a cast time
  Channeled,     \* spells that last while they are channeled
  NextSwing,     \* strikes: OnNextSwing
  Missile,       \* spells that travel to their target
  Unlocks,       \* spells that open a lock
  StartsAttack,  \* MeleeCombatStart
  StopsAttack,   \* StopAttackTarget
  KeepsSwing,    \* NotResetSwingTimer
  StoppedBy,     \* interruptflags
  MaxCasts       \* bound: SingleCastState objects at a time

Reason == {"Movement", "Damage", "Interrupt"}

ASSUME CastingAssumption ==
  /\ NoSpell \notin Spell /\ NoFoe \notin Foe
  /\ StoppedBy \in [Spell -> SUBSET Reason]
  /\ Timed \intersect (Channeled \union NextSwing) = {} /\ NextSwing \intersect (Channeled \union Unlocks) = {}
  /\ MaxCasts \in Nat

VARIABLES
  cast,  \* SingleCastState objects by number
  me,    \* the unit and its SpellCast
  foe    \* the units it may aim at

castingVars == <<cast, me, foe>>

Id == 1 .. MaxCasts

\* `resumes': onSpellCastEnded listens to the end, `hears': m_onAttackError is
\* connected.  What the client was told last, and whether power and reagents
\* were taken, is history.
Cast == [spell : Spell, target : Foe, finished : BOOLEAN, running : BOOLEAN, resumes : BOOLEAN,
         hears : BOOLEAN, flying : BOOLEAN, landed : BOOLEAN,
         told : {"nothing", "ok", "failed", "dead"}, paid : BOOLEAN]

\* m_castState (0 for a NoCastState), m_swingCallback, m_victim, the swing's
\* countdown, ChannelSpell.  `paused' is history: a cast stopped the swing and
\* has not ended, or ended without a word.
Caster == [state : Id \union {0}, queued : Id \union {0}, victim : Foe \union {NoFoe}, swing : BOOLEAN,
         channel : Spell \union {NoSpell}, alive : BOOLEAN, held : SUBSET {"Stunned", "Feared"},
         paused : {"no", "yes", "forgotten"}]

CastingInit ==
  /\ cast = [i \in {} |-> 0]
  /\ me = [state |-> 0, queued |-> 0, victim |-> NoFoe, swing |-> FALSE, channel |-> NoSpell,
           alive |-> TRUE, held |-> {}, paused |-> "no"]
  /\ foe = [f \in Foe |-> "alive"]

-----------------------------------------------------------------------------
(* The handlers call each other; they thread the state w of all three.     *)

CastingNow == [cast |-> cast, me |-> me, foe |-> foe]

\* The callback does not hold it.
AliveWhileCurrent(w) == {i \in DOMAIN w.cast : i = w.me.state \/ w.cast[i].flying}
\* An object lives while SpellCast, the swing's callback or its missile holds it.
Alive(w) == {i \in DOMAIN w.cast : i \in {w.me.state, w.me.queued} \/ w.cast[i].flying}
CastingSetTo(w) ==
  /\ cast' = Restrict(w.cast, Alive(w))
  /\ me' = w.me /\ foe' = w.foe

Free(w) == {i \in Id : i \notin DOMAIN w.cast}

\* triggerNextAutoAttack
TriggerSwing(w) == IF w.me.held # {} THEN w ELSE [w EXCEPT !.me.swing = TRUE, !.me.paused = "no"]

OnSpellCastEnded(w) == IF w.me.victim # NoFoe /\ ~w.me.swing THEN TriggerSwing(w) ELSE w
Ended(w, i) == IF w.cast[i].resumes THEN OnSpellCastEnded(w) ELSE w

\* sendEndCast
SendEndCast(w, i, told) == [Ended(w, i) EXCEPT !.cast[i].told = told]

StopAttack(w) == [w EXCEPT !.me.swing = FALSE, !.me.queued = 0, !.me.paused = "no"]

SetVictim(w, f) == [(IF f = NoFoe /\ w.me.victim # NoFoe THEN StopAttack(w) ELSE w) EXCEPT !.me.victim = f]

\* Strikes hear of it once.
AutoAttackError(w, told) ==
  [w EXCEPT !.cast = [i \in DOMAIN @ |-> IF @[i].hears THEN [@[i] EXCEPT !.hears = FALSE, !.told = told] ELSE @[i]]]
AutoAttackSucceeds(w) == [w EXCEPT !.cast = [i \in DOMAIN @ |-> [@[i] EXCEPT !.hears = FALSE]]]

CanAttack(w) == w.me.alive /\ w.me.held = {}
StartAttack(w) ==
  IF ~CanAttack(w) \/ w.me.victim = NoFoe THEN w
  ELSE IF w.foe[w.me.victim] # "alive" THEN AutoAttackError(w, "dead")
  ELSE IF w.me.swing THEN w
  ELSE TriggerSwing(w)

FinishChanneling(w) ==
  LET i == w.me.state
  IN  IF i = 0 \/ w.cast[i].spell \notin Channeled THEN w
      ELSE Ended([w EXCEPT !.me.channel = NoSpell], i)

\* A channel ends for every reason, a cast for those that stop it.
StopCast(w, reasons) ==
  LET x == FinishChanneling(w)
      i == x.me.state
  IN  IF i = 0 \/ x.cast[i].finished \/ (StoppedBy[x.cast[i].spell] \intersect reasons = {} /\ reasons # {}) THEN x
      ELSE [SendEndCast([x EXCEPT !.cast[i].running = FALSE], i, "failed") EXCEPT !.me.state = 0]

CancelCast(w, reasons) == StopCast([w EXCEPT !.me.queued = 0], reasons)

\* The signals killed and despawned of a unit that is someone's victim and
\* the target of a cast that takes time.
Lost(w, f, how) ==
  LET x == [w EXCEPT !.foe[f] = how]
      y == IF x.me.victim = f THEN SetVictim(x, NoFoe) ELSE x
      i == y.me.state
  IN  IF i # 0 /\ y.cast[i].target = f /\ y.cast[i].spell \in Timed \union Channeled THEN StopCast(y, {}) ELSE y

\* applyAllEffects: it may be the end of the target.
Hit(w, f, kills) == IF kills /\ w.foe[f] = "alive" THEN Lost(w, f, "dead") ELSE w

-----------------------------------------------------------------------------
(* The end of a cast, and what chance decides of it. *)

Chance == {"outOfReach", "inUse", "noPower", "noGoods", "far", "hits", "kills"}

\* What can come of a cast of s
ChanceOf(s) ==
  {c \in Chance : /\ c = "outOfReach" => s \in Timed
                  /\ c = "inUse" => s \in Unlocks
                  /\ c = "far" => s \in Missile}

\* A missile finds nobody if the target has gone.
TakeEffect(w, i, c) ==
  LET r == w.cast[i]
      ok == SendEndCast([w EXCEPT !.cast[i].paid = TRUE], i, "ok")
  IN  IF r.spell \in Missile /\ w.foe[r.target] = "gone" THEN ok
      ELSE IF r.spell \in Missile /\ c = "far" THEN [ok EXCEPT !.cast[i].flying = TRUE]
      ELSE Hit([ok EXCEPT !.cast[i].landed = TRUE], r.target, c = "kills")

\* The last part of onCastFinished
AfterEffect(w, i) ==
  LET r == w.cast[i]
      a == IF r.spell \in StartsAttack /\ w.foe[r.target] # "gone" THEN StartAttack(SetVictim(w, r.target)) ELSE w
      b == IF r.spell \in StopsAttack THEN StopAttack(a) ELSE a
  IN  IF r.spell \in Channeled THEN b ELSE Ended(b, i)

\* Out of reach or sight; a chest in use does not finish the cast; missing
\* reagents end it without a word.
OnCastFinished(w, i, c) ==
  LET r == w.cast[i]
      x == [w EXCEPT !.cast[i].finished = TRUE]
  IN  IF r.spell \in Timed /\ c = "outOfReach" THEN SendEndCast(x, i, "failed")
      ELSE IF r.spell \in Unlocks /\ c = "inUse" THEN SendEndCast(w, i, "failed")
      ELSE IF r.spell \in NextSwing THEN AfterEffect([x EXCEPT !.cast[i].hears = TRUE, !.me.queued = i], i)
      ELSE IF c = "noPower" THEN SendEndCast(x, i, "failed")
      ELSE IF c = "noGoods" THEN [x EXCEPT !.me.paused = IF @ = "yes" THEN "forgotten" ELSE @]
      ELSE AfterEffect(TakeEffect(x, i, c), i)

\* castSpell and the constructor: the unit shows what it channels.
NewCast(w, i, s, f) ==
  LET r == [spell |-> s, target |-> f, finished |-> FALSE, running |-> s \in Timed \union Channeled,
            resumes |-> FALSE, hears |-> FALSE, flying |-> FALSE, landed |-> FALSE, told |-> "nothing", paid |-> FALSE]
  IN  [cast |-> [k \in DOMAIN w.cast \union {i} |-> IF k = i THEN r ELSE w.cast[k]],
       me |-> [w.me EXCEPT !.state = i, !.channel = IF s \in Channeled THEN s ELSE @],
       foe |-> w.foe]

Activated(w, i, c) == IF w.cast[i].spell \in Timed THEN w ELSE OnCastFinished(w, i, c)

\* The swing waits for a cast or a channel.
Paused(w, i) ==
  LET s == w.cast[i].spell
  IN  IF ~w.me.swing \/ s \in KeepsSwing THEN w
      ELSE IF s \in Timed \/ w.me.channel # NoSpell
           THEN [w EXCEPT !.me.swing = FALSE, !.me.paused = "yes", !.cast[i].resumes = TRUE]
      ELSE OnSpellCastEnded(w)

-----------------------------------------------------------------------------
(* Packets of the client. *)

\* An instant spell finds the power that startCast has just seen.
CastSpell(s, f) ==
  /\ me.alive /\ "Stunned" \notin me.held /\ foe[f] # "gone"
  /\ me.state # 0 => cast[me.state].finished
  /\ \E i \in Free(CastingNow), c \in ChanceOf(s) :
       /\ i = (CHOOSE k \in Free(CastingNow) : TRUE)
       /\ s \in Timed \union NextSwing => c = "hits"
       /\ c # "noPower"
       /\ CastingSetTo(Paused(Activated(NewCast(FinishChanneling(CastingNow), i, s, f), i, c), i))

\* A refusal for the distance ends a channel.
CastTooFar ==
  /\ me.alive /\ "Stunned" \notin me.held
  /\ CastingSetTo(FinishChanneling(CastingNow))

CancelCasting == CastingSetTo(CancelCast(CastingNow, {}))
CancelChanneling == CastingSetTo(FinishChanneling(CastingNow))
AttackSwing(f) == foe[f] # "gone" /\ CastingSetTo(StartAttack(SetVictim(CastingNow, f)))
AttackStop == CastingSetTo(StopAttack(CastingNow))
Moves == CastingSetTo(StopCast(CastingNow, {"Movement"}))

-----------------------------------------------------------------------------
(* Timers. *)

CastTimer ==
  /\ me.state # 0 /\ cast[me.state].running
  /\ LET w == [CastingNow EXCEPT !.cast[me.state].running = FALSE]
     IN  IF cast[me.state].spell \in Channeled
         THEN CastingSetTo(FinishChanneling(w))
         ELSE \E c \in ChanceOf(cast[me.state].spell) : CastingSetTo(OnCastFinished(w, me.state, c))

\* A missile lands, whatever has become of the unit.
Impact(i) ==
  /\ cast[i].flying
  /\ \E kills \in BOOLEAN :
       CastingSetTo(Hit([CastingNow EXCEPT !.cast[i].flying = FALSE, !.cast[i].landed = TRUE], cast[i].target, kills))

\* notifyStunChanged, and death: casts first, the attack after them.
StunnedNow(w) == StopAttack(CancelCast([w EXCEPT !.me.held = @ \union {"Stunned"}], {}))
Dead(w) == SetVictim(StopAttack(CancelCast([w EXCEPT !.me.alive = FALSE], {})), NoFoe)

Fate == {"none", "stun", "death"}
Suffered(w, fate) ==
  IF fate = "stun" /\ "Stunned" \notin w.me.held THEN StunnedNow(w)
  ELSE IF fate = "death" /\ w.me.alive THEN Dead(w)
  ELSE w

\* The callback of a strike; power or reagents may be missing by now.
Strike(w, i, c) ==
  LET x == [w EXCEPT !.cast[i].hears = FALSE]
  IN  IF c \in {"noPower", "noGoods"} THEN SendEndCast(x, i, "failed")
      ELSE Hit([SendEndCast(x, i, "ok") EXCEPT !.cast[i].paid = TRUE, !.cast[i].landed = TRUE],
               x.cast[i].target, c = "kills")

NextAttack(w) == IF w.me.victim = NoFoe THEN w ELSE TriggerSwing(AutoAttackSucceeds(w))

\* The callback is forgotten.
SwingMissesQueued ==
  /\ me.swing /\ me.alive
  /\ CastingSetTo(AutoAttackError(CastingNow, "failed"))
\* onAttackSwing: a swing that cannot reach drops the strike and tries again;
\* what it hits may hit back.
SwingMisses ==
  /\ me.swing /\ me.alive
  /\ CastingSetTo([AutoAttackError(CastingNow, "failed") EXCEPT !.me.queued = 0])

\* A strike that fails leaves the swing to an ordinary hit.
Swing ==
  /\ me.swing /\ me.alive
  /\ \E c \in {"noPower", "noGoods", "hits", "kills"}, kills \in BOOLEAN, fate \in Fate :
       LET w == [CastingNow EXCEPT !.me.swing = FALSE, !.me.queued = 0]
           i == me.queued
           strikes == i # 0 /\ c \notin {"noPower", "noGoods"}
           struck == IF i # 0 THEN Strike(w, i, c) ELSE w
           hit == IF strikes THEN struck ELSE Hit(struck, me.victim, kills)
       IN  /\ strikes => ~kills
           /\ i = 0 => c = "hits"
           /\ CastingSetTo(NextAttack(Suffered(hit, fate)))

-----------------------------------------------------------------------------
(* The world. *)

\* The listener of takenDamage
Damaged ==
  /\ me.state # 0 /\ cast[me.state].running
  /\ CastingSetTo(StopCast(CastingNow, {"Damage"}))

\* The aura of a channel is removed from its target.
ChannelAuraRemoved == me.channel # NoSpell /\ CastingSetTo(StopCast(CastingNow, {}))

\* An effect that interrupts spells or knocks back
Interrupted == \E reason \in {"Interrupt", "Movement"} : CastingSetTo(CancelCast(CastingNow, {reason}))

Stun ==
  \/ "Stunned" \notin me.held /\ CastingSetTo(StunnedNow(CastingNow))
  \/ "Stunned" \in me.held /\ CastingSetTo([CastingNow EXCEPT !.me.held = @ \ {"Stunned"}])

\* notifyFearChanged lets a cast go on.
Fear ==
  \/ /\ "Feared" \notin me.held
     /\ CastingSetTo(SetVictim(StopAttack([CastingNow EXCEPT !.me.held = @ \union {"Feared"}]), NoFoe))
  \/ "Feared" \in me.held /\ CastingSetTo([CastingNow EXCEPT !.me.held = @ \ {"Feared"}])

Dies == me.alive /\ CastingSetTo(Dead(CastingNow))
Revives == ~me.alive /\ CastingSetTo([CastingNow EXCEPT !.me.alive = TRUE])

FoeLost(f) ==
  \/ foe[f] = "alive" /\ CastingSetTo(Lost(CastingNow, f, "dead"))
  \/ foe[f] # "gone" /\ CastingSetTo(Lost(CastingNow, f, "gone"))
FoeAppears(f) == foe[f] = "gone" /\ CastingSetTo([CastingNow EXCEPT !.foe[f] = "alive"])

CastingNext ==
  \/ \E s \in Spell, f \in Foe : CastSpell(s, f)
  \/ \E f \in Foe : AttackSwing(f) \/ FoeLost(f) \/ FoeAppears(f)
  \/ CastTooFar \/ CancelCasting \/ CancelChanneling \/ AttackStop \/ Moves
  \/ CastTimer \/ Swing \/ SwingMisses
  \/ \E i \in DOMAIN cast : Impact(i)
  \/ Damaged \/ ChannelAuraRemoved \/ Interrupted \/ Stun \/ Fear \/ Dies \/ Revives

CastingSpec == CastingInit /\ [][CastingNext]_castingVars

-----------------------------------------------------------------------------
(* Properties. *)

(* Types. *)
CastingTypeOK ==
  /\ DOMAIN cast \subseteq Id /\ \A i \in DOMAIN cast : cast[i] \in Cast
  /\ me \in Caster /\ {me.state, me.queued} \ {0} \subseteq DOMAIN cast
  /\ foe \in [Foe -> {"alive", "dead", "gone"}]

Able == me.alive /\ "Stunned" \notin me.held

\* A channel that is shown is the current cast and has a timer that ends it.
ChannelEnds ==
  me.channel # NoSpell =>
    me.state # 0 /\ cast[me.state].spell = me.channel /\ cast[me.state].running /\ Able

\* A cast that is not finished, so that it bars every other, has a timer; only
\* a chest in use leaves it without one.
CastEnds ==
  me.state # 0 /\ ~cast[me.state].finished =>
    /\ Able
    /\ cast[me.state].running \/ (cast[me.state].spell \in Unlocks /\ cast[me.state].told = "failed")

\* Who waits for a cast to attack on has a victim, and a cast that will tell.
PauseEnds ==
  me.paused = "yes" =>
    /\ CanAttack(CastingNow) /\ me.victim # NoFoe /\ ~me.swing
    /\ me.state # 0 /\ cast[me.state].resumes /\ cast[me.state].running
    /\ cast[me.state].finished => me.channel # NoSpell

\* A strike that waits for the swing has not been called off: the unit can
\* strike, and the client was told nothing, or that another target is dead.
StrikeWaits ==
  me.queued # 0 =>
    /\ Able
    /\ cast[me.queued].finished /\ cast[me.queued].told \in {"nothing", "dead"}
    /\ cast[me.queued].told = "nothing" => cast[me.queued].hears

\* Nothing takes effect that was not paid for and reported.
EffectsPaid == \A i \in DOMAIN cast : cast[i].flying \/ cast[i].landed => cast[i].paid /\ cast[i].told = "ok"

(* The timers of casts and of swings, the field that shows a channel, the  *)
(* callback of a strike and what the client was told agree, whatever ends  *)
(* or starts what: game_unit.cpp:600 and single_cast_state.cpp:281.        *)
CastsAgree == ChannelEnds /\ CastEnds /\ PauseEnds /\ StrikeWaits /\ EffectsPaid
=============================================================================
