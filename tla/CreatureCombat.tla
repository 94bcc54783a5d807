--------------------------- MODULE CreatureCombat ---------------------------
(***************************************************************************)
(* Who fights whom: the states of a creature's AI, its threat list and its *)
(* victim, and the list of attackers and the combat flag of each player's  *)
(* character.  Both sides are kept by signals that fire inside of one      *)
(* another: a character dies or leaves, every creature that has it on its  *)
(* list drops it, chooses anew, and maybe goes home.                       *)
(*                                                                         *)
(* Amounts of threat and positions are left to chance: a creature turns to *)
(* anyone on its list, a rooted one may find nobody in reach.  Functions   *)
(* posted to the world's event loop run later, in order, with whatever     *)
(* happened meanwhile.                                                     *)
(***************************************************************************)
EXTENDS Naturals, Sequences, FiniteSets

CONSTANTS
  Creature, Unit,   \* creatures, and characters of players
  NoUnit,           \* a null pointer to a unit
  Hold,             \* unit states that occur: Stunned, Feared, Confused, Rooted
  Ranged,           \* creatures with a ranged spell
  MaxPosted         \* bound: functions posted, beside the ones that end a way home

ASSUME CombatAssumption ==
  /\ NoUnit \notin Unit
  /\ Hold \subseteq {"Stunned", "Feared", "Confused", "Rooted"}
  /\ Ranged \subseteq Creature /\ MaxPosted \in Nat

VARIABLES
  npc,      \* the creatures, their CreatureAI and its state
  char,     \* the characters
  posted,   \* functions posted to the universe, in order
  dangling  \* a posted function used an object that is gone

combatVars == <<npc, char, posted, dangling>>

(* Types. *)
\* stranded: in the reset state, but not on the way home.
Npc == [state : {"none", "prepare", "idle", "combat", "reset", "stranded", "death"},
        threat : SUBSET Unit, victim : Unit \union {NoUnit}, tagged : SUBSET Unit,
        held : SUBSET Hold, moves : BOOLEAN, armed : BOOLEAN]
Char == [here : BOOLEAN, alive : BOOLEAN, inCombat : BOOLEAN, pvp : BOOLEAN, attackers : SUBSET Creature]
Function == [call : {"choose", "idle", "assist", "expired", "dangling"}, npc : Creature, unit : Unit \union {NoUnit}]

CombatTypeOK ==
  /\ npc \in [Creature -> Npc] /\ char \in [Unit -> Char]
  /\ posted \in Seq(Function) /\ dangling \in BOOLEAN
  /\ \A c \in Creature : npc[c].armed => npc[c].state = "combat"

NotThere == [state |-> "none", threat |-> {}, victim |-> NoUnit, tagged |-> {},
             held |-> {}, moves |-> TRUE, armed |-> FALSE]
Away == [here |-> FALSE, alive |-> TRUE, inCombat |-> FALSE, pvp |-> FALSE, attackers |-> {}]

CombatInit ==
  /\ npc = [c \in Creature |-> NotThere] /\ char = [u \in Unit |-> Away]
  /\ posted = <<>> /\ dangling = FALSE

-----------------------------------------------------------------------------
(* A step of several handlers threads the state w of npc, char and posted. *)

Now == [npc |-> npc, char |-> char, posted |-> posted]
InBounds(queue) == Cardinality({i \in DOMAIN queue : queue[i].call # "idle"}) <= MaxPosted
SetTo(w) ==
  /\ InBounds(w.posted)
  /\ npc' = w.npc /\ char' = w.char /\ posted' = w.posted
  /\ UNCHANGED dangling

Post(w, call, c, u) == [w EXCEPT !.posted = Append(@, [call |-> call, npc |-> c, unit |-> u])]

\* addAttackingUnit, removeAttackingUnit
Attacked(w, u, c) == [w EXCEPT !.char[u].attackers = @ \union {c}, !.char[u].inCombat = TRUE]
NotAttacked(w, u, c) ==
  LET left == w.char[u].attackers \ {c}
  IN  [w EXCEPT !.char[u].attackers = left,
                !.char[u].inCombat = @ /\ (w.char[u].pvp \/ left # {})]

Released(w, c) ==
  [u \in Unit |-> IF u \in w.npc[c].threat THEN NotAttacked(w, u, c).char[u] ELSE w.char[u]]
\* The weak pointer to the state of c, which its posted choices ask for, expires.
Expired(queue, c) ==
  [i \in DOMAIN queue |-> IF queue[i].call = "choose" /\ queue[i].npc = c
                          THEN [queue[i] EXCEPT !.call = "expired"] ELSE queue[i]]

\* The countdown is not stopped.
LeaveCombatArmed(w, c) ==
  [w EXCEPT !.npc[c].threat = {}, !.npc[c].victim = NoUnit, !.char = Released(w, c)]
\* CreatureAICombatState::onLeave
LeaveCombat(w, c) ==
  [npc |-> [w.npc EXCEPT ![c].threat = {}, ![c].victim = NoUnit, ![c].armed = FALSE],
   char |-> Released(w, c),
   posted |-> Expired(w.posted, c)]

\* setState, the parts that depend on both states apart.
SetState(w, c, state) ==
  LET left == IF w.npc[c].state = "combat" THEN LeaveCombat(w, c) ELSE w
  IN  [left EXCEPT !.npc[c].state = state]

\* CreatureAI::reset: all auras end and combat movement is back.
Reset(w, c) ==
  LET gone == SetState(w, c, "reset")
  IN  [gone EXCEPT !.npc[c].held = {}, !.npc[c].moves = TRUE]

-----------------------------------------------------------------------------
(* The combat state. *)

CanAutoAttack(r) == r.held \subseteq {"Rooted"}

\* updateVictim: whom chooseNextAction may find.
Findable(w, c) ==
  LET r == w.npc[c]
  IN  IF r.state # "combat" \/ ~r.moves THEN {r.victim}
      ELSE IF ~CanAutoAttack(r) \/ r.threat = {} THEN {NoUnit}
      ELSE r.threat \union (IF "Rooted" \in r.held THEN {NoUnit} ELSE {})

\* With a victim the creature casts or attacks, and comes again unless it is
\* ranged; without one it goes home, if it can.
ChooseNextAction(w, c, found, again) ==
  IF ~w.npc[c].moves THEN w
  ELSE IF found # NoUnit
       THEN [w EXCEPT !.npc[c].victim = found, !.npc[c].armed = @ \/ again \/ c \notin Ranged]
       ELSE IF w.npc[c].held = {} THEN Reset(w, c) ELSE [w EXCEPT !.npc[c].victim = NoUnit]

\* It shares the list with nobody.
WithThreatUnheard(w, c, u) ==
  IF ~w.char[u].alive THEN w ELSE [w EXCEPT !.npc[c].threat = @ \union {u}]
\* addThreat, without the choice that follows in an entered state.
WithThreat(w, c, u) ==
  IF ~w.char[u].alive \/ u \in w.npc[c].threat THEN w
  ELSE [Attacked(w, u, c) EXCEPT !.npc[c].threat = @ \union {u}]

\* CreatureAI::enterCombat
EnterCombat(w, c, u) ==
  LET entered == WithThreat(SetState(w, c, "combat"), c, u)
  IN  Post([entered EXCEPT !.npc[c].tagged = {}], "choose", c, NoUnit)

\* removeThreat chooses if the creature loses its victim or its last enemy.
MustChoose(w, c, u) == w.npc[c].victim = u \/ w.npc[c].threat = {}

\* After the choice, onVictimKilled or onVictimDespawned, if it is still
\* connected.
VictimGone(w, c, u) == IF w.npc[c].victim = u THEN [w EXCEPT !.npc[c].victim = NoUnit] ELSE w

\* Everyone who has u on the list drops it (signals killed and despawned):
\* removeThreat up to the choice.
DroppedBy(w, u) == {c \in Creature : w.npc[c].state = "combat" /\ u \in w.npc[c].threat}
Dropped(w, u) ==
  LET dropping == DroppedBy(w, u)
      left == w.char[u].attackers \ dropping
  IN  [w EXCEPT !.npc = [c \in Creature |-> IF c \in dropping THEN [w.npc[c] EXCEPT !.threat = @ \ {u}] ELSE w.npc[c]],
                !.char[u].attackers = left,
                !.char[u].inCombat = @ /\ (dropping = {} \/ w.char[u].pvp \/ left # {})]

\* Each chooses for itself; who goes home has nobody left on the list to release.
Choice(w, c, u, found, again) ==
  VictimGone(IF MustChoose(w, c, u) THEN ChooseNextAction(w, c, found, again) ELSE w, c, u)
Chosen(w, u, C, found, again) ==
  LET chosen == [c \in C |-> Choice(w, c, u, found[c], again).npc[c]]
      homeward == {c \in C : chosen[c].state # "combat"}
  IN  [w EXCEPT !.npc = [c \in Creature |-> IF c \in C THEN chosen[c] ELSE @[c]],
                !.posted = [i \in DOMAIN @ |-> IF @[i].npc \in homeward THEN Expired(@, @[i].npc)[i] ELSE @[i]]]
Finds(w, C) ==
  {f \in [Creature -> Unit \union {NoUnit}] :
     \A c \in Creature : IF c \in C THEN f[c] \in Findable(w, c) ELSE f[c] = NoUnit}

Forsake(w, u) ==
  \E found \in Finds(Dropped(w, u), DroppedBy(w, u)), again \in BOOLEAN :
    SetTo(Chosen(Dropped(w, u), u, DroppedBy(w, u), found, again))

-----------------------------------------------------------------------------
(* Threat and damage. *)

\* One idle neighbour is called for help.
Helpers(w, c) == {d \in Creature \ {c} : w.npc[d].state \in {"prepare", "idle", "reset", "stranded"}}

\* The signal threatened: what the AI's state makes of it, without a choice.
\* A creature that evades or is dead does not listen.
Threatened(w, c, u) ==
  CASE w.npc[c].state \in {"prepare", "idle"} -> EnterCombat(w, c, u)
    [] w.npc[c].state = "combat" -> WithThreat(w, c, u)
    [] OTHER -> w
\* addThreat chooses at once in a state that was entered before.
Threaten(w, c, u, found, again) ==
  IF w.npc[c].state = "combat" /\ w.char[u].alive
  THEN ChooseNextAction(Threatened(w, c, u), c, found, again)
  ELSE Threatened(w, c, u)

Asked(w, c, u, help) ==
  IF w.npc[c].state \in {"prepare", "idle"} /\ help \in Helpers(w, c) THEN Post(w, "assist", help, u) ELSE w

\* dealDamage: threat first, then the combat state's onDamage; it may kill.
Untagged(w, c, u) == w
Tagged(w, c, u) ==
  IF w.npc[c].state = "combat" /\ w.npc[c].tagged = {} THEN [w EXCEPT !.npc[c].tagged = {u}] ELSE w
Killed(w, c) == [SetState([w EXCEPT !.npc[c].victim = NoUnit], c, "death") EXCEPT !.npc[c].held = {}]

\* An evading creature cannot be hit.  The attacker of a periodic damage may
\* be dead.
DealDamage(c, u, kills) ==
  /\ npc[c].state \in {"prepare", "idle", "combat"} /\ char[u].here
  /\ \E help \in Helpers(Now, c) \union {c}, again \in BOOLEAN :
       LET asked == Asked(Now, c, u, help)
       IN  \E found \in Findable(Threatened(asked, c, u), c) :
             LET hurt == Tagged(Threaten(asked, c, u, found, again), c, u)
             IN  SetTo(IF kills THEN Killed(hurt, c) ELSE hurt)

\* A heal of u is threat for the healer.
HealThreat(c, u, healer) ==
  /\ npc[c].state = "combat" /\ u \in npc[c].threat /\ char[healer].here
  /\ \E found \in Findable(WithThreat(Now, c, healer), c), again \in BOOLEAN :
       SetTo(Threaten(Now, c, healer, found, again))

\* The idle state's watcher: a character comes near, or a friend has a victim.
Aggro(c, u) ==
  /\ npc[c].state = "idle" /\ char[u].here /\ char[u].alive
  /\ SetTo(EnterCombat(Now, c, u))

-----------------------------------------------------------------------------
(* Timers and posted functions. *)

NextAction(c) ==
  /\ npc[c].state = "combat" /\ npc[c].armed
  /\ LET rung == [Now EXCEPT !.npc[c].armed = FALSE]
     IN  \E found \in Findable(rung, c), again \in BOOLEAN : SetTo(ChooseNextAction(rung, c, found, again))

Prepared(c) == npc[c].state = "prepare" /\ SetTo(SetState(Now, c, "idle"))

\* The creature arrives and nothing follows.
HomeReachedOnly(c) == npc[c].state = "reset" /\ SetTo(Now)
\* A posted function runs before the mover can arrive again.
OnWayHome(c) ==
  /\ npc[c].state = "reset"
  /\ \A i \in DOMAIN posted : ~(posted[i].call = "idle" /\ posted[i].npc = c)
HomeReached(c) == OnWayHome(c) /\ SetTo(Post(Now, "idle", c, NoUnit))

\* moveTo finds no path, at once or when it is called again on the way; nobody
\* asks what it returns, and no timer tries again.
NoPathHome(c) == OnWayHome(c) /\ SetTo(SetState(Now, c, "stranded"))

RunPosted ==
  /\ posted # <<>>
  /\ LET f == Head(posted)
         rest == [Now EXCEPT !.posted = Tail(@)]
     IN  \/ f.call = "expired" /\ SetTo(rest)
         \/ /\ f.call = "dangling" /\ dangling' = TRUE
            /\ posted' = Tail(posted) /\ UNCHANGED <<npc, char>>
         \/ /\ f.call = "idle" /\ SetTo(SetState(rest, f.npc, "idle"))
         \/ /\ f.call = "choose"
            /\ \E found \in Findable(rest, f.npc), again \in BOOLEAN :
                 SetTo(ChooseNextAction(rest, f.npc, found, again))
         \/ /\ f.call = "assist"
            /\ \E found \in Findable(Threatened(rest, f.npc, f.unit), f.npc), again \in BOOLEAN :
                 SetTo(Threaten(rest, f.npc, f.unit, found, again))

\* The creature is sent too far from home, by fear as well: moveTo, as its target
\* or its speed changes.
Leash(c) == npc[c].state = "combat" /\ "Stunned" \notin npc[c].held /\ SetTo(Reset(Now, c))

-----------------------------------------------------------------------------
(* Stuns, roots, fear, and triggers that stop combat movement. *)

HoldOn(c, h) ==
  /\ npc[c].state \in {"prepare", "idle", "combat"} /\ h \notin npc[c].held
  /\ LET held == [Now EXCEPT !.npc[c].held = @ \union {h}]
     IN  IF npc[c].state # "combat" THEN SetTo(held)
         ELSE IF h = "Rooted"
              THEN \E found \in Findable(held, c), again \in BOOLEAN : SetTo(ChooseNextAction(held, c, found, again))
              ELSE SetTo([held EXCEPT !.npc[c].victim = NoUnit])

\* The fight is not resumed.
HoldOffUnheard(c, h) == h \in npc[c].held /\ SetTo([Now EXCEPT !.npc[c].held = @ \ {h}])
HoldOff(c, h) ==
  /\ h \in npc[c].held
  /\ LET free == [Now EXCEPT !.npc[c].held = @ \ {h}]
     IN  IF npc[c].state # "combat" THEN SetTo(free)
         ELSE \E found \in Findable(free, c), again \in BOOLEAN : SetTo(ChooseNextAction(free, c, found, again))

SetCombatMovement(c, moves) ==
  /\ npc[c].state \in {"prepare", "idle", "combat"} /\ moves # npc[c].moves
  /\ LET set == [Now EXCEPT !.npc[c].moves = moves]
     IN  IF npc[c].state # "combat" THEN SetTo(set)
         ELSE IF ~moves THEN SetTo([set EXCEPT !.npc[c].victim = NoUnit])
         ELSE \E found \in Findable(set, c), again \in BOOLEAN : SetTo(ChooseNextAction(set, c, found, again))

-----------------------------------------------------------------------------
(* Creatures and characters come and go. *)

Orphaned(w, named(_)) ==
  [w EXCEPT !.posted = [i \in DOMAIN @ |-> IF named(@[i]) THEN [@[i] EXCEPT !.call = "dangling"] ELSE @[i]]]

Spawn(c) == npc[c].state = "none" /\ SetTo([Now EXCEPT !.npc[c] = [NotThere EXCEPT !.state = "prepare"]])

CreatureDespawns(c) ==
  /\ npc[c].state # "none"
  /\ LET left == SetState(Now, c, "none")
     IN  SetTo(Orphaned([left EXCEPT !.npc[c] = NotThere], LAMBDA f : f.call # "expired" /\ f.npc = c))

CharacterEnters(u, alive) ==
  ~char[u].here /\ SetTo([Now EXCEPT !.char[u] = [Away EXCEPT !.here = TRUE, !.alive = alive]])

CharacterLeaves(u) ==
  /\ char[u].here
  /\ \E found \in Finds(Dropped(Now, u), DroppedBy(Now, u)), again \in BOOLEAN :
       LET alone == Chosen(Dropped(Now, u), u, DroppedBy(Now, u), found, again)
       IN  SetTo(Orphaned([alone EXCEPT !.char[u] = Away], LAMBDA f : f.call = "assist" /\ f.unit = u))

CharacterDies(u) ==
  /\ char[u].here /\ char[u].alive
  /\ Forsake([Now EXCEPT !.char[u].alive = FALSE, !.char[u].inCombat = FALSE], u)

Revive(u) == char[u].here /\ ~char[u].alive /\ SetTo([Now EXCEPT !.char[u].alive = TRUE])

\* Two characters fight each other; the flag of both lasts some seconds.
Duel(u, v) ==
  /\ u # v /\ char[u].here /\ char[u].alive /\ char[v].here
  /\ SetTo([Now EXCEPT !.char = [x \in Unit |->
       IF x \in {u, v} THEN [@[x] EXCEPT !.inCombat = TRUE, !.pvp = TRUE] ELSE @[x]]])
DuelOver(u) == char[u].pvp /\ SetTo([Now EXCEPT !.char[u].pvp = FALSE])

Regenerate(u) ==
  /\ char[u].here /\ char[u].alive /\ char[u].inCombat /\ ~char[u].pvp /\ char[u].attackers = {}
  /\ SetTo([Now EXCEPT !.char[u].inCombat = FALSE])

-----------------------------------------------------------------------------

Fighting ==
  \E c \in Creature :
    \/ \E u \in Unit : (\E kills \in BOOLEAN : DealDamage(c, u, kills)) \/ Aggro(c, u) \/ (\E v \in Unit : HealThreat(c, u, v))
    \/ NextAction(c) \/ Leash(c)
    \/ \E h \in Hold : HoldOn(c, h) \/ HoldOff(c, h)
    \/ \E moves \in BOOLEAN : SetCombatMovement(c, moves)
Life ==
  \/ \E c \in Creature : Spawn(c) \/ CreatureDespawns(c) \/ Prepared(c) \/ HomeReached(c) \/ NoPathHome(c)
  \/ \E u \in Unit :
       \/ (\E alive \in BOOLEAN : CharacterEnters(u, alive)) \/ CharacterLeaves(u) \/ CharacterDies(u) \/ Revive(u) \/ DuelOver(u) \/ Regenerate(u)
       \/ \E v \in Unit : Duel(u, v)

CombatNext == ~dangling /\ (Fighting \/ Life \/ RunPosted)
CombatSpec == CombatInit /\ [][CombatNext]_combatVars

\* Posted functions run, and a movement that has a path ends.
CombatFairness ==
  /\ WF_combatVars(~dangling /\ RunPosted)
  /\ \A c \in Creature : WF_combatVars(~dangling /\ HomeReached(c))

-----------------------------------------------------------------------------
(* Properties. *)

(* A creature is among the attackers of a character exactly while it fights
   and has the character on its threat list: what addAttackingUnit and
   removeAttackingUnit ASSERT, and what keeps a player from staying in combat
   with a creature that is gone. *)
AttackersAgree ==
  \A c \in Creature, u \in Unit : c \in char[u].attackers <=> u \in npc[c].threat

(* Only a fighting creature has a list and a victim, the victim is on the
   list, and everyone on it is in the world, alive and in combat; nothing
   points to a character that has left (updateVictim, onVictimKilled). *)
VictimIsEnemy ==
  \A c \in Creature :
    /\ npc[c].state # "combat" => npc[c].threat = {} /\ npc[c].victim = NoUnit
    /\ npc[c].victim # NoUnit => npc[c].victim \in npc[c].threat
    /\ \A u \in npc[c].threat : char[u].here /\ char[u].alive /\ char[u].inCombat

(* Both ends of every fight know of it, and of nothing else
   (addAttackingUnit, CreatureAICombatState). *)
EnemiesAgree == AttackersAgree /\ VictimIsEnemy

(* A creature without an enemy does not go on fighting: unless it is held, or
   a trigger stopped its movement, the choice that sends it home is still to
   come (chooseNextAction). *)
FightHasReason ==
  \A c \in Creature :
    npc[c].state = "combat" /\ npc[c].threat = {} /\ npc[c].held = {} /\ npc[c].moves =>
      \E i \in DOMAIN posted : posted[i].call = "choose" /\ posted[i].npc = c

(* Whoever kills a creature, someone is entitled to its loot: also when the
   first blow kills it, or hits it before it is ready (dealDamage, onDamage). *)
KillIsTagged == \A c \in Creature : npc[c].state = "death" => npc[c].tagged # {}

(* A fight goes on for a reason and ends with someone who has a right to the
   loot, in whatever order holds, blows, flights and deaths come
   (onStunStateChanged, onDamage). *)
FightsKept == FightHasReason /\ KillIsTagged

(* An evading creature gets home and is idle again, or is removed, unless its
   way home has no path: then it is stranded, and nothing is promised
   (CreatureAIResetState::onEnter). *)
EvadeEnds ==
  \A c \in Creature :
    npc[c].state = "reset" ~> npc[c].state \in {"idle", "none", "stranded"} \/ dangling
=============================================================================
