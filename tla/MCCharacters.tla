---------------------------- MODULE MCCharacters ----------------------------
(* TLC instance of Characters: what the static data say of the spells.      *)
EXTENDS Characters, TLC

CONSTANTS
  bolt, drain, strike, pick,           \* spells
  skin,                                \* the passive spell of a shape
  stunned, plain                       \* mechanics

MCStoppedBy ==
  bolt :> {"Movement", "Interrupt"} @@ drain :> {"Damage"} @@ strike :> {} @@ pick :> {"Movement", "Damage"}

\* A single-target stun that damage breaks, a stun that ticks at once, a
\* shape with a passive spell and one without, and a ward with stacks.
AuraOf(s, charges, stacks, mechanic, passive, flags) ==
  [baseid |-> s, rank |-> 1, charges |-> charges, stackamount |-> stacks, mechanic |-> mechanic,
   passive |-> passive, is |-> flags]
MCEntry ==
  hex  :> AuraOf(hex, 0, 0, stunned, NoAura, {"SingleTarget", "Lasting", "Stun", "BreakableByDamage"}) @@
  bash :> AuraOf(bash, 0, 0, plain, NoAura, {"Lasting", "Stun", "Root", "Damage", "TicksAtOnce"}) @@
  bear :> AuraOf(bear, 0, 0, plain, skin, {"Positive", "ShapeShift"}) @@
  cat  :> AuraOf(cat, 0, 0, plain, NoAura, {"Positive", "ShapeShift"}) @@
  skin :> AuraOf(skin, 0, 0, plain, NoAura, {"Positive", "Passive"}) @@
  ward :> AuraOf(ward, 1, 2, plain, NoAura, {"Positive", "DeathPersistent"})

\* The spells above meet what CastersKeepOneAura of CharactersProofs needs.
ASSUME MCSpellsApart == SpellsApart

\* The foes of the caster
Symmetry == Permutations(Foe)
=============================================================================
