-------------------------- MODULE CompositionRules --------------------------
(* The rules of a composition, as the contract applies them at mint            *)
(* (NFFC.sol, CompositionSegmentLib, StaticRarityLib) and as the web and the   *)
(* domain restate them (validate-composition.ts, segment.ts, rarity.ts). A     *)
(* composition is a sequence of [asset, rep, weight]; a lookup is a record     *)
(* [active, assetOf] of the registry's answers.                                *)
EXTENDS Integers, Sequences, FiniteSets, Functions

CONSTANTS MaxComponents,  \* 20 in the code
          BpsTotal,       \* 10 000 in the code
          Wad             \* 10^18 in the code

ASSUME RulesAssumption == MaxComponents \in Nat /\ MaxComponents > 1 /\ BpsTotal \in Nat \ {0}
                          /\ Wad \in Nat

Weights(comps) == [i \in DOMAIN comps |-> comps[i].weight]
WeightSum(comps) == SumFunction(Weights(comps))

----------------------------------------------------------------------------
(* NFFC.mint's loop: what makes it revert before anything is written.          *)
DistinctAssets(comps) == \A i, j \in DOMAIN comps : comps[i].asset = comps[j].asset => i = j

\* Mutant of Resolves: a registered representation is enough.
ResolvesSomewhere(lookup, rep, asset) == rep \in DOMAIN lookup.assetOf
Resolves(lookup, rep, asset) == rep \in DOMAIN lookup.assetOf /\ lookup.assetOf[rep] = asset

MintAccepts(comps, lookup) ==
  /\ Len(comps) \in 1..MaxComponents                                        \* I1
  /\ DistinctAssets(comps)                                                  \* I3
  /\ \A i \in DOMAIN comps :
       /\ comps[i].weight > 0                                               \* I4
       /\ comps[i].rep \in lookup.active                                    \* I5
       /\ Resolves(lookup, comps[i].rep, comps[i].asset)                    \* I6
  /\ WeightSum(comps) = BpsTotal                                            \* I2

(* validateComposition: the set of issues, each with the component it names    *)
(* (0: the composition as a whole); no issue means ok.                         *)
\* Mutant of SeenBefore: the set of seen assets is never filled.
SeenNever(comps, i) == FALSE
SeenBefore(comps, i) == \E j \in 1..i-1 : comps[j].asset = comps[i].asset

Issues(comps, lookup) ==
  (IF Len(comps) \in 1..MaxComponents THEN {} ELSE {<<"I1_COMPONENT_COUNT", 0>>})
  \cup {<<"I3_DUPLICATE_ASSET", i>> : i \in {k \in DOMAIN comps : SeenBefore(comps, k)}}
  \cup {<<"I4_ZERO_WEIGHT", i>> : i \in {k \in DOMAIN comps : comps[k].weight <= 0}}
  \cup {<<"I5_REPRESENTATION_NOT_ACTIVE", i>> :
          i \in {k \in DOMAIN comps : comps[k].rep \notin lookup.active}}
  \cup {<<"I6_REPRESENTATION_ASSET_MISMATCH", i>> :
          i \in {k \in DOMAIN comps : /\ comps[k].rep \in lookup.active
                                      /\ ~Resolves(lookup, comps[k].rep, comps[k].asset)}}
  \cup (IF comps # <<>> /\ WeightSum(comps) # BpsTotal THEN {<<"I2_WEIGHT_SUM", 0>>} ELSE {})

Validates(comps, lookup) == Issues(comps, lookup) = {}

----------------------------------------------------------------------------
(* CompositionSegmentLib.deriveSegment / segment.ts: from one flag a component.*)
DeriveSegment(isCrypto) ==
  LET anyCrypto == \E i \in DOMAIN isCrypto : isCrypto[i]
      anyStock == \E i \in DOMAIN isCrypto : ~isCrypto[i]
  IN IF anyCrypto /\ anyStock THEN "MIXED"
     ELSE IF anyCrypto THEN "CRYPTO_ONLY" ELSE "STOCK_ONLY"

GeoRestricted(segment) == segment # "CRYPTO_ONLY"          \* SEGMENT_META

(* StaticRarityLib.score / rarity.ts: concentration and count, in fixed point. *)
\* Mutant of Concentration: the normalisation divides before it multiplies.
ConcentrationCoarse(hhi, n) == ((hhi * n) \div (BpsTotal * BpsTotal * (n - 1))) * Wad
Concentration(hhi, n) ==
  LET total == BpsTotal * BpsTotal
      norm == ((hhi * n - total) * Wad) \div (total * (n - 1))
  IN IF hhi * n <= total THEN 0 ELSE IF norm > Wad THEN Wad ELSE norm

Score(weights) ==
  LET n == Len(weights)
      hhi == SumFunction([i \in DOMAIN weights |-> weights[i] * weights[i]])
      countNorm == ((MaxComponents - n) * Wad) \div (MaxComponents - 1)
  IN IF n = 1 THEN Wad ELSE (Concentration(hhi, n) * 3 + countNorm * 2) \div 5
=============================================================================
