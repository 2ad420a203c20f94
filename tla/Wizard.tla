-------------------------------- MODULE Wizard --------------------------------
(* The create wizard: the step reducer, the validation effect, and the mint    *)
(* flow that prepares metadata, simulates and only then opens the wallet,      *)
(* while the user walks back and edits and representations are delisted and    *)
(* relisted on the chain the mint will run on. A render that throws, like a    *)
(* reducer that does, takes the page down. Weights are in units of which       *)
(* UnitsPerBps make a basis point: an input yields fractions.                  *)
EXTENDS TransactionFlow, CompositionRules

CONSTANTS AvailableAssets,   \* the assets listed, [asset, rep]
          WeightInputs,      \* weights typed, in units
          UnitsPerBps,
          MaxDelisted,       \* bound: representations delisted at once
          MaxMints           \* bound: presses of Mint

ASSUME WizardAssumption == /\ WeightInputs \subseteq Nat /\ UnitsPerBps \in Nat \ {0}
                           /\ BpsTotal % UnitsPerBps = 0 /\ {MaxDelisted, MaxMints} \subseteq Nat
                           /\ Wad >= BpsTotal * BpsTotal   \* 10^18 and 10^8

VARIABLES step, named, components, validation, feesAcknowledged,  \* WizardState
          preparing,         \* [pc, call] of the mint() under way, as a sequence
          prepError, mints,
          active,            \* the chain: which representations are active
          validated, acked,  \* auxiliary: this composition was found valid, its fees acknowledged
          pressed            \* auxiliary: the last press of Mint
wizardState == <<step, named, components, validation, feesAcknowledged>>
ghosts == <<validated, acked, pressed>>
mintVars == <<preparing, prepError, mints>>
wizardVars == <<txVars, wizardState, mintVars, active, ghosts>>

WIZARD_STEPS == <<"basic-info", "assets", "weights", "validation", "preview", "fees", "mint">>
StepIndex(s) == CHOOSE i \in DOMAIN WIZARD_STEPS : WIZARD_STEPS[i] = s
Up == step # "crashed" /\ flow # "crashed"

\* The registry as NFFC.mint and the lookup read it.
Lookup == [active |-> active,
           assetOf |-> [r \in {a.rep : a \in AvailableAssets} |->
                          (CHOOSE a \in AvailableAssets : a.rep = r).asset]]

\* computeCompositionHash: a fraction cannot be encoded as a uint16, and throws.
Encodable(comps) == \A i \in DOMAIN comps : comps[i].weight % UnitsPerBps = 0

WizardInit ==
  /\ TxInit
  /\ step = "basic-info" /\ named = FALSE /\ components = <<>>
  /\ validation = "none" /\ feesAcknowledged = FALSE
  /\ preparing = <<>> /\ prepError = FALSE /\ mints = 0
  /\ active = {a.rep : a \in AvailableAssets}
  /\ validated = FALSE /\ acked = FALSE /\ pressed = <<>>

----------------------------------------------------------------------------
CanAdvance(at) ==
  CASE at = "basic-info" -> named
    [] at \in {"assets", "weights"} -> components # <<>>
    [] at = "validation" -> validation = "ok"
    [] at = "preview" -> TRUE
    [] at = "fees" -> feesAcknowledged
    [] at = "mint" -> FALSE

\* NEXT: a step that may not be left throws; the preview throws as it renders.
StepAfter(at) ==
  IF ~CanAdvance(at) THEN "crashed"
  ELSE LET to == WIZARD_STEPS[StepIndex(at) + 1] IN
       IF to = "preview" /\ ~Encodable(components) THEN "crashed" ELSE to

SubmitBasicInfo ==
  /\ Up /\ step = "basic-info"
  /\ named' = TRUE /\ step' = "assets"
  /\ UNCHANGED <<txVars, components, validation, feesAcknowledged, mintVars, active, ghosts>>

\* Mutant of Reset: an edit leaves the verdict.
ResetFees(verdict) == verdict
Reset(verdict) == "none"

Edited(comps) == /\ components' = comps
                 /\ validation' = Reset(validation) /\ feesAcknowledged' = FALSE
                 /\ validated' = FALSE /\ acked' = FALSE
                 /\ UNCHANGED <<txVars, step, named, mintVars, active, pressed>>
Selected(rep) == \E i \in DOMAIN components : components[i].rep = rep

AddAsset(a) ==
  /\ Up /\ step = "assets" /\ ~Selected(a.rep)
  /\ Edited(Append(components, [asset |-> a.asset, rep |-> a.rep, weight |-> 0]))
RemoveAsset(rep) ==                  \* no representation is selected twice
  /\ Up /\ step = "assets"
  /\ \E k \in DOMAIN components :
       /\ components[k].rep = rep
       /\ Edited(SubSeq(components, 1, k - 1) \o SubSeq(components, k + 1, Len(components)))
SetWeight(rep, w) ==
  /\ Up /\ step = "weights" /\ Selected(rep)
  /\ Edited([i \in DOMAIN components |-> IF components[i].rep = rep
               THEN [components[i] EXCEPT !.weight = w] ELSE components[i]])

\* The buttons that dispatch NEXT alone; each is there when its step shows it.
ContinueStep ==
  /\ Up /\ \/ step = "assets" /\ components # <<>>
           \/ step = "weights"
           \/ step = "validation" /\ validation = "ok"
           \/ step = "preview"
  /\ step' = StepAfter(step)
  /\ UNCHANGED <<txVars, named, components, validation, feesAcknowledged, mintVars, active, ghosts>>

\* The effect of Step 4.
Validate ==
  /\ Up /\ step = "validation" /\ validation = "none"
  /\ validation' = IF Validates(components, Lookup) THEN "ok" ELSE "issues"
  /\ validated' = (validated \/ Validates(components, Lookup))
  /\ UNCHANGED <<txVars, step, named, components, feesAcknowledged, mintVars, active, acked, pressed>>

\* "Continue to mint": ACKNOWLEDGE_FEES, then NEXT.
AcknowledgeFees ==
  /\ Up /\ step = "fees"
  /\ feesAcknowledged' = TRUE /\ step' = "mint"
  /\ acked' = TRUE
  /\ UNCHANGED <<txVars, named, components, validation, mintVars, active, validated, pressed>>

MayGoto(from, to) == StepIndex(to) <= StepIndex(from)
Goto(to) ==
  /\ Up /\ to # step /\ MayGoto(step, to)
  /\ step' = IF to = "preview" /\ ~Encodable(components) THEN "crashed" ELSE to
  /\ UNCHANGED <<txVars, named, components, validation, feesAcknowledged, mintVars, active, ghosts>>

----------------------------------------------------------------------------
(* mint(): the closure holds the components of the render it was pressed in.   *)
MintEnabled == preparing = <<>> /\ flow \in {"idle", "failed", "rejected"}
Mint ==
  /\ Up /\ step = "mint" /\ MintEnabled /\ mints < MaxMints
  /\ preparing' = Append(preparing, [pc |-> "metadata", call |-> components])
  /\ prepError' = FALSE /\ mints' = mints + 1
  /\ pressed' = [call |-> components, shown |-> acked, valid |-> validated,
                  simulated |-> FALSE]
  /\ UNCHANGED <<txVars, wizardState, active, validated, acked>>

PrepFails == /\ preparing' = Tail(preparing) /\ prepError' = TRUE
             /\ UNCHANGED <<txVars, wizardState, mints, active, ghosts>>

\* prepareMintMetadata: reads of the chain and of prices, and a pin, may fail.
PrepareMetadata ==
  /\ preparing # <<>> /\ Head(preparing).pc = "metadata"
  /\ \/ /\ preparing' = [preparing EXCEPT ![1].pc = "simulation"]
        /\ UNCHANGED <<txVars, wizardState, prepError, mints, active, ghosts>>
     \/ PrepFails

Simulation(call) == MintAccepts(call, Lookup)
\* Mutant of MintCall: the call is built from the components now on screen.
CurrentComponents(call) == components
MintCall(call) == call

SimulateMint ==
  /\ preparing # <<>> /\ Head(preparing).pc = "simulation"
  /\ LET call == Head(preparing).call IN
     \/ /\ Simulation(call)
        /\ Request(MintCall(call))
        /\ preparing' = Tail(preparing)
        /\ pressed' = [pressed EXCEPT !.simulated = MintAccepts(call, Lookup)]
        /\ UNCHANGED <<wizardState, prepError, mints, active, validated, acked>>
     \/ ~Simulation(call) /\ PrepFails

Delisted ==
  /\ Cardinality({a.rep : a \in AvailableAssets} \ active) < MaxDelisted
  /\ \E r \in active : active' = active \ {r}
  /\ UNCHANGED <<txVars, wizardState, mintVars, ghosts>>
Relisted ==
  /\ \E r \in {a.rep : a \in AvailableAssets} \ active : active' = active \cup {r}
  /\ UNCHANGED <<txVars, wizardState, mintVars, ghosts>>

\* NFFC.mint runs on the registry of its block.
Mined(i) ==
  /\ Mine(i, IF MintAccepts(sent[i].call, Lookup) THEN "ok" ELSE "reverted")
  /\ UNCHANGED <<wizardState, mintVars, active, ghosts>>

WizardNext ==
  \/ SubmitBasicInfo \/ ContinueStep \/ Validate \/ AcknowledgeFees
  \/ \E a \in AvailableAssets : AddAsset(a) \/ RemoveAsset(a.rep)
                                \/ \E w \in WeightInputs : SetWeight(a.rep, w)
  \/ \E i \in DOMAIN WIZARD_STEPS : Goto(WIZARD_STEPS[i])
  \/ Mint \/ PrepareMetadata \/ SimulateMint
  \/ TxStep /\ UNCHANGED <<wizardState, mintVars, active, ghosts>>
  \/ \E i \in DOMAIN sent : Mined(i)
  \/ Delisted \/ Relisted

WizardSpec == WizardInit /\ [][WizardNext]_wizardVars

----------------------------------------------------------------------------
(* Nothing beyond Step 4 is ever reached with a composition other than the one *)
(* the validator passed, however the user goes back and forth.                 *)
ValidatedBeforePreview == step \in {"preview", "fees", "mint"} => validated

(* The wallet only ever shows a composition that was valid, whose fees were    *)
(* acknowledged and that was simulated, all of that very composition, whatever *)
(* the user edits while the mint is being prepared.                            *)
SignedWasShown ==
  wallet # NoCall =>
    wallet = pressed.call /\ pressed.shown /\ pressed.valid /\ pressed.simulated

(* The validator and the contract agree on every composition a user can put    *)
(* together, whatever the registry.                                            *)
ValidatorMatchesContract == Validates(components, Lookup) <=> MintAccepts(components, Lookup)

(* Taking a unit of weight from a component and giving it to one at least as   *)
(* heavy always makes a composition score higher; scores stay within the scale.*)
Shift(comps, i, j) == [k \in DOMAIN comps |-> comps[k].weight
                         + (IF k = i THEN 1 ELSE 0) - (IF k = j THEN 1 ELSE 0)]
ConcentrationPays ==
  step = "preview" =>
    /\ Score(Weights(components)) \in 0..Wad
    /\ \A i, j \in DOMAIN components :
         i # j /\ components[i].weight >= components[j].weight /\ components[j].weight > 1 =>
           Score(Shift(components, i, j)) > Score(Weights(components))
=============================================================================
