---------------------------- MODULE WriteSurface ----------------------------
(* A button or form that writes to a contract (buy, make, accept and cancel    *)
(* offers, the admin forms): fields the user edits at any time, useWriteFlow   *)
(* simulating what they held when the button was pressed, then the flow. The   *)
(* simulations and calls are the ones a deployment gives; the repository's own *)
(* stand-ins reject every simulation.                                          *)
EXTENDS TransactionFlow, FiniteSets

CONSTANTS Values, Empty, Preset, \* what a field can hold; nothing; what it holds at first
          Simulates(_),    \* whether a call's simulation passes
          MaxPresses       \* bound: presses of the button

ASSUME SurfaceAssumption == /\ NoCall \notin Calls /\ {MaxSent, MaxPresses} \subseteq Nat
                            /\ NodeMayFail \in BOOLEAN
                            /\ {Empty, Preset} \subseteq Values

(* The surfaces, each by its fields and what they hold at first. Every input   *)
(* is required: the button is disabled, or the browser refuses the submission. *)
BuyButton == [none \in {} |-> Empty]
StatusToggleButton == [none \in {} |-> Empty]
OfferAction == [none \in {} |-> Empty]
MakeOfferForm == [priceEth |-> Empty, durationSeconds |-> Preset]
RegisterRepresentationForm == [assetId |-> Preset, token |-> Empty, decimals |-> Preset]
RegisterAssetForm == [symbol |-> Empty, name |-> Empty, assetClass |-> Preset]
RoyaltyForm == [collectionId |-> Empty, bps |-> Empty]
FeeCurveForm == [base |-> Preset, slope |-> Preset]
MarketplaceFeeForm == [bps |-> Preset]
FeeRecipientForm == [recipient |-> Preset]
Surfaces == {BuyButton, StatusToggleButton, OfferAction, MakeOfferForm,
             RegisterRepresentationForm, RegisterAssetForm, RoyaltyForm, FeeCurveForm,
             MarketplaceFeeForm, FeeRecipientForm}

VARIABLES fields,          \* what the surface's fields hold: once complete, the call
          simulating,      \* the calls being simulated, one per execute under way
          simError, presses,
          passed           \* auxiliary: the calls whose simulation passed
surfaceVars == <<fields, simulating, simError, presses, passed>>
writeVars == <<txVars, surfaceVars>>

Init == /\ TxInit
        /\ fields \in Surfaces /\ simulating = <<>> /\ simError = FALSE /\ presses = 0
        /\ passed = {}

Edit(f, v) == /\ flow # "crashed" /\ v # fields[f] /\ fields' = [fields EXCEPT ![f] = v]
              /\ UNCHANGED <<txVars, simulating, simError, presses, passed>>

Complete(spelling) == \A f \in DOMAIN spelling : spelling[f] # Empty

Pressable(state, busy) == ~busy /\ state \in {"idle", "failed", "rejected"}

(* execute: the closure's call is the one the fields spell now.                *)
Execute ==
  /\ flow # "crashed" /\ presses < MaxPresses
  /\ Complete(fields) /\ Pressable(flow, simulating # <<>>)
  /\ simulating' = Append(simulating, fields)
  /\ simError' = FALSE /\ presses' = presses + 1
  /\ UNCHANGED <<txVars, fields, passed>>

MayRequest(call) == Simulates(call)
Refused(call) == ~Simulates(call)
\* Mutant of CallOf: the call is built from the fields as they now are.
CurrentFields(captured) == fields
CallOf(captured) == captured

SimulationEnds ==
  /\ simulating # <<>>
  /\ LET call == CallOf(Head(simulating)) IN
     \/ /\ MayRequest(Head(simulating)) /\ Complete(call)
        /\ Request(call)
        /\ simError' = FALSE
     \/ /\ Refused(Head(simulating))
        /\ simError' = TRUE
        /\ UNCHANGED txVars
  /\ passed' = IF Simulates(Head(simulating)) THEN passed \cup {Head(simulating)} ELSE passed
  /\ simulating' = Tail(simulating)
  /\ UNCHANGED <<fields, presses>>

Next == \/ (\E f \in DOMAIN fields, v \in Values : Edit(f, v)) \/ Execute \/ SimulationEnds
        \/ TxStep /\ UNCHANGED surfaceVars
        \/ \E i \in DOMAIN sent, o \in {"ok", "reverted"} : Mine(i, o) /\ UNCHANGED surfaceVars

(* A simulation returns, the effects run, and a transaction is mined; nobody   *)
(* owes the wallet an answer.                                                  *)
Fairness == /\ WF_writeVars(SimulationEnds)
            /\ WF_writeVars(HookStep /\ UNCHANGED surfaceVars)
            /\ \A i \in 1..MaxSent :
                 WF_writeVars(i \in DOMAIN sent /\ (\E o \in {"ok", "reverted"} : Mine(i, o))
                              /\ UNCHANGED surfaceVars)
Spec == Init /\ [][Next]_writeVars
FairSpec == Spec /\ Fairness

----------------------------------------------------------------------------
TypeOK == /\ TxTypeOK
          /\ fields \in [DOMAIN fields -> Values] /\ simulating \in Seq(Calls)
          /\ passed \subseteq Calls /\ presses \in 0..MaxPresses

(* The wallet is only ever asked to sign a call whose simulation passed, as    *)
(* the user spelled it, however the fields are edited meanwhile.               *)
SignedWasSimulated == wallet # NoCall => wallet \in passed /\ Simulates(wallet)
=============================================================================
