-------------------------- MODULE WebWrites_proofs --------------------------
(* The web's writes, for any calls, surfaces, assets and number of presses: a  *)
(* flow that says success has its transaction on the chain, and what the       *)
(* wallet shows is what was agreed to; the rules of a composition are the      *)
(* contract's, and its score pays for concentration.                           *)
EXTENDS MCWeb, Sums_proofs

Outcomes == {"pending", "ok", "reverted"}

Txs(T) == [call : T, status : Outcomes]

(* The flow, the wallet and the transactions agree.                            *)
TxIInv ==
  /\ \E T : sent \in Seq(Txs(T))
  /\ wallet # NoCall => flow \in {"signing", "crashed"}
  /\ flow \in {"submitted", "confirming", "success"} => hash = Len(sent) /\ Len(sent) > 0
  /\ SuccessIsOnChain

LEMMA Dispatches ==
  /\ \A f : Dispatch(Dispatch(f, "REQUEST_WALLET"), "SIGN") \in {"signing", "crashed"}
  /\ \A f \in {"signing", "crashed"} :
       /\ Dispatch(f, "REJECT") \in {"rejected", "crashed"} /\ Dispatch(f, "FAIL") \in {"failed", "crashed"}
       /\ Dispatch(f, "SUBMIT") \in {"submitted", "crashed"}
  /\ Dispatch("submitted", "CONFIRM") = "confirming"
  /\ Dispatch("confirming", "SUCCEED") = "success" /\ Dispatch("confirming", "FAIL") = "failed"
  BY DEF Dispatch, Transitions

LEMMA TxInitHolds == TxInit => TxIInv
  BY DEF TxInit, TxIInv, SuccessIsOnChain

LEMMA RequestKeeps == ASSUME TxIInv, NEW c, Request(c) PROVE TxIInv'
  <1>1. flow' \in {"signing", "crashed"} /\ sent' = sent
    BY Dispatches DEF Request
  <1> QED BY <1>1 DEF TxIInv, SuccessIsOnChain

LEMMA SeqWidens == ASSUME NEW S, NEW U, S \subseteq U, NEW q \in Seq(S) PROVE q \in Seq(U)
  <1>1. Len(q) \in Nat /\ q \in [1..Len(q) -> U]
    OBVIOUS
  <1> QED BY <1>1

LEMMA SeqReplaces ==
  ASSUME NEW S, NEW q \in Seq(S), NEW k \in DOMAIN q, NEW x \in S
  PROVE  /\ [q EXCEPT ![k] = x] \in Seq(S) /\ Len([q EXCEPT ![k] = x]) = Len(q)
         /\ \A i \in 1..Len(q) : [q EXCEPT ![k] = x][i] = IF i = k THEN x ELSE q[i]
  <1> DEFINE r == [q EXCEPT ![k] = x]
  <1>1. Len(q) \in Nat /\ r \in [1..Len(q) -> S]
        /\ \A i \in 1..Len(q) : r[i] = IF i = k THEN x ELSE q[i]
    OBVIOUS
  <1> HIDE DEF r
  <1>2. r \in Seq(S) /\ Len(r) = Len(q)
    BY <1>1
  <1> QED BY <1>1, <1>2 DEF r

(* A signed call is the newest transaction.                                    *)
LEMMA SignsKeeps == ASSUME TxIInv, WalletSigns PROVE TxIInv'
  <1>1. PICK T : sent \in Seq(Txs(T))
    BY DEF TxIInv
  <1>2. /\ wallet' = NoCall /\ hash' = Len(sent) + 1 /\ flow' \in {"submitted", "crashed"}
        /\ sent' = Append(sent, [call |-> wallet, status |-> "pending"])
    BY Dispatches DEF WalletSigns, HashAfter, TxIInv
  <1> DEFINE tx == [call |-> wallet, status |-> "pending"]
  <1>3. PICK U : U = T \cup {wallet}
    OBVIOUS
  <1>4. Txs(T) \subseteq Txs(U) /\ tx \in Txs(U)
    BY <1>3 DEF Txs, Outcomes
  <1> HIDE DEF tx
  <1>5. sent \in Seq(Txs(U))
    BY <1>1, <1>4, SeqWidens
  <1>6. sent' \in Seq(Txs(U)) /\ Len(sent') = Len(sent) + 1 /\ Len(sent') > 0
    BY <1>2, <1>4, <1>5 DEF tx
  <1> QED BY <1>2, <1>6 DEF TxIInv, SuccessIsOnChain

LEMMA TxStepKeeps == ASSUME TxIInv, TxStep PROVE TxIInv'
  <1>1. CASE WalletRejects \/ WalletFails
    <2>1. wallet' = NoCall /\ flow' \in {"rejected", "failed", "crashed"} /\ UNCHANGED <<sent, hash>>
      BY <1>1, Dispatches DEF WalletRejects, WalletFails, TxIInv
    <2> QED BY <2>1 DEF TxIInv, SuccessIsOnChain
  <1>2. CASE Confirming
    <2>1. flow = "submitted" /\ flow' = "confirming" /\ UNCHANGED <<wallet, sent, hash>>
      BY <1>2, Dispatches DEF Confirming
    <2> QED BY <2>1 DEF TxIInv, SuccessIsOnChain
  <1>3. CASE ReceiptArrives
    <2>1. /\ flow = "confirming" /\ UNCHANGED <<wallet, sent, hash>>
          /\ \/ flow' = "failed"
             \/ flow' = "success" /\ sent[hash].status = "ok"
      BY <1>3, Dispatches DEF ReceiptArrives, ReceiptOf
    <2> QED BY <2>1 DEF TxIInv, SuccessIsOnChain
  <1>4. CASE ReceiptFails
    <2>1. flow = "confirming" /\ flow' = "failed" /\ UNCHANGED <<wallet, sent, hash>>
      BY <1>4, Dispatches DEF ReceiptFails
    <2> QED BY <2>1 DEF TxIInv, SuccessIsOnChain
  <1> QED BY <1>1, <1>2, <1>3, <1>4, SignsKeeps DEF TxStep, WalletStep, HookStep

(* Mining settles what is pending and nothing else.                            *)
LEMMA MineKeeps ==
  ASSUME TxIInv, NEW i \in DOMAIN sent, NEW o \in {"ok", "reverted"}, Mine(i, o) PROVE TxIInv'
  <1>1. PICK T : sent \in Seq(Txs(T))
    BY DEF TxIInv
  <1>2. /\ sent[i].status = "pending" /\ UNCHANGED <<flow, wallet, hash>>
        /\ sent' = [sent EXCEPT ![i].status = o]
    BY DEF Mine
  <1> DEFINE tx == [sent[i] EXCEPT !.status = o]
  <1>3. sent' = [sent EXCEPT ![i] = tx]
    BY <1>2
  <1>4. sent[i] \in Txs(T)
    BY <1>1
  <1>5. tx \in Txs(T)
    BY <1>4 DEF Txs, Outcomes
  <1> HIDE DEF tx
  <1>6. /\ sent' \in Seq(Txs(T)) /\ Len(sent') = Len(sent) /\ Len(sent) \in Nat
        /\ \A k \in 1..Len(sent) : k # i => sent'[k] = sent[k]
    BY <1>1, <1>3, <1>5, SeqReplaces
  <1>7. flow = "success" => i # Len(sent) /\ Len(sent) > 0
    BY <1>2 DEF TxIInv, SuccessIsOnChain
  <1>8. SuccessIsOnChain'
    BY <1>2, <1>6, <1>7 DEF TxIInv, SuccessIsOnChain
  <1> QED BY <1>2, <1>6, <1>8 DEF TxIInv

LEMMA TxStutters == ASSUME TxIInv, UNCHANGED txVars PROVE TxIInv'
  BY DEF TxIInv, SuccessIsOnChain, txVars

----------------------------------------------------------------------------
(* A write surface: what reached the wallet passed its simulation.             *)
SurfaceIInv == TxIInv /\ SignedWasSimulated

LEMMA SurfaceStep == SurfaceIInv /\ [Next]_writeVars => SurfaceIInv'
  <1> SUFFICES ASSUME SurfaceIInv, [Next]_writeVars PROVE SurfaceIInv'
    OBVIOUS
  <1>1. ASSUME NEW f \in DOMAIN fields, NEW v \in Values, Edit(f, v) PROVE SurfaceIInv'
    BY <1>1, TxStutters DEF Edit, SurfaceIInv, SignedWasSimulated, txVars
  <1>2. CASE Execute
    BY <1>2, TxStutters DEF Execute, SurfaceIInv, SignedWasSimulated, txVars
  <1>3. CASE SimulationEnds
    <2> DEFINE call == Head(simulating)
    <2>1. passed' = IF Simulates(call) THEN passed \cup {call} ELSE passed
      BY <1>3 DEF SimulationEnds
    <2>2. CASE MayRequest(call) /\ Request(call)
      BY <2>1, <2>2, RequestKeeps DEF MayRequest, Request, SurfaceIInv, SignedWasSimulated
    <2>3. CASE UNCHANGED txVars
      BY <2>1, <2>3, TxStutters DEF txVars, SurfaceIInv, SignedWasSimulated
    <2> QED BY <1>3, <2>2, <2>3 DEF SimulationEnds, CallOf
  <1>4. CASE TxStep /\ UNCHANGED surfaceVars
    <2>1. wallet' \in {wallet, NoCall}
      BY <1>4 DEF TxStep, WalletStep, HookStep, WalletRejects, WalletFails, WalletSigns, Confirming,
                  ReceiptArrives, ReceiptFails
    <2> QED BY <1>4, <2>1, TxStepKeeps DEF surfaceVars, SurfaceIInv, SignedWasSimulated
  <1>5. ASSUME NEW i \in DOMAIN sent, NEW o \in {"ok", "reverted"}, Mine(i, o), UNCHANGED surfaceVars
        PROVE  SurfaceIInv'
    BY <1>5, MineKeeps DEF Mine, surfaceVars, SurfaceIInv, SignedWasSimulated
  <1>6. CASE UNCHANGED writeVars
    BY <1>6, TxStutters DEF writeVars, txVars, surfaceVars, SurfaceIInv, SignedWasSimulated
  <1> QED BY <1>1, <1>2, <1>3, <1>4, <1>5, <1>6 DEF Next

(* On every write surface the wallet is only asked for calls that passed their *)
(* simulation, and success means the transaction is on the chain (useWriteFlow,*)
(* transaction-flow.ts).                                                       *)
THEOREM SurfacesAgreed == Spec => [](SignedWasSimulated /\ SuccessIsOnChain)
  <1>1. Init => SurfaceIInv
    BY TxInitHolds DEF Init, TxInit, SurfaceIInv, SignedWasSimulated
  <1>2. SurfaceIInv => SignedWasSimulated /\ SuccessIsOnChain
    BY DEF SurfaceIInv, TxIInv
  <1> QED BY <1>1, <1>2, SurfaceStep, PTL DEF Spec

----------------------------------------------------------------------------
(* The wizard: what its steps have seen, and the mint being prepared.          *)
StepNames == {"basic-info", "assets", "weights", "validation", "preview", "fees", "mint"}
StepsOK ==
  /\ step \in StepNames \cup {"crashed"}
  /\ validated \in BOOLEAN /\ acked \in BOOLEAN
  /\ validation = "ok" => validated
  /\ ValidatedBeforePreview
  /\ step = "mint" => acked

PreparingOK ==
  preparing # <<>> =>
    /\ wallet = NoCall /\ flow \in {"idle", "failed", "rejected"}
    /\ \E pc, c : /\ preparing = <<[pc |-> pc, call |-> c]>>
                  /\ pressed = [call |-> c, shown |-> TRUE, valid |-> TRUE, simulated |-> FALSE]

WizardIInv == TxIInv /\ StepsOK /\ PreparingOK /\ SignedWasShown

LEMMA StepIndices ==
  /\ StepIndex("basic-info") = 1 /\ StepIndex("assets") = 2 /\ StepIndex("weights") = 3
  /\ StepIndex("validation") = 4 /\ StepIndex("preview") = 5 /\ StepIndex("fees") = 6
  /\ StepIndex("mint") = 7
  <1>1. DOMAIN WIZARD_STEPS = 1..7
    BY DEF WIZARD_STEPS
  <1>2. \A i \in 1..7 : /\ WIZARD_STEPS[i] = "basic-info" <=> i = 1
                        /\ WIZARD_STEPS[i] = "assets" <=> i = 2
                        /\ WIZARD_STEPS[i] = "weights" <=> i = 3
                        /\ WIZARD_STEPS[i] = "validation" <=> i = 4
                        /\ WIZARD_STEPS[i] = "preview" <=> i = 5
                        /\ WIZARD_STEPS[i] = "fees" <=> i = 6
                        /\ WIZARD_STEPS[i] = "mint" <=> i = 7
    BY DEF WIZARD_STEPS
  <1> QED BY <1>1, <1>2 DEF StepIndex

(* Each button leads to the next step, and from Step 4 only with a verdict.    *)
LEMMA Continues ==
  ASSUME ContinueStep, StepsOK, UNCHANGED <<validation, validated, acked>>
  PROVE  StepsOK'
  <1>1. /\ WIZARD_STEPS[3] = "weights" /\ WIZARD_STEPS[4] = "validation" /\ WIZARD_STEPS[5] = "preview"
        /\ WIZARD_STEPS[6] = "fees"
    BY DEF WIZARD_STEPS
  <1>2. /\ step \in {"assets", "weights", "validation", "preview"} /\ step' = StepAfter(step)
        /\ step = "validation" => validation = "ok"
    BY DEF ContinueStep
  <1>3. step' \in {"crashed", "weights", "validation", "preview", "fees"}
        /\ (step' \in {"preview", "fees"} => step \in {"validation", "preview"})
    BY <1>1, <1>2, StepIndices DEF StepAfter
  <1>4. step' \in {"preview", "fees"} => validated
    BY <1>2, <1>3 DEF StepsOK, ValidatedBeforePreview
  <1> QED BY <1>3, <1>4 DEF StepsOK, ValidatedBeforePreview, StepNames

LEMMA GoesBack ==
  ASSUME NEW to \in StepNames, Goto(to), StepsOK, UNCHANGED <<validation, validated, acked>>
  PROVE  StepsOK'
  <1>1. step \in StepNames
    BY DEF Goto, Up, StepsOK
  <1>2. to # step /\ StepIndex(to) <= StepIndex(step) /\ step' \in {"crashed", to}
    BY DEF Goto, MayGoto
  <1>3. to # "mint" /\ (to \in {"preview", "fees"} => step \in {"preview", "fees", "mint"})
    BY <1>1, <1>2, StepIndices DEF StepNames
  <1> QED BY <1>2, <1>3 DEF StepsOK, ValidatedBeforePreview, StepNames

(* Steps that leave the transactions and the mint under way alone.             *)
LEMMA StepsOnly ==
  ASSUME WizardIInv, StepsOK', UNCHANGED <<txVars, preparing, pressed>> PROVE WizardIInv'
  <1>1. TxIInv'
    BY TxStutters DEF WizardIInv
  <1>2. PreparingOK'
    BY DEF WizardIInv, PreparingOK, txVars
  <1>3. SignedWasShown'
    BY DEF WizardIInv, SignedWasShown, txVars
  <1> QED BY <1>1, <1>2, <1>3 DEF WizardIInv

LEMMA EditsKeep ==
  ASSUME WizardIInv, NEW comps, Edited(comps), step \in {"assets", "weights"}
  PROVE  WizardIInv'
  <1>1. /\ validation' = "none" /\ validated' = FALSE /\ acked' = FALSE
        /\ UNCHANGED <<txVars, step, preparing, pressed>>
    BY DEF Edited, Reset, mintVars
  <1>2. StepsOK'
    BY <1>1 DEF StepsOK, ValidatedBeforePreview, StepNames
  <1> QED BY <1>1, <1>2, StepsOnly

LEMMA PressKeeps == ASSUME WizardIInv, Mint PROVE WizardIInv'
  <1>1. /\ step = "mint" /\ preparing = <<>> /\ flow \in {"idle", "failed", "rejected"}
        /\ preparing' = Append(preparing, [pc |-> "metadata", call |-> components])
        /\ pressed' = [call |-> components, shown |-> acked, valid |-> validated, simulated |-> FALSE]
        /\ UNCHANGED <<txVars, step, validation, validated, acked>>
    BY DEF Mint, MintEnabled, wizardState
  <1>2. acked = TRUE /\ validated = TRUE
    BY <1>1 DEF WizardIInv, StepsOK, ValidatedBeforePreview
  <1>3. wallet = NoCall
    BY <1>1 DEF WizardIInv, TxIInv
  <1>4. PICK c : c = components
    OBVIOUS
  <1>6. preparing' = <<[pc |-> "metadata", call |-> c]>>
    BY <1>1, <1>4
  <1>7. pressed' = [call |-> c, shown |-> TRUE, valid |-> TRUE, simulated |-> FALSE]
    BY <1>1, <1>2, <1>4
  <1>8. wallet' = NoCall /\ flow' \in {"idle", "failed", "rejected"}
    BY <1>1, <1>3 DEF txVars
  <1>5. TxIInv' /\ StepsOK' /\ SignedWasShown'
    BY <1>1, <1>3, TxStutters DEF WizardIInv, StepsOK, ValidatedBeforePreview, SignedWasShown, txVars
  <1> QED BY <1>5, <1>6, <1>7, <1>8 DEF WizardIInv, PreparingOK

(* What a preparation under way holds of the press.                            *)
LEMMA PreparationKeeps == ASSUME WizardIInv, PrepareMetadata \/ SimulateMint PROVE WizardIInv'
  <1>1. preparing # <<>> /\ UNCHANGED <<step, validation, validated, acked>>
    BY DEF PrepareMetadata, SimulateMint, PrepFails, wizardState, ghosts
  <1>2. PICK pc, c : /\ preparing = <<[pc |-> pc, call |-> c]>>
                     /\ pressed = [call |-> c, shown |-> TRUE, valid |-> TRUE, simulated |-> FALSE]
    BY <1>1 DEF WizardIInv, PreparingOK
  <1>3. wallet = NoCall /\ flow \in {"idle", "failed", "rejected"} /\ Head(preparing).call = c
        /\ Tail(preparing) = <<>>
    BY <1>1, <1>2 DEF WizardIInv, PreparingOK
  <1>4. StepsOK'
    BY <1>1 DEF WizardIInv, StepsOK, ValidatedBeforePreview
  <1>5. CASE PrepFails
    <2>1. preparing' = <<>> /\ UNCHANGED txVars
      BY <1>3, <1>5 DEF PrepFails
    <2> QED BY <1>3, <1>4, <2>1, TxStutters DEF WizardIInv, PreparingOK, SignedWasShown, txVars
  <1>6. CASE preparing' = [preparing EXCEPT ![1].pc = "simulation"] /\ UNCHANGED <<txVars, ghosts>>
    <2>1. preparing' = <<[pc |-> "simulation", call |-> c]>> /\ UNCHANGED pressed
      BY <1>2, <1>6 DEF ghosts
    <2> QED BY <1>2, <1>3, <1>4, <1>6, <2>1, TxStutters DEF WizardIInv, PreparingOK, SignedWasShown, txVars
  <1>7. CASE /\ Simulation(c) /\ Request(MintCall(c)) /\ preparing' = Tail(preparing)
             /\ pressed' = [pressed EXCEPT !.simulated = MintAccepts(c, Lookup)]
    <2>1. wallet' = c /\ MintAccepts(c, Lookup) /\ preparing' = <<>>
      BY <1>3, <1>7 DEF Request, MintCall, Simulation
    <2>2. /\ pressed'.call = c /\ pressed'.shown = TRUE /\ pressed'.valid = TRUE
          /\ pressed'.simulated = MintAccepts(c, Lookup)
      BY <1>2, <1>7
    <2>3. TxIInv'
      BY <1>7, RequestKeeps DEF WizardIInv
    <2> QED BY <1>4, <2>1, <2>2, <2>3 DEF WizardIInv, PreparingOK, SignedWasShown
  <1> QED BY <1>3, <1>5, <1>6, <1>7 DEF PrepareMetadata, SimulateMint

LEMMA WizardTxKeeps ==
  ASSUME WizardIInv, TxStep, UNCHANGED <<wizardState, mintVars, active, ghosts>> PROVE WizardIInv'
  <1>1. wallet' \in {wallet, NoCall} /\ (wallet # NoCall \/ flow \in {"submitted", "confirming"})
    BY DEF TxStep, WalletStep, HookStep, WalletRejects, WalletFails, WalletSigns, Confirming,
           ReceiptArrives, ReceiptFails
  <1>2. UNCHANGED <<step, validation, validated, acked, preparing, pressed>>
    BY DEF wizardState, mintVars, ghosts
  <1>3. preparing = <<>>
    BY <1>1 DEF WizardIInv, PreparingOK
  <1>4. TxIInv'
    BY TxStepKeeps DEF WizardIInv
  <1>5. StepsOK' /\ PreparingOK' /\ SignedWasShown'
    BY <1>1, <1>2, <1>3 DEF WizardIInv, StepsOK, ValidatedBeforePreview, PreparingOK, SignedWasShown
  <1> QED BY <1>4, <1>5 DEF WizardIInv

LEMMA WizardMinedKeeps == ASSUME WizardIInv, NEW i \in DOMAIN sent, Mined(i) PROVE WizardIInv'
  <1>1. PICK o \in {"ok", "reverted"} : Mine(i, o)
    BY DEF Mined
  <1>2. UNCHANGED <<step, validation, validated, acked, preparing, pressed, flow, wallet>>
    BY <1>1 DEF Mine, Mined, wizardState, mintVars, ghosts
  <1>3. TxIInv'
    BY <1>1, MineKeeps DEF WizardIInv
  <1>4. StepsOK' /\ PreparingOK' /\ SignedWasShown'
    BY <1>2 DEF WizardIInv, StepsOK, ValidatedBeforePreview, PreparingOK, SignedWasShown
  <1> QED BY <1>3, <1>4 DEF WizardIInv

LEMMA WizardStep == WizardIInv /\ [WizardNext]_wizardVars => WizardIInv'
  <1> SUFFICES ASSUME WizardIInv, [WizardNext]_wizardVars PROVE WizardIInv'
    OBVIOUS
  <1>1. CASE SubmitBasicInfo
    <2>1. /\ step' = "assets" /\ UNCHANGED <<txVars, validation, validated, acked, preparing, pressed>>
      BY <1>1 DEF SubmitBasicInfo, mintVars, ghosts
    <2>2. StepsOK'
      BY <2>1 DEF WizardIInv, StepsOK, ValidatedBeforePreview, StepNames
    <2> QED BY <2>1, <2>2, StepsOnly
  <1>2. CASE ContinueStep
    <2>1. UNCHANGED <<txVars, validation, validated, acked, preparing, pressed>>
      BY <1>2 DEF ContinueStep, mintVars, ghosts
    <2> QED BY <1>2, <2>1, Continues, StepsOnly DEF WizardIInv
  <1>3. CASE Validate
    <2>1. /\ step = "validation" /\ validation' = IF Validates(components, Lookup) THEN "ok" ELSE "issues"
          /\ validated' = (validated \/ Validates(components, Lookup))
          /\ UNCHANGED <<txVars, step, acked, preparing, pressed>>
      BY <1>3 DEF Validate, mintVars
    <2>2. StepsOK'
      BY <2>1 DEF WizardIInv, StepsOK, ValidatedBeforePreview
    <2> QED BY <2>1, <2>2, StepsOnly
  <1>4. CASE AcknowledgeFees
    <2>1. /\ step = "fees" /\ step' = "mint" /\ acked' = TRUE
          /\ UNCHANGED <<txVars, validation, validated, preparing, pressed>>
      BY <1>4 DEF AcknowledgeFees, mintVars
    <2>2. StepsOK'
      BY <2>1 DEF WizardIInv, StepsOK, ValidatedBeforePreview, StepNames
    <2> QED BY <2>1, <2>2, StepsOnly
  <1>5. CASE \E a \in AvailableAssets : AddAsset(a) \/ RemoveAsset(a.rep)
                                        \/ \E w \in WeightInputs : SetWeight(a.rep, w)
    BY <1>5, EditsKeep DEF AddAsset, RemoveAsset, SetWeight
  <1>6. CASE \E i \in DOMAIN WIZARD_STEPS : Goto(WIZARD_STEPS[i])
    <2>1. PICK to \in StepNames : Goto(to)
      BY <1>6 DEF WIZARD_STEPS, StepNames
    <2>2. UNCHANGED <<txVars, validation, validated, acked, preparing, pressed>>
      BY <2>1 DEF Goto, mintVars, ghosts
    <2> QED BY <2>1, <2>2, GoesBack, StepsOnly DEF WizardIInv
  <1>7. CASE Mint \/ PrepareMetadata \/ SimulateMint
    BY <1>7, PressKeeps, PreparationKeeps
  <1>8. CASE TxStep /\ UNCHANGED <<wizardState, mintVars, active, ghosts>>
    BY <1>8, WizardTxKeeps
  <1>9. CASE \E i \in DOMAIN sent : Mined(i)
    BY <1>9, WizardMinedKeeps
  <1>10. CASE Delisted \/ Relisted \/ UNCHANGED wizardVars
    <2>1. UNCHANGED <<txVars, step, validation, validated, acked, preparing, pressed>>
      BY <1>10 DEF Delisted, Relisted, wizardVars, wizardState, mintVars, ghosts
    <2>2. StepsOK'
      BY <2>1 DEF WizardIInv, StepsOK, ValidatedBeforePreview
    <2> QED BY <2>1, <2>2, StepsOnly
  <1> QED BY <1>1, <1>2, <1>3, <1>4, <1>5, <1>6, <1>7, <1>8, <1>9, <1>10 DEF WizardNext

LEMMA WizardSafe == WizardSpec => []WizardIInv
  <1>1. WizardInit => WizardIInv
    BY TxInitHolds DEF WizardInit, TxInit, WizardIInv, StepsOK, ValidatedBeforePreview, StepNames,
                       PreparingOK, SignedWasShown
  <1> QED BY <1>1, WizardStep, PTL DEF WizardSpec

(* However the user goes back and forth, what is previewed, priced or minted   *)
(* is what the validator passed (wizard-state.ts).                             *)
THEOREM PreviewsAreValid == WizardSpec => []ValidatedBeforePreview
  <1>1. WizardIInv => ValidatedBeforePreview
    BY DEF WizardIInv, StepsOK
  <1> QED BY <1>1, WizardSafe, PTL

(* The wallet shows the composition that was valid, shown with its fees and    *)
(* simulated when Mint was pressed, and success means it was minted            *)
(* (use-mint-flow.ts, transaction-flow.ts).                                    *)
THEOREM MintsAgreed == WizardSpec => [](SignedWasShown /\ SuccessIsOnChain)
  <1>1. WizardIInv => SignedWasShown /\ SuccessIsOnChain
    BY DEF WizardIInv, TxIInv
  <1> QED BY <1>1, WizardSafe, PTL

----------------------------------------------------------------------------
(* The validator says ok exactly when the contract accepts, whatever the       *)
(* registry answers, for any composition of whole numbers of units.            *)
Part(A, R) == [asset : A, rep : R, weight : Nat]

LEMMA RulesAgree ==
  ASSUME NEW A, NEW R, NEW comps \in Seq(Part(A, R)), NEW lookup
  PROVE  Validates(comps, lookup) <=> MintAccepts(comps, lookup)
  <1> DEFINE D == DOMAIN comps
  <1>1. D = 1..Len(comps) /\ Len(comps) \in Nat /\ \A i \in D : comps[i].weight \in Nat
    <2>1. D = 1..Len(comps) /\ Len(comps) \in Nat /\ \A i \in D : comps[i] \in Part(A, R)
      OBVIOUS
    <2>2. \A c \in Part(A, R) : c.weight \in Nat
      BY DEF Part
    <2> QED BY <2>1, <2>2
  <1>2. Validates(comps, lookup) <=>
          /\ Len(comps) \in 1..MaxComponents
          /\ ~ \E i \in D : SeenBefore(comps, i)
          /\ ~ \E i \in D : comps[i].weight <= 0
          /\ ~ \E i \in D : comps[i].rep \notin lookup.active
          /\ ~ \E i \in D : comps[i].rep \in lookup.active /\ ~Resolves(lookup, comps[i].rep, comps[i].asset)
          /\ ~ (comps # <<>> /\ WeightSum(comps) # BpsTotal)
    BY DEF Validates, Issues
  <1>3. DistinctAssets(comps) <=> ~ \E i \in D : SeenBefore(comps, i)
    BY <1>1 DEF DistinctAssets, SeenBefore
  <1>4. Len(comps) \in 1..MaxComponents => comps # <<>>
    OBVIOUS
  <1> HIDE DEF D
  <1> QED BY <1>1, <1>2, <1>3, <1>4 DEF MintAccepts, D

(* What the user selects, weighs and drops stays such a composition.           *)
AssetsListed == {a.asset : a \in AvailableAssets}
RepsListed == {a.rep : a \in AvailableAssets}
ComponentsOK == components \in Seq(Part(AssetsListed, RepsListed))

LEMMA ComponentsStep == ComponentsOK /\ [WizardNext]_wizardVars => ComponentsOK'
  <1> SUFFICES ASSUME ComponentsOK, [WizardNext]_wizardVars PROVE ComponentsOK'
    OBVIOUS
  <1> DEFINE T == Part(AssetsListed, RepsListed)
  <1>1. ASSUME NEW a \in AvailableAssets, AddAsset(a) PROVE ComponentsOK'
    <2>1. [asset |-> a.asset, rep |-> a.rep, weight |-> 0] \in T
      BY DEF Part, AssetsListed, RepsListed
    <2> HIDE DEF T
    <2> QED BY <1>1, <2>1 DEF AddAsset, Edited, ComponentsOK, T
  <1>2. ASSUME NEW a \in AvailableAssets, RemoveAsset(a.rep) PROVE ComponentsOK'
    <2>1. PICK k \in DOMAIN components :
            components' = SubSeq(components, 1, k - 1) \o SubSeq(components, k + 1, Len(components))
      BY <1>2 DEF RemoveAsset, Edited
    <2> HIDE DEF T
    <2>2. /\ SubSeq(components, 1, k - 1) \in Seq(T)
          /\ SubSeq(components, k + 1, Len(components)) \in Seq(T)
      BY DEF ComponentsOK, T
    <2> QED BY <2>1, <2>2 DEF ComponentsOK, T
  <1>3. ASSUME NEW a \in AvailableAssets, NEW w \in WeightInputs, SetWeight(a.rep, w) PROVE ComponentsOK'
    <2>1. components' = [i \in DOMAIN components |-> IF components[i].rep = a.rep
                           THEN [components[i] EXCEPT !.weight = w] ELSE components[i]]
      BY <1>3 DEF SetWeight, Edited
    <2>2. w \in Nat
      BY WizardAssumption
    <2>3. \A c \in T : [c EXCEPT !.weight = w] \in T
      BY <2>2 DEF Part
    <2> HIDE DEF T
    <2>4. components \in [1..Len(components) -> T] /\ Len(components) \in Nat
      BY DEF ComponentsOK, T
    <2>5. components' \in [1..Len(components) -> T]
      BY <2>1, <2>3, <2>4
    <2> QED BY <2>4, <2>5 DEF ComponentsOK, T
  <1>4. CASE UNCHANGED components
    BY <1>4 DEF ComponentsOK
  <1>5. \/ UNCHANGED components
        \/ \E a \in AvailableAssets : AddAsset(a) \/ RemoveAsset(a.rep)
                                      \/ \E w \in WeightInputs : SetWeight(a.rep, w)
    BY DEF WizardNext, SubmitBasicInfo, ContinueStep, Validate, AcknowledgeFees, Goto, Mint,
           PrepareMetadata, SimulateMint, PrepFails, Mined, Delisted, Relisted, wizardVars, wizardState
  <1> QED BY <1>1, <1>2, <1>3, <1>4, <1>5

----------------------------------------------------------------------------
(* The arithmetic of a score, for weights that add up to any whole.            *)
(* Weights that a composition can have: none is more than they all are.        *)
Weighing(w, n, W) ==
  /\ n \in Nat \ {0} /\ W \in Nat /\ w \in [1..n -> Nat]
  /\ SumFunctionOnSet(w, 1..n) = W
SquareOf(w, n) == [i \in 1..n |-> w[i] * w[i]]
Herfindahl(w, n) == SumFunctionOnSet(SquareOf(w, n), 1..n)

LEMMA Numbers ==
  ASSUME NEW n \in Nat PROVE IsFiniteSet(1..n) /\ Cardinality(1..n) = n
<1>1. \A m \in Nat : IsFiniteSet(1..m) /\ Cardinality(1..m) = m
  BY FS_Interval
<1> QED BY <1>1

LEMMA Products ==
  /\ \A x, y \in Nat : x * y \in Nat
  /\ \A x, y \in Int : x * y \in Int /\ x * y = y * x
  /\ \A x, y \in Nat : x <= y => y * x - x * x \in Nat
  /\ \A x \in Int : x * x \in Nat
<1> QED BY Z3

LEMMA WeightAtMost ==
  ASSUME NEW w, NEW n, NEW W, Weighing(w, n, W), NEW i \in 1..n
  PROVE  w[i] \in Nat /\ w[i] <= W
<1>1. IsFiniteSet(1..n) /\ \A x \in 1..n : w[x] \in Nat /\ w[x] \in Int
  BY Numbers DEF Weighing
<1>2. W = w[i] + SumFunctionOnSet(w, (1..n) \ {i})
  BY <1>1, SumRemove DEF Weighing
<1>3. SumFunctionOnSet(w, (1..n) \ {i}) \in Nat
  <2>1. IsFiniteSet((1..n) \ {i}) /\ \A x \in (1..n) \ {i} : w[x] \in Nat
    BY <1>1, FS_RemoveElement
  <2> QED BY <2>1, SumNat
<1> QED BY <1>1, <1>2, <1>3 DEF Weighing

(* The squares add up to between a share of the whole's square and that square.*)
LEMMA SquaresAtMost ==
  ASSUME NEW w, NEW n, NEW W, Weighing(w, n, W)
  PROVE  Herfindahl(w, n) \in Nat /\ Herfindahl(w, n) <= W * W
<1> DEFINE D == 1..n
           rest == [i \in D |-> W * w[i] - w[i] * w[i]]
           whole == [i \in D |-> W * w[i]]
           sq == SquareOf(w, n)
<1>1. IsFiniteSet(D) /\ W \in Nat /\ W \in Int /\ \A i \in D : w[i] \in Nat /\ w[i] \in Int
  BY Numbers DEF Weighing
<1>2. \A i \in D : rest[i] \in Nat
  <2> SUFFICES ASSUME NEW i \in D PROVE rest[i] \in Nat
    OBVIOUS
  <2>1. w[i] \in Nat /\ w[i] <= W
    BY WeightAtMost
  <2>2. W * w[i] - w[i] * w[i] \in Nat
    BY <1>1, <2>1, Products
  <2> QED BY <2>2
<1>3. \A i \in D : sq[i] \in Nat
  BY <1>1, Products DEF SquareOf
<1>4. \A i \in D : whole[i] = W * w[i] /\ whole[i] = rest[i] + sq[i]
  <2> SUFFICES ASSUME NEW i \in D PROVE whole[i] = W * w[i] /\ whole[i] = rest[i] + sq[i]
    OBVIOUS
  <2>1. W * w[i] \in Int /\ w[i] * w[i] \in Int
    BY <1>1, Products
  <2> QED BY <2>1 DEF SquareOf
<1>9. \A i \in D : rest[i] \in Int /\ sq[i] \in Int
  BY <1>2, <1>3
<1> HIDE DEF D, rest, whole, sq
<1>5. SumFunctionOnSet(whole, D) = W * SumFunctionOnSet(w, D)
  BY <1>1, <1>4, SumScale
<1>6. SumFunctionOnSet(whole, D) = SumFunctionOnSet(rest, D) + SumFunctionOnSet(sq, D)
  BY <1>1, <1>4, <1>9, SumPlus
<1>7. SumFunctionOnSet(rest, D) \in Nat /\ SumFunctionOnSet(sq, D) \in Nat
  BY <1>1, <1>2, <1>3, SumNat
<1>8. SumFunctionOnSet(w, D) = W /\ SumFunctionOnSet(sq, D) = Herfindahl(w, n)
  BY DEF Weighing, D, sq, Herfindahl
<1> QED BY <1>5, <1>6, <1>7, <1>8, <1>1, Products

LEMMA SquaresAtLeast ==
  ASSUME NEW w, NEW n, NEW W, Weighing(w, n, W)
  PROVE  n * Herfindahl(w, n) >= W * W
<1> DEFINE D == 1..n
           sq == SquareOf(w, n)
           far == [i \in D |-> (n * w[i] - W) * (n * w[i] - W)]
           a == [i \in D |-> (n * n) * sq[i]]
           b == [i \in D |-> (0 - 2 * (n * W)) * w[i]]
           ones == [i \in D |-> 1]
           c == [i \in D |-> (W * W) * ones[i]]
           ab == [i \in D |-> a[i] + b[i]]
<1> DEFINE nn == n * n
           m == 0 - 2 * (n * W)
           ww == W * W
<1>1. IsFiniteSet(D) /\ Cardinality(D) = n /\ W \in Int /\ n \in Nat /\ n > 0
      /\ \A i \in D : w[i] \in Int /\ w[i] \in Nat
  BY Numbers DEF Weighing
<1>2. nn \in Int /\ m \in Int /\ ww \in Int
  BY <1>1, Products
<1>3. \A i \in D : sq[i] = w[i] * w[i] /\ sq[i] \in Int /\ ones[i] = 1 /\ ones[i] \in Int
  BY <1>1, Products DEF SquareOf
<1>4. \A i \in D : /\ a[i] = nn * sq[i] /\ b[i] = m * w[i] /\ c[i] = ww * ones[i]
                   /\ a[i] \in Int /\ b[i] \in Int /\ c[i] \in Int
                   /\ ab[i] = a[i] + b[i] /\ ab[i] \in Int
  <2> SUFFICES ASSUME NEW i \in D
               PROVE  /\ a[i] = nn * sq[i] /\ b[i] = m * w[i] /\ c[i] = ww * ones[i]
                      /\ a[i] \in Int /\ b[i] \in Int /\ c[i] \in Int
                      /\ ab[i] = a[i] + b[i] /\ ab[i] \in Int
    OBVIOUS
  <2>1. a[i] = nn * sq[i] /\ b[i] = m * w[i] /\ c[i] = ww * ones[i] /\ ab[i] = a[i] + b[i]
    OBVIOUS
  <2> HIDE DEF nn, m, ww, a, b, c, ab, sq, ones
  <2>2. nn * sq[i] \in Int /\ m * w[i] \in Int /\ ww * ones[i] \in Int
    BY <1>1, <1>2, <1>3, Products
  <2> QED BY <2>1, <2>2
<1>5. \A i \in D : far[i] \in Nat /\ far[i] = ab[i] + c[i]
  <2> SUFFICES ASSUME NEW i \in D PROVE far[i] \in Nat /\ far[i] = ab[i] + c[i]
    OBVIOUS
  <2>1. \A x \in Int, y \in Nat, z \in Int :
          /\ (y * x - z) * (y * x - z) \in Nat
          /\ (y * x - z) * (y * x - z) = ((y * y) * (x * x) + (0 - 2 * (y * z)) * x) + (z * z) * 1
    BY Z3
  <2>2. far[i] = (n * w[i] - W) * (n * w[i] - W) /\ ab[i] = (n * n) * (w[i] * w[i]) + (0 - 2 * (n * W)) * w[i]
        /\ c[i] = (W * W) * 1
    BY <1>3
  <2> HIDE DEF far, ab, c
  <2>3. w[i] \in Int /\ n \in Nat /\ W \in Int
    BY <1>1
  <2>4. PICK x \in Int, y \in Nat, z \in Int : x = w[i] /\ y = n /\ z = W
    BY <2>3
  <2>5. /\ (y * x - z) * (y * x - z) \in Nat
        /\ (y * x - z) * (y * x - z) = ((y * y) * (x * x) + (0 - 2 * (y * z)) * x) + (z * z) * 1
    BY <2>1
  <2> QED BY <2>2, <2>4, <2>5
<1> HIDE DEF D, sq, far, a, b, ones, c, ab, nn, m, ww
<1>6. SumFunctionOnSet(a, D) = nn * SumFunctionOnSet(sq, D)
  BY <1>1, <1>2, <1>3, <1>4, SumScale
<1>7. SumFunctionOnSet(b, D) = m * SumFunctionOnSet(w, D)
  BY <1>1, <1>2, <1>4, SumScale
<1>8. SumFunctionOnSet(c, D) = ww * SumFunctionOnSet(ones, D)
  BY <1>1, <1>2, <1>3, <1>4, SumScale
<1>9. SumFunctionOnSet(ones, D) = n
  BY <1>1, <1>3, SumOnes
<1>10. SumFunctionOnSet(ab, D) = SumFunctionOnSet(a, D) + SumFunctionOnSet(b, D)
  BY <1>1, <1>4, SumPlus
<1>11. SumFunctionOnSet(far, D) = SumFunctionOnSet(ab, D) + SumFunctionOnSet(c, D)
  BY <1>1, <1>4, <1>5, SumPlus
<1>12. SumFunctionOnSet(far, D) \in Nat
  BY <1>1, <1>5, SumNat
<1>13. SumFunctionOnSet(w, D) = W /\ SumFunctionOnSet(sq, D) = Herfindahl(w, n) /\ Herfindahl(w, n) \in Nat
  BY SquaresAtMost DEF Weighing, D, sq, Herfindahl
<1>14. (n * n) * Herfindahl(w, n) + (0 - 2 * (n * W)) * W + (W * W) * n \in Nat
  BY <1>6, <1>7, <1>8, <1>9, <1>10, <1>11, <1>12, <1>13 DEF nn, m, ww
<1>15. \A k, h, v \in Nat : k > 0 /\ (k * k) * h + (0 - 2 * (k * v)) * v + (v * v) * k \in Nat => k * h >= v * v
  <2> SUFFICES ASSUME NEW k \in Nat, NEW h \in Nat, NEW v \in Nat, k > 0,
                      (k * k) * h + (0 - 2 * (k * v)) * v + (v * v) * k \in Nat
               PROVE  k * h >= v * v
    OBVIOUS
  <2>1. (k * k) * h + (0 - 2 * (k * v)) * v + (v * v) * k = k * (k * h - v * v)
    BY Z3
  <2>2. k * h - v * v \in Int
    BY Products
  <2>3. \A x \in Int : k * x >= 0 => x >= 0
    BY Z3
  <2>4. k * (k * h - v * v) >= 0
    BY <2>1
  <2>5. k * h - v * v >= 0
    BY <2>2, <2>3, <2>4
  <2>6. k * h \in Int /\ v * v \in Int
    BY Products
  <2> QED BY <2>5, <2>6
<1> QED BY <1>1, <1>13, <1>14, <1>15 DEF Weighing

(* Moving a unit from j to i.                                                  *)
Moved(w, n, i, j) == [k \in 1..n |-> w[k] + (IF k = i THEN 1 ELSE 0) - (IF k = j THEN 1 ELSE 0)]

LEMMA MovingPays ==
  ASSUME NEW w, NEW n, NEW W, Weighing(w, n, W), NEW i \in 1..n, NEW j \in 1..n, i # j,
         w[i] >= w[j], w[j] > 0
  PROVE  /\ Weighing(Moved(w, n, i, j), n, W)
         /\ Herfindahl(Moved(w, n, i, j), n) >= Herfindahl(w, n) + 2
<1> DEFINE v == Moved(w, n, i, j)
           D == 1..n
           R == (D \ {i}) \ {j}
           sw == SquareOf(w, n)
           sv == SquareOf(v, n)
<1>1. n \in Nat \ {0} /\ W \in Nat /\ w \in [1..n -> Nat] /\ \A k \in 1..n : w[k] \in Nat /\ w[k] \in Int
  BY DEF Weighing
<1>2. \A k \in R : v[k] = w[k] /\ v[k] \in Nat
  BY <1>1 DEF Moved
<1>3. v[i] = w[i] + 1 /\ v[j] = w[j] - 1 /\ v[i] \in Nat /\ v[j] \in Nat
  BY <1>1 DEF Moved
<1>4. v \in [1..n -> Nat]
  <2>1. \A k \in 1..n : v[k] \in Nat
    BY <1>2, <1>3
  <2>2. v = [k \in 1..n |-> v[k]]
    BY DEF Moved
  <2> QED BY <2>1, <2>2
<1>5. IsFiniteSet(R)
  BY <1>1, Numbers, FS_RemoveElement
<1>6. \A k \in 1..n : sw[k] = w[k] * w[k] /\ sv[k] = v[k] * v[k] /\ v[k] \in Nat /\ v[k] \in Int
  BY <1>4 DEF SquareOf
<1>7. \A k \in 1..n : sw[k] \in Int /\ sv[k] \in Int
  <2> SUFFICES ASSUME NEW k \in 1..n PROVE sw[k] \in Int /\ sv[k] \in Int
    OBVIOUS
  <2>1. w[k] \in Int /\ v[k] \in Int /\ sw[k] = w[k] * w[k] /\ sv[k] = v[k] * v[k]
    BY <1>1, <1>6
  <2> HIDE DEF sw, sv, v
  <2>2. w[k] * w[k] \in Int /\ v[k] * v[k] \in Int
    BY <2>1, Products
  <2> QED BY <2>1, <2>2
<1>8. \A k \in R : v[k] = w[k] /\ sv[k] = sw[k]
  <2>1. \A k \in R : k \in 1..n
    OBVIOUS
  <2> HIDE DEF sw, sv, v, R
  <2> QED BY <1>2, <1>6, <2>1
<1> HIDE DEF v, sw, sv
<1>9. /\ SumFunctionOnSet(v, R) = SumFunctionOnSet(w, R)
      /\ SumFunctionOnSet(sv, R) = SumFunctionOnSet(sw, R)
  <2> HIDE DEF R
  <2> QED BY <1>5, <1>8, SumSame
<1>10. IsFiniteSet(D) /\ i \in D /\ j \in D
  BY <1>1, Numbers
<1>11. \A k \in D : v[k] \in Int /\ sv[k] \in Int /\ sw[k] \in Int /\ w[k] \in Int
  BY <1>1, <1>6, <1>7
<1> HIDE DEF D
<1>12. SumFunctionOnSet(w, D) = w[i] + (w[j] + SumFunctionOnSet(w, R)) /\ SumFunctionOnSet(w, R) \in Int
  BY <1>10, <1>11, SumTakeTwo
<1>13. SumFunctionOnSet(v, D) = v[i] + (v[j] + SumFunctionOnSet(v, R)) /\ SumFunctionOnSet(v, R) \in Int
  BY <1>10, <1>11, SumTakeTwo
<1>18. SumFunctionOnSet(sw, D) = sw[i] + (sw[j] + SumFunctionOnSet(sw, R)) /\ SumFunctionOnSet(sw, R) \in Int
  BY <1>10, <1>11, SumTakeTwo
<1>19. SumFunctionOnSet(sv, D) = sv[i] + (sv[j] + SumFunctionOnSet(sv, R)) /\ SumFunctionOnSet(sv, R) \in Int
  BY <1>10, <1>11, SumTakeTwo
<1> HIDE DEF R
<1>14. SumFunctionOnSet(v, D) = SumFunctionOnSet(w, D)
  BY <1>1, <1>3, <1>9, <1>12, <1>13
<1>15. \A x, y \in Nat : x >= y /\ y > 0 =>
         (x + 1) * (x + 1) + (y - 1) * (y - 1) >= x * x + y * y + 2
  BY Z3
<1>16. sv[i] + sv[j] >= sw[i] + sw[j] + 2
  BY <1>1, <1>3, <1>6, <1>15
<1>17. SumFunctionOnSet(sv, D) >= SumFunctionOnSet(sw, D) + 2
  <2>1. sv[i] \in Int /\ sv[j] \in Int /\ sw[i] \in Int /\ sw[j] \in Int
    BY <1>10, <1>11
  <2>2. \A a, b, c, d, r \in Int : c + d >= a + b + 2 => c + (d + r) >= a + (b + r) + 2
    OBVIOUS
  <2>3. sv[i] + (sv[j] + SumFunctionOnSet(sw, R)) >= sw[i] + (sw[j] + SumFunctionOnSet(sw, R)) + 2
    BY <2>1, <2>2, <1>18, <1>16
  <2> QED BY <2>3, <1>9, <1>18, <1>19
<1> QED BY <1>1, <1>4, <1>14, <1>17 DEF Weighing, Herfindahl, sw, sv, v, D

(* Quotients are whole numbers that keep order, and two whole divisors more in *)
(* the dividend are two more in the quotient.                                  *)
LEMMA Quotients ==
  ASSUME NEW d \in Nat \ {0}
  PROVE  /\ \A a \in Nat : a \div d \in Nat /\ d * (a \div d) <= a /\ a < d * (a \div d) + d
         /\ \A a, b \in Nat : b >= a + 2 * d => b \div d >= (a \div d) + 2
         /\ \A a, m \in Nat : a <= d * m => a \div d <= m
<1>1. \A a \in Nat : a \div d \in Nat /\ d * (a \div d) <= a /\ a < d * (a \div d) + d
  BY Z3
<1>2. ASSUME NEW a \in Nat, NEW b \in Nat, b >= a + 2 * d PROVE b \div d >= (a \div d) + 2
  <2>1. PICK p \in Nat, q \in Nat : p = a \div d /\ q = b \div d
    BY <1>1
  <2>2. d * p <= a /\ b < d * q + d
    BY <1>1, <2>1
  <2>3. q < p + 2 => d * q <= d * p + d
    BY Z3
  <2>4. d * p \in Int /\ d * q \in Int
    BY Products
  <2> QED BY <1>2, <2>1, <2>2, <2>3, <2>4
<1>3. ASSUME NEW a \in Nat, NEW m \in Nat, a <= d * m PROVE a \div d <= m
  <2>1. PICK p \in Nat : p = a \div d
    BY <1>1
  <2>2. d * p <= a
    BY <1>1, <2>1
  <2>3. p > m => d * p > d * m
    BY Z3
  <2>4. d * p \in Int /\ d * m \in Int
    BY Products
  <2> QED BY <1>3, <2>1, <2>2, <2>3, <2>4
<1> QED BY <1>1, <1>2, <1>3

(* In fixed point, with a scale of at least the whole's square, concentration  *)
(* stays on the scale and tells two squares' sums apart.                       *)
Scale == BpsTotal * BpsTotal

LEMMA ConcentrationIs ==
  ASSUME NEW n \in Nat, n > 1, NEW h \in Nat, n * h >= Scale, h <= Scale
  PROVE  /\ Scale * (n - 1) \in Nat \ {0}
         /\ (h * n - Scale) * Wad \in Nat /\ (h * n - Scale) * Wad <= (Scale * (n - 1)) * Wad
         /\ Concentration(h, n) = ((h * n - Scale) * Wad) \div (Scale * (n - 1))
         /\ Concentration(h, n) \in 0..Wad
<1>1. Wad \in Nat /\ BpsTotal \in Nat \ {0}
  BY RulesAssumption
<1>2. Scale \in Nat \ {0}
  <2>1. \A x \in Nat \ {0} : x * x \in Nat \ {0}
    BY Z3
  <2> QED BY <1>1, <2>1 DEF Scale
<1>3. PICK t \in Nat \ {0}, m \in Nat : t = Scale /\ m = Wad
  BY <1>1, <1>2
<1>4. t * (n - 1) \in Nat \ {0}
  BY Z3
<1>5. h * n = n * h /\ h * n \in Nat
  BY Products
<1>6. h * n - t \in Nat /\ h * n - t <= t * (n - 1)
  <2>1. h <= t => h * n <= t * n
    BY Z3
  <2>2. t * (n - 1) = t * n - t /\ t * n \in Int
    BY Z3
  <2> QED BY <1>3, <1>5, <2>1, <2>2
<1>7. (h * n - t) * m \in Nat /\ (h * n - t) * m <= (t * (n - 1)) * m
  <2>1. \A x, y, z \in Nat : x * z \in Nat /\ (x <= y => x * z <= y * z)
    BY Z3
  <2> QED BY <1>4, <1>6, <2>1
<1>8. PICK a \in Nat, d \in Nat \ {0} : a = (h * n - t) * m /\ d = t * (n - 1)
  BY <1>4, <1>7
<1>9. a \div d \in Nat /\ a \div d <= m
  BY <1>7, <1>8, Quotients
<1>10. Concentration(h, n) = IF h * n <= t THEN 0 ELSE IF a \div d > m THEN m ELSE a \div d
  BY <1>3, <1>8 DEF Concentration, Scale
<1>11. h * n <= t => a \div d = 0
  <2> SUFFICES ASSUME h * n <= t PROVE a \div d = 0
    OBVIOUS
  <2>1. h * n - t = 0
    BY <1>5, <1>6
  <2>2. a = 0
    BY <2>1, <1>8
  <2>3. 0 \div d <= 0
    <3>1. 0 <= d * 0
      OBVIOUS
    <3> QED BY <3>1, Quotients
  <2> QED BY <2>2, <2>3, <1>9
<1>12. Concentration(h, n) = a \div d
  BY <1>9, <1>10, <1>11, <1>5
<1> QED BY <1>3, <1>4, <1>7, <1>8, <1>9, <1>12

LEMMA ConcentrationGrows ==
  ASSUME NEW n \in Nat, n > 1, NEW h \in Nat, NEW k \in Nat,
         n * h >= Scale, k >= h + 2, k <= Scale, Wad >= Scale
  PROVE  Concentration(k, n) >= Concentration(h, n) + 2
<1>1. n * k >= Scale /\ h <= Scale /\ Scale \in Nat /\ Wad \in Nat
  <2>1. n * k >= n * h /\ n * k \in Int /\ n * h \in Int
    BY Z3
  <2>2. \A x \in Nat : x * x \in Nat
    BY Products
  <2>3. Scale \in Nat /\ Wad \in Nat
    BY <2>2, RulesAssumption DEF Scale
  <2> QED BY <2>1, <2>3
<1>2. PICK t \in Nat, m \in Nat : t = Scale /\ m = Wad /\ m >= t
  BY <1>1
<1>3. PICK a \in Nat, b \in Nat, d \in Nat \ {0} :
        /\ d = t * (n - 1) /\ a = (h * n - t) * m /\ b = (k * n - t) * m
        /\ Concentration(h, n) = a \div d /\ Concentration(k, n) = b \div d
  <2>1. /\ Scale * (n - 1) \in Nat \ {0} /\ (h * n - Scale) * Wad \in Nat
        /\ Concentration(h, n) = ((h * n - Scale) * Wad) \div (Scale * (n - 1))
    BY <1>1, ConcentrationIs
  <2>2. /\ (k * n - Scale) * Wad \in Nat
        /\ Concentration(k, n) = ((k * n - Scale) * Wad) \div (Scale * (n - 1))
    BY <1>1, ConcentrationIs
  <2> QED BY <2>1, <2>2, <1>2
<1>4. b >= a + 2 * d
  <2>1. b - a = ((k - h) * n) * m
    BY <1>3, Z3
  <2>2. k - h \in Nat /\ k - h >= 2
    OBVIOUS
  <2>3. \A x, y \in Nat : x >= 2 => x * y >= 2 * y
    BY Z3
  <2>4. n * m \in Nat /\ n * m >= n * t /\ n * t \in Nat /\ n * t - t = t * (n - 1)
    BY <1>2, Z3
  <2>5. ((k - h) * n) * m = (k - h) * (n * m)
    BY Z3
  <2>6. (k - h) * (n * m) >= 2 * (n * m)
    BY <2>2, <2>3, <2>4
  <2> QED BY <2>1, <2>4, <2>5, <2>6, <1>3
<1>5. b \div d >= (a \div d) + 2
  BY <1>4, Quotients
<1> QED BY <1>3, <1>5

(* The score of weights that are a composition's, and of the same weights      *)
(* after a move.                                                               *)
CountNorm(n) == ((MaxComponents - n) * Wad) \div (MaxComponents - 1)

LEMMA ScoreIs ==
  ASSUME NEW n \in 1..MaxComponents, NEW w, Weighing(w, n, BpsTotal)
  PROVE  /\ n = 1 => Score(w) = Wad
         /\ n > 1 => Score(w) = (Concentration(Herfindahl(w, n), n) * 3 + CountNorm(n) * 2) \div 5
<1>1. n \in Nat /\ w \in [1..n -> Nat]
  BY RulesAssumption DEF Weighing
<1>2. DOMAIN w = 1..n /\ Len(w) = n
  BY <1>1
<1>3. [i \in DOMAIN w |-> w[i] * w[i]] = SquareOf(w, n) /\ DOMAIN SquareOf(w, n) = 1..n
  BY <1>2 DEF SquareOf
<1>4. SumFunction([i \in DOMAIN w |-> w[i] * w[i]]) = Herfindahl(w, n)
  BY <1>3 DEF SumFunction, Herfindahl
<1> QED BY <1>2, <1>4 DEF Score, CountNorm

LEMMA CountNormIn ==
  ASSUME NEW n \in 1..MaxComponents PROVE CountNorm(n) \in 0..Wad
<1>1. MaxComponents - n \in Nat /\ MaxComponents - n <= MaxComponents - 1 /\ MaxComponents - 1 \in Nat \ {0}
      /\ Wad \in Nat
  BY RulesAssumption
<1>2. PICK x \in Nat, d \in Nat \ {0}, m \in Nat : x = MaxComponents - n /\ d = MaxComponents - 1 /\ m = Wad /\ x <= d
  BY <1>1
<1>3. x * m \in Nat /\ x * m <= d * m
  BY <1>2, Z3
<1>4. (x * m) \div d \in Nat /\ (x * m) \div d <= m
  BY <1>3, Quotients
<1> QED BY <1>2, <1>4 DEF CountNorm

LEMMA ScoreIn ==
  ASSUME NEW n \in 1..MaxComponents, NEW w, Weighing(w, n, BpsTotal)
  PROVE  Score(w) \in 0..Wad
<1>1. CASE n = 1
  BY <1>1, ScoreIs, RulesAssumption
<1>2. CASE n > 1
  <2>1. n \in Nat /\ Herfindahl(w, n) \in Nat /\ Herfindahl(w, n) <= Scale /\ n * Herfindahl(w, n) >= Scale
    BY RulesAssumption, SquaresAtMost, SquaresAtLeast DEF Scale
  <2>2. Concentration(Herfindahl(w, n), n) \in 0..Wad
    BY <1>2, <2>1, ConcentrationIs
  <2>3. PICK c \in Nat, k \in Nat, m \in Nat :
          c = Concentration(Herfindahl(w, n), n) /\ k = CountNorm(n) /\ m = Wad /\ c <= m /\ k <= m
    BY <2>2, CountNormIn, RulesAssumption
  <2>4. (c * 3 + k * 2) \div 5 \in 0..m
    BY <2>3
  <2> QED BY <1>2, <2>3, <2>4, ScoreIs
<1> QED BY <1>1, <1>2, RulesAssumption

LEMMA ScoreGrows ==
  ASSUME NEW n \in 1..MaxComponents, NEW w, Weighing(w, n, BpsTotal), Wad >= Scale,
         NEW i \in 1..n, NEW j \in 1..n, i # j, w[i] >= w[j], w[j] > 0
  PROVE  Score(Moved(w, n, i, j)) > Score(w)
<1> DEFINE v == Moved(w, n, i, j)
<1>1. n \in Nat /\ n > 1
  BY RulesAssumption
<1>2. Weighing(v, n, BpsTotal) /\ Herfindahl(v, n) >= Herfindahl(w, n) + 2
  BY MovingPays
<1> HIDE DEF v
<1>3. /\ Herfindahl(w, n) \in Nat /\ Herfindahl(w, n) <= Scale /\ n * Herfindahl(w, n) >= Scale
      /\ Herfindahl(v, n) \in Nat /\ Herfindahl(v, n) <= Scale /\ n * Herfindahl(v, n) >= Scale
  BY <1>2, SquaresAtMost, SquaresAtLeast DEF Scale
<1>4. PICK c \in Nat, e \in Nat, k \in Nat :
        /\ c = Concentration(Herfindahl(w, n), n) /\ e = Concentration(Herfindahl(v, n), n)
        /\ k = CountNorm(n) /\ e >= c + 2
  <2>1. Concentration(Herfindahl(w, n), n) \in 0..Wad /\ Concentration(Herfindahl(v, n), n) \in 0..Wad
    BY <1>1, <1>3, ConcentrationIs
  <2>2. Concentration(Herfindahl(v, n), n) >= Concentration(Herfindahl(w, n), n) + 2
    BY <1>1, <1>2, <1>3, ConcentrationGrows
  <2> QED BY <2>1, <2>2, CountNormIn, RulesAssumption
<1>5. (e * 3 + k * 2) \div 5 > (c * 3 + k * 2) \div 5
  BY <1>4
<1> QED BY <1>1, <1>2, <1>4, <1>5, ScoreIs DEF v

(* What was found valid is weighed: this is what the score is computed of.     *)
WeighedOK ==
  validated =>
    /\ Len(components) \in 1..MaxComponents
    /\ \A i \in DOMAIN components : components[i].weight > 0
    /\ WeightSum(components) = BpsTotal

LEMMA WeighedStep == ComponentsOK /\ WeighedOK /\ [WizardNext]_wizardVars => WeighedOK'
  <1> SUFFICES ASSUME ComponentsOK, WeighedOK, [WizardNext]_wizardVars PROVE WeighedOK'
    OBVIOUS
  <1>1. CASE Validate
    <2>1. /\ UNCHANGED components /\ validated' = (validated \/ Validates(components, Lookup))
      BY <1>1 DEF Validate
    <2>2. Validates(components, Lookup) => MintAccepts(components, Lookup)
      BY RulesAgree DEF ComponentsOK
    <2> QED BY <2>1, <2>2 DEF WeighedOK, MintAccepts
  <1>2. CASE validated' = FALSE
    BY <1>2 DEF WeighedOK
  <1>3. CASE UNCHANGED <<components, validated>>
    BY <1>3 DEF WeighedOK
  <1>4. Validate \/ validated' = FALSE \/ UNCHANGED <<components, validated>>
    BY DEF WizardNext, SubmitBasicInfo, ContinueStep, AcknowledgeFees, Goto, Mint, PrepareMetadata,
           SimulateMint, PrepFails, Mined, Delisted, Relisted, wizardVars, wizardState, ghosts,
           AddAsset, RemoveAsset, SetWeight, Edited
  <1> QED BY <1>1, <1>2, <1>3, <1>4

LEMMA WeighedPays ==
  ASSUME ComponentsOK, WeighedOK, validated
  PROVE  /\ Score(Weights(components)) \in 0..Wad
         /\ \A i, j \in DOMAIN components :
              i # j /\ components[i].weight >= components[j].weight /\ components[j].weight > 1 =>
                Score(Shift(components, i, j)) > Score(Weights(components))
  <1> DEFINE n == Len(components)
             w == Weights(components)
  <1>1. n \in 1..MaxComponents /\ DOMAIN components = 1..n
    BY DEF WeighedOK, ComponentsOK
  <1>2. \A i \in 1..n : components[i].weight \in Nat
    <2>1. \A i \in 1..n : components[i] \in Part(AssetsListed, RepsListed)
      BY DEF ComponentsOK
    <2>2. \A c \in Part(AssetsListed, RepsListed) : c.weight \in Nat
      BY DEF Part
    <2> QED BY <2>1, <2>2
  <1>3. w = [i \in 1..n |-> components[i].weight] /\ DOMAIN w = 1..n
    BY <1>1 DEF Weights
  <1>4. SumFunctionOnSet(w, 1..n) = BpsTotal
    BY <1>3 DEF WeighedOK, WeightSum, SumFunction
  <1>5. n \in Nat \ {0} /\ BpsTotal \in Nat
    BY <1>1, RulesAssumption
  <1>6. w \in [1..n -> Nat] /\ \A i \in 1..n : w[i] = components[i].weight
    BY <1>2, <1>3
  <1>7. Weighing(w, n, BpsTotal)
    BY <1>4, <1>5, <1>6 DEF Weighing
  <1>8. Wad >= Scale
    BY WizardAssumption DEF Scale
  <1>9. \A i, j \in 1..n : Shift(components, i, j) = Moved(w, n, i, j)
    BY <1>1, <1>6 DEF Shift, Moved
  <1> HIDE DEF n, w
  <1>10. Score(w) \in 0..Wad
    BY <1>1, <1>7, ScoreIn
  <1>11. ASSUME NEW i \in 1..n, NEW j \in 1..n, i # j, w[i] >= w[j], w[j] > 0
         PROVE  Score(Moved(w, n, i, j)) > Score(w)
    BY <1>1, <1>7, <1>8, <1>11, ScoreGrows
  <1>12. ASSUME NEW i \in DOMAIN components, NEW j \in DOMAIN components,
                i # j, components[i].weight >= components[j].weight, components[j].weight > 1
         PROVE  Score(Shift(components, i, j)) > Score(w)
    <2>1. i \in 1..n /\ j \in 1..n /\ w[i] >= w[j] /\ w[j] > 0
      BY <1>1, <1>6, <1>12
    <2> QED BY <2>1, <1>9, <1>11, <1>12
  <1> QED BY <1>10, <1>12 DEF w

----------------------------------------------------------------------------
(* Both pages: the one that is open keeps what it promises, and on the other   *)
(* nothing has been put together.                                              *)
WebIInv ==
  /\ page \in {"surface", "create"}
  /\ page = "surface" => SurfaceIInv
  /\ page = "create" => WizardIInv
  /\ page = "surface" => step = "basic-info"
  /\ ComponentsOK /\ WeighedOK

LEMMA WebInitHolds == WebInit => WebIInv
  <1> SUFFICES ASSUME WebInit PROVE WebIInv
    OBVIOUS
  <1>1. SurfaceIInv
    BY TxInitHolds DEF WebInit, Init, TxInit, SurfaceIInv, SignedWasSimulated
  <1>2. WizardIInv
    BY TxInitHolds DEF WebInit, WizardInit, TxInit, WizardIInv, StepsOK, ValidatedBeforePreview, StepNames,
                       PreparingOK, SignedWasShown
  <1>3. ComponentsOK /\ WeighedOK /\ step = "basic-info"
    BY DEF WebInit, WizardInit, ComponentsOK, WeighedOK
  <1> QED BY <1>1, <1>2, <1>3 DEF WebInit, WebIInv

LEMMA WebStep == WebIInv /\ [WebNext]_webVars => WebIInv'
  <1> SUFFICES ASSUME WebIInv, [WebNext]_webVars PROVE WebIInv'
    OBVIOUS
  <1>1. CASE page = "surface" /\ page' = page /\ Next /\ UNCHANGED <<wizardState, mintVars, active, ghosts>>
    BY <1>1, SurfaceStep DEF WebIInv, ComponentsOK, WeighedOK, wizardState, ghosts
  <1>2. CASE page = "create" /\ page' = page /\ WizardNext
    BY <1>2, WizardStep, ComponentsStep, WeighedStep DEF WebIInv
  <1>3. CASE UNCHANGED webVars
    <2>1. page' = page /\ UNCHANGED writeVars /\ UNCHANGED wizardVars
      BY <1>3 DEF webVars, writeVars, wizardVars
    <2> QED BY <2>1, SurfaceStep, WizardStep, ComponentsStep, WeighedStep DEF WebIInv, wizardVars, wizardState
  <1> QED BY <1>1, <1>2, <1>3 DEF WebNext

LEMMA WebSafe == WebSpec => []WebIInv
  BY WebInitHolds, WebStep, PTL DEF WebSpec

(* On every page the wallet is only asked to sign what the user agreed to:     *)
(* for any surfaces, calls, assets, weights and bounds (useWriteFlow,          *)
(* useMintFlow, Wizard).                                                       *)
THEOREM SignaturesAgreed == WebSpec => []SignedWasAgreed
  <1>1. WebIInv => SignedWasAgreed
    BY DEF WebIInv, SurfaceIInv, WizardIInv, SignedWasAgreed
  <1> QED BY <1>1, WebSafe, PTL

(* The web's validator passes exactly the compositions NFFC.mint accepts, of   *)
(* all that can be put together and on any registry (validate-composition.ts,  *)
(* NFFC.sol).                                                                  *)
THEOREM ValidatorIsTheContract == WebSpec => []ValidatorMatchesContract
  <1>1. WebIInv => ValidatorMatchesContract
    BY RulesAgree DEF WebIInv, ComponentsOK, ValidatorMatchesContract
  <1> QED BY <1>1, WebSafe, PTL

(* At the preview, whatever the weights: the score is on its scale, and moving *)
(* a unit to a component at least as heavy always raises it (rarity.ts,        *)
(* StaticRarityLib.sol).                                                       *)
THEOREM PreviewPaysConcentration == WebSpec => []ConcentrationPays
  <1>1. WebIInv => ConcentrationPays
    <2> SUFFICES ASSUME WebIInv, step = "preview" PROVE ConcentrationPays
      BY DEF ConcentrationPays
    <2>1. validated /\ ComponentsOK /\ WeighedOK
      BY DEF WebIInv, WizardIInv, StepsOK, ValidatedBeforePreview
    <2> QED BY <2>1, WeighedPays DEF ConcentrationPays
  <1> QED BY <1>1, WebSafe, PTL
=============================================================================
