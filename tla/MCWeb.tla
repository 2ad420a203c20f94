-------------------------------- MODULE MCWeb --------------------------------
(* The web's writes for TLC: a behaviour is a user at one of the write         *)
(* surfaces or in the create wizard, each with its own transaction flow.       *)
EXTENDS WriteSurface, Wizard
CONSTANTS empty, preset, wrong, btc, nvda, r1, r2, r3, none

VARIABLE page

\* A value that makes the call fail its simulation, in any field.
Spellings == UNION {[DOMAIN f -> {preset, wrong}] : f \in Surfaces}
Passes(c) == \A f \in DOMAIN c : c[f] # wrong
\* Two providers' tokens of one asset, and another.
Assets3 == {[asset |-> btc, rep |-> r1], [asset |-> btc, rep |-> r2], [asset |-> nvda, rep |-> r3]}

WebInit == /\ Init /\ WizardInit
           /\ \/ page = "surface"
              \/ page = "create" /\ fields = BuyButton
WebNext == /\ UNCHANGED page
           /\ \/ page = "surface" /\ Next /\ UNCHANGED <<wizardState, mintVars, active, ghosts>>
              \/ page = "create" /\ WizardNext /\ UNCHANGED surfaceVars
webVars == <<page, txVars, surfaceVars, wizardState, mintVars, active, ghosts>>
\* The surface's fairness: on the other page none of its actions is enabled.
WebSpec == WebInit /\ [][WebNext]_webVars /\ Fairness

----------------------------------------------------------------------------
(* The wallet is only ever asked to sign what the user agreed to, however the  *)
(* fields or the composition are edited meanwhile: on a write surface a call   *)
(* whose simulation passed, as the fields spelled it when the button was       *)
(* pressed; in the wizard the composition that was valid, shown with its fees  *)
(* and simulated when Mint was pressed (useWriteFlow, useMintFlow, Wizard).    *)
SignedWasAgreed == IF page = "surface" THEN SignedWasSimulated ELSE SignedWasShown
=============================================================================
