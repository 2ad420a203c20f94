---------------------------- MODULE MCContracts ----------------------------
(* The contracts behind the market, for TLC: the wiring of FeeConfig and      *)
(* Collection, the registries from empty, and NFFC over the registries of a    *)
(* first sync. They share no storage but the registries, so a behaviour        *)
(* exercises one of them and the other two stay as they were deployed.         *)
EXTENDS FeeWiring, NFFCMint
CONSTANTS hood, coin, hoodAdapter, coinAdapter, s1, t1, t2, feed1, admin,
          alice, bot, d1, d2, u0

VARIABLE exercised

ClassByProvider == [p \in Providers |-> IF p = hood THEN "EQUITY" ELSE "CRYPTO"]
AdapterByProvider == [p \in Providers |-> IF p = hood THEN hoodAdapter ELSE coinAdapter]
\* t1 has 18 decimals; t2 answers no decimals() call.
DecimalsByToken == [t \in Tokens |-> IF t = t1 THEN 18 ELSE NoMetadata]
\* One listed token a provider: the equity s1, the coin s1.
Listed == [id \in {<<hood, 4663, t1>>, <<coin, 4663, t1>>} |->
             IF id[1] = hood THEN <<"EQUITY", s1>> ELSE <<"CRYPTO", s1>>]
\* The listed ones and one that is not registered.
Submitted == DOMAIN Listed \cup {<<hood, 4663, t2>>}
TwoCurves == {[base |-> 0, slope |-> 0], [base |-> 1, slope |-> 1]}

\* Where the contracts that are not exercised stand.
FeesAtRest == Init /\ feeRecipient = alice /\ marketplaceFeeBps = 1
                   /\ curve["mint"] = [base |-> 1, slope |-> 1]
TokensAtRest == /\ composition = <<>> /\ segment = <<>> /\ ownerOf = <<>> /\ balance = 0
                /\ mintCurve = [base |-> 0, slope |-> 0] /\ mintRecipient = alice
                /\ mintPaused = FALSE /\ call = NoCall /\ saved = NoSnapshot

ContractsInit ==
  \/ exercised = "wiring" /\ Init /\ RegistryInit /\ TokensAtRest
  \/ exercised = "registries" /\ RegistryInit /\ FeesAtRest /\ TokensAtRest
  \/ exercised = "mint" /\ MintInit /\ FeesAtRest

ContractsNext ==
  /\ UNCHANGED exercised
  /\ \/ exercised = "wiring" /\ Next /\ UNCHANGED allVars
     \/ exercised = "registries" /\ RegistryNext /\ UNCHANGED <<vars, mintVars>>
     \/ exercised = "mint" /\ MintNext /\ UNCHANGED vars

ContractsSpec == ContractsInit /\ [][ContractsNext]_<<exercised, vars, allVars>>
=============================================================================
