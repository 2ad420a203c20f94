--------------------------- MODULE TransactionFlow ---------------------------
(* One write from the web: lib/wallet's transaction reducer and the hook that  *)
(* drives it from wagmi, the wallet it opens and the transactions that come of *)
(* it. wagmi runs the mutation whatever the page has become; a reducer that    *)
(* throws takes the page down. The surfaces extend this module with what they  *)
(* do before a request.                                                        *)
EXTENDS Integers, Sequences

CONSTANTS Calls, NoCall,   \* what a wallet can be asked to sign
          MaxSent,         \* bound: transactions sent
          NodeMayFail      \* the node may stop answering while a receipt is awaited

VARIABLES flow,            \* the reducer's state, or "crashed"
          wallet,          \* the call the wallet shows, or NoCall
          sent,            \* [call, status] of each transaction, oldest first
          hash             \* the hook's txHash: an index of sent, or 0
txVars == <<flow, wallet, sent, hash>>

TransactionState == {"idle", "awaiting_wallet", "signing", "submitted", "confirming",
                     "success", "failed", "rejected"}

Transitions ==
  [RESET          |-> [from |-> {"idle", "success", "failed", "rejected"}, to |-> "idle"],
   REQUEST_WALLET |-> [from |-> {"idle"}, to |-> "awaiting_wallet"],
   SIGN           |-> [from |-> {"awaiting_wallet"}, to |-> "signing"],
   SUBMIT         |-> [from |-> {"signing"}, to |-> "submitted"],
   CONFIRM        |-> [from |-> {"submitted"}, to |-> "confirming"],
   SUCCEED        |-> [from |-> {"confirming"}, to |-> "success"],
   REJECT         |-> [from |-> {"awaiting_wallet", "signing"}, to |-> "rejected"],
   FAIL           |-> [from |-> {"awaiting_wallet", "signing", "submitted", "confirming"},
                       to |-> "failed"]]

Dispatch(state, event) ==
  IF state \in Transitions[event].from THEN Transitions[event].to ELSE "crashed"

TxInit == flow = "idle" /\ wallet = NoCall /\ sent = <<>> /\ hash = 0

(* writeContract: onMutate dispatches both events, the wallet opens, and the   *)
(* last mutation's hash is forgotten.                                          *)
Request(call) ==
  /\ flow' = Dispatch(Dispatch(flow, "REQUEST_WALLET"), "SIGN")
  /\ wallet' = call /\ hash' = 0
  /\ UNCHANGED sent

\* onError: a refusal, or anything else that kept it from being sent.
WalletRejects == /\ wallet # NoCall /\ wallet' = NoCall
                 /\ flow' = Dispatch(flow, "REJECT")
                 /\ UNCHANGED <<sent, hash>>
WalletFails == /\ wallet # NoCall /\ wallet' = NoCall
               /\ flow' = Dispatch(flow, "FAIL")
               /\ UNCHANGED <<sent, hash>>

HashAfter(n) == n + 1

\* onSuccess.
WalletSigns == /\ wallet # NoCall /\ Len(sent) < MaxSent
               /\ wallet' = NoCall
               /\ sent' = Append(sent, [call |-> wallet, status |-> "pending"])
               /\ hash' = HashAfter(Len(sent))
               /\ flow' = Dispatch(flow, "SUBMIT")

(* The effects: the receipt query of a known hash is fetching as soon as it is *)
(* enabled, and its outcome ends the flow.                                     *)
\* Mutant of QueryEnabled: the query waits for the state it brings about.
EnabledLate(state) == state = "confirming"
QueryEnabled(state) == state \in {"submitted", "confirming"}

Confirming == /\ flow = "submitted" /\ QueryEnabled(flow) /\ hash # 0
              /\ flow' = Dispatch(flow, "CONFIRM") /\ UNCHANGED <<wallet, sent, hash>>

\* Mutant of ReceiptOf: the status of the receipt is not looked at.
MinedReceipt(h) == IF sent[h].status = "pending" THEN "pending" ELSE "ok"
ReceiptOf(h) == sent[h].status

ReceiptArrives == /\ flow = "confirming" /\ QueryEnabled(flow) /\ ReceiptOf(hash) # "pending"
                  /\ flow' = Dispatch(flow, IF ReceiptOf(hash) = "ok" THEN "SUCCEED" ELSE "FAIL")
                  /\ UNCHANGED <<wallet, sent, hash>>
ReceiptFails == /\ NodeMayFail /\ flow = "confirming"
                /\ flow' = Dispatch(flow, "FAIL") /\ UNCHANGED <<wallet, sent, hash>>

\* The chain mines a transaction with an outcome of its own.
Mine(i, outcome) == /\ sent[i].status = "pending"
                    /\ sent' = [sent EXCEPT ![i].status = outcome]
                    /\ UNCHANGED <<flow, wallet, hash>>

WalletStep == WalletRejects \/ WalletFails \/ WalletSigns
HookStep == Confirming \/ ReceiptArrives
TxStep == WalletStep \/ HookStep \/ ReceiptFails

----------------------------------------------------------------------------
TxTypeOK == /\ flow \in TransactionState \cup {"crashed"}
            /\ wallet \in Calls \cup {NoCall}
            /\ sent \in Seq([call : Calls, status : {"pending", "ok", "reverted"}])
            /\ hash \in 0..Len(sent)
            /\ flow \in {"submitted", "confirming", "success"} => hash # 0

(* The flow says a write succeeded only when the transaction it was last asked *)
(* for is on the chain and was not reverted.                                   *)
SuccessIsOnChain == flow = "success" => sent[Len(sent)].status = "ok" /\ hash = Len(sent)

(* A submitted transaction's flow ends, whatever the user does meanwhile.      *)
SubmissionSettles == [](flow = "submitted" => <>(flow \in {"success", "failed"}))

(* No event of the wallet, of wagmi or of the user finds the reducer in a      *)
(* state it may not fire from.                                                 *)
NeverSkips == flow # "crashed"
=============================================================================
