---------------------------- MODULE RecordDateClaim ----------------------------
(***************************************************************************)
(* contracts/examples/RecordDateClaim.sol in front of the register and the *)
(* settlement contract: it pays, once, whoever held ClaimToken at          *)
(* RecordDate.  The payment is a call of the payee's own code, so claim()  *)
(* is not one step: between its effects and its return the payee may send  *)
(* any transaction of the settlement contract, and call claim() again.  A  *)
(* payee that fails undoes what it did itself, so that case is one step:   *)
(* what claim() makes of it.                                               *)
(***************************************************************************)
EXTENDS ProjectionSettlement

CONSTANTS
    ClaimToken,         \* tokenId
    RecordDate,         \* recordDate
    Amount,             \* amount
    MaxBalance          \* bound: what the contract's balance can be forced up to

ASSUME ClaimAssumption ==
    /\ ClaimToken \in Token
    /\ RecordDate \in Uint64
    /\ Amount \in Nat \ {0}
    /\ MaxBalance \in Nat

VARIABLES
    claimed,    \* claimed
    balance,    \* the contract's ether
    paid,       \* the payments made, in order
    payee       \* whose code an unfinished claim() is running, or ZERO_ADDRESS

claimVars == <<claimed, balance, paid, payee>>
allVars == <<vars, claimVars>>

Running == payee # ZERO_ADDRESS

\* The constructor takes exactly the amount.
ClaimInit ==
    /\ Init
    /\ claimed = FALSE
    /\ balance = Amount
    /\ paid = <<>>
    /\ payee = ZERO_ADDRESS

\* Seeded fault: the answer at the record date need not be final.
NamesCaller(sender) ==
    /\ Covered(entries[ClaimToken], RecordDate)
    /\ HolderAsOf(entries[ClaimToken], RecordDate) = sender

\* NotFinal and NotHolder.  A final instant is covered.
Entitled(sender) ==
    /\ IsFinalAsOf(entries[ClaimToken], RecordDate)
    /\ HolderAsOf(entries[ClaimToken], RecordDate) = sender

\* The checks of claim(), and the ether the call needs.
Claimable(sender) ==
    /\ ~claimed
    /\ Entitled(sender)
    /\ openGap[ClaimToken] = NoGap
    /\ balance >= Amount

\* Seeded fault: the flag is not set before the payee runs.
EffectsAfterCall(sender) ==
    /\ balance' = balance - Amount
    /\ paid' = Append(paid, sender)
    /\ UNCHANGED claimed

\* The flag, then the transfer.
Effects(sender) ==
    /\ claimed' = TRUE
    /\ balance' = balance - Amount
    /\ paid' = Append(paid, sender)

\* claim(), up to the first instruction of the payee's code.
Claim(sender) ==
    /\ Running => sender = payee
    /\ Claimable(sender)
    /\ Effects(sender)
    /\ payee' = sender
    /\ UNCHANGED vars

\* PayoutFailed reverts the effects with the rest.
PayoutFailed == UNCHANGED claimed

\* claim() of a payee that does not take the payment.
ClaimRefused(sender) ==
    /\ ~Running
    /\ Claimable(sender)
    /\ PayoutFailed
    /\ UNCHANGED <<vars, balance, paid, payee>>

\* What else the payee may call meanwhile.  Inside a transaction the block does
\* not change and the attestor does not sign.
PayeeCalls ==
    /\ Running
    /\ \/ /\ payee \in Account
          /\ \E sid \in SettlementId, tok \in Token, holder \in HolderArgument, deadline \in Time :
                BeginSettlement(payee, sid, tok, holder, deadline)
       \/ \E sid \in SettlementId : CancelSettlement(payee, sid)
       \/ /\ payee \in Account
          /\ \E tok \in Token, c \in Word, holder \in HolderArgument, at \in Uint64,
                proof \in signed : InitializeRegister(payee, tok, c, holder, at, proof)
       \/ \E sid \in SettlementId, c \in Word, at \in Uint64, proof \in signed :
             FinalizeSettlement(sid, c, at, proof)
    /\ UNCHANGED claimVars

\* The payee's code returns, and the transaction with it.
PayeeReturns ==
    /\ Running
    /\ payee' = ZERO_ADDRESS
    /\ UNCHANGED <<vars, claimed, balance, paid>>

\* Ether that no payable function has to accept (external).
ForcedFunds ==
    /\ ~Running
    /\ balance + Amount <= MaxBalance
    /\ balance' = balance + Amount
    /\ UNCHANGED <<vars, claimed, paid, payee>>

ClaimNext ==
    \/ ~Running /\ Next /\ UNCHANGED claimVars
    \/ \E sender \in Address : Claim(sender)
    \/ \E sender \in Address : ClaimRefused(sender)
    \/ PayeeCalls
    \/ PayeeReturns
    \/ ForcedFunds

ClaimSpec == ClaimInit /\ [][ClaimNext]_allVars

-----------------------------------------------------------------------------
(* Properties.                                                               *)

\* Whoever was paid is the holder of record at the record date, in every state
\* from the payment on: no later admission, and nothing the payee does while it
\* is being paid, turns it into a payment to the wrong holder.
PaidHolderOfRecord ==
    \A i \in DOMAIN paid :
        /\ IsFinalAsOf(entries[ClaimToken], RecordDate)
        /\ HolderAsOf(entries[ClaimToken], RecordDate) = paid[i]

\* One holder per instant, so one claim per record date (RecordDateClaim.sol:42):
\* the contract pays at most once whatever ether it holds, and it counts as
\* claimed exactly when it has paid, also after a payment that failed.
PaidOnce == Len(paid) <= 1 /\ (claimed <=> paid # <<>>)
=============================================================================
