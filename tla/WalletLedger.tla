---------------------------- MODULE WalletLedger ----------------------------
(***************************************************************************)
(* What a billing session promises the owner of a wallet, without tokens,  *)
(* subscriptions, preferences, goroutines or failures: a request holds     *)
(* part of the balance while it is open, and is closed once, either by     *)
(* being charged a price in place of what it held or by having all of it   *)
(* released.  The balance covers every amount taken from it.               *)
(***************************************************************************)
EXTENDS Integers

CONSTANTS Request, InitBalance

VARIABLES
    balance,  \* what is left in the wallet
    held,     \* what every request has taken and not given back
    fees,     \* what every request paid on top of its price
    phase     \* "open", "charged" or "released"

lvars == <<balance, held, fees, phase>>

Init ==
    /\ balance = InitBalance
    /\ held = [r \in Request |-> 0]
    /\ fees = [r \in Request |-> 0]
    /\ phase = [r \in Request |-> "open"]

\* An open request takes more of the balance, or gives part of it back.
Hold(r) ==
    \E n \in 0..(held[r] + balance) :
        /\ phase[r] = "open"
        /\ held' = [held EXCEPT ![r] = n]
        /\ balance' = balance - (n - held[r])
        /\ UNCHANGED <<fees, phase>>

\* The request is closed by replacing what it holds by its price.
Charge(r) ==
    \E n \in 0..(held[r] + balance) :
        /\ phase[r] = "open"
        /\ held' = [held EXCEPT ![r] = n]
        /\ balance' = balance - (n - held[r])
        /\ phase' = [phase EXCEPT ![r] = "charged"]
        /\ UNCHANGED fees

\* The request is closed by giving everything back.
Release(r) ==
    /\ phase[r] = "open"
    /\ held' = [held EXCEPT ![r] = 0]
    /\ balance' = balance + held[r]
    /\ phase' = [phase EXCEPT ![r] = "released"]
    /\ UNCHANGED fees

\* A penalty, at most one for every request.
Fee(r) ==
    \E n \in 1..balance :
        /\ fees[r] = 0
        /\ fees' = [fees EXCEPT ![r] = n]
        /\ balance' = balance - n
        /\ UNCHANGED <<held, phase>>

Next == \E r \in Request : Hold(r) \/ Charge(r) \/ Release(r) \/ Fee(r)

Spec == Init /\ [][Next]_lvars
=============================================================================
