---------------------------- MODULE AccountLedger ----------------------------
(***************************************************************************)
(* What custody promises its users and liquidity providers, as the books   *)
(* of one bank.  A user has a balance per asset, part of it reserved for a *)
(* redeem; a trade spends only what is not reserved; a payout takes what   *)
(* was reserved; and all payouts are made from the cash in hand.  There    *)
(* are no shards, no cells and no second account.                          *)
(***************************************************************************)
EXTENDS Integers

CONSTANTS Users, Assets, Lps,
          Amounts,    \* amounts an operation can carry
          MaxFelt     \* largest amount the books can hold

VARIABLES
    balance,    \* what each user owns, by asset
    reserved,   \* the part of it the user asked to redeem
    owed,       \* what each liquidity provider may withdraw, by asset
    cash        \* the assets in hand

ledgerVars == <<balance, reserved, owed, cash>>

Init ==
    /\ balance = [k \in Users \X Assets |-> 0]
    /\ reserved = [k \in Users \X Assets |-> 0]
    /\ owed = [k \in Lps \X Assets |-> 0]
    /\ cash = [a \in Assets |-> 0]

\* n more at k in a book.
Plus(book, k, n) == [book EXCEPT ![k] = @ + n]

Fund(u, a, n) ==
    /\ cash' = Plus(cash, a, n)
    /\ balance' = Plus(balance, <<u, a>>, n)
    /\ UNCHANGED <<reserved, owed>>

Trade(u, sell, n, buy, m) ==
    /\ UNCHANGED <<cash, owed, reserved>>
    /\ balance[<<u, sell>>] - reserved[<<u, sell>>] >= n
    /\ balance' = Plus(Plus(balance, <<u, sell>>, -n), <<u, buy>>, m)

Reserve(u, a, n) ==
    /\ UNCHANGED <<cash, owed, balance>>
    /\ balance[<<u, a>>] - reserved[<<u, a>>] >= n
    /\ reserved' = Plus(reserved, <<u, a>>, n)

Pay(u, a, n) ==
    /\ cash[a] >= n /\ reserved[<<u, a>>] >= n
    /\ cash' = Plus(cash, a, -n)
    /\ reserved' = Plus(reserved, <<u, a>>, -n)
    /\ balance' = Plus(balance, <<u, a>>, -n)
    /\ UNCHANGED owed

Deposit(l, a, n) ==
    /\ cash' = Plus(cash, a, n)
    /\ owed' = Plus(owed, <<l, a>>, n)
    /\ UNCHANGED <<balance, reserved>>

\* Fees a provider earned; what it is owed never shrinks this way.
Accrue(l, a, new) ==
    /\ UNCHANGED <<cash, reserved, balance>>
    /\ new >= owed[<<l, a>>]
    /\ owed' = [owed EXCEPT ![<<l, a>>] = new]

Withdraw(l, a, n) ==
    /\ cash[a] >= n /\ owed[<<l, a>>] >= n
    /\ cash' = Plus(cash, a, -n)
    /\ owed' = Plus(owed, <<l, a>>, -n)
    /\ UNCHANGED <<balance, reserved>>

Next ==
    \/ \E u \in Users, a \in Assets, n \in Amounts :
          Fund(u, a, n) \/ Reserve(u, a, n) \/ Pay(u, a, n)
    \/ \E u \in Users, sell, buy \in Assets, n, m \in Amounts : Trade(u, sell, n, buy, m)
    \/ \E l \in Lps, a \in Assets, n \in Amounts : Deposit(l, a, n) \/ Withdraw(l, a, n)
    \/ \E l \in Lps, a \in Assets, new \in 0 .. MaxFelt : Accrue(l, a, new)

Spec == Init /\ [][Next]_ledgerVars
=============================================================================
