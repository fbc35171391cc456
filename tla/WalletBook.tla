----------------------------- MODULE WalletBook -----------------------------
(***************************************************************************)
(* What the wallet database promises its callers, with no sessions, locks  *)
(* or ledger: a book of balances in which a transfer is one indivisible    *)
(* step that moves money the sender really has (README, "Stored            *)
(* procedure: transfer_funds").  TransferFunds implements this module.     *)
(***************************************************************************)
EXTENDS Integers

CONSTANTS User,        \* the owners a wallet can be opened for
          TransferId,  \* the identities a transfer can be given
          Amount,      \* the amounts a transfer may name
          Opening      \* the balances a wallet may be opened with

VARIABLES opened,     \* the users who own a wallet
          balance,    \* what each of them has
          transfers   \* the transfers done so far: [id, from, to, amount]

vars == <<opened, balance, transfers>>

Init == /\ opened = {}
        /\ balance = [u \in User |-> 0]
        /\ transfers = {}

Open(u, b) ==
    /\ u \notin opened
    /\ b >= 0
    /\ opened' = opened \union {u}
    /\ balance' = [balance EXCEPT ![u] = b]
    /\ UNCHANGED transfers

Transfer(id, from, to, amount) ==
    /\ {from, to} \subseteq opened
    /\ from # to
    /\ 0 < amount /\ amount <= balance[from]
    /\ \A t \in transfers : t.id # id
    /\ balance' = [balance EXCEPT ![from] = @ - amount, ![to] = @ + amount]
    /\ transfers' = transfers \union
          {[id |-> id, from |-> from, to |-> to, amount |-> amount]}
    /\ UNCHANGED opened

Next == \/ \E u \in User, b \in Opening : Open(u, b)
        \/ \E id \in TransferId, from, to \in User, amount \in Amount :
              Transfer(id, from, to, amount)

Spec == Init /\ [][Next]_vars
=============================================================================
