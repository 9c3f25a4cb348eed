---------------------------- MODULE QuotaLedger ----------------------------
(***************************************************************************)
(* What the relay's billing promises about a user's quota, without any of  *)
(* its steps: every attempt at a provider takes quota from the account at  *)
(* most once in advance (Reserve), and that hold is resolved at most once, *)
(* by charging what the attempt really cost (Settle) or by giving the hold *)
(* back (Release).  An attempt of a trusted user settles without ever      *)
(* having reserved.  A hold that is never resolved is a step the ledger    *)
(* simply does not take.                                                   *)
(*                                                                         *)
(* An account is also credited (Fund), and written by clerks who keep its  *)
(* other particulars: a clerk notes the balance, and when he is done he    *)
(* either enters a new one (Edit), leaves it alone (Forget), or enters the *)
(* one he noted (Restore), which undoes whatever moved the account in      *)
(* between.  The ledger promises that this is all a clerk can do: the      *)
(* holds and what they are said to have cost are never touched by it.      *)
(***************************************************************************)
EXTENDS Integers

CONSTANTS Accounts,     \* the users
          Holds,        \* the attempts
          AccountOf,    \* AccountOf[h]: whose account attempt h is billed to
          Amounts,      \* the amounts of quota that may move, a subset of Nat
          Clerks,       \* the calls that read a user's row and save it
          ClientOf,     \* ClientOf[c]: the user whose row call c saves
          Edits,        \* the balances a form may enter
          Nothing       \* the clerk has no balance noted; not a number

VARIABLES balance,      \* balance[u]: quota of user u, possibly negative
          amount,       \* amount[h]: net quota taken on account of h
          phase,        \* phase[h]: what has happened to h so far
          noted         \* noted[c]: the balance clerk c has read

ledgerVars == <<balance, amount, phase, noted>>

Phases == {"none", "held", "settled", "released"}

LedgerInit ==
    /\ balance \in [Accounts -> Nat]
    /\ amount = [h \in Holds |-> 0]
    /\ phase = [h \in Holds |-> "none"]
    /\ noted = [c \in Clerks |-> Nothing]

\* n of quota leaves the account before the provider is called.
Reserve(h, n) ==
    /\ phase[h] = "none"
    /\ n > 0
    /\ balance' = [balance EXCEPT ![AccountOf[h]] = @ - n]
    /\ amount' = [amount EXCEPT ![h] = n]
    /\ phase' = [phase EXCEPT ![h] = "held"]
    /\ UNCHANGED noted

\* The attempt cost q: the account pays the difference to what is held.
Settle(h, q) ==
    /\ phase[h] \in {"none", "held"}
    /\ balance' = [balance EXCEPT ![AccountOf[h]] = @ - (q - amount[h])]
    /\ amount' = [amount EXCEPT ![h] = q]
    /\ phase' = [phase EXCEPT ![h] = "settled"]
    /\ UNCHANGED noted

\* The attempt failed: the account gets back exactly what is held.
Release(h) ==
    /\ phase[h] = "held"
    /\ balance' = [balance EXCEPT ![AccountOf[h]] = @ + amount[h]]
    /\ amount' = [amount EXCEPT ![h] = 0]
    /\ phase' = [phase EXCEPT ![h] = "released"]
    /\ UNCHANGED noted

Fund(u, n) ==
    /\ balance' = [balance EXCEPT ![u] = @ + n]
    /\ UNCHANGED <<amount, phase, noted>>

Note(c) ==
    /\ noted[c] = Nothing
    /\ noted' = [noted EXCEPT ![c] = balance[ClientOf[c]]]
    /\ UNCHANGED <<balance, amount, phase>>

Forget(c) ==
    /\ noted' = [noted EXCEPT ![c] = Nothing]
    /\ UNCHANGED <<balance, amount, phase>>

Edit(c, n) ==
    /\ noted[c] # Nothing
    /\ balance' = [balance EXCEPT ![ClientOf[c]] = n]
    /\ noted' = [noted EXCEPT ![c] = Nothing]
    /\ UNCHANGED <<amount, phase>>

\* The clerk may keep his note and enter it once more.
Restore(c) ==
    /\ noted[c] # Nothing
    /\ balance' = [balance EXCEPT ![ClientOf[c]] = noted[c]]
    /\ \/ UNCHANGED noted
       \/ noted' = [noted EXCEPT ![c] = Nothing]
    /\ UNCHANGED <<amount, phase>>

LedgerNext ==
    \/ \E c \in Clerks :
          \/ Forget(c) \/ Note(c) \/ Restore(c)
          \/ \E n \in Edits : Edit(c, n)
    \/ \E u \in Accounts, n \in Amounts : Fund(u, n)
    \/ \E h \in Holds :
          \/ \E n \in Amounts : Reserve(h, n) \/ Settle(h, n)
          \/ Release(h)

LedgerSpec == LedgerInit /\ [][LedgerNext]_ledgerVars
=============================================================================
