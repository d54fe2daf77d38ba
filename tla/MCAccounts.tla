----------------------------- MODULE MCAccounts -----------------------------
(* A small instance of Accounts, and the facts about changes of address.     *)
EXTENDS Accounts, AccountRequests, TLC

AccountsSymmetry == Permutations(Tab) \cup Permutations(Flight)
=============================================================================
