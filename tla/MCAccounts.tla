----------------------------- MODULE MCAccounts -----------------------------
(* Accounts with interchangeable users, nicknames, files and requests. *)
EXTENDS Accounts, TLC

Symmetry ==
    Permutations(Emails) \cup Permutations(Nicknames)
      \cup Permutations(Files) \cup Permutations(Handlers)
=============================================================================
