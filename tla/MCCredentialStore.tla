-------------------------- MODULE MCCredentialStore --------------------------
(***************************************************************************)
(* CredentialStore for TLC.                                                *)
(***************************************************************************)
EXTENDS CredentialStore, TLC

\* No definition tells two accounts, two keys or two clicks from each other.
Symmetry == Permutations(Accounts) \cup Permutations(Keys) \cup Permutations(Clicks)

\* What follows the answer to a request is what happens without the request, too.
Unanswered == request.at # "answered"
=============================================================================
