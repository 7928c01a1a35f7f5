------------------------------ MODULE MCAccounts ------------------------------
EXTENDS Accounts

\* A sign-in against one run of the VIP page, one edit, one failure, one hour.
BusyBound == [signIns |-> 1, runs |-> 1, edits |-> 1, faults |-> 1, time |-> 1]
\* One sign-in on a browser the account is not bound to.
SignInBound == [signIns |-> 1, runs |-> 0, edits |-> 0, faults |-> 0, time |-> 0]

Symmetry == Permutations(Accounts) \cup Permutations(Devices)

===============================================================================
