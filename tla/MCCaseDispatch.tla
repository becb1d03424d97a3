--------------------------- MODULE MCCaseDispatch ---------------------------
EXTENDS CaseDispatch, TLC
CONSTANTS admin, guest, w1, w2
FactoryAccount == [user |-> admin, pass |-> EmptyPassword]
AccountMixes == {{2, 51, 71, 80}, {1, 3, 40, 56, 57}, {0, 19, 37, 49, 53, 67, 70, 79}}
Mixes == AccountMixes \union {{0, 36}}
SamePasswords == Permutations({w1, w2})
=============================================================================
