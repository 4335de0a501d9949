SPECIFICATION RefundsSpec
CONSTANTS
    c1 = c1
    c2 = c2
    v1 = v1
    r1 = r1
    r2 = r2
    Callers = {c1, c2, v1}
    Claims = {c1, c2}
    Debts = {r1, r2}
    debtOf <- TwoDebts
    Jobs = {r1}
    MaxCredits = 1
    Endpoints = {e1, e2}
    Checked = TRUE
    ReadTimeout = FALSE
INVARIANTS
    UsedIsVerified
    RevertHasCause
