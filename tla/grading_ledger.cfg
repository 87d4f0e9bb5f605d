SPECIFICATION Spec
CONSTANTS
    Names <- MCNames
    Standard <- MCStandard
    Users = {u1, u2}
    Tabs = {t1, t2}
    qj = qj  qc = qc  ql = ql
    Questions = {qj, qc, ql}
    Want <- MCWant
    Forms <- MCForms
    MaxIssued = 4
SYMMETRY Symmetry
INVARIANTS OnlyRightAnswersPass
