SPECIFICATION Spec
CONSTANTS
    b1 = b1  b2 = b2
    qa = qa  qb = qb  qc = qc
    core = core  mock = mock
    Builds = {b1, b2}
    Migrations <- MCMigrations
    Bank <- MCBank
    MaxStarts = 4
INVARIANTS TypeOK SchemaSound RestartWorks BankServed AnswersKeepQuestion
PROPERTIES HistoryKept
CHECK_DEADLOCK FALSE
