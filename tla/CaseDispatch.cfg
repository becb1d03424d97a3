\* Four mixes of cases: the account and the motor; restarts and updates; audio;
\* payloads that are looked at and answers that depend on success.
CONSTANTS
    admin = admin
    guest = guest
    w1 = w1
    w2 = w2
    Users = {admin, guest}
    Passwords = {EmptyPassword, w1, w2}
    EmptyPassword = EmptyPassword
    Factory <- FactoryAccount
    Archives = {u1, u2}
    Named = {u1, u2}
    Rooted = {u1}
    CaseMixes <- Mixes
    OwnerMixes <- AccountMixes
    MaxBoots = 1
    MaxProcesses = 2
    Nothing = Nothing
SYMMETRY SamePasswords
SPECIFICATION DispatchSpec
INVARIANTS AnsweredOnce CredentialsWhole CredentialsFollow ResourcesSingle UpdateIsWhole
PROPERTY MoveStops
