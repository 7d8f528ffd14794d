CONSTANTS
    None = None
    Creds <- MCCreds
    Failures = {"merge", "save", "backup", "remove"}
    MaxRestarts = 3
SPECIFICATION FairSpec
INVARIANTS
    NoCredentialLost
    ServesStoredUsers
PROPERTY
    ApiUsersSpec
