CONSTANTS
    None = None
    Creds <- MCCreds
    Failures = {"load"}
    MaxRestarts = 3
SPECIFICATION Spec
INVARIANTS
    NoCredentialLost
