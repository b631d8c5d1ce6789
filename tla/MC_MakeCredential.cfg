\* Both paths on a little-endian host; every call may fail except fclose
\* (CloseMayFail = TRUE lets it fail; see the hazard at :82).
SPECIFICATION Spec
CONSTANTS
    ArgVectors <- MCArgVectors
    NameAlgSizes <- MCNameAlgSizes
    CredSizes <- MCCredSizes
    SecretLen <- MCSecretLen
    CloseMayFail = FALSE
    HostBigEndian = FALSE
INVARIANTS
    TypeOK
    HeapReleased
    CredentialRoundTrip
CHECK_DEADLOCK FALSE
