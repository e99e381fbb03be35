SPECIFICATION Spec
CONSTANTS
    Bad = Bad
    NoOrigin = NoOrigin
    Invalid = Invalid
    Empty = Empty
    Configs <- MCConfigs
    Files <- MCFiles
    Requests <- MCRequests
INVARIANTS
    EncodingsAreAcceptable
    PagesReadWhatTheyMay
    CredentialsWork
