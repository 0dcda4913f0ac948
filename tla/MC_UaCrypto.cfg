CONSTANTS
    None = None
    DerInputs <- MCDerInputs
    Secrets = {secret}
    Seeds = {seed}
    SizeLists <- MCSizeLists
    DigestSizes = {20, 32}
    KeyPaths <- MCKeyPaths
    Extensions = {None, "pem", "PEM", "der"}
    Certs <- MCCerts
    AppUris = {"urn:app", "urn:other"}
    Hostnames = {None, "host"}

SPECIFICATION Spec
INVARIANT TypeOK
INVARIANT FirstCertificateOfChain
INVARIANT KeysAreConsecutivePHash
