SPECIFICATION Spec
CONSTANTS
    host = host
    profile = profile
    ghost = ghost
    Absent = Absent
    Names = {host, profile, ghost}
    Files <- SomeFiles
    Envs <- SomeEnvs
    PEMs <- SomePEMs
    Enrichers <- SomeEnrichers
    Pollers <- SomePollers
INVARIANTS TypeOK FaultsFound OneCachePerName AppliedAsListed
