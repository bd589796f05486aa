SPECIFICATION Spec
CONSTANTS
    host = host
    name = name
    profile = profile
    sdk = sdk
    t1 = t1
    t2 = t2
    t3 = t3
    t4 = t4
    null = null
    ours = ours
    d1 = d1
    d2 = d2
    f1 = f1
    f2 = f2
    byHost = byHost
    rename = rename
    Configs <- UpperCase
    Names = {host, name, profile, sdk}
    Texts = {t1, t2, t3, t4, null, ours}
    Numbers = {0, 1}
    Null = Null
    Columns = {d1, d2, f1, f2}
    Absent = Absent
    Malformed = Malformed
    Rendered <- TextOf
    Responses <- SomeResponses
    Enrichers = {byHost, rename}
    SourceOf <- Sources
    Extract <- Extracts
    Known <- Answers
    SdkAttribute <- Sdk
INVARIANTS MethodAsConfigured
