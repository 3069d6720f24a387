\* The combined daemon, a web role and a client on one machine, the client with
\* and without CRATE_TOKEN (two clients), everyone on the default backend or,
\* by the file or the environment, on S3.
SPECIFICATION Spec
CONSTANTS
    Brokers = {daemon}
    Webs = {webRole}
    Clients = {client, clientEnv}
    EnvToken = {clientEnv}
    EnvBackend <- MCEnvBackend
    daemon = daemon
    webRole = webRole
    client = client
    clientEnv = clientEnv
    MaxTokens = 3
INVARIANTS
    TypeOK
    RootTokenAgrees
    RolesShareBackend
    OverrideStaysLocal
PROPERTY
    TokenPersists
