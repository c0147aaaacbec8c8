---------------------------- MODULE Configuration ----------------------------
(***************************************************************************)
(* Where a client connects to, for whom it asks for tokens, and whether    *)
(* over TLS: src/lib/ConfigurationHydrator.ts and the constructor of       *)
(* ZBClient.  Parts are spread one over the other; the last one that has a *)
(* field wins, also when the value it has is undefined.  A host is named   *)
(* by where it comes from; the port is left out.                           *)
(***************************************************************************)

VARIABLE input  \* what the constructor reads, once: env, explicit, opts

Flag == {"true", "false", "undefined"}

\* Which variables of the environment are set: ZEEBE_CLIENT_ID, _SECRET,
\* ZEEBE_TOKEN_AUDIENCE, ZEEBE_AUTHORIZATION_SERVER_URL,
\* ZEEBE_CAMUNDA_CLOUD_CLUSTER_ID, ZEEBE_ADDRESS, ZEEBE_SECURE_CONNECTION.
Environments ==
    [clientId : BOOLEAN, clientSecret : BOOLEAN, audience : BOOLEAN,
     authServer : BOOLEAN, clusterId : BOOLEAN, address : BOOLEAN, secure : Flag]

\* Which options the constructor was given.
OptionSets == [hostname : BOOLEAN, camundaCloud : BOOLEAN, oAuth : BOOLEAN, useTLS : Flag]

\* {...part, ...fields}
Spread(part, fields) ==
    [f \in DOMAIN part \cup DOMAIN fields |->
        IF f \in DOMAIN fields THEN fields[f] ELSE part[f]]

Optional(given, fields) == IF given THEN fields ELSE <<>>
CloudAt(host) ==
    [hostname |-> host, oAuth |-> [audience |-> host], useTLS |-> "true"]

IsCamundaCloudShortcut(env) ==
    env.clusterId \/ (env.clientId /\ env.clientSecret /\ ~env.audience)

\* The shortcut without cluster, address or argument: split() of undefined.
Throws(env, explicit) ==
    IsCamundaCloudShortcut(env) /\ ~explicit /\ ~env.clusterId /\ ~env.address

\* Mutant of readCamundaClusterConfFromEnv: the argument is not looked at.
readCamundaClusterConfAlways(env, explicit) ==
    LET host == IF env.clusterId THEN "envCluster" ELSE "envAddress" IN
    Optional(env.clientId, CloudAt(host))

readCamundaClusterConfFromEnv(env, explicit) ==
    LET host == IF env.clusterId THEN "envCluster" ELSE "envAddress" IN
    Optional(~explicit /\ env.clientId, CloudAt(host))

readOAuthFromEnvironment(env, explicit) ==
    IF IsCamundaCloudShortcut(env) THEN readCamundaClusterConfFromEnv(env, explicit)
    ELSE Optional(env.clientId /\ env.clientSecret /\ env.audience /\ env.authServer,
                  [oAuth |-> [audience |-> "explicit"], useTLS |-> "true"])

getGatewayFromEnvironment(env) == Optional(env.address, [hostname |-> "envAddress"])

decodeConnectionString(env, explicit) ==
    IF explicit THEN [hostname |-> "argument"] ELSE getGatewayFromEnvironment(env)

\* All options, and over them what a camundaCloud option stands for.
getCamundaCloudConfig(opts) ==
    LET tls == Optional(opts.useTLS # "undefined", [useTLS |-> opts.useTLS])
        tokens == Optional(opts.oAuth, [oAuth |-> [audience |-> "explicit"]])
        host == Optional(opts.hostname, [hostname |-> "option"])
    IN Spread(Spread(Spread(tls, tokens), host), Optional(opts.camundaCloud, CloudAt("cloud")))

readTLSFromEnvironment(env, opts) ==
    [useTLS |-> IF opts.useTLS # "undefined" THEN opts.useTLS ELSE env.secure]

fromEnvironment(env, explicit) ==
    Spread(Spread([hostname |-> "localhost"], readOAuthFromEnvironment(env, explicit)),
           getGatewayFromEnvironment(env))

configure(env, explicit, opts) ==
    Spread(Spread(Spread(fromEnvironment(env, explicit),
                         decodeConnectionString(env, explicit)),
                  getCamundaCloudConfig(opts)),
           readTLSFromEnvironment(env, opts))

HasOAuth(fields) == "oAuth" \in DOMAIN fields

\* Mutant of UseTLS: the constructor takes the option as it is.
UseTLSAsGiven(fields) == fields.useTLS = "true"

\* The constructor's this.useTLS.
UseTLS(fields) ==
    fields.useTLS = "true" \/ (HasOAuth(fields) /\ fields.useTLS # "false")

-----------------------------------------------------------------------------
Inputs ==
    {i \in [env : Environments, explicit : BOOLEAN, opts : OptionSets] :
        ~Throws(i.env, i.explicit)}

conf == configure(input.env, input.explicit, input.opts)

ConfigurationInit == input \in Inputs

\* Two sources of the environment name different gateways, or an option
\* renames the one the environment has tokens for.
Contradictory ==
    /\ ~input.opts.camundaCloud
    /\ input.opts.hostname \/ (input.env.clusterId /\ input.env.address)

\* Tokens whose audience the library derives itself are for the gateway the
\* client connects to, whichever of environment, argument and options win,
\* unless these contradict each other.
AudienceMatchesGateway ==
    HasOAuth(conf) /\ conf.oAuth.audience # "explicit" /\ ~Contradictory
        => conf.oAuth.audience = conf.hostname

\* Tokens travel over TLS unless it was switched off by name, although the
\* TLS setting of the OAuth parts is overwritten by an undefined one; and
\* without tokens there is no TLS that nobody asked for.
TokensOverTLS ==
    LET asked == IF input.opts.useTLS # "undefined" THEN input.opts.useTLS
                 ELSE input.env.secure
    IN UseTLS(conf) <=> (asked = "true" \/ (asked = "undefined" /\ HasOAuth(conf)))
=============================================================================
