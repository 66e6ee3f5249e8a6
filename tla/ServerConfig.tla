---------------------------- MODULE ServerConfig ----------------------------
(***************************************************************************)
(* A server's configuration on its way through the program: a client's     *)
(* request is converted (delivery/http/openapi/server.go), stored as JSON  *)
(* and read back (infrastructure/database/servers.go), answered to clients *)
(* and turned into the options of a container (docker/config.go).  Ports   *)
(* and volumes are lists in a request, but maps in a configuration, over   *)
(* which Go ranges in any order, another one each time.                    *)
(*                                                                         *)
(* The text of a port mapping is a record of its host port, with leading   *)
(* zeros, and its container port with protocol; other text is Malformed.   *)
(* The image is passed on as it is and left out.                           *)
(***************************************************************************)
EXTENDS Naturals, SequencesExt

CONSTANTS
  HostPorts, ContainerPorts,  \* "8080" and "80/tcp" of "8080:80/tcp"
  Zeros,                      \* how many leading zeros a client may write
  HostPaths, ContainerPaths,  \* of volumes
  EnvVars,                    \* "KEY=value"
  Malformed,                  \* an entry that is not one of these
  MaxEntries                  \* bound: the length of each list in a request

VARIABLES
  stage,    \* the request is "sent", was "refused", or the server is "created"
  request,  \* the body of POST /api/servers
  row,      \* servers.config, the JSON in the server's row
  config,   \* the instance's DockerServerInstanceOptions
  told,     \* the configuration in the last response of this server
  built,    \* the container exists
  options   \* what it was created with: container.Config and HostConfig

vars == <<stage, request, row, config, told, built, options>>

Lists(S) == UNION {[1..n -> S] : n \in 0..MaxEntries}
Maps(K, V) == UNION {[D -> V] : D \in SUBSET K}

PortTexts     == [number : HostPorts, zeros : Zeros]
PortEntries   == PortTexts \X ContainerPorts
VolumeEntries == HostPaths \X ContainerPaths

ASSUME ConfigAssumption ==
  /\ Malformed \notin PortEntries
  /\ Malformed \notin VolumeEntries
  /\ Malformed \notin EnvVars
  /\ Zeros \subseteq Nat /\ 0 \in Zeros
  /\ MaxEntries \in Nat

\* Decoded ServerConfigDocker, as the clients send it and as they are told.
Requests == [ports   : Lists(PortEntries \cup {Malformed}),
             volumes : Lists(VolumeEntries \cup {Malformed}),
             env     : Lists(EnvVars \cup {Malformed})]

\* DockerServerInstanceOptions; the ID is the zero UUID until a row has one.
Configs == [id      : {"zero", "drawn"},
            ports   : Maps(HostPorts, ContainerPorts),
            volumes : Maps(HostPaths, ContainerPaths),
            env     : Lists(EnvVars)]

NoRequest == [ports |-> <<>>, volumes |-> <<>>, env |-> <<>>]
NoConfig  == [id |-> "zero", ports |-> <<>>, volumes |-> <<>>, env |-> <<>>]
NoOptions == [bindings |-> <<>>, binds |-> {}, env |-> <<>>]

-----------------------------------------------------------------------------
(* Maps: what loops of assignments and of range leave behind.              *)

\* for ... { m[key] = value }: of the entries with one key the last remains.
Assign(entries) ==
  [k \in {entries[i][1] : i \in DOMAIN entries} |->
     LET last == CHOOSE i \in DOMAIN entries :
                   /\ entries[i][1] = k
                   /\ \A j \in DOMAIN entries : entries[j][1] = k => j <= i
     IN  entries[last][2]]

\* for key, value := range m: every pair once, in any order.
Pairs(m) == {<<k, m[k]>> : k \in DOMAIN m}
Ranges(m) == SetToSeqs(Pairs(m))

-----------------------------------------------------------------------------
(* The conversions.                                                        *)

\* strconv.Atoi and fmt.Sprint of a host port.
Atoi(text) == text.number
Sprint(port) == [number |-> port, zeros |-> 0]

\* No entry fails its pattern.
Accepts(req) ==
  \A list \in {req.ports, req.volumes, req.env} : Malformed \notin Range(list)

Numbered(ports) == [i \in DOMAIN ports |-> <<Atoi(ports[i][1]), ports[i][2]>>]
Printed(ports)  == [i \in DOMAIN ports |-> <<Sprint(ports[i][1]), ports[i][2]>>]

OAPIToConfig(req) ==
  [id      |-> "zero",
   ports   |-> Assign(Numbered(req.ports)),
   volumes |-> Assign(req.volumes),
   env     |-> req.env]

\* The responses that may tell of a configuration.
ConfigToOAPINoEnv(cfg) ==
  {[ports |-> Printed(p), volumes |-> v, env |-> <<>>] :
     p \in Ranges(cfg.ports), v \in Ranges(cfg.volumes)}
ConfigToOAPI(cfg) ==
  {[ports |-> Printed(p), volumes |-> v, env |-> cfg.env] :
     p \in Ranges(cfg.ports), v \in Ranges(cfg.volumes)}

\* json.Marshal: InstanceID, without a tag, is in the JSON as well.
ToJSON(cfg) == cfg

\* json.Unmarshal; the ID is the row's.
ConvertKeepsID(json) == json
ConvertToServer(json) == [json EXCEPT !.id = "drawn"]

\* One binding for each container port: a list of one, assigned anew for every
\* host port.
BindingLoopVariable(p) ==
  [i \in DOMAIN p |-> <<p[i][2], p[Len(p)][1]>>]
Binding(p) == [i \in DOMAIN p |-> <<p[i][2], p[i][1]>>]

\* The options that toOptions may return; the order of Binds has no meaning.
\* ExposedPorts and Volumes hold the container's side of these and are left out.
ToOptions(cfg) ==
  {[bindings |-> Assign(Binding(p)), binds |-> Pairs(cfg.volumes), env |-> cfg.env] :
     p \in Ranges(cfg.ports)}

-----------------------------------------------------------------------------
Init ==
  /\ stage = "sent"
  /\ request \in Requests
  /\ row = NoConfig /\ config = NoConfig /\ told = NoRequest
  /\ built = FALSE /\ options = NoOptions

\* POST /api/servers: the request is converted, stored, read back and answered.
CreateServer ==
  /\ stage = "sent"
  /\ Accepts(request)
  /\ stage' = "created"
  /\ row' = ToJSON(OAPIToConfig(request))
  /\ config' = ConvertToServer(row')
  /\ told' \in ConfigToOAPI(config')
  /\ UNCHANGED <<request, built, options>>

\* "invalid port config" and the like: nothing is stored.
RefuseServer ==
  /\ stage = "sent"
  /\ ~Accepts(request)
  /\ stage' = "refused"
  /\ UNCHANGED <<request, row, config, told, built, options>>

\* GET /api/servers/{id}.
GetServer ==
  /\ stage = "created"
  /\ told' \in ConfigToOAPI(config)
  /\ UNCHANGED <<stage, request, row, config, built, options>>

\* lifecycleInit creates the container, unless there is one.
CreateContainer ==
  /\ stage = "created" /\ ~built
  /\ built' = TRUE
  /\ options' \in ToOptions(config)
  /\ UNCHANGED <<stage, request, row, config, told>>

\* The process starts again: the configuration is read from the row.
Restart ==
  /\ stage = "created"
  /\ config' = ConvertToServer(row)
  /\ UNCHANGED <<stage, request, row, told, built, options>>

\* The container is removed by other hands.
RemoveContainer ==
  /\ built
  /\ built' = FALSE
  /\ options' = NoOptions
  /\ UNCHANGED <<stage, request, row, config, told>>

\* A client creates another server from what it was told of this one.
Copy ==
  /\ stage = "created"
  /\ stage' = "sent"
  /\ request' = told
  /\ row' = NoConfig /\ config' = NoConfig /\ told' = NoRequest
  /\ built' = FALSE /\ options' = NoOptions

Next ==
  \/ CreateServer \/ RefuseServer \/ GetServer
  \/ CreateContainer \/ Restart \/ RemoveContainer \/ Copy

Spec == Init /\ [][Next]_vars

-----------------------------------------------------------------------------
(* Safety.                                                                 *)

TypeOK ==
  /\ stage \in {"sent", "refused", "created"}
  /\ request \in Requests
  /\ row \in Configs
  /\ config \in Configs
  /\ told \in Requests
  /\ built \in BOOLEAN
  /\ options \in [bindings : Maps(ContainerPorts, HostPorts),
                  binds    : SUBSET (HostPaths \X ContainerPaths),
                  env      : Lists(EnvVars)]

\* What clients are told of a server, sent back, asks for the same configuration,
\* in whatever order the maps were ranged over.
TellsWhatIs ==
  stage = "created" => Accepts(told) /\ OAPIToConfig(told) = OAPIToConfig(request)

\* A container port is bound only to a host port the client mapped to it.
OnlyAsked ==
  built => \A c \in DOMAIN options.bindings :
             \E e \in Range(request.ports) :
               Atoi(e[1]) = options.bindings[c] /\ e[2] = c

\* When no two host ports are mapped to one container port, each is bound, whichever
\* way the map was ranged over when the container was made.
BindsAll ==
  built /\ (\A h1, h2 \in DOMAIN config.ports : config.ports[h1] = config.ports[h2] => h1 = h2)
    => \A h \in DOMAIN config.ports :
        /\ config.ports[h] \in DOMAIN options.bindings
        /\ options.bindings[config.ports[h]] = h

\* "The ports to expose on the server" (delivery/http/openapi/openapi.yml:118): each
\* of them is.  Not so when two entries have one host port, as with "80:80/tcp" and
\* "80:80/udp", or one container port: one of them is dropped without an error.
ExposesPorts ==
  built => \A e \in Range(request.ports) :
             e[2] \in DOMAIN options.bindings /\ options.bindings[e[2]] = Atoi(e[1])

\* The inductive invariant behind these properties.
ConfigInv ==
  /\ TypeOK /\ TellsWhatIs
  /\ stage = "created" =>
       /\ Accepts(request) /\ row = OAPIToConfig(request)
       /\ config = [row EXCEPT !.id = "drawn"]
  /\ built => stage = "created" /\ options \in ToOptions(config)
=============================================================================
