------------------------- MODULE ComposeValidation -------------------------
(***************************************************************************)
(* What the agent demands of a create request before it looks at the       *)
(* host: the limits of one workload, the domain, the environment variables *)
(* and the docker compose file. Pure operators: a request is answered with *)
(* 400 when one of the conditions fails, and the order in which the code   *)
(* tries them only decides the wording.                                    *)
(*                                                                         *)
(* A name is the sequence of the words it is made of, so that containing a *)
(* reserved word is membership. A path is the sequence of its segments, no *)
(* segment but ".." ending in "..". A port field is the sequence of the    *)
(* numbers between its dashes, NotANumber where there is none.             *)
(***************************************************************************)
EXTENDS Integers, Sequences

RESERVED_CONTAINERS == {"nilcc-attester", "nilcc-proxy"}
RESERVED_PORTS == {80, 443}
ReservedKeys == {"CADDY_ACME_EAB_KEY_ID", "CADDY_ACME_EAB_MAC_KEY"}
RESERVED_ENVIRONMENT_VARIABLES ==
    ReservedKeys \cup {"NILCC_VERSION", "NILCC_VM_TYPE", "NILCC_DOMAIN", "FILES",
                       "CADDY_INPUT_FILE"}
FilesVariables == {"$FILES", "${FILES}"}

U16 == 0..65535
NotANumber == -1

-----------------------------------------------------------------------------
(* Ports.                                                                  *)

(* PublishedPort::validate: a port or a range of ports, all of them free.  *)
PublishedValid(field) ==
    /\ Len(field) \in {1, 2}
    /\ \A i \in 1..Len(field) : field[i] \in U16
    /\ field[1] <= field[Len(field)]
    /\ \A port \in field[1]..field[Len(field)] : port \notin RESERVED_PORTS

(* A port in the short form, "fields/protocol": only the text before the   *)
(* first colon is looked at, and without a colon nothing is published.     *)
ShortPortValid(spec) ==
    /\ spec.protocol \in {"none", "udp", "tcp"}
    /\ Len(spec.fields) > 1 => PublishedValid(spec.fields[1])

LongPortValid(spec) == spec.published # << >> => PublishedValid(spec.published)

validate_ports(service) ==
    /\ \A spec \in service.ports : ShortPortValid(spec)
    /\ \A spec \in service.longPorts : LongPortValid(spec)

-----------------------------------------------------------------------------
(* Volumes, files and everything else a service may name.                  *)

validate_volume_path(path, files) ==
    /\ \A i \in 1..(Len(path) - 1) : path[i] # ".."
    /\ path[1] \in FilesVariables
    /\ Tail(path) \in {<< >>, <<"">>} \cup files

validate_volumes(volume, topLevel, files) ==
    /\ volume.form = "short"
    /\ volume.colon
    /\ \/ \E name \in topLevel : volume.source = <<name>>
       \/ validate_volume_path(volume.source, files)

ForbiddenOptions == {"cap_add", "privileged", "security_opt", "devices", "pid", "ipc",
                     "network_mode", "cgroup_parent"}

validate_env_file(paths, files) == \A path \in paths : validate_volume_path(path, files)

validate_extends(attributes) == "file" \notin attributes

validate_service(service, topLevel, files) ==
    /\ validate_ports(service)
    /\ service.options \cap ForbiddenOptions = {}
    /\ \A volume \in service.volumes : validate_volumes(volume, topLevel, files)
    /\ validate_env_file(service.envFiles, files)
    /\ validate_extends(service.extends)

-----------------------------------------------------------------------------
(* The file as a whole.                                                    *)

ContainsReserved(name) == \E i \in 1..Len(name) : name[i] \in RESERVED_CONTAINERS

(* A service is known by its name and by its container_name.               *)
ContainerNames(compose, n) == {n} \cup compose.services[n].containerName

validate_top_level_volumes(volumes) == \A v \in DOMAIN volumes : volumes[v] = {}

validate_networks(networks) ==
    \A attributes \in networks : attributes \cap {"driver", "driver_opts", "ipam"} = {}

validate_docker_compose(compose, public, files) ==
    /\ compose.words \cap ReservedKeys = {}
    /\ compose.parses
    /\ DOMAIN compose.services # {}
    /\ validate_top_level_volumes(compose.volumes)
    /\ \A n \in DOMAIN compose.services :
        /\ compose.services[n].body
        /\ \A name \in ContainerNames(compose, n) : ~ContainsReserved(name)
        /\ validate_service(compose.services[n], DOMAIN compose.volumes, files)
    /\ compose.options \cap {"include", "secrets"} = {}
    /\ validate_networks(compose.networks)
    /\ \E n \in DOMAIN compose.services : public \in ContainerNames(compose, n)

(* The create handler, before it calls create_workload.                    *)
Admits(request, limits, agentDomain) ==
    /\ \A r \in DOMAIN limits : request.resources[r] <= limits[r]
    /\ request.domain # agentDomain
    /\ request.envVars \cap RESERVED_ENVIRONMENT_VARIABLES = {}
    /\ validate_docker_compose(request.compose, request.public, request.files)

-----------------------------------------------------------------------------
(* The reference: what docker compose would do with a file.                *)

(* The host ports of a field: a port or a range. docker publishes at most  *)
(* these.                                                                  *)
PortsOf(field) ==
    IF Len(field) > 0 /\ \A i \in 1..Len(field) : field[i] \in U16
    THEN field[1]..field[Len(field)] ELSE {}

(* [[address:]host:]container. An address is IPv4, or IPv6 in brackets: it *)
(* does not begin with a number and a colon.                               *)
Understood(spec) ==
    /\ Len(spec.fields) > 0
    /\ Len(spec.fields) > 2 => spec.fields[1] = <<NotANumber>>

ShortHostPorts(spec) ==
    IF Len(spec.fields) < 2 THEN {} ELSE PortsOf(spec.fields[Len(spec.fields) - 1])

HostPorts(service) ==
    UNION ({ShortHostPorts(spec) : spec \in service.ports}
           \cup {PortsOf(spec.published) : spec \in service.longPorts})

(* The definitions of a service all come from the file itself, so that     *)
(* nothing is merged in that was not looked at (`extends`, `include`).     *)
SelfContained(compose) ==
    /\ "include" \notin compose.options
    /\ \A n \in DOMAIN compose.services : "file" \notin compose.services[n].extends

(* What a service reads from outside its image is a volume that docker     *)
(* manages, without a driver that could say otherwise, or a file that came *)
(* with the request.                                                       *)
Uploaded(path, files) ==
    path[1] \in FilesVariables /\ Tail(path) \in {<< >>, <<"">>} \cup files

MountsOwn(compose, files) ==
    \A n \in DOMAIN compose.services :
        /\ \A volume \in compose.services[n].volumes :
            \/ \E v \in DOMAIN compose.volumes :
                volume.source = <<v>> /\ compose.volumes[v] = {}
            \/ Uploaded(volume.source, files)
        /\ \A path \in compose.services[n].envFiles : Uploaded(path, files)

(* The containers of nilCC in the same CVM, nilcc-attester and nilcc-proxy *)
(* (caddy), keep their names and the ports 80 and 443, no service has more *)
(* rights than a container of its own, nothing is read that did not come   *)
(* with the request, and the proxy finds the container it forwards to.     *)
Contained(compose, public, files) ==
    /\ \A n \in DOMAIN compose.services :
        /\ HostPorts(compose.services[n]) \cap RESERVED_PORTS = {}
        /\ compose.services[n].options \cap ForbiddenOptions = {}
        /\ \A name \in ContainerNames(compose, n) : ~ContainsReserved(name)
    /\ SelfContained(compose)
    /\ MountsOwn(compose, files)
    /\ \E n \in DOMAIN compose.services : public \in ContainerNames(compose, n)

=============================================================================
