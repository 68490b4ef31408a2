---------------------------- MODULE MCAdmission ----------------------------
(* Small inputs on which TLC compares the agent's pure algorithms with     *)
(* their references, whenever it checks a run of the workload service.     *)
EXTENDS ComposeValidation, Resources, TLC

LOCAL Fields == {<<NotANumber>>, <<79>>, <<80>>, <<442, 444>>, <<444, 442>>, <<65535>>,
                 <<65536>>, <<79, NotANumber>>, <<81, 442>>}
LOCAL ShortPorts ==
    [protocol : {"none", "tcp", "sctp"},
     fields : {<<f>> : f \in Fields} \cup (Fields \X Fields)
              \cup ({<<NotANumber>>} \X Fields \X Fields)]
LOCAL LongPorts == [published : Fields \cup {<< >>}]

LOCAL Service == [body |-> TRUE, containerName |-> {}, ports |-> {}, longPorts |-> {},
                  options |-> {}, volumes |-> {}, envFiles |-> {}, extends |-> {}]
LOCAL Files == {<<"a">>, <<"d", "b">>}
LOCAL Paths == {<<"data">>, <<"etc">>, <<"$FILES">>, <<"$FILES", "">>, <<"$FILES", "a">>,
                <<"${FILES}", "d", "b">>, <<"$FILES", "d">>, <<"$FILES", "..", "etc">>,
                <<"", "etc">>, <<"$FILESX", "a">>}
LOCAL Mounts == [form : {"short", "long"}, colon : BOOLEAN, source : Paths]

(* Services that differ from an empty one in one or two attributes.        *)
LOCAL Services ==
    {[Service EXCEPT !.ports = {p}] : p \in {q \in ShortPorts : Understood(q)}}
    \cup {[Service EXCEPT !.longPorts = {p}, !.options = o] :
            p \in LongPorts, o \in {{}, {"pid"}, {"restart"}}}
    \cup {[Service EXCEPT !.volumes = {m}] : m \in Mounts}
    \cup {[Service EXCEPT !.envFiles = {p}, !.extends = e] :
            p \in Paths, e \in {{}, {"service"}, {"service", "file"}}}
    \cup {[Service EXCEPT !.containerName = {n}, !.body = b] :
            n \in {<<"web">>, <<"my", "nilcc-proxy">>}, b \in BOOLEAN}

LOCAL Composes ==
    [words : {{}}, parses : {TRUE}, volumes : {<<>>, [data |-> {}], [data |-> {"driver"}]},
     services : {(<<"api">> :> s) : s \in Services},
     options : {{}, {"include"}}, networks : {{}, {{"ipam"}}}]

LOCAL Publics == {<<"api">>, <<"web">>}

(* No compose file that the agent accepts gets at the ports, names or      *)
(* rights that nilCC keeps for itself (validate_docker_compose) ...        *)
ASSUME AcceptedContainedSmall ==
    \A c \in Composes, p \in Publics :
        validate_docker_compose(c, p, Files) => Contained(c, p, Files)

(* ... and there are such files: with ports, volumes, files and names.     *)
ASSUME AcceptedExist ==
    \A attribute \in {"ports", "longPorts", "volumes", "envFiles", "extends",
                      "containerName"} :
        \E c \in Composes, p \in Publics :
            /\ validate_docker_compose(c, p, Files)
            /\ c.services[<<"api">>][attribute] # {}

(* The GPUs of up to three workloads on a host with up to four, before and *)
(* after their addresses change (adjust_gpu_assignment).                   *)
ASSUME AdjustmentSoundSmall ==
    \A devices \in SUBSET (1..4) :
        LET lists == {<< >>} \cup {<<a>> : a \in 1..5} \cup ((1..5) \X (1..5)) IN
        \A rows \in {<<r, s, t>> : r \in lists, s \in lists, t \in {<< >>, <<3>>, <<5>>}} :
            AdjustmentSound(parse_gpus([d \in devices |-> "H100"]), rows)
=============================================================================
