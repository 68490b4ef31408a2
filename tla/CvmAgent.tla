----------------------------- MODULE CvmAgent -----------------------------
(***************************************************************************)
(* cvm-agent, the service inside a CVM: it waits for the bootstrap request *)
(* of the host's agent, then pulls the images and launches docker compose, *)
(* follows the log of the caddy container until there is a certificate,    *)
(* and reports its state and its last error or warning when asked for its  *)
(* health.                                                                 *)
(***************************************************************************)
EXTENDS FiniteSetsExt, Integers, Sequences

CONSTANTS
    TailLines,  \* lines of caddy's log that are read each time (10)
    Burst,      \* lines that caddy writes at most between two readings
    MaxLines    \* bound on the lines that caddy writes

ASSUME TailAssumption ==
    /\ TailLines \in Nat \ {0}
    /\ Burst \in Nat
    /\ MaxLines \in Nat

VARIABLES
    guest,      \* the state of cvm-agent since the CVM booted
    caddyLog    \* what caddy logged since; a line's index is its timestamp

gvars == <<guest, caddyLog>>

NoId == -1

(* state: SystemState. monitor: the caddy monitor runs. compose: the       *)
(* compose monitor, not spawned, pulling, launching or done. launched:     *)
(* docker compose was started, and caddy with it. event, kind: the last    *)
(* event. threshold: the timestamp up to which the log was read. notified: *)
(* the heartbeat emitter was told about the certificate.                   *)
Fresh == [state |-> "waiting", monitor |-> FALSE, compose |-> "none",
          launched |-> FALSE, event |-> NoId, kind |-> "none", threshold |-> 0,
          notified |-> FALSE]

LineKinds == {"cert", "failed", "staging", "other"}

GuestInit == guest = Fresh /\ caddyLog = << >>

(* The CVM boots.                                                          *)
Boots == guest' = Fresh /\ caddyLog' = << >>

-----------------------------------------------------------------------------

(* EventHolder::set.                                                       *)
SetEvent(g, k) == [g EXCEPT !.event = @ + 1, !.kind = k]

(* The health handler.                                                     *)
Health == [bootstrapped |-> guest.state # "waiting", https |-> guest.state = "ready",
           event |-> guest.event, kind |-> guest.kind]

(* The bootstrap handler, under the lock of the state. `hb` is the         *)
(* heartbeat configuration it is given: none, valid or with an address or  *)
(* a key that cannot be parsed, which is the one error it returns; by then *)
(* the state is Starting, and compose is never launched.                   *)
Bootstrap(hb) ==
    /\ guest' = IF guest.state # "waiting" THEN guest
                ELSE [guest EXCEPT !.state = "starting", !.monitor = TRUE,
                                   !.compose = IF hb = "invalid" THEN "none" ELSE "pull"]
    /\ UNCHANGED caddyLog

BootstrapOk(hb) == guest.state # "waiting" \/ hb # "invalid"

-----------------------------------------------------------------------------
(* The compose monitor.                                                    *)

(* pull_images: docker login with every credential, docker compose pull    *)
(* and the removal of the credentials.                                     *)
Pull ==
    /\ guest.compose = "pull"
    /\ guest' = [guest EXCEPT !.compose = "launch"]
    /\ UNCHANGED caddyLog

PullFails ==
    /\ guest.compose = "pull"
    /\ guest' = SetEvent(guest, "Error")
    /\ UNCHANGED caddyLog

(* launch_compose and check_process_output: docker compose up exits.       *)
Launch ==
    /\ guest.compose = "launch"
    /\ guest' = [guest EXCEPT !.compose = "done", !.launched = TRUE]
    /\ UNCHANGED caddyLog

(* It fails, maybe with caddy running already. A process that cannot be    *)
(* waited for is not reported.                                             *)
LaunchFails ==
    /\ guest.compose = "launch"
    /\ \E up, told \in BOOLEAN :
        LET g == [guest EXCEPT !.launched = @ \/ up] IN
        guest' = IF told THEN SetEvent(g, "Error") ELSE g
    /\ UNCHANGED caddyLog

-----------------------------------------------------------------------------
(* Caddy, external to the repository, and the monitor of its log.          *)

(* Caddy keeps trying until it has its certificate, and says so once.      *)
CaddyWrites(k) ==
    /\ guest.launched
    /\ Len(caddyLog) < MaxLines
    /\ Len(caddyLog) - guest.threshold < Burst
    /\ IF \E i \in 1..Len(caddyLog) : caddyLog[i] = "cert" THEN k = "other"
       ELSE Len(caddyLog) = MaxLines - 1 => k = "cert"
    /\ caddyLog' = Append(caddyLog, k)
    /\ UNCHANGED guest

(* The lines of the tail that are newer than the threshold.                *)
NewLines(log, threshold) == {i \in 1..Len(log) : i > Len(log) - TailLines /\ i > threshold}

(* check_caddy_status: the last new line that says something.              *)
CaddyStatus(log, threshold) ==
    LET telling == {i \in NewLines(log, threshold) : log[i] # "other"} IN
    IF telling = {} THEN "unknown" ELSE log[Max(telling)]

LastTimestamp(log, threshold) == Max(NewLines(log, threshold) \cup {threshold})

(* One round of CaddyMonitor::run. A log that cannot be read changes       *)
(* nothing; a container that needs a restart gets one, or not.             *)
CaddyCheck ==
    LET st == CaddyStatus(caddyLog, guest.threshold)
        g == [guest EXCEPT !.threshold = LastTimestamp(caddyLog, @)]
    IN
    /\ guest.monitor
    /\ guest.launched
    /\ guest' = CASE st = "cert" -> [g EXCEPT !.state = "ready", !.notified = TRUE]
                  [] st = "failed" -> SetEvent(g, "Warning")
                  [] OTHER -> g
    /\ UNCHANGED caddyLog

=============================================================================
