------------------------------ MODULE SonicDut ------------------------------
(***************************************************************************)
(* SaiDutSonic: a SONiC device driven over SSH.  ssh.exec_command() only   *)
(* sends a command: the device runs the commands sent and not yet run in   *)
(* any order, whatever the client does meanwhile.  A method is a sequence  *)
(* of steps: send a command, wait for a state (and raise if it does not    *)
(* come in time), branch on a state that is read, talk to Redis.           *)
(***************************************************************************)
EXTENDS Naturals, Sequences, FiniteSets, TLC

Services == <<"monit", "pmon", "sonic.target", "database">>
Names == {Services[i] : i \in DOMAIN Services}
Containers == {"database", "syncd"}

CONSTANT MaxCmds   \* bound on the commands sent and not yet run

ASSUME DutAssumption == MaxCmds \in Nat \ {0}

VARIABLES
  svc,       \* service -> "active", "inactive" or "failed"
  masked,    \* masked services
  up,        \* running containers
  metadata,  \* where DEVICE_METADATA is: a subset of {"file", "config_db"}
  cmds,      \* commands sent and not yet run
  prog,      \* steps left of the method in progress
  gaveUp,    \* the last method raised
  called,    \* last of init() and deinit() that was called
  stopped,   \* history: this init() found the database container running
  late,      \* history: services a stop or mask was still due for when deinit() began
  early,     \* history: services restarted while masked, since then
  skipped    \* history: services this deinit() did not find inactive

history == <<stopped, late, early, skipped>>
dutVars == <<svc, masked, up, metadata, cmds, prog, gaveUp, called, history>>

Send(verb, what) == [step |-> "send", verb |-> verb, what |-> what]
WaitInactive(s) == [step |-> "wait", state |-> "inactive", what |-> s]
WaitUp(c) == [step |-> "wait", state |-> "up", what |-> c]
WaitDown(c) == [step |-> "wait", state |-> "down", what |-> c]
IfUp(c, then) == [step |-> "if_up", what |-> c, then |-> then]
IfInactive(s, then) == [step |-> "if_inactive", what |-> s, then |-> then]
Do(what) == [step |-> what]

-----------------------------------------------------------------------------
(* The methods.                                                            *)

\* Mutant: nobody waits for the service to stop.
StopServiceAtOnce(s) == <<Send("stop", s), Send("mask", s)>>

StopService(s) == <<Send("stop", s), Send("mask", s), WaitInactive(s)>>

(* Stop and mask the services, stop syncd.  (That Redis is told to listen  *)
(* on all interfaces is left out.)                                         *)
StopServices ==
  StopService(Services[1]) \o StopService(Services[2])
  \o StopService(Services[3]) \o StopService(Services[4])
  \o <<Send("docker_stop", "syncd"), WaitDown("syncd")>>

InitSteps ==
  <<Do("read_metadata"), IfUp("database", <<Do("stopping")>> \o StopServices),
    IfUp("database", <<Send("docker_stop", "database"), WaitDown("database")>>),
    Send("docker_start", "database"), WaitUp("database"),
    Do("flushall"), Do("write_metadata")>>

\* Mutant: the service is restarted, and stays masked.
StartServiceMasked(s) == IfInactive(s, <<Send("restart", s)>>)

(* A service found not "inactive", a failed one too, is left as it is.     *)
StartService(s) == IfInactive(s, <<Send("unmask", s), Send("restart", s)>>)

DeinitSteps(mode) ==
  IF mode # "sonic-restore" THEN <<>>
  ELSE <<Send("docker_stop", "syncd"), WaitDown("syncd"),
         Send("docker_stop", "database"), WaitDown("database")>>
       \o [i \in 1..Len(Services) |-> StartService(Services[Len(Services) + 1 - i])]

\* Mutant: the server container of another client is started.
CleanupOther ==
  <<Send("docker_stop", "syncd"), WaitDown("syncd"), Do("flushdb"),
    Send("docker_start", "saiserver")>>

CleanupSteps ==
  <<Send("docker_stop", "syncd"), WaitDown("syncd"), Do("flushdb"),
    Send("docker_start", "syncd")>>

-----------------------------------------------------------------------------
(* The device.                                                             *)

DutInit ==
  /\ svc = [s \in Names |-> "active"]
  /\ masked = {} /\ up = Containers /\ metadata = {"config_db"}
  /\ cmds = {} /\ prog = <<>> /\ gaveUp = FALSE /\ called = "deinit"
  /\ stopped = FALSE /\ late = {} /\ early = {} /\ skipped = {}

(* A service that runs a container takes it up and down.                   *)
Runs(s) == {s} \cap Containers

(* systemctl stop: a service may end in the state failed.                  *)
Stop(s) ==
  /\ svc' \in {[svc EXCEPT ![s] = r] :
                 r \in IF svc[s] = "active" THEN {"inactive", "failed"} ELSE {svc[s]}}
  /\ up' = IF svc[s] = "active" THEN up \ Runs(s) ELSE up
  /\ UNCHANGED <<masked, metadata, early>>

(* systemctl restart: refused for a masked service.                        *)
Restart(s) ==
  /\ IF s \in masked
       THEN early' = early \cup {s} /\ UNCHANGED <<svc, up>>
       ELSE /\ svc' = [svc EXCEPT ![s] = "active"]
            /\ up' = up \cup Runs(s)
            /\ UNCHANGED early
  /\ UNCHANGED <<masked, metadata>>

Execute(c) ==
  /\ c \in cmds
  /\ cmds' = cmds \ {c}
  /\ \/ c.verb = "stop" /\ Stop(c.what)
     \/ c.verb = "restart" /\ Restart(c.what)
     \/ /\ c.verb \in {"mask", "unmask"}
        /\ masked' = IF c.verb = "mask" THEN masked \cup {c.what} ELSE masked \ {c.what}
        /\ UNCHANGED <<svc, up, metadata, early>>
     \/ /\ c.verb \in {"docker_start", "docker_stop"}
        /\ up' = IF c.verb = "docker_start" THEN up \cup {c.what} ELSE up \ {c.what}
        /\ UNCHANGED <<svc, masked, metadata, early>>
     \/ /\ c.verb = "save"
        /\ metadata' = metadata \cup {"file"}
        /\ UNCHANGED <<svc, masked, up, early>>
  /\ UNCHANGED <<prog, gaveUp, called, stopped, late, skipped>>

Holds(p) ==
  CASE p.state = "inactive" -> svc[p.what] = "inactive"
    [] p.state = "up" -> p.what \in up
    [] p.state = "down" -> p.what \notin up

-----------------------------------------------------------------------------
(* The client.                                                             *)

Call(name, steps) ==
  /\ prog = <<>>
  /\ prog' = steps /\ gaveUp' = FALSE
  /\ IF name = "cleanup" THEN UNCHANGED <<called, late, early, skipped, stopped>>
     ELSE /\ called' = name /\ stopped' = FALSE /\ early' = {} /\ skipped' = {}
          /\ late' = {c.what : c \in {d \in cmds : d.verb \in {"stop", "mask"}}}
  /\ UNCHANGED <<svc, masked, up, metadata, cmds>>

First(kind) == prog # <<>> /\ Head(prog).step = kind

SendIt ==
  /\ First("send") /\ Cardinality(cmds) < MaxCmds
  /\ cmds' = cmds \cup {[verb |-> Head(prog).verb, what |-> Head(prog).what]}
  /\ prog' = Tail(prog)
  /\ UNCHANGED <<svc, masked, up, metadata, gaveUp, called, history>>

(* assert_service_state(), assert_container_state()                        *)
WaitOver ==
  /\ First("wait") /\ Holds(Head(prog))
  /\ prog' = Tail(prog)
  /\ UNCHANGED <<svc, masked, up, metadata, cmds, gaveUp, called, history>>

GiveUp ==
  /\ First("wait") /\ ~Holds(Head(prog))
  /\ prog' = <<>> /\ gaveUp' = TRUE
  /\ UNCHANGED <<svc, masked, up, metadata, cmds, called, history>>

Branch ==
  LET taken == \/ First("if_up") /\ Head(prog).what \in up
               \/ First("if_inactive") /\ svc[Head(prog).what] = "inactive"
  IN  /\ First("if_up") \/ First("if_inactive")
      /\ prog' = (IF taken THEN Head(prog).then ELSE <<>>) \o Tail(prog)
      /\ skipped' = IF First("if_inactive") /\ ~taken THEN skipped \cup {Head(prog).what}
                    ELSE skipped
      /\ UNCHANGED <<svc, masked, up, metadata, cmds, gaveUp, called, stopped, late, early>>

\* Mutant: what CONFIG_DB has is not saved.
ReadMetadataOnly ==
  /\ First("read_metadata")
  /\ prog' = Tail(prog)
  /\ UNCHANGED <<svc, masked, up, metadata, cmds, gaveUp, called, history>>

(* The file device_metadata.log, or CONFIG_DB, which is then saved to it.  *)
ReadMetadata ==
  /\ First("read_metadata")
  /\ \/ "file" \in metadata /\ prog' = Tail(prog) /\ UNCHANGED <<cmds, gaveUp>>
     \/ /\ "file" \notin metadata
        /\ IF {"database", "config_db"} \subseteq up \cup metadata
             THEN /\ cmds' = cmds \cup {[verb |-> "save", what |-> "database"]}
                  /\ prog' = Tail(prog) /\ UNCHANGED gaveUp
             ELSE prog' = <<>> /\ gaveUp' = TRUE /\ UNCHANGED cmds
  /\ UNCHANGED <<svc, masked, up, metadata, called, history>>

(* flushall(), flushdb() of ASIC_DB, hset() of the metadata; they raise if *)
(* Redis is not there.                                                     *)
UseRedis ==
  /\ First("flushall") \/ First("flushdb") \/ First("write_metadata")
  /\ IF "database" \in up
       THEN /\ metadata' = CASE First("flushall") -> metadata \ {"config_db"}
                             [] First("write_metadata") -> metadata \cup {"config_db"}
                             [] OTHER -> metadata
            /\ prog' = Tail(prog) /\ UNCHANGED gaveUp
       ELSE prog' = <<>> /\ gaveUp' = TRUE /\ UNCHANGED metadata
  /\ UNCHANGED <<svc, masked, up, cmds, called, history>>

(* History only: init() has found the database container running.          *)
NoteStopping ==
  /\ First("stopping")
  /\ prog' = Tail(prog) /\ stopped' = TRUE
  /\ UNCHANGED <<svc, masked, up, metadata, cmds, gaveUp, called, late, early, skipped>>

DutNext ==
  \/ SendIt \/ WaitOver \/ GiveUp \/ Branch \/ ReadMetadata \/ UseRedis \/ NoteStopping
  \/ \E c \in cmds : Execute(c)

-----------------------------------------------------------------------------
DutTypeOK ==
  /\ svc \in [Names -> {"active", "inactive", "failed"}]
  /\ masked \subseteq Names /\ up \subseteq Containers
  /\ metadata \subseteq {"file", "config_db"}
  /\ \A c \in cmds : c.what \in Names \cup Containers
  /\ gaveUp \in BOOLEAN /\ stopped \in BOOLEAN
  /\ called \in {"init", "deinit"} /\ late \cup early \cup skipped \subseteq Names

(* deinit() in the mode "sonic-restore" gives SONiC back: when all that    *)
(* was sent has run, each service it found inactive is unmasked, and is    *)
(* active unless its restart ran before its unmask.  (Not one that had     *)
(* failed, which counts as active, nor one with a stop or mask still due.) *)
Drained == prog = <<>> /\ cmds = {}
ServicesBack ==
  Drained /\ called = "deinit" /\ ~gaveUp
    => \A s \in Names \ (skipped \cup late) : s \notin masked /\ (svc[s] = "active" \/ s \in early)

(* SONiC's databases are not wiped under running services: if init() found *)
(* the database container running, no service is active at the flushall(). *)
QuietFlush ==
  First("flushall") /\ stopped => \A s \in Names : svc[s] = "inactive"

(* It wipes CONFIG_DB as well: DEVICE_METADATA is in the file by then, or  *)
(* the command that writes it has been sent, however often init() raises.  *)
MetadataKept == metadata # {} \/ \E c \in cmds : c.verb = "save"

(* What SaiDutSonic.init() wipes is not in use, and not lost.              *)
FlushHarmless == QuietFlush /\ MetadataKept
=============================================================================
