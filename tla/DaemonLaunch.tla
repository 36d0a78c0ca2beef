---------------------------- MODULE DaemonLaunch ----------------------------
(***************************************************************************)
(* How one daemon per profile comes up and goes down (hifimule-lifecycle,  *)
(* run_candidate of main.rs, coordinate_daemon_at of the desktop UI). A    *)
(* launch is one attempt to have a daemon: an attempt of the UI, which     *)
(* looks for a ready owner and, when nobody holds owner.lock, writes a     *)
(* ticket and spawns a process; or a process started by the system or by   *)
(* hand, which writes its own ticket. What they share is files: owner.lock *)
(* and launch-ticket.lock (released by the system when their holder dies), *)
(* owner.json, launch-generation.json, and a ticket and a failure file per *)
(* launch. Quit is QuitProtocol's, here only what it writes and releases.  *)
(* A process is named by its launch: its instance id and its port.         *)
(***************************************************************************)
EXTENDS Naturals

CONSTANTS
  Launches,        \* the attempts there may be
  NoLaunch,        \* no attempt, no process
  MaxGeneration,   \* bound on the writes of the launch generation
  MaxCrashes       \* bound on the processes that die without cleaning up

ASSUME LaunchAssumption ==
  /\ NoLaunch \notin Launches
  /\ {MaxGeneration, MaxCrashes} \subseteq Nat

VARIABLES
  owner, probe,    \* who holds owner.lock: a process, or a UI thread that looks
  fence,           \* the process that holds launch-ticket.lock from one step to the next
  descriptor,      \* the process owner.json names
  generation,      \* launch-generation.json
  ticket, failures, \* attempt-<id>.json and failure-<id>.json
  expected,        \* the generation a launch was started under
  epoch, held, closed, \* StartupState: the current attempt, its ticket, the window
  old,             \* the ticket a UI thread must cancel first
  ui,              \* coordinate_daemon_at, one thread per attempt
  observed,        \* observed_owner
  proc,            \* run_candidate, and after it the tray loop
  core,            \* the processes whose core runs: a thread nobody joins
  found,           \* the descriptor last read, by the thread and by the process
  crashes          \* bounded counter

files  == <<owner, probe, fence, descriptor, generation>>
uiVars == <<epoch, held, closed, old, ui, observed>>
vars   == <<files, ticket, failures, expected, uiVars, proc, core, found, crashes>>

LaunchOrNone == Launches \cup {NoLaunch}
UiStates   == {"idle", "clearing", "looking", "asking", "electing", "probing", "launching",
               "bound", "refused", "ready", "failed", "closing", "closed", "direct"}
\* Where a process is before it holds the lock, with the lock before it is
\* published, and as a published owner.
Candidates == {"unticketed", "spawned", "validated", "attaching", "asking", "attached"}
Starting   == {"elected", "verified", "prepared", "starting", "fenced"}
Published  == {"published", "consumed", "running", "stopping", "quitting"}
Dropping   == {"dropping", "released", "leaving"}
Owning     == Starting \cup Published \cup Dropping
Over       == {"none", "gone", "dead"}
ProcStates == Candidates \cup Owning \cup {"reporting"} \cup Over

LaunchTypeOK ==
  /\ owner \in LaunchOrNone /\ probe \in LaunchOrNone /\ fence \in LaunchOrNone
  /\ descriptor \in LaunchOrNone
  /\ generation \in 0..MaxGeneration
  /\ ticket \in [Launches -> {"none", "live", "expired", "cancelled"}]
  /\ failures \subseteq Launches
  /\ expected \in [Launches -> 0..MaxGeneration]
  /\ epoch \in LaunchOrNone /\ held \in LaunchOrNone /\ closed \in BOOLEAN
  /\ old \in [Launches -> LaunchOrNone]
  /\ ui \in [Launches -> UiStates]
  /\ observed \in [Launches -> BOOLEAN]
  /\ proc \in [Launches -> ProcStates]
  /\ core \subseteq Launches
  /\ found \in [{"ui", "proc"} -> [Launches -> LaunchOrNone]]
  /\ crashes \in 0..MaxCrashes

LaunchInit ==
  /\ owner = NoLaunch /\ probe = NoLaunch /\ fence = NoLaunch /\ descriptor = NoLaunch
  /\ generation = 0
  /\ ticket = [l \in Launches |-> "none"] /\ failures = {}
  /\ expected = [l \in Launches |-> 0]
  /\ epoch = NoLaunch /\ held = NoLaunch /\ closed = FALSE
  /\ old = [l \in Launches |-> NoLaunch]
  /\ ui = [l \in Launches |-> "idle"]
  /\ observed = [l \in Launches |-> FALSE]
  /\ proc = [l \in Launches |-> "none"] /\ core = {}
  /\ found = [side \in {"ui", "proc"} |-> [l \in Launches |-> NoLaunch]]
  /\ crashes = 0

----------------------------------------------------------------------------
(* The files.                                                              *)

LockFree == owner = NoLaunch /\ probe = NoLaunch

\* validate_launch_ticket, under launch-ticket.lock.
Valid(l) == fence = NoLaunch /\ ticket[l] = "live"

\* cancel_launch_ticket removes the file, if it can have the lock in time.
Cancelled(l) == [ticket EXCEPT ![l] = IF @ = "none" THEN @ ELSE "cancelled"]
CancelTicket(l) ==
  \/ l = NoLaunch /\ UNCHANGED ticket
  \/ l # NoLaunch /\ fence = NoLaunch /\ ticket' = Cancelled(l)
  \/ l # NoLaunch /\ fence # NoLaunch /\ UNCHANGED ticket

\* An expired ticket is refused; that a later launch removes it changes nothing.
ExpireTicket(l) ==
  /\ ticket[l] = "live"
  /\ ticket' = [ticket EXCEPT ![l] = "expired"]
  /\ UNCHANGED <<files, failures, expected, uiVars, proc, core, found, crashes>>

\* check_owner_health of the descriptor d, which authenticates the instance. The
\* core answers, also when its process has given up and is about to end.
Answers(d) == CASE d \notin core                        -> "nobody"
                [] proc[d] \in {"stopping", "quitting"} -> "stopping"
                [] OTHER                                -> "ready"

----------------------------------------------------------------------------
(* The UI. Its state is behind a mutex; each attempt has its own thread.   *)

Goes(l, state) == ui' = [ui EXCEPT ![l] = state]

\* begin_attempt: an older attempt is no longer current, its ticket is taken.
UiBegin(l) ==
  /\ ui[l] = "idle" /\ ~closed
  /\ epoch' = l
  /\ old' = [old EXCEPT ![l] = held]
  /\ held' = NoLaunch
  /\ Goes(l, "clearing")
  /\ UNCHANGED <<files, ticket, failures, expected, closed, observed, proc, core, found, crashes>>

UiClear(l) ==
  /\ ui[l] = "clearing"
  /\ CancelTicket(old[l])
  /\ expected' = [expected EXCEPT ![l] = generation]
  /\ Goes(l, "looking")
  /\ UNCHANGED <<files, failures, epoch, held, closed, old, observed, proc, core, found, crashes>>

\* One turn of the loop begins: it is given up, or the descriptor is read.
UiLook(l) ==
  /\ ui[l] = "looking"
  /\ epoch = l /\ generation = expected[l] /\ l \notin failures
  /\ found' = [found EXCEPT !["ui"][l] = descriptor]
  /\ Goes(l, IF descriptor = NoLaunch THEN "electing" ELSE "asking")
  /\ UNCHANGED <<files, ticket, failures, expected, epoch, held, closed, old, observed, proc,
                 core, crashes>>

UiRefused(l) ==
  /\ ui[l] = "looking"
  /\ epoch # l \/ generation # expected[l] \/ l \in failures
  /\ Goes(l, "refused")
  /\ UNCHANGED <<files, ticket, failures, expected, epoch, held, closed, old, observed, proc,
                 core, found, crashes>>

\* The thread gives up at STARTUP_DEADLINE.
UiTimeout(l) ==
  /\ ui[l] \in {"looking", "launching"}
  /\ Goes(l, "refused")
  /\ UNCHANGED <<files, ticket, failures, expected, epoch, held, closed, old, observed, proc,
                 core, found, crashes>>

\* A ready owner is bound if the attempt is still current. An owner that does
\* not answer is asked again, unless its port now answers for another.
UiAsk(l) ==
  /\ ui[l] = "asking"
  /\ LET answer == Answers(found["ui"][l]) IN
       \/ answer = "ready" /\ Goes(l, IF epoch = l THEN "bound" ELSE "refused")
       \/ answer = "stopping" /\ Goes(l, "refused")
       \/ answer = "nobody" /\ ui' \in {[ui EXCEPT ![l] = s] : s \in {"electing", "refused"}}
  /\ UNCHANGED <<files, ticket, failures, expected, epoch, held, closed, old, observed, proc,
                 core, found, crashes>>

\* Slip: the thread waits for the lock.
UiElectWaiting(l) ==
  /\ ui[l] = "electing"
  /\ IF ticket[l] # "none"
     THEN Goes(l, "looking") /\ UNCHANGED probe
     ELSE LockFree /\ probe' = l /\ Goes(l, "probing")
  /\ UNCHANGED <<owner, fence, descriptor, generation, ticket, failures, expected, epoch, held,
                 closed, old, observed, proc, core, found, crashes>>

\* With no launch of its own, and no owner seen, the thread tries the lock.
UiElect(l) ==
  /\ ui[l] = "electing"
  /\ IF ticket[l] # "none" \/ observed[l]
     THEN Goes(l, "looking") /\ UNCHANGED <<probe, observed>>
     ELSE IF LockFree
          THEN probe' = l /\ Goes(l, "probing") /\ UNCHANGED observed
          ELSE /\ observed' = [observed EXCEPT ![l] = TRUE]
               /\ Goes(l, "looking")
               /\ UNCHANGED probe
  /\ UNCHANGED <<owner, fence, descriptor, generation, ticket, failures, expected, epoch, held,
                 closed, old, proc, core, found, crashes>>

UiVerify(l) ==
  /\ ui[l] = "probing"
  /\ probe' = NoLaunch
  /\ Goes(l, IF generation = expected[l] THEN "launching" ELSE "refused")
  /\ UNCHANGED <<owner, fence, descriptor, generation, ticket, failures, expected, epoch, held,
                 closed, old, observed, proc, core, found, crashes>>

\* Under the mutex: the ticket is written and the process spawned.
UiLaunch(l) ==
  /\ ui[l] = "launching"
  /\ epoch = l /\ fence = NoLaunch
  /\ ticket' = [ticket EXCEPT ![l] = "live"]
  /\ held' = l
  /\ \/ proc' = [proc EXCEPT ![l] = "spawned"] /\ Goes(l, "looking")
     \/ Goes(l, "refused") /\ UNCHANGED proc
  /\ UNCHANGED <<files, failures, expected, epoch, closed, old, observed, core, found, crashes>>

UiOutdated(l) ==
  /\ ui[l] = "launching"
  /\ epoch # l
  /\ Goes(l, "refused")
  /\ UNCHANGED <<files, ticket, failures, expected, epoch, held, closed, old, observed, proc,
                 core, found, crashes>>

\* Whatever the result, the ticket is cancelled and the failure cleared.
UiEnd(l) ==
  /\ ui[l] \in {"bound", "refused"}
  /\ CancelTicket(IF ticket[l] = "none" THEN NoLaunch ELSE l)
  /\ failures' = failures \ {l}
  /\ held' = IF epoch = l THEN NoLaunch ELSE held
  /\ Goes(l, IF ui[l] = "bound" THEN "ready" ELSE "failed")
  /\ UNCHANGED <<files, expected, epoch, closed, old, observed, proc, core, found, crashes>>

\* close(): no attempt is current any more.
UiClose ==
  /\ epoch # NoLaunch /\ ~closed
  /\ closed' = TRUE
  /\ epoch' = NoLaunch
  /\ UNCHANGED <<files, ticket, failures, expected, held, old, ui, observed, proc, core,
                 found, crashes>>

\* Its ticket is cancelled and the process of the UI ends, its threads with it.
\* Another may be started.
UiExit ==
  /\ closed
  /\ CancelTicket(held)
  /\ held' = NoLaunch
  /\ closed' = FALSE
  /\ probe' = NoLaunch
  /\ ui' = [l \in Launches |-> IF ui[l] \in {"idle", "ready", "failed", "direct"}
                               THEN ui[l] ELSE "closed"]
  /\ UNCHANGED <<owner, fence, descriptor, generation, failures, expected, epoch, old, observed,
                 proc, core, found, crashes>>

----------------------------------------------------------------------------
(* The process, from its start to the publication of its descriptor.       *)

Becomes(l, state) == proc' = [proc EXCEPT ![l] = state]

\* A failure: a holder of the lock first drops its guard, which knows of a
\* descriptor to remove only once the publication has returned.
Fails(l) == Becomes(l, CASE proc[l] \in Published -> "dropping"
                         [] proc[l] \in Starting  -> "released"
                         [] OTHER                 -> "reporting")

\* run_interactive without arguments reads the generation, then writes a ticket.
DirectStart(l) ==
  /\ ui[l] = "idle"
  /\ Goes(l, "direct")
  /\ expected' = [expected EXCEPT ![l] = generation]
  /\ Becomes(l, "unticketed")
  /\ UNCHANGED <<files, ticket, failures, epoch, held, closed, old, observed, core, found, crashes>>

DirectTicket(l) ==
  /\ proc[l] = "unticketed"
  /\ fence = NoLaunch
  /\ ticket' = [ticket EXCEPT ![l] = "live"]
  /\ Becomes(l, "spawned")
  /\ UNCHANGED <<files, failures, expected, uiVars, core, found, crashes>>

\* A step that goes on only with a valid ticket.
Checked(l, from, to) ==
  /\ proc[l] = from
  /\ fence = NoLaunch
  /\ IF ticket[l] = "live" THEN Becomes(l, to) ELSE Fails(l)
  /\ UNCHANGED <<files, ticket, failures, expected, uiVars, found, crashes>>

Validate(l)       == Checked(l, "spawned", "validated") /\ UNCHANGED core
ValidateOwner(l)  == Checked(l, "verified", "prepared") /\ UNCHANGED core

\* start_daemon_core detaches the thread of the core.
StartCore(l) ==
  /\ Checked(l, "prepared", "starting")
  /\ core' = IF ticket[l] = "live" THEN core \cup {l} ELSE core

\* OwnerGuard::acquire. Contention never authorizes election again.
Elect(l) ==
  /\ proc[l] = "validated"
  /\ IF LockFree THEN owner' = l /\ Becomes(l, "elected")
                 ELSE Becomes(l, "attaching") /\ UNCHANGED owner
  /\ UNCHANGED <<probe, fence, descriptor, generation, ticket, failures, expected, uiVars,
                 core, found, crashes>>

AttachLook(l) ==
  /\ proc[l] = "attaching"
  /\ Valid(l) /\ generation = expected[l]
  /\ descriptor # NoLaunch
  /\ found' = [found EXCEPT !["proc"][l] = descriptor]
  /\ Becomes(l, "asking")
  /\ UNCHANGED <<files, ticket, failures, expected, uiVars, core, crashes>>

AttachRefused(l) ==
  /\ proc[l] = "attaching"
  /\ fence = NoLaunch
  /\ ticket[l] # "live" \/ generation # expected[l]
  /\ Fails(l)
  /\ UNCHANGED <<files, ticket, failures, expected, uiVars, core, found, crashes>>

AttachAsk(l) ==
  /\ proc[l] = "asking"
  /\ LET answer == Answers(found["proc"][l]) IN
       \/ answer = "ready" /\ Becomes(l, "attached")
       \/ answer = "stopping" /\ Fails(l)
       \/ answer = "nobody" /\ (Becomes(l, "attaching") \/ Fails(l))
  /\ UNCHANGED <<files, ticket, failures, expected, uiVars, core, found, crashes>>

AttachEnd(l) ==
  /\ proc[l] = "attached"
  /\ CancelTicket(l)
  /\ Becomes(l, "gone")
  /\ UNCHANGED <<files, failures, expected, uiVars, core, found, crashes>>

\* verify_expected_generation, with the lock held.
Verify(l) ==
  /\ proc[l] = "elected"
  /\ IF generation = expected[l] THEN Becomes(l, "verified") ELSE Fails(l)
  /\ UNCHANGED <<files, ticket, failures, expected, uiVars, core, found, crashes>>

\* A lock cannot be had in time, the older daemon answers, the port is taken,
\* the deadline passes, a file cannot be read or written.
StartFails(l) ==
  /\ proc[l] \in {"spawned", "validated", "attaching", "elected", "verified", "prepared"}
  /\ Fails(l)
  /\ UNCHANGED <<files, ticket, failures, expected, uiVars, core, found, crashes>>

\* The core reports a failure and ends, or does not get ready, or the lock of the
\* tickets cannot be had, in time: then its thread runs on until the process ends.
CoreFails(l) ==
  /\ proc[l] = "starting"
  /\ Fails(l)
  /\ core' \in {core, core \ {l}}
  /\ UNCHANGED <<files, ticket, failures, expected, uiVars, found, crashes>>

\* publish_descriptor fails before or after it has replaced the file. The guard
\* has no instance id yet and leaves it.
PublishFails(l) ==
  /\ proc[l] = "fenced"
  /\ Fails(l)
  /\ fence' = NoLaunch
  /\ descriptor' \in {descriptor, l}
  /\ UNCHANGED <<owner, probe, generation, ticket, failures, expected, uiVars, core, found,
                 crashes>>

\* Slip: the ticket is validated, and published without the lock.
TakeFenceBriefly(l) ==
  /\ proc[l] = "starting"
  /\ fence = NoLaunch
  /\ IF ticket[l] = "live" THEN Becomes(l, "fenced") ELSE Fails(l)
  /\ UNCHANGED <<files, ticket, failures, expected, uiVars, core, found, crashes>>

\* The core is ready: the ticket is validated once more, and this time the lock
\* of the tickets is kept until the descriptor is published.
TakeFence(l) ==
  /\ proc[l] = "starting"
  /\ fence = NoLaunch
  /\ IF ticket[l] = "live" THEN fence' = l /\ Becomes(l, "fenced")
                           ELSE Fails(l) /\ UNCHANGED fence
  /\ UNCHANGED <<owner, probe, descriptor, generation, ticket, failures, expected, uiVars,
                 core, found, crashes>>

Publish(l) ==
  /\ proc[l] = "fenced"
  /\ descriptor' = l
  /\ fence' = NoLaunch
  /\ Becomes(l, "published")
  /\ UNCHANGED <<owner, probe, generation, ticket, failures, expected, uiVars, core, found,
                 crashes>>

\* The ticket is used up. If its lock cannot be had the daemon gives up.
ConsumeTicket(l) ==
  /\ proc[l] = "published"
  /\ \/ fence = NoLaunch /\ ticket' = Cancelled(l) /\ Becomes(l, "consumed")
     \/ Fails(l) /\ UNCHANGED ticket
  /\ UNCHANGED <<files, failures, expected, uiVars, core, found, crashes>>

\* The icons, the menu and the tray are made, or one of them cannot be.
SetUpTray(l) ==
  /\ proc[l] = "consumed"
  /\ Becomes(l, "running") \/ Fails(l)
  /\ UNCHANGED <<files, ticket, failures, expected, uiVars, core, found, crashes>>

----------------------------------------------------------------------------
(* Its end.                                                                *)

\* The tray loop has closed admission.
QuitBegins(l) ==
  /\ proc[l] = "running"
  /\ Becomes(l, "stopping")
  /\ UNCHANGED <<files, ticket, failures, expected, uiVars, core, found, crashes>>

\* advance_launch_generation takes no lock of its own: only an owner calls it.
AdvanceGeneration(l) ==
  /\ proc[l] = "stopping"
  /\ generation < MaxGeneration
  /\ generation' = generation + 1
  /\ Becomes(l, "quitting")
  /\ UNCHANGED <<owner, probe, fence, descriptor, ticket, failures, expected, uiVars, core,
                 found, crashes>>

\* It fails before or after the file is replaced: the daemon goes on.
AdvanceFails(l) ==
  /\ proc[l] = "stopping"
  /\ generation' \in {generation, generation + 1} \cap 0..MaxGeneration
  /\ Becomes(l, "running")
  /\ UNCHANGED <<owner, probe, fence, descriptor, ticket, failures, expected, uiVars, core,
                 found, crashes>>

\* OwnerGuard::drop, when the session is saved, admitted work has ended and the
\* core with it, or when a published daemon has failed: then its core runs on. A
\* descriptor that names another instance is left alone.
DropDescriptor(l) ==
  /\ proc[l] \in {"quitting", "dropping"}
  /\ descriptor' = IF descriptor = l THEN NoLaunch ELSE descriptor
  /\ Becomes(l, IF proc[l] = "quitting" THEN "leaving" ELSE "released")
  /\ core' = IF proc[l] = "quitting" THEN core \ {l} ELSE core
  /\ UNCHANGED <<owner, probe, fence, generation, ticket, failures, expected, uiVars, found,
                 crashes>>

\* Slip: the lock is released first, and the descriptor removed then.
DropLockFirst(l) ==
  /\ proc[l] \in {"leaving", "released"}
  /\ IF owner = l
     THEN owner' = NoLaunch /\ UNCHANGED <<descriptor, proc>>
     ELSE descriptor' = NoLaunch /\ Becomes(l, "gone") /\ UNCHANGED owner
  /\ UNCHANGED <<probe, fence, generation, ticket, failures, expected, uiVars, core, found,
                 crashes>>

DropLock(l) ==
  /\ proc[l] \in {"leaving", "released"}
  /\ owner' = NoLaunch
  /\ Becomes(l, IF proc[l] = "leaving" THEN "gone" ELSE "reporting")
  /\ UNCHANGED <<probe, fence, descriptor, generation, ticket, failures, expected, uiVars, core,
                 found, crashes>>

\* A launch that failed says so in its file, for the UI; a direct one has no
\* reader and cancels its own ticket. Then the process ends, its core with it.
Report(l) ==
  /\ proc[l] = "reporting"
  /\ IF ui[l] = "direct" THEN CancelTicket(l) /\ UNCHANGED failures
                         ELSE failures' = failures \cup {l} /\ UNCHANGED ticket
  /\ Becomes(l, "gone")
  /\ core' = core \ {l}
  /\ UNCHANGED <<files, expected, uiVars, found, crashes>>

\* The process is killed. The system releases its locks and nothing else.
Crash(l) ==
  /\ proc[l] \notin Over
  /\ crashes < MaxCrashes
  /\ crashes' = crashes + 1
  /\ owner' = IF owner = l THEN NoLaunch ELSE owner
  /\ fence' = IF fence = l THEN NoLaunch ELSE fence
  /\ generation' \in {generation} \cup
       (IF proc[l] = "stopping" THEN {generation + 1} \cap 0..MaxGeneration ELSE {})
  /\ Becomes(l, "dead")
  /\ core' = core \ {l}
  /\ UNCHANGED <<probe, descriptor, ticket, failures, expected, uiVars, found>>

----------------------------------------------------------------------------
UiNext(l)   == UiBegin(l) \/ UiClear(l) \/ UiLook(l) \/ UiRefused(l) \/ UiTimeout(l) \/ UiAsk(l)
                 \/ UiElect(l) \/ UiVerify(l) \/ UiLaunch(l) \/ UiOutdated(l) \/ UiEnd(l)
ProcNext(l) == Validate(l) \/ ValidateOwner(l) \/ StartCore(l) \/ Elect(l) \/ Verify(l)
                 \/ AttachLook(l) \/ AttachRefused(l) \/ AttachAsk(l) \/ AttachEnd(l)
                 \/ TakeFence(l) \/ Publish(l) \/ ConsumeTicket(l) \/ SetUpTray(l)
                 \/ DropDescriptor(l) \/ DropLock(l) \/ Report(l)
EnvNext(l)  == ExpireTicket(l) \/ DirectStart(l) \/ DirectTicket(l) \/ StartFails(l)
                 \/ CoreFails(l) \/ PublishFails(l) \/ QuitBegins(l) \/ AdvanceGeneration(l)
                 \/ AdvanceFails(l) \/ Crash(l)

LaunchNext == UiClose \/ UiExit \/ \E l \in Launches : UiNext(l) \/ ProcNext(l) \/ EnvNext(l)

LaunchSpec == LaunchInit /\ [][LaunchNext]_vars

\* A thread or process that can take its next step takes it: the locks are held
\* for a few file operations, a process answers health or is gone. Neither a
\* deadline nor a user is relied on.
LaunchFairness ==
  \A l \in Launches :
    /\ WF_vars(UiClear(l)) /\ WF_vars(UiLook(l) \/ UiRefused(l)) /\ WF_vars(UiAsk(l))
    /\ WF_vars(UiElect(l) \/ UiVerify(l)) /\ WF_vars(UiLaunch(l) \/ UiOutdated(l))
    /\ WF_vars(UiEnd(l))
    /\ WF_vars(DirectTicket(l)) /\ WF_vars(ProcNext(l))

FairLaunchSpec == LaunchSpec /\ LaunchFairness

----------------------------------------------------------------------------
(* Safety.                                                                 *)

\* A Quit and a cancellation are final for the launches before them. No process
\* starts its core under a generation that Quit has ended, however long it waited
\* for the lock, and none becomes discoverable once its ticket is cancelled: the
\* UI that gave an attempt up does not see it come to life.
StartsCore(l)  == proc[l] # "starting" /\ proc'[l] = "starting"
IsPublished(l) == descriptor # l /\ descriptor' = l
FencedLaunchStaysDown ==
  [][\A l \in Launches :
       /\ StartsCore(l) \/ IsPublished(l) => expected[l] = generation
       /\ IsPublished(l) => ticket[l] # "cancelled"]_vars

\* There is one daemon, and it can be found. From its election to the end of its
\* guard a process holds the lock, and while it serves owner.json names it: what
\* other launches leave behind, at whatever point they fail, does not hide it. A
\* core without the lock is one whose process has failed and has only its failure
\* left to write, but another may be up by then (see CoresAreAlone).
ReadyDaemonIsAlone ==
  /\ \A l \in Launches :
       /\ proc[l] \in Owning => owner = l /\ probe = NoLaunch
       /\ proc[l] \in Published => descriptor = l
  /\ \A l \in core : owner = l \/ proc[l] = "reporting"

(* Liveness.                                                               *)

Waiting(l) ==
  \/ ui[l] \in {"clearing", "looking", "asking", "electing", "probing", "launching"}
  \/ proc[l] \in Candidates

\* A daemon that stays ready is found: every attempt, of the UI or of a process,
\* that meets it comes to an end without its deadline, even one that has read the
\* descriptor of a daemon that died.
ReadyDaemonIsFound ==
  \A d \in Launches : <>[](proc[d] = "running") => <>[](\A l \in Launches : ~Waiting(l))

----------------------------------------------------------------------------
(* What documents of the repository say and the code does not do: TLC      *)
(* finds it violated (README, section 6).                                  *)

\* "coordinates exactly one daemon ... per app-data profile": no two cores run. A
\* start that fails once its core is up releases the lock before the process ends,
\* and another launch may take it.
CoresAreAlone == \A k, l \in core : k = l
=============================================================================
