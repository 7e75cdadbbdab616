-------------------------------- MODULE Applier --------------------------------
(***************************************************************************)
(* The Apply pipeline: panel/app/services/applier.py and the POST /apply    *)
(* handler of panel/app/routers/settings.py.                                *)
(*                                                                         *)
(* Each worker is one thread of the web server's pool running the           *)
(* synchronous handler.  No lock is taken: two workers share the staged     *)
(* files, the production files, the kernel's ruleset, dnsmasq and, within   *)
(* one second, the snapshot directory.  One action is one file operation,   *)
(* one command or one database statement of apply().                        *)
(***************************************************************************)
EXTENDS Naturals

CONSTANTS
    Workers,      \* threads that can run POST /apply
    NftTexts,     \* rendered 50-panel.nft texts
    DnsTexts,     \* rendered gateway-hosts.conf texts
    PreOk,        \* texts `nft -c` accepts on their own
    FullOk,       \* texts `nft -c -f /etc/nftables.conf` accepts, merged
    DnsOk,        \* reservations dnsmasq starts with
    Absent,       \* the file does not exist
    NoRules,      \* no ruleset loaded: nftables.service failed at boot
    Down,         \* dnsmasq is not running
    NoJob,        \* a worker holds no rendered text
    Seconds       \* the clock a snapshot directory is named after

(* Which of the environment's behaviours an instance explores. *)
CONSTANTS
    Overlap,      \* a second Apply may start while one runs
    EditDuringApply, \* a handler may edit the database while an Apply runs
    Drifts,       \* what render() reads also changes without a mark
    Faults,       \* the panel or the machine may restart, a rollback may fail
    FreshInstall, \* no Apply has ever written the panel's nft fragment
    PreCheckRuns  \* sudoers lets the panel run the stand-alone check

ASSUME WorkersAssumption == Workers # {}
ASSUME TextsAssumption ==
    /\ PreOk \subseteq NftTexts
    /\ FullOk \subseteq NftTexts
    /\ DnsOk \subseteq DnsTexts
    /\ FullOk # {} /\ DnsOk # {}
ASSUME NullsAssumption ==
    /\ Absent \notin NftTexts \cup DnsTexts
    /\ NoRules \notin NftTexts \cup {Absent}
    /\ Down \notin DnsTexts \cup {Absent}
    /\ NoJob \notin [nft : NftTexts, dns : DnsTexts]
ASSUME SecondsAssumption == Seconds \subseteq Nat /\ Seconds # {}
ASSUME SwitchesAssumption ==
    /\ Overlap \in BOOLEAN /\ EditDuringApply \in BOOLEAN /\ Drifts \in BOOLEAN
    /\ Faults \in BOOLEAN /\ FreshInstall \in BOOLEAN /\ PreCheckRuns \in BOOLEAN

VARIABLES
    want,         \* what the database renders to
    dirty,        \* settings.dirty, written by mark_dirty and mark_clean
    pending,      \* _pending_count > 0: a change audited after the last apply.ok
    late,         \* history: an unmarked change no successful Apply has read
    lastError,    \* app.state.last_error is set
    staged,       \* /var/lib/gateway/render/*.new
    prod,         \* /etc/nftables.d/50-panel.nft, /etc/dnsmasq.d/gateway-hosts.conf
    kernel,       \* the panel's fragment in the ruleset the kernel runs
    dnsd,         \* the reservations dnsmasq runs with
    snaps,        \* second -> the files saved in that second's directory
    now,          \* the clock
    pc,           \* worker -> its next statement of apply()
    job,          \* worker -> the texts it rendered
    snap,         \* worker -> the second its snapshot directory is named after
    behind        \* history: workers that rendered before the last unmarked change

db      == <<want, dirty, pending, late>>
files   == <<staged, prod>>
running == <<kernel, dnsd>>
locals  == <<job, snap, behind>>
vars == <<db, lastError, files, running, snaps, now, pc, locals>>

Configs    == [nft : NftTexts, dns : DnsTexts]
Files      == [nft : NftTexts \cup {Absent}, dns : DnsTexts \cup {Absent}]
Deployable == [nft : FullOk, dns : DnsOk]

(* What `nft -f /etc/nftables.conf` and dnsmasq accept on disk: both glob a *)
(* directory, so a file that is not there is no error.                      *)
Loadable  == FullOk \cup {Absent}
Startable == DnsOk \cup {Absent}

RollbackPcs == {"rb_copy_nft", "rb_inst_nft", "rb_copy_dns", "rb_inst_dns",
                "rb_load", "rb_restart"}
SwapPcs     == {"inst_nft", "inst_dns", "check", "load", "restart"}
Pcs == {"idle", "stage_nft", "stage_dns", "precheck", "snapshot",
        "audit", "clean", "fail"} \cup SwapPcs \cup RollbackPcs

Quiescent == \A w \in Workers : pc[w] = "idle"
(* Worker w moves from one statement to another. *)
Goto(w, from, to) ==
    /\ pc[w] = from
    /\ pc' = [pc EXCEPT ![w] = to]

--------------------------------------------------------------------------------
(* Plausible mistakes in this code, one for each property: the runs are     *)
(* repeated with the action of the same name replaced by its mistaken form, *)
(* and the property must then fail.                                         *)

(* The rollback loads the panel's fragment by itself. *)
RollbackLoadFragment(w) ==
    /\ Goto(w, "rb_load", "rb_restart")
    /\ kernel' = IF prod.nft \in PreOk THEN prod.nft ELSE kernel
    /\ UNCHANGED <<db, lastError, files, dnsd, snaps, now, locals>>

(* The restart of dnsmasq is run with check=False. *)
RestartDnsIgnored(w) ==
    /\ Goto(w, "restart", "audit")
    /\ dnsd' = IF prod.dns \in Startable THEN prod.dns ELSE Down
    /\ UNCHANGED <<db, lastError, files, kernel, snaps, now, locals>>

(* The except block reports the failure without restoring anything. *)
CommandFailsNoRollback(w) ==
    /\ pc[w] \in SwapPcs
    /\ pc' = [pc EXCEPT ![w] = "fail"]
    /\ dnsd' = IF pc[w] = "restart" THEN Down ELSE dnsd
    /\ UNCHANGED <<db, lastError, files, kernel, snaps, now, locals>>

(* The rollback restores the files and reloads nothing. *)
RollbackLoadSkipped(w) ==
    /\ Goto(w, "rb_load", "rb_restart")
    /\ UNCHANGED <<db, lastError, files, running, snaps, now, locals>>

RollbackRestartSkipped(w) ==
    /\ Goto(w, "rb_restart", "fail")
    /\ UNCHANGED <<db, lastError, files, running, snaps, now, locals>>

(* A failed Apply tries again instead of reporting. *)
FailRetries(w) ==
    /\ Goto(w, "fail", "snapshot")
    /\ UNCHANGED <<db, lastError, files, running, snaps, now, locals>>

(* mark_clean sits in a finally block: a failed Apply clears the flag too. *)
FailMarksClean(w) ==
    /\ Goto(w, "fail", "idle")
    /\ job' = [job EXCEPT ![w] = NoJob]
    /\ dirty' = FALSE
    /\ lastError' = TRUE
    /\ UNCHANGED <<want, pending, late, files, running, snaps, now, snap, behind>>

(* The rollback forgets that it restores through the staged file. *)
RestoreStagedForgotten(w, from, inst, skip, f) ==
    /\ Goto(w, from, IF snaps[snap[w]][f] = Absent THEN skip ELSE inst)
    /\ UNCHANGED <<db, lastError, files, running, snaps, now, locals>>
--------------------------------------------------------------------------------
(* After the installer: empty tables that were never applied, no fragment of *)
(* the panel, and the empty reservations file that the DHCP module leaves.   *)
(* Or after an Apply that worked: the flags say whether the database has     *)
(* moved on since.  Either way the gateway runs what is on disk.             *)
Init ==
    /\ want \in Configs
    /\ IF FreshInstall
         THEN /\ want \in Deployable
              /\ prod \in [nft : {Absent}, dns : Startable]
              /\ dirty = FALSE
         ELSE /\ prod \in Deployable
              /\ dirty = (want # prod)
    /\ pending = dirty
    /\ late = FALSE
    /\ lastError = FALSE
    /\ staged = [nft |-> Absent, dns |-> Absent]
    /\ kernel = prod.nft
    /\ dnsd = prod.dns
    /\ snaps = [s \in Seconds |-> [nft |-> Absent, dns |-> Absent]]
    /\ now \in {s \in Seconds : \A t \in Seconds : s <= t}
    /\ pc = [w \in Workers |-> "idle"]
    /\ job = [w \in Workers |-> NoJob]
    /\ snap = [w \in Workers |-> now]
    /\ behind = {}

(* A handler of the operator's that changes what render() reads: it marks   *)
(* the database dirty and writes an audit row in the same transaction.      *)
Edit ==
    /\ EditDuringApply \/ Quiescent
    /\ want' \in Configs
    /\ dirty' = TRUE
    /\ pending' = TRUE
    /\ UNCHANGED <<late, lastError, files, running, snaps, now, pc, locals>>

(* POST /hosts/scan or the scanner's timer moves the address of a host, or a *)
(* peer's AllowedIPs change in WireGuard: render() returns something else,   *)
(* at any moment, and neither flag is told (host.scan is not counted).       *)
Drift ==
    /\ Drifts
    /\ want' \in Configs \ {want}
    /\ late' = TRUE
    /\ behind' = {w \in Workers : pc[w] # "idle"}
    /\ UNCHANGED <<dirty, pending, lastError, files, running, snaps, now, pc, job, snap>>

(* apply() is entered: render() turns the database into two texts. *)
Render(w) ==
    /\ Overlap \/ Quiescent
    /\ Goto(w, "idle", "stage_nft")
    /\ job' = [job EXCEPT ![w] = want]
    /\ behind' = behind \ {w}
    /\ UNCHANGED <<db, lastError, files, running, snaps, now, snap>>

StageNft(w) ==
    /\ Goto(w, "stage_nft", "stage_dns")
    /\ staged' = [staged EXCEPT !.nft = job[w].nft]
    /\ UNCHANGED <<db, lastError, prod, running, snaps, now, locals>>

StageDns(w) ==
    /\ Goto(w, "stage_dns", "precheck")
    /\ staged' = [staged EXCEPT !.dns = job[w].dns]
    /\ UNCHANGED <<db, lastError, prod, running, snaps, now, locals>>

(* `nft -c` on the staged fragment alone: it flushes sets and chains of the *)
(* table the kernel runs, so nft also rejects it when no ruleset is loaded. *)
StandaloneOk == staged.nft \in PreOk /\ kernel # NoRules

(* The stand-alone check passes, or sudo refuses it and it is skipped. *)
PreCheckPasses(w) ==
    /\ PreCheckRuns => StandaloneOk
    /\ Goto(w, "precheck", "snapshot")
    /\ UNCHANGED <<db, lastError, files, running, snaps, now, locals>>

(* Failure mode A: nft printed "Error:", production has not been touched. *)
PreCheckRejects(w) ==
    /\ PreCheckRuns /\ ~StandaloneOk
    /\ Goto(w, "precheck", "fail")
    /\ UNCHANGED <<db, lastError, files, running, snaps, now, locals>>

(* _snapshot: the directory is named after the second and may exist already; *)
(* a production file that does not exist is not copied, and does not remove  *)
(* a copy an earlier Apply of the same second left.                          *)
Snapshot(w) ==
    /\ Goto(w, "snapshot", "inst_nft")
    /\ \E s \in Seconds :
         /\ s >= now
         /\ now' = s
         /\ snap' = [snap EXCEPT ![w] = s]
         /\ snaps' = [snaps EXCEPT ![s] =
              [nft |-> IF prod.nft = Absent THEN @.nft ELSE prod.nft,
               dns |-> IF prod.dns = Absent THEN @.dns ELSE prod.dns]]
    /\ UNCHANGED <<db, lastError, files, running, job, behind>>

InstallNft(w) ==
    /\ Goto(w, "inst_nft", "inst_dns")
    /\ prod' = [prod EXCEPT !.nft = staged.nft]
    /\ UNCHANGED <<db, lastError, staged, running, snaps, now, locals>>

InstallDns(w) ==
    /\ Goto(w, "inst_dns", "check")
    /\ prod' = [prod EXCEPT !.dns = staged.dns]
    /\ UNCHANGED <<db, lastError, staged, running, snaps, now, locals>>

(* `nft -c -f /etc/nftables.conf`, on whatever production holds by now. *)
FullCheck(w) ==
    /\ prod.nft \in Loadable
    /\ Goto(w, "check", "load")
    /\ UNCHANGED <<db, lastError, files, running, snaps, now, locals>>

(* `nft -f` swaps the whole ruleset in one transaction. *)
Load(w) ==
    /\ prod.nft \in Loadable
    /\ Goto(w, "load", "restart")
    /\ kernel' = prod.nft
    /\ UNCHANGED <<db, lastError, files, dnsd, snaps, now, locals>>

RestartDns(w) ==
    /\ prod.dns \in Startable
    /\ Goto(w, "restart", "audit")
    /\ dnsd' = prod.dns
    /\ UNCHANGED <<db, lastError, files, kernel, snaps, now, locals>>

(* CalledProcessError: a command of the try block exits with an error,      *)
(* because of what it was given or for a reason of its own.  A restart that *)
(* fails has already stopped the daemon.                                    *)
CommandFails(w) ==
    /\ pc[w] \in SwapPcs
    /\ pc' = [pc EXCEPT ![w] = "rb_copy_nft"]
    /\ dnsd' = IF pc[w] = "restart" THEN Down ELSE dnsd
    /\ UNCHANGED <<db, lastError, files, kernel, snaps, now, locals>>

(* Rollback, per file: copy the saved text over the staged one, then install *)
(* it.  A file the snapshot does not hold is left as the failed Apply wrote  *)
(* it.                                                                       *)
RestoreStaged(w, from, inst, skip, f) ==
    /\ IF snaps[snap[w]][f] = Absent
         THEN Goto(w, from, skip) /\ UNCHANGED staged
         ELSE /\ Goto(w, from, inst)
              /\ staged' = [staged EXCEPT ![f] = snaps[snap[w]][f]]
    /\ UNCHANGED <<db, lastError, prod, running, snaps, now, locals>>

RestoreProd(w, from, to, f) ==
    /\ Goto(w, from, to)
    /\ prod' = [prod EXCEPT ![f] = staged[f]]
    /\ UNCHANGED <<db, lastError, staged, running, snaps, now, locals>>

RestoreFile(w) ==
    \/ RestoreStaged(w, "rb_copy_nft", "rb_inst_nft", "rb_copy_dns", "nft")
    \/ RestoreProd(w, "rb_inst_nft", "rb_copy_dns", "nft")
    \/ RestoreStaged(w, "rb_copy_dns", "rb_inst_dns", "rb_load", "dns")
    \/ RestoreProd(w, "rb_inst_dns", "rb_load", "dns")

(* The best-effort reload: `nft -f` leaves the kernel alone when it fails,   *)
(* which a fault may make it do with a fragment that loads.                  *)
RollbackLoad(w) ==
    /\ Goto(w, "rb_load", "rb_restart")
    /\ \/ prod.nft \in Loadable /\ kernel' = prod.nft
       \/ (prod.nft \notin Loadable \/ Faults) /\ kernel' = kernel
    /\ UNCHANGED <<db, lastError, files, dnsd, snaps, now, locals>>

RollbackRestart(w) ==
    /\ Goto(w, "rb_restart", "fail")
    /\ \/ prod.dns \in Startable /\ dnsd' = prod.dns
       \/ (prod.dns \notin Startable \/ Faults) /\ dnsd' = Down
    /\ UNCHANGED <<db, lastError, files, kernel, snaps, now, locals>>

(* audit apply.fail, raise ApplyError; the handler stores the message. *)
Fail(w) ==
    /\ Goto(w, "fail", "idle")
    /\ job' = [job EXCEPT ![w] = NoJob]
    /\ lastError' = TRUE
    /\ UNCHANGED <<db, files, running, snaps, now, snap, behind>>

(* audit apply.ok: every change audited so far stops counting as pending. *)
AuditOk(w) ==
    /\ Goto(w, "audit", "clean")
    /\ pending' = FALSE
    /\ late' = (late /\ w \in behind)
    /\ UNCHANGED <<want, dirty, lastError, files, running, snaps, now, locals>>

(* mark_clean, and the handler clears the message. *)
MarkClean(w) ==
    /\ Goto(w, "clean", "idle")
    /\ dirty' = FALSE
    /\ lastError' = FALSE
    /\ job' = [job EXCEPT ![w] = NoJob]
    /\ UNCHANGED <<want, pending, late, files, running, snaps, now, snap, behind>>

(* An OSError while staging or saving (disk full, permissions) is not an    *)
(* ApplyError: it leaves apply() with no audit row and no stored message.   *)
OsError(w) ==
    /\ pc[w] \in {"stage_nft", "stage_dns", "snapshot"}
    /\ pc' = [pc EXCEPT ![w] = "idle"]
    /\ job' = [job EXCEPT ![w] = NoJob]
    /\ UNCHANGED <<db, lastError, files, running, snaps, now, snap, behind>>
--------------------------------------------------------------------------------
(* Environment faults. *)

(* A copy or an install inside the except block raises: the exception leaves *)
(* apply() with the rollback half done.                                      *)
RollbackRaises(w) ==
    /\ Faults
    /\ pc[w] \in RollbackPcs \ {"rb_load", "rb_restart"}
    /\ pc' = [pc EXCEPT ![w] = "idle"]
    /\ job' = [job EXCEPT ![w] = NoJob]
    /\ UNCHANGED <<db, lastError, files, running, snaps, now, snap, behind>>

(* gateway-panel.service is restarted: every request is lost, app.state too. *)
PanelRestarts ==
    /\ pc' = [w \in Workers |-> "idle"]
    /\ job' = [w \in Workers |-> NoJob]
    /\ lastError' = FALSE
    /\ UNCHANGED <<db, files, snaps, now, snap, behind>>

Crash ==
    /\ Faults
    /\ ~Quiescent
    /\ PanelRestarts
    /\ UNCHANGED running

(* The machine reboots: nftables.service and dnsmasq read the files on disk. *)
Reboot ==
    /\ Faults
    /\ PanelRestarts
    /\ kernel' = IF prod.nft \in Loadable THEN prod.nft ELSE NoRules
    /\ dnsd' = IF prod.dns \in Startable THEN prod.dns ELSE Down
--------------------------------------------------------------------------------
Forward(w) ==
    \/ StageNft(w) \/ StageDns(w) \/ PreCheckPasses(w) \/ PreCheckRejects(w)
    \/ Snapshot(w) \/ InstallNft(w) \/ InstallDns(w) \/ FullCheck(w) \/ Load(w)
    \/ RestartDns(w) \/ AuditOk(w) \/ MarkClean(w) \/ CommandFails(w) \/ OsError(w)

Rollback(w) ==
    RestoreFile(w) \/ RollbackLoad(w) \/ RollbackRestart(w) \/ Fail(w)

(* A worker inside apply() runs on: the web server does not abandon it. *)
Progress(w) == Forward(w) \/ Rollback(w)

Next ==
    \/ Edit \/ Drift \/ Crash \/ Reboot
    \/ \E w \in Workers : Render(w) \/ Progress(w) \/ RollbackRaises(w)

Spec == Init /\ [][Next]_vars
FairSpec == Spec /\ \A w \in Workers : WF_vars(Progress(w))
--------------------------------------------------------------------------------
(* Every variable holds a value the program can give it, and a worker that  *)
(* is past render() holds the texts it rendered.                            *)
TypeOK ==
    /\ want \in Configs
    /\ dirty \in BOOLEAN /\ pending \in BOOLEAN /\ late \in BOOLEAN
    /\ lastError \in BOOLEAN
    /\ staged \in Files
    /\ prod \in Files
    /\ kernel \in FullOk \cup {Absent, NoRules}
    /\ dnsd \in DnsOk \cup {Absent, Down}
    /\ snaps \in [Seconds -> Files]
    /\ now \in Seconds
    /\ pc \in [Workers -> Pcs]
    /\ job \in [Workers -> Configs \cup {NoJob}]
    /\ snap \in [Workers -> Seconds]
    /\ behind \subseteq Workers
    /\ \A w \in Workers : pc[w] # "idle" <=> job[w] # NoJob

(* Any number of Applies may overlap, in any order: when the last of them   *)
(* has ended, the kernel runs the fragment on disk whenever nft accepts it, *)
(* because whoever wrote the file last still had its own `nft -f` to run.   *)
KernelMatchesDisk ==
    Quiescent /\ prod.nft \in Loadable => kernel = prod.nft

(* The same for dnsmasq: it runs the reservations on disk, or it is down    *)
(* because it cannot start with them.                                       *)
DnsMatchesDisk ==
    Quiescent =>
      \/ dnsd = prod.dns
      \/ dnsd = Down /\ prod.dns \notin Startable

(* An Apply that is about to report success, with no other Apply around it, *)
(* has made exactly the texts it rendered the running and stored ones,      *)
(* whatever failed or restarted before it.                                  *)
OkMeansLive ==
    \A w \in Workers :
      pc[w] \in {"audit", "clean"} =>
        /\ prod = job[w]
        /\ kernel = job[w].nft
        /\ dnsd = job[w].dns

(* Between Applies the files on disk are a configuration that would survive *)
(* a reboot: no failed Apply leaves a rejected fragment behind.             *)
DiskDeployableWhenIdle == Quiescent => prod \in Deployable

(* A flag reads clean (the dashboard says "live ruleset is up to date"), and *)
(* no scan or WireGuard change has gone by that the last successful Apply    *)
(* did not read.  The flags do not know of those: after one they read clean  *)
(* over a database that renders to something else.                           *)
ReadsClean == ~(dirty /\ pending) /\ ~late

(* As far as the operator's own edits go, a clean flag is true between       *)
(* Applies: the gateway runs what the database says, or what separates them  *)
(* is a scan or a WireGuard change that came after the last successful Apply *)
(* had rendered.                                                             *)
CleanMeansLive ==
    Quiescent /\ ReadsClean => want = [nft |-> kernel, dns |-> dnsd]

(* The same of the disk, at every moment: what the next boot will run is     *)
(* what the database says, and it will run.                                  *)
CleanMeansStored ==
    ReadsClean => want = prod /\ prod \in Deployable

Succeeds == \E w \in Workers : pc[w] \in {"audit", "clean"}

(* The first Apply has nothing to fall back on: if it fails, both flags may  *)
(* read clean over a disk that holds half of it.  Once one Apply has         *)
(* succeeded, no crash, reboot, failed rollback or later failure ever makes  *)
(* a clean flag wrong about the disk again; an unmarked change alone does.   *)
SettledOnceApplied == [](Succeeds => []CleanMeansStored)

(* A boot that found a rejected fragment on disk has left no ruleset, and    *)
(* every worker is still short of the files.                                 *)
NeedsRepair ==
    /\ kernel = NoRules /\ prod.nft \notin Loadable
    /\ \A w \in Workers : pc[w] \in {"idle", "stage_nft", "stage_dns", "precheck", "fail"}

(* Where the stand-alone check runs, no Apply ever repairs that, whatever is *)
(* rendered and however often it is tried or the machine rebooted: the check *)
(* is refused for what the kernel lacks before a file is replaced.           *)
NeverRepaired == [][NeedsRepair /\ PreCheckRuns => NeedsRepair']_vars


(* What the dashboard claims when it counts no pending change               *)
(* (dashboard.html:50), whenever the page is read between two Applies.      *)
UpToDateMeansLive ==
    Quiescent /\ ~pending => want = [nft |-> kernel, dns |-> dnsd]

(* Every Apply ends: the page that posted it gets its redirect. *)
EveryApplyEnds == \A w \in Workers : pc[w] # "idle" ~> pc[w] = "idle"
--------------------------------------------------------------------------------
(* The abstraction: while worker w is between its snapshot and its verdict, *)
(* the gateway "still runs" what the snapshot saved; otherwise it runs what *)
(* the kernel and dnsmasq run.  An Apply is in flight until its last command *)
(* has succeeded or it has failed.                                          *)
Uncommitted(w) == pc[w] \notin {"idle", "audit", "clean"}

AbstractJob ==
    IF \E w \in Workers : Uncommitted(w)
      THEN job[CHOOSE w \in Workers : Uncommitted(w)] ELSE NoJob

AbstractLive ==
    IF \E w \in Workers : pc[w] \in SwapPcs \cup RollbackPcs
      THEN snaps[snap[CHOOSE w \in Workers : pc[w] \in SwapPcs \cup RollbackPcs]]
      ELSE [nft |-> kernel, dns |-> dnsd]

Atomic == INSTANCE AtomicApply WITH inflight <- AbstractJob, live <- AbstractLive
ImplementsAtomicApply == Atomic!Spec
================================================================================
