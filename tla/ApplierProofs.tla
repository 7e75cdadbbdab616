----------------------------- MODULE ApplierProofs -----------------------------
(***************************************************************************)
(* What holds of the Apply pipeline for any number of workers and any texts. *)
(***************************************************************************)
EXTENDS Applier, TLAPS

(* The database an installation starts from has the right types: every      *)
(* value init_db and the installer leave is one the pipeline can hold.      *)
LEMMA TypeInit == Init => TypeOK
<1> SUFFICES ASSUME Init PROVE TypeOK
  OBVIOUS
<1>1. prod \in Files /\ kernel \in FullOk \cup {Absent, NoRules} /\ dnsd \in DnsOk \cup {Absent, Down}
  BY TextsAssumption DEF Init, Files, Deployable, Startable
<1>2. dirty \in BOOLEAN /\ pending \in BOOLEAN
  BY DEF Init
<1>3. now \in Seconds
  BY DEF Init
<1>4. \A w \in Workers : pc[w] = "idle" /\ job[w] = NoJob
  BY DEF Init
<1> QED
  BY <1>1, <1>2, <1>3, <1>4 DEF Init, TypeOK, Files, Pcs

(* Every statement of apply(), every edit and every fault keeps the types.  *)
LEMMA TypeStep == TypeOK /\ [Next]_vars => TypeOK'
<1> SUFFICES ASSUME TypeOK, [Next]_vars PROVE TypeOK'
  OBVIOUS
<1> USE NullsAssumption, TextsAssumption
<1> USE DEF TypeOK, Configs, Files, Pcs, SwapPcs, RollbackPcs, Goto
<1>1. CASE Edit
  BY <1>1 DEF Edit, files, running, locals
<1>1a. CASE Drift
  <2>1. /\ want' \in Configs /\ late' \in BOOLEAN /\ behind' \subseteq Workers
        /\ UNCHANGED <<dirty, pending, lastError, staged, prod, kernel, dnsd, snaps, now,
                       pc, job, snap>>
    BY <1>1a DEF Drift, files, running
  <2> QED
    BY <2>1
<1>2. CASE Crash
  BY <1>2 DEF Crash, PanelRestarts, db, files, running
<1>3. CASE Reboot
  BY <1>3 DEF Reboot, PanelRestarts, Loadable, Startable, db, files
<1>4. ASSUME NEW w \in Workers, Render(w) PROVE TypeOK'
  BY <1>4 DEF Render, db, files, running
<1>5. ASSUME NEW w \in Workers, RollbackRaises(w) PROVE TypeOK'
  BY <1>5 DEF RollbackRaises, db, files, running
<1>6. ASSUME NEW w \in Workers, Forward(w) PROVE TypeOK'
  <2>1. CASE StageNft(w)
    BY <2>1 DEF StageNft, db, running, locals
  <2>2. CASE StageDns(w)
    BY <2>2 DEF StageDns, db, running, locals
  <2>3. CASE PreCheckPasses(w)
    BY <2>3 DEF PreCheckPasses, db, files, running, locals
  <2>3a. CASE PreCheckRejects(w)
    BY <2>3a DEF PreCheckRejects, db, files, running, locals
  <2>4. CASE Snapshot(w)
    BY <2>4 DEF Snapshot, db, files, running
  <2>5. CASE InstallNft(w)
    BY <2>5 DEF InstallNft, db, running, locals
  <2>6. CASE InstallDns(w)
    BY <2>6 DEF InstallDns, db, running, locals
  <2>7. CASE FullCheck(w)
    BY <2>7 DEF FullCheck, db, files, running, locals
  <2>8. CASE Load(w)
    BY <2>8 DEF Load, Loadable, db, files, locals
  <2>9. CASE RestartDns(w)
    BY <2>9 DEF RestartDns, Startable, db, files, locals
  <2>10. CASE AuditOk(w)
    BY <2>10 DEF AuditOk, files, running, locals
  <2>11. CASE MarkClean(w)
    BY <2>11 DEF MarkClean, files, running
  <2>12. CASE CommandFails(w)
    BY <2>12 DEF CommandFails, db, files, locals
  <2>13. CASE OsError(w)
    BY <2>13 DEF OsError, db, files, running
  <2> QED
    BY <1>6, <2>1, <2>2, <2>3, <2>3a, <2>4, <2>5, <2>6, <2>7, <2>8, <2>9, <2>10, <2>11,
       <2>12, <2>13 DEF Forward
<1>7. ASSUME NEW w \in Workers, Rollback(w) PROVE TypeOK'
  <2>1. CASE RestoreFile(w)
    <3>1. ASSUME NEW f \in {"nft", "dns"}, NEW from \in RollbackPcs, NEW inst \in RollbackPcs,
                 NEW skip \in RollbackPcs, RestoreStaged(w, from, inst, skip, f)
          PROVE TypeOK'
      BY <3>1 DEF RestoreStaged, db, running, locals
    <3>2. ASSUME NEW f \in {"nft", "dns"}, NEW from \in RollbackPcs, NEW to \in RollbackPcs,
                 RestoreProd(w, from, to, f)
          PROVE TypeOK'
      BY <3>2 DEF RestoreProd, db, running, locals
    <3> QED
      BY <2>1, <3>1, <3>2 DEF RestoreFile
  <2>2. CASE RollbackLoad(w)
    BY <2>2 DEF RollbackLoad, Loadable, db, files, locals
  <2>3. CASE RollbackRestart(w)
    BY <2>3 DEF RollbackRestart, Startable, db, files, locals
  <2>4. CASE Fail(w)
    BY <2>4 DEF Fail, db, files, running
  <2> QED
    BY <1>7, <2>1, <2>2, <2>3, <2>4 DEF Rollback
<1>8. CASE UNCHANGED vars
  BY <1>8 DEF vars, db, files, running, locals
<1> QED
  BY <1>1, <1>1a, <1>2, <1>3, <1>4, <1>5, <1>6, <1>7, <1>8 DEF Next, Progress

(* Type correctness, with or without overlap, edits and faults.             *)
THEOREM TypeCorrect == Spec => []TypeOK
  BY TypeInit, TypeStep, PTL DEF Spec
--------------------------------------------------------------------------------
(* Statements after which a worker still has an `nft -f` of its own to run. *)
LoadPending == {"inst_dns", "check", "load", "rb_copy_nft", "rb_inst_nft",
                "rb_copy_dns", "rb_inst_dns", "rb_load"}

(* A loadable fragment on disk that the kernel does not run belongs to a     *)
(* worker that will load it.                                                 *)
KernelInv ==
    prod.nft \in Loadable /\ kernel # prod.nft =>
      \E w \in Workers : pc[w] \in LoadPending

(* Init runs what is on disk.                                               *)
LEMMA KernelInit == Init => KernelInv
  BY DEF Init, KernelInv

(* No statement of any worker strands a fragment nobody will load.          *)
LEMMA KernelStep ==
  ASSUME ~Faults, TypeOK, KernelInv, [Next]_vars
  PROVE  KernelInv'
<1> USE DEF TypeOK, KernelInv, LoadPending, Goto
<1>1. CASE Edit \/ Drift
  BY <1>1 DEF Edit, Drift, files, running
<1>2. ASSUME NEW w \in Workers, pc[w] \notin LoadPending, pc' = [pc EXCEPT ![w] = pc'[w]],
             UNCHANGED <<prod, kernel>>
      PROVE KernelInv'
  BY <1>2
<1>3. ASSUME NEW w \in Workers, pc'[w] \in LoadPending, pc' = [pc EXCEPT ![w] = pc'[w]]
      PROVE KernelInv'
  BY <1>3
<1>4. ASSUME NEW w \in Workers, Render(w) \/ RollbackRaises(w) PROVE KernelInv'
  BY <1>2, <1>4 DEF Render, RollbackRaises, files, running
<1>5. ASSUME NEW w \in Workers, Forward(w) PROVE KernelInv'
  <2>1. CASE \/ StageNft(w) \/ StageDns(w) \/ PreCheckPasses(w) \/ PreCheckRejects(w)
             \/ Snapshot(w) \/ RestartDns(w) \/ AuditOk(w) \/ MarkClean(w) \/ OsError(w)
    BY <1>2, <2>1 DEF StageNft, StageDns, PreCheckPasses, PreCheckRejects, Snapshot,
       RestartDns, AuditOk, MarkClean, OsError, files, running
  <2>2. CASE InstallNft(w) \/ InstallDns(w) \/ FullCheck(w)
    BY <1>3, <2>2 DEF InstallNft, InstallDns, FullCheck
  <2>3. CASE Load(w)
    BY <2>3 DEF Load, files
  <2>4. CASE CommandFails(w)
    BY <1>3, <2>4 DEF CommandFails
  <2> QED
    BY <1>5, <2>1, <2>2, <2>3, <2>4 DEF Forward
<1>6. ASSUME NEW w \in Workers, Rollback(w) PROVE KernelInv'
  <2>1. CASE RestoreFile(w)
    BY <1>3, <2>1 DEF RestoreFile, RestoreStaged, RestoreProd
  <2>2. CASE RollbackLoad(w)
    BY <2>2 DEF RollbackLoad, files
  <2>3. CASE RollbackRestart(w) \/ Fail(w)
    BY <1>2, <2>3 DEF RollbackRestart, Fail, files, running
  <2> QED
    BY <1>6, <2>1, <2>2, <2>3 DEF Rollback
<1>7. CASE UNCHANGED vars
  BY <1>7 DEF vars, files, running
<1> QED
  BY <1>1, <1>4, <1>5, <1>6, <1>7 DEF Next, Progress, Crash, Reboot

(* Without crashes, however many Applies overlap and whatever is edited      *)
(* meanwhile, once all have ended the kernel runs the fragment on disk       *)
(* unless nft rejects it.                                                    *)
THEOREM KernelFollowsDisk ==
  ASSUME ~Faults
  PROVE  Spec => []KernelMatchesDisk
<1>1. KernelInv => KernelMatchesDisk
  BY DEF KernelInv, KernelMatchesDisk, Quiescent, LoadPending
<1>2. TypeOK /\ KernelInv /\ [Next]_vars => KernelInv'
  BY KernelStep
<1> QED
  BY <1>1, <1>2, KernelInit, TypeCorrect, PTL DEF Spec
--------------------------------------------------------------------------------
(* Statements after which a worker still has a restart of dnsmasq to run.   *)
RestartPending == {"check", "load", "restart"} \cup RollbackPcs

DnsInv ==
    \/ dnsd = prod.dns
    \/ dnsd = Down /\ prod.dns \notin Startable
    \/ \E w \in Workers : pc[w] \in RestartPending

(* Init runs what is on disk.                                               *)
LEMMA DnsInit == Init => DnsInv
  BY DEF Init, DnsInv

(* No statement of any worker strands reservations nobody will load.        *)
LEMMA DnsStep ==
  ASSUME ~Faults, TypeOK, DnsInv, [Next]_vars
  PROVE  DnsInv'
<1> USE DEF TypeOK, DnsInv, RestartPending, RollbackPcs, SwapPcs, Goto
<1>1. CASE Edit \/ Drift
  BY <1>1 DEF Edit, Drift, files, running
<1>2. ASSUME NEW w \in Workers, pc[w] \notin RestartPending, pc' = [pc EXCEPT ![w] = pc'[w]],
             prod'.dns = prod.dns, UNCHANGED dnsd
      PROVE DnsInv'
  BY <1>2
<1>3. ASSUME NEW w \in Workers, pc'[w] \in RestartPending, pc' = [pc EXCEPT ![w] = pc'[w]]
      PROVE DnsInv'
  BY <1>3
<1>4. ASSUME NEW w \in Workers, Render(w) \/ RollbackRaises(w) PROVE DnsInv'
  BY <1>2, <1>4 DEF Render, RollbackRaises, files, running
<1>5. ASSUME NEW w \in Workers, Forward(w) PROVE DnsInv'
  <2>1. CASE \/ StageNft(w) \/ StageDns(w) \/ PreCheckPasses(w) \/ PreCheckRejects(w)
             \/ Snapshot(w) \/ AuditOk(w) \/ MarkClean(w) \/ OsError(w)
    BY <1>2, <2>1 DEF StageNft, StageDns, PreCheckPasses, PreCheckRejects, Snapshot,
       AuditOk, MarkClean, OsError, files, running
  <2>2. CASE InstallNft(w)
    <3>1. prod'.dns = prod.dns /\ UNCHANGED dnsd
      BY <2>2 DEF InstallNft, Files, running
    <3> QED
      BY <1>2, <2>2, <3>1 DEF InstallNft
  <2>3. CASE InstallDns(w) \/ FullCheck(w) \/ Load(w)
    BY <1>3, <2>3 DEF InstallDns, FullCheck, Load
  <2>4. CASE RestartDns(w)
    BY <2>4 DEF RestartDns, files
  <2>5. CASE CommandFails(w)
    BY <1>3, <2>5 DEF CommandFails
  <2> QED
    BY <1>5, <2>1, <2>2, <2>3, <2>4, <2>5 DEF Forward
<1>6. ASSUME NEW w \in Workers, Rollback(w) PROVE DnsInv'
  <2>1. CASE RestoreFile(w) \/ RollbackLoad(w)
    BY <1>3, <2>1 DEF RestoreFile, RestoreStaged, RestoreProd, RollbackLoad
  <2>2. CASE RollbackRestart(w)
    BY <2>2 DEF RollbackRestart, files
  <2>3. CASE Fail(w)
    BY <1>2, <2>3 DEF Fail, files, running
  <2> QED
    BY <1>6, <2>1, <2>2, <2>3 DEF Rollback
<1>7. CASE UNCHANGED vars
  BY <1>7 DEF vars, files, running
<1> QED
  BY <1>1, <1>4, <1>5, <1>6, <1>7 DEF Next, Progress, Crash, Reboot

(* The same for dnsmasq: once all Applies have ended it runs the             *)
(* reservations on disk, or is down because it cannot start with them.       *)
THEOREM DnsmasqFollowsDisk ==
  ASSUME ~Faults
  PROVE  Spec => []DnsMatchesDisk
<1>1. DnsInv => DnsMatchesDisk
  BY DEF DnsInv, DnsMatchesDisk, Quiescent, RestartPending, RollbackPcs
<1>2. TypeOK /\ DnsInv /\ [Next]_vars => DnsInv'
  BY DnsStep
<1> QED
  BY <1>1, <1>2, DnsInit, TypeCorrect, PTL DEF Spec
--------------------------------------------------------------------------------
(* What holds when Applies do not overlap, for any texts: the program counter *)
(* of the one worker inside apply() determines what the staged files,       *)
(* production, the kernel and dnsmasq hold.                                 *)

(* Statements before which the staged fragment, and the staged reservations, *)
(* are the ones this Apply rendered.                                         *)
NftStagedPcs == {"stage_dns", "precheck", "snapshot"} \cup SwapPcs
DnsStagedPcs == {"precheck", "snapshot"} \cup SwapPcs

(* The same of the production files, the kernel and dnsmasq.                *)
NftInstalledPcs == {"inst_dns", "check", "load", "restart", "audit", "clean"}
DnsInstalledPcs == {"check", "load", "restart", "audit", "clean"}
LoadedPcs       == {"restart", "audit", "clean"}
OkPcs           == {"audit", "clean"}

OnlyWorker(w) == \A v \in Workers : v # w => pc[v] = "idle"

(* Where worker w has got to with the texts it rendered. *)
Follows(w) ==
    /\ pc[w] \in NftStagedPcs => staged.nft = job[w].nft
    /\ pc[w] \in DnsStagedPcs => staged.dns = job[w].dns
    /\ pc[w] \in NftInstalledPcs => prod.nft = job[w].nft
    /\ pc[w] \in DnsInstalledPcs => prod.dns = job[w].dns
    /\ pc[w] \in LoadedPcs => kernel = job[w].nft
    /\ pc[w] \in OkPcs => dnsd = job[w].dns

SoloInv == \A w \in Workers : pc[w] # "idle" => OnlyWorker(w) /\ Follows(w)

(* No Apply has begun.                                                      *)
LEMMA SoloInit == Init => SoloInv
  BY DEF Init, SoloInv

(* Every worker but w stays out of apply(), and w ends up where Follows says. *)
LEMMA SoloWorker ==
  ASSUME NEW w \in Workers, TypeOK, OnlyWorker(w),
         pc' = [pc EXCEPT ![w] = pc'[w]],
         pc'[w] = "idle" \/ Follows(w)'
  PROVE  SoloInv'
<1>1. \A v \in Workers : v # w => pc'[v] = "idle"
  BY DEF OnlyWorker, TypeOK
<1> QED
  BY <1>1 DEF SoloInv, OnlyWorker

(* No statement, edit or fault breaks what the program counter says.        *)
LEMMA SoloStep ==
  ASSUME ~Overlap, TypeOK, TypeOK', SoloInv, [Next]_vars
  PROVE  SoloInv'
<1> USE DEF Goto, NftStagedPcs, DnsStagedPcs, NftInstalledPcs, DnsInstalledPcs,
            LoadedPcs, OkPcs, SwapPcs, RollbackPcs
<1>1. CASE Edit \/ Drift
  BY <1>1 DEF Edit, Drift, SoloInv, OnlyWorker, Follows, files, running, locals
<1>2. CASE Crash \/ Reboot
  BY <1>2 DEF Crash, Reboot, PanelRestarts, SoloInv
<1>3. ASSUME NEW w \in Workers, Render(w) PROVE SoloInv'
  <2>1. OnlyWorker(w) /\ pc' = [pc EXCEPT ![w] = "stage_nft"]
    BY <1>3 DEF Render, Quiescent, OnlyWorker
  <2>2. pc'[w] = "stage_nft"
    BY <2>1 DEF TypeOK
  <2>3. Follows(w)'
    BY <2>2 DEF Follows
  <2> QED
    BY <2>1, <2>2, <2>3, SoloWorker
<1>4. ASSUME NEW w \in Workers, Progress(w) \/ RollbackRaises(w)
      PROVE  OnlyWorker(w) /\ Follows(w) /\ pc' = [pc EXCEPT ![w] = pc'[w]]
  <2>1. pc[w] # "idle" /\ \E s \in Pcs : pc' = [pc EXCEPT ![w] = s]
    BY <1>4 DEF Progress, Forward, Rollback, StageNft, StageDns, PreCheckPasses,
       PreCheckRejects, Snapshot, InstallNft, InstallDns, FullCheck, Load, RestartDns,
       CommandFails, RestoreFile, RestoreStaged, RestoreProd, RollbackLoad,
       RollbackRestart, Fail, AuditOk, MarkClean, OsError, RollbackRaises, Pcs
  <2> QED
    BY <2>1 DEF SoloInv, TypeOK
<1>5. ASSUME NEW w \in Workers, RollbackRaises(w) PROVE SoloInv'
  <2>1. pc'[w] = "idle"
    BY <1>5 DEF RollbackRaises, TypeOK
  <2> QED
    BY <1>4, <1>5, <2>1, SoloWorker
<1>6. ASSUME NEW w \in Workers, Forward(w) PROVE SoloInv'
  <2> USE DEF TypeOK, Follows
  <2>1. OnlyWorker(w) /\ Follows(w) /\ pc' = [pc EXCEPT ![w] = pc'[w]]
    BY <1>4, <1>6 DEF Progress
  <2>2. CASE StageNft(w)
    <3>1. Follows(w)'
      BY <2>1, <2>2 DEF StageNft, Files, running, locals
    <3> QED
      BY <2>1, <3>1, SoloWorker
  <2>3. CASE StageDns(w)
    <3>1. Follows(w)'
      BY <2>1, <2>3 DEF StageDns, Files, running, locals
    <3> QED
      BY <2>1, <3>1, SoloWorker
  <2>4. CASE PreCheckPasses(w) \/ PreCheckRejects(w) \/ Snapshot(w) \/ FullCheck(w) \/ AuditOk(w)
    <3>1. Follows(w)'
      BY <2>1, <2>4 DEF PreCheckPasses, PreCheckRejects, Snapshot, FullCheck, AuditOk,
         files, running, locals
    <3> QED
      BY <2>1, <3>1, SoloWorker
  <2>5. CASE InstallNft(w)
    <3>1. Follows(w)'
      BY <2>1, <2>5 DEF InstallNft, Files, running, locals
    <3> QED
      BY <2>1, <3>1, SoloWorker
  <2>6. CASE InstallDns(w)
    <3>1. Follows(w)'
      BY <2>1, <2>6 DEF InstallDns, Files, running, locals
    <3> QED
      BY <2>1, <3>1, SoloWorker
  <2>7. CASE Load(w)
    <3>1. Follows(w)'
      BY <2>1, <2>7 DEF Load, files, locals
    <3> QED
      BY <2>1, <3>1, SoloWorker
  <2>8. CASE RestartDns(w)
    <3>1. Follows(w)'
      BY <2>1, <2>8 DEF RestartDns, files, locals
    <3> QED
      BY <2>1, <3>1, SoloWorker
  <2>9. CASE MarkClean(w) \/ OsError(w)
    <3>1. pc'[w] = "idle"
      BY <2>9 DEF MarkClean, OsError
    <3> QED
      BY <2>1, <3>1, SoloWorker
  <2>10. CASE CommandFails(w)
    <3>1. pc'[w] = "rb_copy_nft"
      BY <2>10 DEF CommandFails
    <3> QED
      BY <2>1, <3>1, SoloWorker
  <2> QED
    BY <1>6, <2>2, <2>3, <2>4, <2>5, <2>6, <2>7, <2>8, <2>9, <2>10 DEF Forward
<1>7. ASSUME NEW w \in Workers, Rollback(w) PROVE SoloInv'
  <2>1. pc'[w] \in RollbackPcs \cup {"fail", "idle"}
    BY <1>7 DEF Rollback, RestoreFile, RestoreStaged, RestoreProd, RollbackLoad,
       RollbackRestart, Fail, TypeOK
  <2>2. pc'[w] = "idle" \/ Follows(w)'
    BY <2>1 DEF Follows
  <2> QED
    BY <1>4, <1>7, <2>2, SoloWorker DEF Progress
<1>8. CASE UNCHANGED vars
  BY <1>8 DEF vars, SoloInv, OnlyWorker, Follows, files, running, locals
<1> QED
  BY <1>1, <1>2, <1>3, <1>5, <1>6, <1>7, <1>8 DEF Next, Progress

(* With one Apply at a time, whatever faults fell before it and whatever is  *)
(* edited meanwhile: an Apply that reports success has made the texts it     *)
(* rendered the stored and the running ones.                                 *)
THEOREM SuccessIsLive ==
  ASSUME ~Overlap
  PROVE  Spec => []OkMeansLive
<1>1. TypeOK /\ SoloInv => OkMeansLive
  <2> SUFFICES ASSUME TypeOK, SoloInv, NEW w \in Workers, pc[w] \in {"audit", "clean"}
               PROVE  prod = job[w] /\ kernel = job[w].nft /\ dnsd = job[w].dns
    BY DEF OkMeansLive
  <2>1. /\ prod.nft = job[w].nft /\ prod.dns = job[w].dns
        /\ kernel = job[w].nft /\ dnsd = job[w].dns
    BY DEF SoloInv, Follows, NftInstalledPcs, DnsInstalledPcs, LoadedPcs, OkPcs
  <2>2. prod \in Files /\ job[w] \in Configs
    BY DEF TypeOK
  <2>3. prod = job[w]
    BY <2>1, <2>2 DEF Files, Configs
  <2> QED
    BY <2>1, <2>3
<1>2. TypeOK /\ TypeOK' /\ SoloInv /\ [Next]_vars => SoloInv'
  BY SoloStep
<1> QED
  BY <1>1, <1>2, SoloInit, TypeCorrect, PTL DEF Spec
--------------------------------------------------------------------------------
(* What holds when Applies do not overlap, no fault strikes and some Apply   *)
(* has worked before: the rollback puts back exactly what the snapshot saved,*)
(* so a failed Apply leaves the gateway as it found it.                      *)

(* Disk, kernel and dnsmasq agree on a configuration that loads and starts. *)
Settled == prod \in Deployable /\ kernel = prod.nft /\ dnsd = prod.dns

(* Statements at which nothing has been touched, or all has been done, or    *)
(* all has been put back.                                                    *)
UntouchedPcs == {"stage_nft", "stage_dns", "precheck", "snapshot", "inst_nft", "fail"}
SettledPcs   == UntouchedPcs \cup OkPcs

(* The rollback has put the saved fragment, and the saved reservations, back. *)
NftRestoredPcs == {"rb_copy_dns", "rb_inst_dns", "rb_load", "rb_restart"}
DnsRestoredPcs == {"rb_load", "rb_restart"}

Saved(w) == snaps[snap[w]]

(* How far worker w has got with the swap, or with undoing it. *)
Restores(w) ==
    /\ pc[w] \in SettledPcs => Settled
    /\ pc[w] \in SwapPcs \cup RollbackPcs => Saved(w) \in Deployable
    /\ pc[w] \in {"load", "restart"} => prod.nft \in FullOk
    /\ pc[w] = "rb_inst_nft" => staged.nft = Saved(w).nft
    /\ pc[w] \in NftRestoredPcs => prod.nft = Saved(w).nft
    /\ pc[w] = "rb_inst_dns" => staged.dns = Saved(w).dns
    /\ pc[w] \in DnsRestoredPcs => prod.dns = Saved(w).dns
    /\ pc[w] = "rb_restart" => kernel = prod.nft

RestoreInv ==
    /\ Quiescent => Settled
    /\ \A w \in Workers : pc[w] # "idle" => Restores(w)

(* Unless both flags say so, or something changed without their being told, *)
(* nothing separates the database from c.                                    *)
Honest(c) == ReadsClean => want = c

(* Worker w rendered what the database still says, or an unmarked change has *)
(* gone by since.                                                            *)
RenderedWant(w) ==
    /\ w \notin behind => want = job[w]
    /\ w \in behind => late

(* The database is what the Apply rendered, unmarked changes apart, and the  *)
(* flags are right about the configuration the gateway runs or will be put   *)
(* back to.                                                                  *)
FlagsInv ==
    /\ Quiescent => Honest(prod)
    /\ \A w \in Workers :
         /\ pc[w] # "idle" => RenderedWant(w)
         /\ pc[w] \in UntouchedPcs => Honest(prod)
         /\ pc[w] \in SwapPcs \cup RollbackPcs => Honest(Saved(w))

(* A database in its first state is settled.                                *)
LEMMA RestoreInit == ASSUME ~FreshInstall PROVE Init => RestoreInv /\ FlagsInv
<1> SUFFICES ASSUME Init PROVE RestoreInv /\ FlagsInv
  OBVIOUS
<1>1. \A w \in Workers : pc[w] = "idle"
  BY DEF Init
<1>2. Settled
  BY DEF Init, Settled
<1>3. Honest(prod)
  <2>1. CASE want = prod
    BY <2>1 DEF Honest
  <2>2. CASE want # prod
    BY <2>2 DEF Init, Honest, ReadsClean
  <2> QED
    BY <2>1, <2>2
<1> QED
  BY <1>1, <1>2, <1>3 DEF RestoreInv, FlagsInv, UntouchedPcs, SwapPcs, RollbackPcs

(* Only worker w moves: what it leaves behind is all there is to show.      *)
LEMMA RestoreWorker ==
  ASSUME NEW w \in Workers, TypeOK, OnlyWorker(w),
         pc' = [pc EXCEPT ![w] = pc'[w]],
         pc'[w] = "idle" => Settled',
         pc'[w] # "idle" => Restores(w)'
  PROVE  RestoreInv'
<1>1. \A v \in Workers : v # w => pc'[v] = "idle"
  BY DEF OnlyWorker, TypeOK
<1> QED
  BY <1>1 DEF RestoreInv, Quiescent

(* Every step of a worker is one of these, one worker at a time, and it      *)
(* changes that worker's program counter only.                              *)
LEMMA MoverIsAlone ==
  ASSUME TypeOK, SoloInv, NEW w \in Workers, Progress(w)
  PROVE  /\ OnlyWorker(w) /\ Follows(w)
         /\ pc' = [pc EXCEPT ![w] = pc'[w]]
         /\ pc[w] # "idle" /\ job[w] \in Configs
<1>1. pc[w] # "idle" /\ \E s \in Pcs : pc' = [pc EXCEPT ![w] = s]
  BY DEF Progress, Forward, Rollback, StageNft, StageDns, PreCheckPasses,
     PreCheckRejects, Snapshot, InstallNft, InstallDns, FullCheck, Load, RestartDns,
     CommandFails, RestoreFile, RestoreStaged, RestoreProd, RollbackLoad,
     RollbackRestart, Fail, AuditOk, MarkClean, OsError, Pcs, SwapPcs, RollbackPcs, Goto
<1> QED
  BY <1>1 DEF SoloInv, TypeOK

(* The statements of the try block keep the saved configuration within reach *)
(* of the rollback, and reach the audit row only when settled.               *)
LEMMA ForwardRestores ==
  ASSUME ~Overlap, TypeOK, TypeOK', SoloInv, RestoreInv, NEW w \in Workers, Forward(w)
  PROVE  RestoreInv'
<1> USE DEF Goto, SettledPcs, UntouchedPcs, OkPcs, SwapPcs, RollbackPcs,
            NftRestoredPcs, DnsRestoredPcs, Saved
<1>1. /\ OnlyWorker(w) /\ Follows(w) /\ Restores(w)
      /\ pc' = [pc EXCEPT ![w] = pc'[w]]
      /\ job[w] \in Configs
  BY MoverIsAlone DEF Progress, RestoreInv
<1>2. CASE StageNft(w) \/ StageDns(w) \/ PreCheckPasses(w) \/ PreCheckRejects(w) \/ AuditOk(w)
  <2>1. /\ pc[w] \in SettledPcs
        /\ pc'[w] \in SettledPcs \ SwapPcs /\ pc'[w] # "idle"
        /\ UNCHANGED <<prod, kernel, dnsd>>
    BY <1>1, <1>2 DEF StageNft, StageDns, PreCheckPasses, PreCheckRejects, AuditOk,
       TypeOK, files, running
  <2>2. Settled'
    BY <1>1, <2>1 DEF Restores, Settled
  <2>3. Restores(w)'
    BY <2>1, <2>2 DEF Restores
  <2> QED
    BY <1>1, <2>1, <2>3, RestoreWorker
<1>3. CASE Snapshot(w)
  <2>1. Settled' /\ prod' = prod /\ pc'[w] = "inst_nft"
    BY <1>1, <1>3 DEF Snapshot, Restores, Settled, TypeOK, files, running
  <2>2. prod.nft # Absent /\ prod.dns # Absent
    BY <2>1, TextsAssumption, NullsAssumption DEF Settled, Deployable
  <2>3. Saved(w)' = [nft |-> prod.nft, dns |-> prod.dns]
    BY <1>3, <2>2 DEF Snapshot, TypeOK
  <2>4. Restores(w)'
    BY <2>1, <2>3 DEF Restores, Settled, Deployable
  <2> QED
    BY <1>1, <2>1, <2>4, RestoreWorker
<1>4. CASE InstallNft(w) \/ InstallDns(w)
  <2>1. Restores(w)' /\ pc'[w] # "idle"
    BY <1>1, <1>4 DEF InstallNft, InstallDns, Restores, TypeOK, locals
  <2> QED
    BY <1>1, <2>1, RestoreWorker
<1>5. CASE FullCheck(w)
  <2>1. prod.nft = job[w].nft /\ prod.nft \in Loadable
    BY <1>1, <1>5 DEF FullCheck, Follows, NftInstalledPcs
  <2>2. prod.nft \in FullOk
    BY <1>1, <2>1, TextsAssumption, NullsAssumption DEF Loadable, Configs
  <2>3. Restores(w)' /\ pc'[w] # "idle"
    BY <1>1, <1>5, <2>2 DEF FullCheck, Restores, TypeOK, files, locals
  <2> QED
    BY <1>1, <2>3, RestoreWorker
<1>6. CASE Load(w)
  <2>1. Restores(w)' /\ pc'[w] # "idle"
    BY <1>1, <1>6 DEF Load, Restores, TypeOK, files, locals
  <2> QED
    BY <1>1, <2>1, RestoreWorker
<1>7. CASE RestartDns(w)
  <2>1. /\ prod.nft = job[w].nft /\ prod.dns = job[w].dns /\ kernel = job[w].nft
        /\ prod.nft \in FullOk /\ prod.dns \in Startable
    BY <1>1, <1>7 DEF RestartDns, Follows, Restores, NftInstalledPcs, DnsInstalledPcs, LoadedPcs
  <2>2. prod.dns \in DnsOk
    BY <1>1, <2>1, TextsAssumption, NullsAssumption DEF Startable, Configs
  <2>3. prod \in Deployable
    BY <2>1, <2>2 DEF TypeOK, Files, Deployable
  <2>4. Settled' /\ pc'[w] = "audit"
    BY <1>7, <2>1, <2>3 DEF RestartDns, Settled, TypeOK, files
  <2>5. Restores(w)'
    BY <2>4 DEF Restores
  <2> QED
    BY <1>1, <2>4, <2>5, RestoreWorker
<1>8. CASE MarkClean(w) \/ OsError(w)
  <2>1. Settled' /\ pc'[w] = "idle"
    BY <1>1, <1>8 DEF MarkClean, OsError, Restores, Settled, TypeOK, files, running
  <2> QED
    BY <1>1, <2>1, RestoreWorker
<1>9. CASE CommandFails(w)
  <2>1. Restores(w)' /\ pc'[w] # "idle"
    BY <1>1, <1>9 DEF CommandFails, Restores, TypeOK, locals
  <2> QED
    BY <1>1, <2>1, RestoreWorker
<1> QED
  BY <1>2, <1>3, <1>4, <1>5, <1>6, <1>7, <1>8, <1>9 DEF Forward

(* The except block ends with what the snapshot saved on disk, in the kernel *)
(* and in dnsmasq.                                                           *)
LEMMA RollbackRestores ==
  ASSUME ~Faults, TypeOK, TypeOK', SoloInv, RestoreInv, NEW w \in Workers, Rollback(w)
  PROVE  /\ RestoreInv'
         /\ pc[w] = "rb_restart" => prod' = Saved(w)
<1> USE DEF Goto, SettledPcs, UntouchedPcs, OkPcs, SwapPcs, RollbackPcs,
            NftRestoredPcs, DnsRestoredPcs, Saved
<1>1. /\ OnlyWorker(w) /\ Restores(w)
      /\ pc' = [pc EXCEPT ![w] = pc'[w]]
  BY MoverIsAlone DEF Progress, RestoreInv
<1>2. pc[w] \in RollbackPcs => /\ Saved(w).nft \in FullOk /\ Saved(w).nft # Absent
                               /\ Saved(w).dns \in DnsOk /\ Saved(w).dns # Absent
  BY <1>1, TextsAssumption, NullsAssumption DEF Restores, Deployable
<1>3. CASE RestoreFile(w)
  <2>1. Restores(w)' /\ pc'[w] # "idle" /\ pc[w] # "rb_restart"
    <3>1. CASE RestoreStaged(w, "rb_copy_nft", "rb_inst_nft", "rb_copy_dns", "nft")
      BY <1>1, <1>2, <3>1 DEF RestoreStaged, Restores, TypeOK, Files, locals
    <3>2. CASE RestoreProd(w, "rb_inst_nft", "rb_copy_dns", "nft")
      BY <1>1, <1>2, <3>2 DEF RestoreProd, Restores, TypeOK, Files, locals
    <3>3. CASE RestoreStaged(w, "rb_copy_dns", "rb_inst_dns", "rb_load", "dns")
      BY <1>1, <1>2, <3>3 DEF RestoreStaged, Restores, TypeOK, Files, locals
    <3>4. CASE RestoreProd(w, "rb_inst_dns", "rb_load", "dns")
      BY <1>1, <1>2, <3>4 DEF RestoreProd, Restores, TypeOK, Files, locals
    <3> QED
      BY <1>3, <3>1, <3>2, <3>3, <3>4 DEF RestoreFile
  <2> QED
    BY <1>1, <2>1, RestoreWorker
<1>4. CASE RollbackLoad(w)
  <2>1. pc[w] = "rb_load" /\ prod.nft \in Loadable
    BY <1>1, <1>2, <1>4 DEF RollbackLoad, Restores, Loadable
  <2>2. Restores(w)' /\ pc'[w] # "idle"
    BY <1>1, <1>4, <2>1 DEF RollbackLoad, Restores, TypeOK, files, locals
  <2> QED
    BY <1>1, <2>1, <2>2, RestoreWorker
<1>5. CASE RollbackRestart(w)
  <2>1. /\ pc[w] = "rb_restart" /\ pc'[w] = "fail"
        /\ prod.nft = Saved(w).nft /\ prod.dns = Saved(w).dns /\ kernel = prod.nft
        /\ prod' = prod /\ kernel' = kernel
    BY <1>1, <1>5 DEF RollbackRestart, Restores, TypeOK, files
  <2>2. prod.dns \in Startable
    BY <1>2, <2>1 DEF Startable
  <2>3. dnsd' = prod.dns
    BY <1>5, <2>2 DEF RollbackRestart
  <2>4. Saved(w) \in Deployable
    BY <1>1, <2>1 DEF Restores
  <2>5. prod = Saved(w)
    BY <2>1, <2>4 DEF TypeOK, Files, Deployable
  <2>6. Settled'
    BY <2>1, <2>3, <2>4, <2>5 DEF Settled
  <2>7. Restores(w)'
    BY <2>1, <2>6 DEF Restores
  <2> QED
    BY <1>1, <2>1, <2>5, <2>6, <2>7, RestoreWorker
<1>6. CASE Fail(w)
  <2>1. Settled' /\ pc'[w] = "idle" /\ pc[w] = "fail"
    BY <1>1, <1>6 DEF Fail, Restores, Settled, TypeOK, files, running
  <2> QED
    BY <1>1, <2>1, RestoreWorker
<1> QED
  BY <1>3, <1>4, <1>5, <1>6 DEF Rollback

(* No statement and no edit breaks it.                                      *)
LEMMA RestoreStep ==
  ASSUME ~Overlap, ~Faults, TypeOK, TypeOK', SoloInv, RestoreInv, [Next]_vars
  PROVE  RestoreInv'
<1>1. CASE Edit \/ Drift
  BY <1>1 DEF Edit, Drift, RestoreInv, Quiescent, Restores, Settled, Saved, files, running, locals
<1>2. CASE UNCHANGED vars
  BY <1>2 DEF vars, RestoreInv, Quiescent, Restores, Settled, Saved, files, running, locals
<1>3. ASSUME NEW w \in Workers, Render(w) PROVE RestoreInv'
  <2>1. OnlyWorker(w) /\ Settled' /\ pc' = [pc EXCEPT ![w] = "stage_nft"]
    BY <1>3 DEF Render, Goto, Quiescent, OnlyWorker, RestoreInv, Settled, files, running
  <2>2. pc'[w] = "stage_nft"
    BY <2>1 DEF TypeOK
  <2>3. Restores(w)'
    BY <2>1, <2>2 DEF Restores, SwapPcs, RollbackPcs, NftRestoredPcs, DnsRestoredPcs
  <2> QED
    BY <2>1, <2>2, <2>3, RestoreWorker
<1>4. ASSUME NEW w \in Workers, Progress(w) PROVE RestoreInv'
  BY <1>4, ForwardRestores, RollbackRestores DEF Progress
<1> QED
  BY <1>1, <1>2, <1>3, <1>4 DEF Next, Crash, Reboot, RollbackRaises

(* With one Apply at a time and no fault, on a gateway where an Apply has    *)
(* worked before: between Applies the files on disk are a configuration the  *)
(* next boot accepts, whatever was rejected and whatever was edited meanwhile. *)
THEOREM FailedApplyLeavesDeployable ==
  ASSUME ~Overlap, ~Faults, ~FreshInstall
  PROVE  Spec => []DiskDeployableWhenIdle
<1>1. RestoreInv => DiskDeployableWhenIdle
  BY DEF RestoreInv, Settled, DiskDeployableWhenIdle
<1>2. TypeOK /\ TypeOK' /\ SoloInv /\ [Next]_vars => SoloInv'
  BY SoloStep
<1>3. TypeOK /\ TypeOK' /\ SoloInv /\ RestoreInv /\ [Next]_vars => RestoreInv'
  BY RestoreStep
<1>4. Init => RestoreInv
  BY RestoreInit
<1> QED
  BY <1>1, <1>2, <1>3, <1>4, SoloInit, TypeCorrect, PTL DEF Spec

(* Only worker w moves.                                                     *)
LEMMA FlagsWorker ==
  ASSUME NEW w \in Workers, TypeOK, OnlyWorker(w),
         pc' = [pc EXCEPT ![w] = pc'[w]],
         pc'[w] # "idle" => RenderedWant(w)',
         pc'[w] \in UntouchedPcs \cup {"idle"} => Honest(prod)',
         pc'[w] \in SwapPcs \cup RollbackPcs => Honest(Saved(w))'
  PROVE  FlagsInv'
<1>1. \A v \in Workers : v # w => pc'[v] = "idle"
  BY DEF OnlyWorker, TypeOK
<1> QED
  BY <1>1 DEF FlagsInv, Quiescent, UntouchedPcs, SwapPcs, RollbackPcs

(* A statement that leaves the database and the files alone and moves        *)
(* between statements of the same kind keeps the flags right.               *)
LEMMA FlagsStatement ==
  ASSUME TypeOK, TypeOK', SoloInv, RestoreInv, FlagsInv, NEW w \in Workers, Forward(w)
  PROVE  FlagsInv'
<1> USE DEF Goto, UntouchedPcs, SwapPcs, RollbackPcs, Honest, ReadsClean, Saved, RenderedWant
<1>1. /\ OnlyWorker(w) /\ Follows(w) /\ Restores(w) /\ RenderedWant(w)
      /\ pc' = [pc EXCEPT ![w] = pc'[w]]
      /\ job[w] \in Configs
  BY MoverIsAlone DEF Progress, RestoreInv, FlagsInv
<1>2. CASE StageNft(w) \/ StageDns(w) \/ PreCheckPasses(w) \/ PreCheckRejects(w)
  <2>1. /\ pc[w] \in UntouchedPcs /\ pc'[w] \in UntouchedPcs \ SwapPcs
        /\ UNCHANGED <<want, dirty, pending, late, behind, prod, job>>
    BY <1>2 DEF StageNft, StageDns, PreCheckPasses, PreCheckRejects, TypeOK,
       files, locals, db
  <2> QED
    BY <1>1, <2>1, FlagsWorker DEF FlagsInv
<1>3. CASE Snapshot(w)
  <2>1. /\ pc[w] = "snapshot" /\ pc'[w] = "inst_nft"
        /\ UNCHANGED <<want, dirty, pending, late, behind, prod, job>>
    BY <1>3 DEF Snapshot, TypeOK, files, db
  <2>2. prod \in Deployable
    BY <1>1, <2>1 DEF Restores, Settled, SettledPcs
  <2>3. Saved(w)' = prod
    <3>1. prod.nft # Absent /\ prod.dns # Absent /\ prod = [nft |-> prod.nft, dns |-> prod.dns]
      BY <2>2, TextsAssumption, NullsAssumption DEF Deployable
    <3> QED
      BY <1>3, <3>1 DEF Snapshot, TypeOK
  <2> QED
    BY <1>1, <2>1, <2>3, FlagsWorker DEF FlagsInv
<1>4. CASE InstallNft(w) \/ InstallDns(w) \/ FullCheck(w) \/ Load(w) \/ CommandFails(w)
  <2>1. /\ pc[w] \in SwapPcs /\ pc'[w] \in (SwapPcs \cup RollbackPcs) \ UntouchedPcs
        /\ UNCHANGED <<want, dirty, pending, late, behind, job, snap, snaps>>
    BY <1>4 DEF InstallNft, InstallDns, FullCheck, Load, CommandFails, TypeOK, locals, db
  <2> QED
    BY <1>1, <2>1, FlagsWorker DEF FlagsInv
<1>5. CASE RestartDns(w) \/ AuditOk(w)
  <2>1. /\ pc'[w] \in {"audit", "clean"} /\ UNCHANGED <<want, job, behind>>
        /\ late /\ w \in behind => late'
    BY <1>5 DEF RestartDns, AuditOk, TypeOK, locals, db
  <2> QED
    BY <1>1, <2>1, FlagsWorker
<1>6. CASE MarkClean(w)
  <2>1. /\ pc[w] = "clean" /\ pc'[w] = "idle" /\ UNCHANGED <<want, prod, late>>
        /\ prod.nft = job[w].nft /\ prod.dns = job[w].dns
    BY <1>1, <1>6 DEF MarkClean, Follows, NftInstalledPcs, DnsInstalledPcs, TypeOK, files
  <2>2. prod = job[w]
    BY <1>1, <2>1 DEF TypeOK, Files, Configs
  <2> QED
    BY <1>1, <2>1, <2>2, FlagsWorker
<1>7. CASE OsError(w)
  <2>1. /\ pc[w] \in UntouchedPcs /\ pc'[w] = "idle"
        /\ UNCHANGED <<want, dirty, pending, late, prod>>
    BY <1>7 DEF OsError, TypeOK, files, db
  <2> QED
    BY <1>1, <2>1, FlagsWorker DEF FlagsInv
<1> QED
  BY <1>2, <1>3, <1>4, <1>5, <1>6, <1>7 DEF Forward

(* Undoing an Apply touches no flag: they are right again about what is back. *)
LEMMA FlagsRollback ==
  ASSUME ~Faults, TypeOK, TypeOK', SoloInv, RestoreInv, FlagsInv,
         NEW w \in Workers, Rollback(w)
  PROVE  FlagsInv'
<1> USE DEF Goto, UntouchedPcs, SwapPcs, RollbackPcs, Honest, ReadsClean, Saved, RenderedWant
<1>1. /\ OnlyWorker(w) /\ RenderedWant(w)
      /\ pc' = [pc EXCEPT ![w] = pc'[w]]
  BY MoverIsAlone DEF Progress, FlagsInv
<1>2. CASE RestoreFile(w) \/ RollbackLoad(w)
  <2>1. /\ pc[w] \in RollbackPcs /\ pc'[w] \in RollbackPcs
        /\ UNCHANGED <<want, dirty, pending, late, behind, job, snap, snaps>>
    BY <1>2 DEF RestoreFile, RestoreStaged, RestoreProd, RollbackLoad, TypeOK, locals, db
  <2> QED
    BY <1>1, <2>1, FlagsWorker DEF FlagsInv
<1>3. CASE RollbackRestart(w)
  <2>1. /\ pc[w] = "rb_restart" /\ pc'[w] = "fail"
        /\ UNCHANGED <<want, dirty, pending, late, behind, job>>
    BY <1>3 DEF RollbackRestart, TypeOK, locals, db
  <2>2. prod' = Saved(w)
    BY <2>1, RollbackRestores
  <2> QED
    BY <1>1, <2>1, <2>2, FlagsWorker DEF FlagsInv
<1>4. CASE Fail(w)
  <2>1. /\ pc[w] = "fail" /\ pc'[w] = "idle"
        /\ UNCHANGED <<want, dirty, pending, late, prod>>
    BY <1>4 DEF Fail, TypeOK, files, db
  <2> QED
    BY <1>1, <2>1, FlagsWorker DEF FlagsInv
<1> QED
  BY <1>2, <1>3, <1>4 DEF Rollback

(* Edits between Applies set both flags; an Apply renders what they left;    *)
(* an unmarked change puts every Apply under way behind.                     *)
LEMMA FlagsStep ==
  ASSUME ~Overlap, ~EditDuringApply, ~Faults,
         TypeOK, TypeOK', SoloInv, RestoreInv, FlagsInv, [Next]_vars
  PROVE  FlagsInv'
<1>1. CASE Edit
  <2>1. \A w \in Workers : pc'[w] = "idle"
    BY <1>1 DEF Edit, Quiescent
  <2>2. Honest(prod)'
    BY <1>1 DEF Edit, Honest, ReadsClean
  <2> QED
    BY <2>1, <2>2 DEF FlagsInv, UntouchedPcs, SwapPcs, RollbackPcs
<1>1a. CASE Drift
  <2>1. late' /\ \A w \in Workers : pc'[w] # "idle" => w \in behind'
    BY <1>1a DEF Drift
  <2> QED
    BY <2>1 DEF FlagsInv, RenderedWant, Honest, ReadsClean
<1>2. CASE UNCHANGED vars
  BY <1>2 DEF vars, FlagsInv, Quiescent, Honest, ReadsClean, RenderedWant, Saved, files, locals, db
<1>3. ASSUME NEW w \in Workers, Render(w) PROVE FlagsInv'
  <2>1. /\ OnlyWorker(w) /\ pc' = [pc EXCEPT ![w] = "stage_nft"]
        /\ Honest(prod)' /\ job' = [job EXCEPT ![w] = want] /\ want' = want
        /\ w \notin behind'
    BY <1>3 DEF Render, Goto, Quiescent, OnlyWorker, FlagsInv, Honest, ReadsClean, files, db
  <2>2. pc'[w] = "stage_nft" /\ RenderedWant(w)'
    BY <2>1 DEF TypeOK, RenderedWant
  <2> QED
    BY <2>1, <2>2, FlagsWorker DEF SwapPcs, RollbackPcs
<1>4. ASSUME NEW w \in Workers, Progress(w) PROVE FlagsInv'
  BY <1>4, FlagsStatement, FlagsRollback DEF Progress
<1> QED
  BY <1>1, <1>1a, <1>2, <1>3, <1>4 DEF Next, Crash, Reboot, RollbackRaises

(* With one Apply at a time, no fault and no operator's edit while it runs,  *)
(* on a gateway where an Apply has worked before, scans and WireGuard        *)
(* changes allowed at any moment: whenever settings.dirty or the count of    *)
(* pending changes reads clean, the gateway runs what the database says,     *)
(* unless a scan or a WireGuard change has come since the last successful    *)
(* Apply rendered.  After one of those a clean flag says nothing.            *)
THEOREM CleanFlagsAreTrue ==
  ASSUME ~Overlap, ~EditDuringApply, ~Faults, ~FreshInstall
  PROVE  Spec => []CleanMeansLive
<1>1. TypeOK /\ RestoreInv /\ FlagsInv => CleanMeansLive
  BY DEF TypeOK, Files, RestoreInv, FlagsInv, Settled, Deployable, Honest, CleanMeansLive
<1>2. TypeOK /\ TypeOK' /\ SoloInv /\ [Next]_vars => SoloInv'
  BY SoloStep
<1>3. TypeOK /\ TypeOK' /\ SoloInv /\ RestoreInv /\ [Next]_vars => RestoreInv'
  BY RestoreStep
<1>4. TypeOK /\ TypeOK' /\ SoloInv /\ RestoreInv /\ FlagsInv /\ [Next]_vars => FlagsInv'
  BY FlagsStep
<1>5. Init => RestoreInv /\ FlagsInv
  BY RestoreInit
<1> QED
  BY <1>1, <1>2, <1>3, <1>4, <1>5, SoloInit, TypeCorrect, PTL DEF Spec
--------------------------------------------------------------------------------
(* The Apply pipeline implements AtomicApply, its safety part: seen through  *)
(* the refinement mapping of Applier, a run of Applies is a run of the       *)
(* promise.  The commit point is the restart of dnsmasq.                    *)

InSwap == SwapPcs \cup RollbackPcs

(* Outside apply() the mapping shows what the gateway runs.                 *)
LEMMA MappingAtRest ==
  ASSUME Quiescent
  PROVE  AbstractJob = NoJob /\ AbstractLive = [nft |-> kernel, dns |-> dnsd]
  BY DEF Quiescent, AbstractJob, AbstractLive, Uncommitted, SwapPcs, RollbackPcs

(* With one worker inside apply(), the mapping speaks of that worker.       *)
LEMMA MappingAt ==
  ASSUME NEW w \in Workers, OnlyWorker(w)
  PROVE  /\ AbstractJob = IF Uncommitted(w) THEN job[w] ELSE NoJob
         /\ AbstractLive = IF pc[w] \in InSwap THEN Saved(w)
                           ELSE [nft |-> kernel, dns |-> dnsd]
<1>1. \A v \in Workers : Uncommitted(v) => v = w
  BY DEF OnlyWorker, Uncommitted
<1>2. \A v \in Workers : pc[v] \in InSwap => v = w
  BY DEF OnlyWorker, InSwap, SwapPcs, RollbackPcs
<1>3. AbstractJob = IF Uncommitted(w) THEN job[w] ELSE NoJob
  <2>1. CASE Uncommitted(w)
    <3>1. (CHOOSE v \in Workers : Uncommitted(v)) = w
      BY <1>1, <2>1
    <3> QED
      BY <2>1, <3>1 DEF AbstractJob
  <2>2. CASE ~Uncommitted(w)
    BY <1>1, <2>2 DEF AbstractJob
  <2> QED
    BY <2>1, <2>2
<1>4. AbstractLive = IF pc[w] \in InSwap THEN Saved(w) ELSE [nft |-> kernel, dns |-> dnsd]
  <2>1. CASE pc[w] \in InSwap
    <3>1. (CHOOSE v \in Workers : pc[v] \in SwapPcs \cup RollbackPcs) = w
      BY <1>2, <2>1 DEF InSwap
    <3> QED
      BY <2>1, <3>1 DEF AbstractLive, Saved, InSwap
  <2>2. CASE pc[w] \notin InSwap
    BY <1>2, <2>2 DEF AbstractLive, InSwap
  <2> QED
    BY <2>1, <2>2
<1> QED
  BY <1>3, <1>4

(* The same of the next state.                                              *)
LEMMA MappingNext ==
  ASSUME NEW w \in Workers
  PROVE  OnlyWorker(w)' =>
           /\ AbstractJob' = IF Uncommitted(w)' THEN job'[w] ELSE NoJob
           /\ AbstractLive' = IF pc'[w] \in InSwap THEN Saved(w)'
                              ELSE [nft |-> kernel', dns |-> dnsd']
<1>1. OnlyWorker(w) =>
        /\ AbstractJob = IF Uncommitted(w) THEN job[w] ELSE NoJob
        /\ AbstractLive = IF pc[w] \in InSwap THEN Saved(w)
                          ELSE [nft |-> kernel, dns |-> dnsd]
  BY MappingAt
<1>2. (OnlyWorker(w) =>
         /\ AbstractJob = IF Uncommitted(w) THEN job[w] ELSE NoJob
         /\ AbstractLive = IF pc[w] \in InSwap THEN Saved(w)
                           ELSE [nft |-> kernel, dns |-> dnsd])'
  BY <1>1, PTL
<1> QED
  BY <1>2 DEF InSwap

(* The first state maps to a first state.                                   *)
LEMMA InitRefines == ASSUME ~FreshInstall PROVE Init => Atomic!Init
<1> SUFFICES ASSUME Init PROVE Atomic!Init
  OBVIOUS
<1>1. Quiescent
  BY DEF Init, Quiescent
<1>2. AbstractJob = NoJob /\ AbstractLive = [nft |-> kernel, dns |-> dnsd]
  BY <1>1, MappingAtRest
<1>3. want \in Configs /\ [nft |-> kernel, dns |-> dnsd] \in Deployable
  BY DEF Init, Deployable
<1> QED
  BY <1>2, <1>3 DEF Atomic!Init

(* A statement of the try block is a stutter, the commit or an abort.       *)
LEMMA ForwardRefines ==
  ASSUME ~Overlap, TypeOK, TypeOK', SoloInv, RestoreInv, NEW w \in Workers, Forward(w)
  PROVE  [Atomic!Next]_(Atomic!vars)
<1> USE DEF Goto, Atomic!vars, Uncommitted, InSwap, SwapPcs, RollbackPcs, Saved
<1>1. /\ OnlyWorker(w) /\ Follows(w) /\ Restores(w) /\ OnlyWorker(w)'
      /\ pc' = [pc EXCEPT ![w] = pc'[w]]
      /\ pc[w] # "idle" /\ job[w] \in Configs
  BY MoverIsAlone DEF Progress, RestoreInv, OnlyWorker, TypeOK
<1>2. /\ AbstractJob = IF Uncommitted(w) THEN job[w] ELSE NoJob
      /\ AbstractLive = IF pc[w] \in InSwap THEN Saved(w) ELSE [nft |-> kernel, dns |-> dnsd]
      /\ AbstractJob' = IF Uncommitted(w)' THEN job'[w] ELSE NoJob
      /\ AbstractLive' = IF pc'[w] \in InSwap THEN Saved(w)'
                         ELSE [nft |-> kernel', dns |-> dnsd']
  BY <1>1, MappingAt, MappingNext
<1>3. CASE StageNft(w) \/ StageDns(w) \/ PreCheckPasses(w) \/ PreCheckRejects(w)
  <2>1. /\ pc[w] \in {"stage_nft", "stage_dns", "precheck"}
        /\ pc'[w] \in {"stage_dns", "precheck", "snapshot", "fail"}
        /\ UNCHANGED <<want, job, kernel, dnsd>>
    BY <1>3 DEF StageNft, StageDns, PreCheckPasses, PreCheckRejects, TypeOK,
       files, running, locals, db
  <2> QED
    BY <1>2, <2>1
<1>4. CASE Snapshot(w)
  <2>1. /\ pc[w] = "snapshot" /\ pc'[w] = "inst_nft"
        /\ UNCHANGED <<want, job>>
    BY <1>4 DEF Snapshot, TypeOK, db
  <2>2. Settled
    BY <1>1, <2>1 DEF Restores, SettledPcs, UntouchedPcs
  <2>3. prod.nft # Absent /\ prod.dns # Absent
    BY <2>2, TextsAssumption, NullsAssumption DEF Settled, Deployable
  <2>4. Saved(w)' = [nft |-> kernel, dns |-> dnsd]
    BY <1>4, <2>2, <2>3 DEF Snapshot, TypeOK, Settled
  <2> QED
    BY <1>2, <2>1, <2>4
<1>5. CASE InstallNft(w) \/ InstallDns(w) \/ FullCheck(w) \/ Load(w) \/ CommandFails(w)
  <2>1. /\ pc[w] \in SwapPcs /\ pc'[w] \in InSwap
        /\ UNCHANGED <<want, job, snap, snaps>>
    BY <1>5 DEF InstallNft, InstallDns, FullCheck, Load, CommandFails, TypeOK, locals, db
  <2> QED
    BY <1>2, <2>1
<1>6. CASE RestartDns(w)
  <2>1. /\ pc[w] = "restart" /\ pc'[w] = "audit" /\ want' = want /\ kernel' = kernel
        /\ dnsd' = prod.dns /\ prod.dns \in Startable
    BY <1>6 DEF RestartDns, TypeOK, db
  <2>2. /\ kernel = job[w].nft /\ prod.nft = job[w].nft /\ prod.dns = job[w].dns
        /\ prod.nft \in FullOk
    BY <1>1, <2>1 DEF Follows, Restores, NftInstalledPcs, DnsInstalledPcs, LoadedPcs
  <2>3. prod.dns \in DnsOk
    BY <1>1, <2>1, <2>2, TextsAssumption, NullsAssumption DEF Startable, Configs
  <2>4. job[w] = [nft |-> kernel', dns |-> dnsd'] /\ job[w] \in Deployable
    BY <1>1, <2>1, <2>2, <2>3 DEF Configs, Deployable
  <2>5. Atomic!Commit
    BY <1>2, <2>1, <2>4 DEF Atomic!Commit
  <2> QED
    BY <2>5 DEF Atomic!Next
<1>7. CASE AuditOk(w) \/ MarkClean(w)
  <2>1. /\ pc[w] \in {"audit", "clean"} /\ pc'[w] \in {"clean", "idle"}
        /\ UNCHANGED <<want, kernel, dnsd>>
    BY <1>7 DEF AuditOk, MarkClean, TypeOK, running
  <2> QED
    BY <1>2, <2>1
<1>8. CASE OsError(w)
  <2>1. /\ AbstractJob = job[w] /\ AbstractJob' = NoJob
        /\ UNCHANGED <<want, AbstractLive>>
    <3>1. /\ pc[w] \in {"stage_nft", "stage_dns", "snapshot"} /\ pc'[w] = "idle"
          /\ UNCHANGED <<want, kernel, dnsd>>
      BY <1>8 DEF OsError, TypeOK, running, db
    <3> QED
      BY <1>2, <3>1
  <2>2. Atomic!Abort
    BY <1>1, <2>1, NullsAssumption DEF Atomic!Abort, Configs
  <2> QED
    BY <2>2 DEF Atomic!Next
<1> QED
  BY <1>3, <1>4, <1>5, <1>6, <1>7, <1>8 DEF Forward

(* The except block is one stutter after another, and then an abort.        *)
LEMMA RollbackRefines ==
  ASSUME ~Faults, TypeOK, TypeOK', SoloInv, RestoreInv, NEW w \in Workers, Rollback(w)
  PROVE  [Atomic!Next]_(Atomic!vars)
<1> USE DEF Goto, Atomic!vars, Uncommitted, InSwap, SwapPcs, RollbackPcs, Saved
<1>1. /\ OnlyWorker(w) /\ Restores(w) /\ OnlyWorker(w)'
      /\ pc' = [pc EXCEPT ![w] = pc'[w]]
      /\ pc[w] # "idle" /\ job[w] \in Configs
  BY MoverIsAlone DEF Progress, RestoreInv, OnlyWorker, TypeOK
<1>2. /\ AbstractJob = IF Uncommitted(w) THEN job[w] ELSE NoJob
      /\ AbstractLive = IF pc[w] \in InSwap THEN Saved(w) ELSE [nft |-> kernel, dns |-> dnsd]
      /\ AbstractJob' = IF Uncommitted(w)' THEN job'[w] ELSE NoJob
      /\ AbstractLive' = IF pc'[w] \in InSwap THEN Saved(w)'
                         ELSE [nft |-> kernel', dns |-> dnsd']
  BY <1>1, MappingAt, MappingNext
<1>3. CASE RestoreFile(w) \/ RollbackLoad(w)
  <2>1. /\ pc[w] \in RollbackPcs /\ pc'[w] \in RollbackPcs
        /\ UNCHANGED <<want, job, snap, snaps>>
    BY <1>3 DEF RestoreFile, RestoreStaged, RestoreProd, RollbackLoad, TypeOK, locals, db
  <2> QED
    BY <1>2, <2>1
<1>4. CASE RollbackRestart(w)
  <2>1. pc[w] = "rb_restart" /\ pc'[w] = "fail" /\ UNCHANGED <<want, job>>
    BY <1>4 DEF RollbackRestart, TypeOK, locals, db
  <2>2. prod' = Saved(w) /\ RestoreInv'
    BY <2>1, RollbackRestores
  <2>3. Settled'
    BY <2>1, <2>2 DEF RestoreInv, Restores, SettledPcs, UntouchedPcs
  <2>4. Saved(w) = [nft |-> kernel', dns |-> dnsd']
    BY <2>2, <2>3 DEF Settled, Deployable
  <2> QED
    BY <1>2, <2>1, <2>4
<1>5. CASE Fail(w)
  <2>1. /\ AbstractJob = job[w] /\ AbstractJob' = NoJob
        /\ UNCHANGED <<want, AbstractLive>>
    <3>1. pc[w] = "fail" /\ pc'[w] = "idle" /\ UNCHANGED <<want, kernel, dnsd>>
      BY <1>5 DEF Fail, TypeOK, running, db
    <3> QED
      BY <1>2, <3>1
  <2>2. Atomic!Abort
    BY <1>1, <2>1, NullsAssumption DEF Atomic!Abort, Configs
  <2> QED
    BY <2>2 DEF Atomic!Next
<1> QED
  BY <1>3, <1>4, <1>5 DEF Rollback

(* Every step of the pipeline is a step of the promise or changes nothing it *)
(* speaks of.                                                                *)
LEMMA StepRefines ==
  ASSUME ~Overlap, ~Faults, TypeOK, TypeOK', SoloInv, RestoreInv, [Next]_vars
  PROVE  [Atomic!Next]_(Atomic!vars)
<1>1. CASE Edit \/ Drift
  <2>1. UNCHANGED <<AbstractJob, AbstractLive>>
    BY <1>1 DEF Edit, Drift, AbstractJob, AbstractLive, Uncommitted, running, locals
  <2> QED
    BY <1>1, <2>1 DEF Edit, Drift, Atomic!Next, Atomic!Edit
<1>2. CASE UNCHANGED vars
  <2>1. UNCHANGED <<AbstractJob, AbstractLive>>
    BY <1>2 DEF vars, AbstractJob, AbstractLive, Uncommitted, running, locals
  <2> QED
    BY <1>2, <2>1 DEF vars, Atomic!vars, db
<1>3. ASSUME NEW w \in Workers, Render(w) PROVE Atomic!Begin
  <2>1. /\ Quiescent /\ OnlyWorker(w)' /\ pc'[w] = "stage_nft" /\ job'[w] = want
        /\ UNCHANGED <<want, kernel, dnsd>>
    BY <1>3 DEF Render, Goto, Quiescent, OnlyWorker, TypeOK, running, db
  <2>2. AbstractJob = NoJob /\ AbstractLive = [nft |-> kernel, dns |-> dnsd]
    BY <2>1, MappingAtRest
  <2>3. AbstractJob' = want /\ AbstractLive' = [nft |-> kernel', dns |-> dnsd']
    BY <2>1, MappingNext DEF Uncommitted, InSwap, SwapPcs, RollbackPcs
  <2> QED
    BY <2>1, <2>2, <2>3 DEF Atomic!Begin
<1>4. ASSUME NEW w \in Workers, Progress(w) PROVE [Atomic!Next]_(Atomic!vars)
  BY <1>4, ForwardRefines, RollbackRefines DEF Progress
<1> QED
  BY <1>1, <1>2, <1>3, <1>4 DEF Next, Crash, Reboot, RollbackRaises, Atomic!Next

(* With one Apply at a time and no fault, on a gateway where an Apply has    *)
(* worked before, edits allowed at any moment: apply() implements the safety *)
(* part of AtomicApply.  Its fairness is left to the model checker.          *)
THEOREM ApplyIsAtomic ==
  ASSUME ~Overlap, ~Faults, ~FreshInstall
  PROVE  Spec => Atomic!Init /\ [][Atomic!Next]_(Atomic!vars)
<1>1. TypeOK /\ TypeOK' /\ SoloInv /\ [Next]_vars => SoloInv'
  BY SoloStep
<1>2. TypeOK /\ TypeOK' /\ SoloInv /\ RestoreInv /\ [Next]_vars => RestoreInv'
  BY RestoreStep
<1>3. TypeOK /\ TypeOK' /\ SoloInv /\ RestoreInv /\ [Next]_vars => [Atomic!Next]_(Atomic!vars)
  BY StepRefines
<1>4. Init => RestoreInv /\ Atomic!Init
  BY RestoreInit, InitRefines
<1> QED
  BY <1>1, <1>2, <1>3, <1>4, SoloInit, TypeCorrect, PTL DEF Spec
--------------------------------------------------------------------------------
(* The argument behind EveryApplyEnds: no statement is executed twice.  Left *)
(* bounds the statements a worker still has to execute, the longest way out. *)
Left ==
    [idle |-> 0, fail |-> 1, rb_restart |-> 2, rb_load |-> 3, rb_inst_dns |-> 4,
     rb_copy_dns |-> 5, rb_inst_nft |-> 6, rb_copy_nft |-> 7,
     clean |-> 1, audit |-> 2, restart |-> 8, load |-> 9, check |-> 10,
     inst_dns |-> 11, inst_nft |-> 12, snapshot |-> 13, precheck |-> 14,
     stage_dns |-> 15, stage_nft |-> 16]

StatementsRunOut ==
    [][\A w \in Workers :
         /\ Progress(w) => Left[pc'[w]] < Left[pc[w]]
         /\ pc[w] # "idle" => Left[pc'[w]] <= Left[pc[w]]]_vars

(* A step of worker w moves w to a statement nearer the end.                *)
LEMMA ProgressDescends ==
  ASSUME TypeOK, NEW w \in Workers, Progress(w)
  PROVE  /\ Left[pc'[w]] < Left[pc[w]]
         /\ \A v \in Workers : v # w => pc'[v] = pc[v]
<1> USE DEF Left, Goto, SwapPcs, RollbackPcs
<1>1. pc \in [Workers -> Pcs]
  BY DEF TypeOK
<1>2. CASE Forward(w)
  BY <1>1, <1>2 DEF Forward, StageNft, StageDns, PreCheckPasses, PreCheckRejects, Snapshot,
     InstallNft, InstallDns, FullCheck, Load, RestartDns, CommandFails, AuditOk, MarkClean, OsError
<1>3. CASE Rollback(w)
  BY <1>1, <1>3 DEF Rollback, RestoreFile, RestoreStaged, RestoreProd, RollbackLoad,
     RollbackRestart, Fail
<1> QED
  BY <1>2, <1>3 DEF Progress

(* However many Applies overlap, whatever is edited and whatever fails: each *)
(* step of a worker leaves it fewer statements, and nobody else's step gives *)
(* it more.  No Apply loops, and sixteen steps end it.                       *)
THEOREM NoApplyLoops == Spec => StatementsRunOut
<1>1. TypeOK /\ [Next]_vars =>
        [\A w \in Workers :
           /\ Progress(w) => Left[pc'[w]] < Left[pc[w]]
           /\ pc[w] # "idle" => Left[pc'[w]] <= Left[pc[w]]]_vars
  <2> SUFFICES ASSUME TypeOK, Next, NEW w \in Workers
               PROVE  /\ Progress(w) => Left[pc'[w]] < Left[pc[w]]
                      /\ pc[w] # "idle" => Left[pc'[w]] <= Left[pc[w]]
    OBVIOUS
  <2>1. Progress(w) => Left[pc'[w]] < Left[pc[w]]
    BY ProgressDescends
  <2>2. pc[w] \in Pcs /\ \A s \in Pcs : Left[s] \in Nat /\ Left["idle"] <= Left[s]
    BY DEF TypeOK, Pcs, Left, SwapPcs, RollbackPcs
  <2>3. CASE pc'[w] = pc[w] \/ pc'[w] = "idle"
    BY <2>1, <2>2, <2>3
  <2>4. ASSUME NEW v \in Workers, Progress(v), pc[w] # "idle"
        PROVE  Left[pc'[w]] <= Left[pc[w]]
    <3>1. CASE v = w
      <4>1. Left[pc'[w]] < Left[pc[w]] /\ pc' \in [Workers -> Pcs]
        BY <2>4, <3>1, ProgressDescends, TypeStep DEF TypeOK
      <4> QED
        BY <2>2, <4>1
    <3>2. CASE v # w
      BY <2>2, <2>4, <3>2, ProgressDescends
    <3> QED
      BY <3>1, <3>2
  <2>5. \/ pc'[w] = pc[w] \/ pc'[w] = "idle" \/ pc[w] = "idle"
        \/ \E v \in Workers : Progress(v)
    BY DEF Next, Edit, Drift, Crash, Reboot, PanelRestarts, Render, RollbackRaises, Goto, TypeOK
  <2> QED
    BY <2>1, <2>3, <2>4, <2>5
<1> QED
  BY <1>1, TypeCorrect, PTL DEF Spec, StatementsRunOut
--------------------------------------------------------------------------------
(* A gateway that booted without a ruleset stays without one, whatever is    *)
(* edited and applied and however often it boots: only a hand on the machine *)
(* repairs it.                                                               *)
THEOREM BrokenBootStays == Spec => NeverRepaired
<1>1. TypeOK /\ [Next]_vars => [NeedsRepair /\ PreCheckRuns => NeedsRepair']_vars
  <2> SUFFICES ASSUME TypeOK, Next, NeedsRepair, PreCheckRuns PROVE NeedsRepair'
    OBVIOUS
  <2> USE DEF NeedsRepair, Goto, TypeOK
  <2>1. CASE Edit \/ Drift
    BY <2>1 DEF Edit, Drift, files, running
  <2>2. CASE Crash \/ Reboot
    BY <2>2 DEF Crash, Reboot, PanelRestarts, files, running
  <2>3. ASSUME NEW w \in Workers, Render(w) PROVE NeedsRepair'
    BY <2>3 DEF Render, files, running
  <2>4. ASSUME NEW w \in Workers, RollbackRaises(w) PROVE NeedsRepair'
    BY <2>4 DEF RollbackRaises, files, running
  <2>5. ASSUME NEW w \in Workers, Progress(w) PROVE NeedsRepair'
    <3>1. pc[w] \in {"idle", "stage_nft", "stage_dns", "precheck", "fail"} /\ kernel = NoRules
      OBVIOUS
    <3>2. StageNft(w) \/ StageDns(w) \/ PreCheckRejects(w) \/ OsError(w) \/ Fail(w)
      BY <2>5, <3>1 DEF Progress, Forward, Rollback, PreCheckPasses, StandaloneOk, Snapshot,
         InstallNft, InstallDns, FullCheck, Load, RestartDns, CommandFails, AuditOk, MarkClean,
         RestoreFile, RestoreStaged, RestoreProd, RollbackLoad, RollbackRestart, SwapPcs
    <3> QED
      BY <3>2 DEF StageNft, StageDns, PreCheckRejects, OsError, Fail, files, running
  <2> QED
    BY <2>1, <2>2, <2>3, <2>4, <2>5 DEF Next
<1> QED
  BY <1>1, TypeCorrect, PTL DEF Spec, NeverRepaired
--------------------------------------------------------------------------------
(* From the first success on.  A worker that reaches its verdict has been    *)
(* through both checks, whatever the machine held before it began.           *)
CheckedInv ==
    \A w \in Workers :
      /\ pc[w] \in {"load", "restart", "audit", "clean"} => prod.nft \in FullOk
      /\ pc[w] \in OkPcs => prod.dns \in DnsOk

LEMMA CheckedStep ==
  ASSUME ~Overlap, TypeOK, TypeOK', SoloInv, CheckedInv, [Next]_vars
  PROVE  CheckedInv'
<1> USE DEF Goto, OkPcs
<1>1. CASE Edit \/ Drift \/ UNCHANGED vars
  BY <1>1 DEF Edit, Drift, vars, CheckedInv, files
<1>2. CASE Crash \/ Reboot
  BY <1>2 DEF Crash, Reboot, PanelRestarts, CheckedInv
<1>3. ASSUME NEW w \in Workers, Render(w) PROVE CheckedInv'
  BY <1>3 DEF Render, CheckedInv, files, TypeOK
<1>4. ASSUME NEW w \in Workers, RollbackRaises(w) PROVE CheckedInv'
  BY <1>4 DEF RollbackRaises, CheckedInv, files, TypeOK
<1>5. ASSUME NEW w \in Workers, Progress(w) PROVE CheckedInv'
  <2>1. /\ OnlyWorker(w) /\ Follows(w) /\ pc' = [pc EXCEPT ![w] = pc'[w]]
        /\ job[w] \in Configs
    BY <1>5, MoverIsAlone
  <2>2. \A v \in Workers : v # w => pc'[v] = "idle"
    BY <2>1 DEF OnlyWorker, TypeOK
  <2>3. CASE FullCheck(w)
    <3>1. prod.nft = job[w].nft /\ prod.nft \in Loadable /\ prod' = prod /\ pc'[w] = "load"
      BY <2>1, <2>3 DEF FullCheck, Follows, NftInstalledPcs, TypeOK, files
    <3>2. prod.nft \in FullOk
      BY <2>1, <3>1, NullsAssumption DEF Loadable, Configs
    <3> QED
      BY <2>2, <3>1, <3>2 DEF CheckedInv
  <2>4. CASE RestartDns(w)
    <3>1. /\ pc[w] = "restart" /\ pc'[w] = "audit" /\ prod' = prod
          /\ prod.dns = job[w].dns /\ prod.dns \in Startable
      BY <2>1, <2>4 DEF RestartDns, Follows, DnsInstalledPcs, TypeOK, files
    <3>2. prod.dns \in DnsOk
      BY <2>1, <3>1, NullsAssumption DEF Startable, Configs
    <3>3. prod.nft \in FullOk
      BY <3>1 DEF CheckedInv
    <3> QED
      BY <2>2, <3>1, <3>2, <3>3 DEF CheckedInv
  <2>5. CASE Load(w) \/ AuditOk(w)
    <3>1. /\ prod' = prod
          /\ \/ pc[w] = "load" /\ pc'[w] = "restart"
             \/ pc[w] = "audit" /\ pc'[w] = "clean"
      BY <2>5 DEF Load, AuditOk, TypeOK, files
    <3> QED
      BY <2>2, <3>1 DEF CheckedInv
  <2>6. CASE pc'[w] \notin {"load", "restart", "audit", "clean"}
    BY <2>2, <2>6 DEF CheckedInv
  <2>7. FullCheck(w) \/ RestartDns(w) \/ Load(w) \/ AuditOk(w)
        \/ pc'[w] \notin {"load", "restart", "audit", "clean"}
    BY <1>5 DEF Progress, Forward, Rollback, StageNft, StageDns, PreCheckPasses,
       PreCheckRejects, Snapshot, InstallNft, InstallDns, CommandFails, MarkClean, OsError,
       RestoreFile, RestoreStaged, RestoreProd, RollbackLoad, RollbackRestart, Fail, TypeOK
  <2> QED
    BY <2>3, <2>4, <2>5, <2>6, <2>7
<1> QED
  BY <1>1, <1>2, <1>3, <1>4, <1>5 DEF Next

(* At its verdict an Apply has settled the gateway, with nothing assumed of  *)
(* what was there when it began.                                             *)
LEMMA SuccessRestores ==
  ASSUME TypeOK, SoloInv, CheckedInv, Succeeds
  PROVE  RestoreInv
<1>1. PICK w \in Workers : pc[w] \in OkPcs
  BY DEF Succeeds, OkPcs
<1>2. /\ OnlyWorker(w)
      /\ prod.nft = job[w].nft /\ kernel = job[w].nft
      /\ prod.dns = job[w].dns /\ dnsd = job[w].dns
  BY <1>1 DEF SoloInv, Follows, OkPcs, NftInstalledPcs, DnsInstalledPcs, LoadedPcs
<1>3. prod.nft \in FullOk /\ prod.dns \in DnsOk
  BY <1>1 DEF CheckedInv, OkPcs
<1>4. Settled
  BY <1>2, <1>3 DEF Settled, TypeOK, Files, Deployable
<1>5. Restores(w)
  BY <1>1, <1>4 DEF Restores, OkPcs, SwapPcs, RollbackPcs, NftRestoredPcs, DnsRestoredPcs
<1> QED
  BY <1>1, <1>2, <1>5 DEF RestoreInv, OnlyWorker, Quiescent, OkPcs

LEMMA CheckedInit == Init => CheckedInv
  BY DEF Init, CheckedInv, OkPcs

(* With one Apply at a time and no fault, also on a machine whose first      *)
(* Applies failed and left a rejected fragment: once an Apply has succeeded, *)
(* what is on disk between Applies loads and starts, for ever.               *)
THEOREM DeployableOnceApplied ==
  ASSUME ~Overlap, ~Faults
  PROVE  Spec => [](Succeeds => []DiskDeployableWhenIdle)
<1>1. RestoreInv => DiskDeployableWhenIdle
  BY DEF RestoreInv, Settled, DiskDeployableWhenIdle
<1>2. TypeOK /\ TypeOK' /\ SoloInv /\ [Next]_vars => SoloInv'
  BY SoloStep
<1>3. TypeOK /\ TypeOK' /\ SoloInv /\ CheckedInv /\ [Next]_vars => CheckedInv'
  BY CheckedStep
<1>4. TypeOK /\ SoloInv /\ CheckedInv /\ Succeeds => RestoreInv
  BY SuccessRestores
<1>5. TypeOK /\ TypeOK' /\ SoloInv /\ RestoreInv /\ [Next]_vars => RestoreInv'
  BY RestoreStep
<1> QED
  BY <1>1, <1>2, <1>3, <1>4, <1>5, SoloInit, CheckedInit, TypeCorrect, PTL DEF Spec

(* Under the same hypotheses, whatever the gateway started from, apply()     *)
(* keeps the promise of AtomicApply from the first success on.               *)
THEOREM AtomicOnceApplied ==
  ASSUME ~Overlap, ~Faults
  PROVE  Spec => [](Succeeds => [][Atomic!Next]_(Atomic!vars))
<1>2. TypeOK /\ TypeOK' /\ SoloInv /\ [Next]_vars => SoloInv'
  BY SoloStep
<1>3. TypeOK /\ TypeOK' /\ SoloInv /\ CheckedInv /\ [Next]_vars => CheckedInv'
  BY CheckedStep
<1>4. TypeOK /\ SoloInv /\ CheckedInv /\ Succeeds => RestoreInv
  BY SuccessRestores
<1>5. TypeOK /\ TypeOK' /\ SoloInv /\ RestoreInv /\ [Next]_vars => RestoreInv'
  BY RestoreStep
<1>6. TypeOK /\ TypeOK' /\ SoloInv /\ RestoreInv /\ [Next]_vars => [Atomic!Next]_(Atomic!vars)
  BY StepRefines
<1> QED
  BY <1>2, <1>3, <1>4, <1>5, <1>6, SoloInit, CheckedInit, TypeCorrect, PTL DEF Spec
--------------------------------------------------------------------------------
(* With faults.  A flag that reads clean while an Apply runs means that the  *)
(* Apply changes nothing: it rendered what is stored, saved what is stored   *)
(* and, if it fails, restores what is stored.                                *)
JobIsWant == \A w \in Workers : pc[w] # "idle" => RenderedWant(w)

StoredInv ==
    /\ CleanMeansStored
    /\ \A w \in Workers :
         /\ ReadsClean /\ pc[w] \in SwapPcs \cup RollbackPcs => Saved(w) = prod
         /\ pc[w] = "rb_inst_nft" => staged.nft = Saved(w).nft
         /\ pc[w] = "rb_inst_dns" => staged.dns = Saved(w).dns

LEMMA JobStep ==
  ASSUME ~Overlap, ~EditDuringApply, TypeOK, SoloInv, JobIsWant, [Next]_vars
  PROVE  JobIsWant'
<1> USE DEF JobIsWant, RenderedWant, Goto, TypeOK
<1>1. CASE Edit
  BY <1>1 DEF Edit, Quiescent
<1>1a. CASE Drift
  BY <1>1a DEF Drift
<1>2. CASE Crash \/ Reboot
  BY <1>2 DEF Crash, Reboot, PanelRestarts
<1>3. ASSUME NEW w \in Workers, Render(w) PROVE JobIsWant'
  BY <1>3 DEF Render, Quiescent, db
<1>4. ASSUME NEW w \in Workers, RollbackRaises(w) PROVE JobIsWant'
  BY <1>4 DEF RollbackRaises, db, RollbackPcs
<1>5. ASSUME NEW w \in Workers, Progress(w) PROVE JobIsWant'
  <2>1. /\ want' = want /\ behind' = behind /\ pc[w] # "idle"
        /\ late' = late \/ w \notin behind
        /\ \A v \in Workers : pc'[v] # "idle" => pc[v] # "idle" /\ job'[v] = job[v]
    <3>1. CASE Forward(w)
      BY <3>1 DEF Forward, StageNft, StageDns, PreCheckPasses, PreCheckRejects, Snapshot,
         InstallNft, InstallDns, FullCheck, Load, RestartDns, CommandFails, AuditOk, MarkClean,
         OsError, SwapPcs, db, locals
    <3>2. CASE Rollback(w)
      BY <3>2 DEF Rollback, RestoreFile, RestoreStaged, RestoreProd, RollbackLoad,
         RollbackRestart, Fail, db, locals
    <3> QED
      BY <1>5, <3>1, <3>2 DEF Progress
  <2>2. \A v \in Workers : v # w => pc[v] = "idle"
    BY <2>1 DEF SoloInv, OnlyWorker
  <2> QED
    BY <2>1, <2>2
<1>6. CASE UNCHANGED vars
  BY <1>6 DEF vars, db, locals
<1> QED
  BY <1>1, <1>1a, <1>2, <1>3, <1>4, <1>5, <1>6 DEF Next

(* Only worker w moves, and outside the swap nothing but the flags counts.   *)
LEMMA StoredWorker ==
  ASSUME NEW w \in Workers, TypeOK, OnlyWorker(w), pc' = [pc EXCEPT ![w] = pc'[w]],
         CleanMeansStored',
         ReadsClean' /\ pc'[w] \in SwapPcs \cup RollbackPcs => Saved(w)' = prod',
         pc'[w] = "rb_inst_nft" => staged'.nft = Saved(w)'.nft,
         pc'[w] = "rb_inst_dns" => staged'.dns = Saved(w)'.dns
  PROVE  StoredInv'
<1>1. \A v \in Workers : v # w => pc'[v] = "idle"
  BY DEF OnlyWorker, TypeOK
<1> QED
  BY <1>1 DEF StoredInv, SwapPcs, RollbackPcs

LEMMA ForwardStores ==
  ASSUME TypeOK, TypeOK', SoloInv, CheckedInv, JobIsWant, StoredInv,
         NEW w \in Workers, Forward(w)
  PROVE  StoredInv'
<1> USE DEF Goto, SwapPcs, RollbackPcs, Saved, CleanMeansStored, ReadsClean, RenderedWant
<1>1. /\ OnlyWorker(w) /\ Follows(w) /\ (ReadsClean => want = job[w])
      /\ pc' = [pc EXCEPT ![w] = pc'[w]]
      /\ job[w] \in Configs
  BY MoverIsAlone DEF Progress, JobIsWant
<1>2. ReadsClean => want = prod /\ prod \in Deployable
  BY DEF StoredInv
<1>3. CASE StageNft(w) \/ StageDns(w) \/ PreCheckPasses(w) \/ PreCheckRejects(w) \/ OsError(w)
  <2>1. /\ UNCHANGED <<want, dirty, pending, late, prod>>
        /\ pc'[w] \in {"stage_dns", "precheck", "snapshot", "fail", "idle"}
    BY <1>3 DEF StageNft, StageDns, PreCheckPasses, PreCheckRejects, OsError, TypeOK, files, db
  <2> QED
    BY <1>1, <1>2, <2>1, StoredWorker
<1>4. CASE Snapshot(w)
  <2>1. UNCHANGED <<want, dirty, pending, late, prod>> /\ pc'[w] = "inst_nft"
    BY <1>4 DEF Snapshot, TypeOK, files, db
  <2>2. ASSUME ReadsClean PROVE Saved(w)' = prod
    <3>1. prod.nft # Absent /\ prod.dns # Absent /\ prod = [nft |-> prod.nft, dns |-> prod.dns]
      BY <1>2, <2>2, TextsAssumption, NullsAssumption DEF Deployable
    <3> QED
      BY <1>4, <3>1 DEF Snapshot, TypeOK
  <2> QED
    BY <1>1, <1>2, <2>1, <2>2, StoredWorker
<1>5. CASE InstallNft(w) \/ InstallDns(w)
  <2>1. /\ UNCHANGED <<want, dirty, pending, late, snap, snaps>>
        /\ pc[w] \in SwapPcs /\ pc'[w] \in {"inst_dns", "check"}
    BY <1>5 DEF InstallNft, InstallDns, TypeOK, locals, db
  <2>2. ASSUME ReadsClean PROVE prod' = prod
    <3>1. prod = job[w]
      BY <1>1, <1>2, <2>2
    <3>2. CASE InstallNft(w)
      BY <1>1, <3>1, <3>2 DEF InstallNft, Follows, NftStagedPcs, TypeOK, Files
    <3>3. CASE InstallDns(w)
      BY <1>1, <3>1, <3>3 DEF InstallDns, Follows, DnsStagedPcs, TypeOK, Files
    <3> QED
      BY <1>5, <3>2, <3>3
  <2>3. ReadsClean => Saved(w) = prod
    BY <2>1 DEF StoredInv
  <2> QED
    BY <1>1, <1>2, <2>1, <2>2, <2>3, StoredWorker
<1>6. CASE FullCheck(w) \/ Load(w) \/ RestartDns(w) \/ CommandFails(w)
  <2>1. /\ UNCHANGED <<want, dirty, pending, late, prod, snap, snaps>>
        /\ pc[w] \in SwapPcs /\ pc'[w] \in {"load", "restart", "audit", "rb_copy_nft"}
    BY <1>6 DEF FullCheck, Load, RestartDns, CommandFails, TypeOK, locals, db, files
  <2>2. ReadsClean => Saved(w) = prod
    BY <2>1 DEF StoredInv
  <2> QED
    BY <1>1, <1>2, <2>1, <2>2, StoredWorker
<1>7. CASE AuditOk(w) \/ MarkClean(w)
  <2>1. /\ UNCHANGED <<want, prod>>
        /\ late' => late
        /\ late /\ w \in behind => late'
        /\ pc[w] \in {"audit", "clean"} /\ pc'[w] \in {"clean", "idle"}
    BY <1>7 DEF AuditOk, MarkClean, TypeOK, files
  <2>2. prod.nft = job[w].nft /\ prod.dns = job[w].dns
    BY <1>1, <2>1 DEF Follows, NftInstalledPcs, DnsInstalledPcs
  <2>3. prod.nft \in FullOk /\ prod.dns \in DnsOk
    BY <2>1 DEF CheckedInv, OkPcs
  <2>4. w \notin behind => want = prod
    BY <2>1, <2>2 DEF TypeOK, Files, Configs, JobIsWant
  <2>5. w \in behind => late'
    BY <2>1 DEF JobIsWant
  <2>6. prod \in Deployable
    BY <2>3 DEF TypeOK, Files, Deployable
  <2> QED
    BY <1>1, <2>1, <2>4, <2>5, <2>6, StoredWorker
<1> QED
  BY <1>3, <1>4, <1>5, <1>6, <1>7 DEF Forward

(* A reload or a restart that fails in the rollback changes no file.        *)
LEMMA RollbackStores ==
  ASSUME TypeOK, TypeOK', SoloInv, StoredInv, NEW w \in Workers, Rollback(w)
  PROVE  StoredInv'
<1> USE DEF Goto, SwapPcs, RollbackPcs, Saved, CleanMeansStored, ReadsClean
<1>1. OnlyWorker(w) /\ pc' = [pc EXCEPT ![w] = pc'[w]]
  BY MoverIsAlone DEF Progress
<1>2. /\ ReadsClean => want = prod /\ prod \in Deployable
      /\ ReadsClean /\ pc[w] \in RollbackPcs => Saved(w) = prod
      /\ pc[w] = "rb_inst_nft" => staged.nft = Saved(w).nft
      /\ pc[w] = "rb_inst_dns" => staged.dns = Saved(w).dns
  BY DEF StoredInv
<1>3. CASE RestoreFile(w)
  <2>1. UNCHANGED <<want, dirty, pending, late, snap, snaps>> /\ pc[w] \in RollbackPcs
    BY <1>3 DEF RestoreFile, RestoreStaged, RestoreProd, locals, db
  <2>2. /\ ReadsClean => prod' = prod
        /\ pc'[w] = "rb_inst_nft" => staged'.nft = Saved(w).nft
        /\ pc'[w] = "rb_inst_dns" => staged'.dns = Saved(w).dns
    <3>1. CASE RestoreStaged(w, "rb_copy_nft", "rb_inst_nft", "rb_copy_dns", "nft")
      BY <3>1 DEF RestoreStaged, TypeOK, Files
    <3>2. CASE RestoreProd(w, "rb_inst_nft", "rb_copy_dns", "nft")
      BY <1>2, <3>2 DEF RestoreProd, TypeOK, Files
    <3>3. CASE RestoreStaged(w, "rb_copy_dns", "rb_inst_dns", "rb_load", "dns")
      BY <3>3 DEF RestoreStaged, TypeOK, Files
    <3>4. CASE RestoreProd(w, "rb_inst_dns", "rb_load", "dns")
      BY <1>2, <3>4 DEF RestoreProd, TypeOK, Files
    <3> QED
      BY <1>3, <3>1, <3>2, <3>3, <3>4 DEF RestoreFile
  <2> QED
    BY <1>1, <1>2, <2>1, <2>2, StoredWorker
<1>4. CASE RollbackLoad(w) \/ RollbackRestart(w) \/ Fail(w)
  <2>1. /\ UNCHANGED <<want, dirty, pending, late, prod, snap, snaps>>
        /\ pc'[w] \in {"rb_restart", "fail", "idle"}
        /\ pc'[w] = "rb_restart" => pc[w] \in RollbackPcs
    BY <1>4 DEF RollbackLoad, RollbackRestart, Fail, TypeOK, files, locals, db
  <2> QED
    BY <1>1, <1>2, <2>1, StoredWorker
<1> QED
  BY <1>3, <1>4 DEF Rollback

LEMMA StoredStep ==
  ASSUME ~Overlap, ~EditDuringApply, TypeOK, TypeOK', SoloInv, CheckedInv, JobIsWant,
         StoredInv, [Next]_vars
  PROVE  StoredInv'
<1> USE DEF SwapPcs, RollbackPcs, CleanMeansStored, ReadsClean
<1>1. CASE Edit
  BY <1>1 DEF Edit, Quiescent, StoredInv
<1>1a. CASE Drift
  BY <1>1a DEF Drift, StoredInv, Saved, files
<1>2. CASE Crash \/ Reboot
  BY <1>2 DEF Crash, Reboot, PanelRestarts, StoredInv, db, files
<1>3. ASSUME NEW w \in Workers, Render(w) \/ RollbackRaises(w) PROVE StoredInv'
  <2>1. UNCHANGED <<want, dirty, pending, late, prod>>
    BY <1>3 DEF Render, RollbackRaises, files, db
  <2>2. \A v \in Workers : pc'[v] \in SwapPcs \cup RollbackPcs =>
          pc'[v] = pc[v] /\ UNCHANGED <<Saved(v), staged>>
    BY <1>3 DEF Render, RollbackRaises, Goto, TypeOK, Saved, files
  <2> QED
    BY <2>1, <2>2 DEF StoredInv
<1>4. ASSUME NEW w \in Workers, Progress(w) PROVE StoredInv'
  BY <1>4, ForwardStores, RollbackStores DEF Progress
<1>5. CASE UNCHANGED vars
  BY <1>5 DEF vars, StoredInv, Saved, files, locals, db
<1> QED
  BY <1>1, <1>1a, <1>2, <1>3, <1>4, <1>5 DEF Next

(* At its verdict an Apply has stored what the database says.               *)
LEMMA SuccessStores ==
  ASSUME TypeOK, SoloInv, CheckedInv, JobIsWant, Succeeds
  PROVE  StoredInv
<1>1. PICK w \in Workers : pc[w] \in OkPcs
  BY DEF Succeeds, OkPcs
<1>2. /\ OnlyWorker(w) /\ prod.nft = job[w].nft /\ prod.dns = job[w].dns
      /\ RenderedWant(w)
  BY <1>1 DEF SoloInv, JobIsWant, Follows, OkPcs, NftInstalledPcs, DnsInstalledPcs
<1>3. prod.nft \in FullOk /\ prod.dns \in DnsOk
  BY <1>1 DEF CheckedInv, OkPcs
<1>4. job[w] \in Configs
  BY <1>1 DEF TypeOK, OkPcs
<1>5. prod = job[w] /\ prod \in Deployable
  BY <1>2, <1>3, <1>4 DEF TypeOK, Files, Configs, Deployable
<1> QED
  BY <1>1, <1>2, <1>5 DEF StoredInv, CleanMeansStored, ReadsClean, RenderedWant, OnlyWorker,
     OkPcs, SwapPcs, RollbackPcs

LEMMA StoredInit ==
  ASSUME Init
  PROVE  JobIsWant /\ (~FreshInstall => StoredInv)
<1>1. /\ \A w \in Workers : pc[w] = "idle"
      /\ ~FreshInstall => prod \in Deployable /\ dirty = (want # prod)
      /\ pending = dirty
  BY DEF Init
<1> QED
  BY <1>1 DEF JobIsWant, StoredInv, CleanMeansStored, ReadsClean, SwapPcs, RollbackPcs

(* One Apply at a time and no operator's edit while it runs, but with        *)
(* crashes of the panel, reboots, rollbacks that fail or stop half way and   *)
(* unmarked changes at any moment, and on a machine that may never have been *)
(* applied to: from the first success on, whenever a flag reads clean and no *)
(* scan or WireGuard change has come since the last successful Apply         *)
(* rendered, the disk holds what the database says, and the next boot        *)
(* accepts it.                                                               *)
THEOREM CleanIsStoredOnceApplied ==
  ASSUME ~Overlap, ~EditDuringApply
  PROVE  Spec => SettledOnceApplied
<1>1. TypeOK /\ TypeOK' /\ SoloInv /\ [Next]_vars => SoloInv'
  BY SoloStep
<1>2. TypeOK /\ TypeOK' /\ SoloInv /\ CheckedInv /\ [Next]_vars => CheckedInv'
  BY CheckedStep
<1>3. TypeOK /\ SoloInv /\ JobIsWant /\ [Next]_vars => JobIsWant'
  BY JobStep
<1>4. TypeOK /\ SoloInv /\ CheckedInv /\ JobIsWant /\ Succeeds => StoredInv
  BY SuccessStores
<1>5. TypeOK /\ TypeOK' /\ SoloInv /\ CheckedInv /\ JobIsWant /\ StoredInv /\ [Next]_vars
        => StoredInv'
  BY StoredStep
<1>6. StoredInv => CleanMeansStored
  BY DEF StoredInv
<1>7. Init => JobIsWant
  BY StoredInit
<1> QED
  BY <1>1, <1>2, <1>3, <1>4, <1>5, <1>6, <1>7, SoloInit, CheckedInit, TypeCorrect, PTL
  DEF Spec, SettledOnceApplied

(* The same at every moment, where an Apply has worked before: with the same *)
(* exception for what changed unmarked.                                      *)
THEOREM CleanIsStored ==
  ASSUME ~Overlap, ~EditDuringApply, ~FreshInstall
  PROVE  Spec => []CleanMeansStored
<1>1. TypeOK /\ TypeOK' /\ SoloInv /\ [Next]_vars => SoloInv'
  BY SoloStep
<1>2. TypeOK /\ TypeOK' /\ SoloInv /\ CheckedInv /\ [Next]_vars => CheckedInv'
  BY CheckedStep
<1>3. TypeOK /\ SoloInv /\ JobIsWant /\ [Next]_vars => JobIsWant'
  BY JobStep
<1>4. TypeOK /\ TypeOK' /\ SoloInv /\ CheckedInv /\ JobIsWant /\ StoredInv /\ [Next]_vars
        => StoredInv'
  BY StoredStep
<1>5. StoredInv => CleanMeansStored
  BY DEF StoredInv
<1>6. Init => JobIsWant /\ StoredInv
  BY StoredInit
<1> QED
  BY <1>1, <1>2, <1>3, <1>4, <1>5, <1>6, SoloInit, CheckedInit, TypeCorrect, PTL DEF Spec
================================================================================
