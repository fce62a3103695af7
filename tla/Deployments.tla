---------------------------- MODULE Deployments ----------------------------
(* rpm_ostree.rs, ostree.rs and dnf_history.rs.  What rpm-ostree does goes   *)
(* into the next deployment; what it says of the machine is what the booted  *)
(* one has.  Managed keeps the two apart.                                    *)
EXTENDS Steps

Argument(t, s) == IF Has(t, "argument missing") THEN Err ELSE s
WhenFlag(t, flag, s) == When(Has(t, flag), s)

(* rpm_ostree.rs.  `status --json` is read once, before anything else; when  *)
(* it fails there are no deployments, so nothing is layered and nothing of   *)
(* the base removed; what is no JSON is an Err.  A reboot is asked for only  *)
(* after a success, without --apply-live, and its failure is not looked at.  *)
RunStatus   == List("next") \o May("err")
DoReboot(t) == WhenFlag(t, "reboot", Loose("reboot"))
RunRpmOstree(t, c) == Run(c) \o DoReboot(t) \o Changed

Selected(t, q) ==
  IF Has(t, "not idempotent") THEN Take(t.names) ELSE Pick(q, t.names) \o OkIfNone

HandleInstall(t)   == Selected(t, "missing") \o RunRpmOstree(t, "install")
HandleUninstall(t) == Selected(t, "installed") \o RunRpmOstree(t, "remove")
HandleUpgrade(t)   ==
  IF Has(t, "check") THEN Loose("check") \o Ok
  ELSE Take(t.names) \o
       Run(IF t.names = {} THEN "sysupgrade" ELSE "sysupgrade+install") \o DoReboot(t) \o Did
HandleDeploy(t)    == Argument(t, RunRpmOstree(t, "other"))
HandleRebase(t)    == Argument(t, RunRpmOstree(t, "other"))
HandleRollback     == Run("rollback") \o Changed
HandleCleanup(t)   ==
  IF Has(t, "unknown mode") THEN Fail
  ELSE Run(IF Has(t, "pending") THEN "unstage" ELSE "other") \o Changed
HandleDbDiff         == Run("show") \o Ok
HandleUpgradePreview == Run("show") \o Ok

(* Overriding a package of the base image: it is there until it is removed,  *)
(* and a reset brings it back.                                               *)
Overrides == {"override replace", "override remove", "override reset", "override unknown"}
HandleOverride(t) ==
  CASE t.state = "override replace" -> Argument(t, Run("other") \o Changed)
    [] t.state = "override remove"  -> Named(t, Selected(t, "kept") \o Run("remove") \o Changed)
    [] t.state = "override reset"   -> Take(t.names) \o Run("install") \o Changed
    [] OTHER                        -> Fail

RpmOstree(t) ==
  IF Has(t, "no binary") THEN Fail ELSE RunStatus \o
  CASE t.state = "status"   -> Ok
    [] t.state \in Overrides -> HandleOverride(t)
    [] t.state = "present"  -> Named(t, HandleInstall(t))
    [] t.state = "absent"   -> Named(t, HandleUninstall(t))
    [] t.state = "latest"   -> HandleUpgrade(t)
    [] t.state = "deployed" -> HandleDeploy(t)
    [] t.state = "rebased"  -> HandleRebase(t)
    [] t.state = "rollback" -> HandleRollback
    [] t.state = "cleanup"  -> HandleCleanup(t)
    [] t.state = "db_diff"  -> HandleDbDiff
    [] t.state = "preview"  -> HandleUpgradePreview
    [] OTHER                -> Fail

-----------------------------------------------------------------------------
(* ostree.rs: one command each, and nothing is asked before it.  A missing   *)
(* argument is an Err where the command needs one.                           *)
RunCmd    == Run("show") \o Ok
RunChange == Run("other") \o Changed

CmdInit            == RunChange
CmdFsck            == RunCmd
CmdSummary(t)      == Run(IF Has(t, "view") THEN "show" ELSE "other") \o Changed
CmdPrune           == RunChange
CmdConfig(t)       == Argument(t, IF Has(t, "value") THEN RunChange ELSE RunCmd)
CmdRefs(t)         == IF Has(t, "absent") THEN Argument(t, RunChange) ELSE RunCmd
CmdLog(t)          == Argument(t, RunCmd)
CmdShow(t)         == Argument(t, RunCmd)
CmdRevParse(t)     == Argument(t, RunCmd)
CmdDiff(t)         == Argument(t, RunCmd)
CmdLs(t)           == Argument(t, RunCmd)
CmdCat(t)          == Argument(t, RunCmd)
CmdCommit(t)       == Argument(t, RunChange)
CmdReset(t)        == Argument(t, RunChange)
CmdPull(t)         == Argument(t, Run("other") \o Did)
CmdPullLocal(t)    == Argument(t, RunChange)
CmdCheckout(t)     == Argument(t, RunChange)
CmdRemoteAdd(t)    == Argument(t, RunChange)
CmdRemoteDelete(t) == Argument(t, RunChange)
CmdRemoteList      == RunCmd
CmdRemoteShowUrl(t)   == Argument(t, RunCmd)
CmdRemoteGpgImport(t) == Argument(t, RunChange)
CmdAdminStatus     == RunCmd
CmdAdminUpgrade(t) ==
  Run(IF Has(t, "check") THEN "check" ELSE "other") \o OkIfUndone \o DoReboot(t) \o Changed
CmdAdminDeploy(t)  == Argument(t, Run("other") \o DoReboot(t) \o Changed)
CmdAdminUndeploy(t) == Argument(t, RunChange)
CmdAdminCleanup    == RunChange
CmdAdminConfigDiff == RunCmd
CmdAdminSwitch(t)  == Argument(t, RunChange)
CmdAdminUnlock     == RunChange

OstreeDispatch(t) ==
  CASE t.state = "init" -> CmdInit                [] t.state = "fsck" -> CmdFsck
    [] t.state = "summary" -> CmdSummary(t)          [] t.state = "prune" -> CmdPrune
    [] t.state = "config" -> CmdConfig(t)         [] t.state = "refs" -> CmdRefs(t)
    [] t.state = "log" -> CmdLog(t)               [] t.state = "show" -> CmdShow(t)
    [] t.state = "rev_parse" -> CmdRevParse(t)    [] t.state = "diff" -> CmdDiff(t)
    [] t.state = "ls" -> CmdLs(t)                 [] t.state = "cat" -> CmdCat(t)
    [] t.state = "commit" -> CmdCommit(t)         [] t.state = "reset" -> CmdReset(t)
    [] t.state = "pull" -> CmdPull(t)             [] t.state = "pull_local" -> CmdPullLocal(t)
    [] t.state = "checkout" -> CmdCheckout(t)
    [] t.state = "remote_add" -> CmdRemoteAdd(t)
    [] t.state = "remote_delete" -> CmdRemoteDelete(t)
    [] t.state = "remote_list" -> CmdRemoteList
    [] t.state = "remote_show_url" -> CmdRemoteShowUrl(t)
    [] t.state = "remote_gpg_import" -> CmdRemoteGpgImport(t)
    [] t.state = "admin_status" -> CmdAdminStatus
    [] t.state = "admin_upgrade" -> CmdAdminUpgrade(t)
    [] t.state = "admin_deploy" -> CmdAdminDeploy(t)
    [] t.state = "admin_undeploy" -> CmdAdminUndeploy(t)
    [] t.state = "admin_cleanup" -> CmdAdminCleanup
    [] t.state = "admin_config_diff" -> CmdAdminConfigDiff
    [] t.state = "admin_switch" -> CmdAdminSwitch(t)
    [] t.state = "admin_unlock" -> CmdAdminUnlock
    [] OTHER -> Fail

Ostree(t) == Argument(t, OstreeDispatch(t))

-----------------------------------------------------------------------------
(* dnf_history.rs.  undo, redo and rollback are tried with dnf and, whatever *)
(* dnf's failure left behind, tried again through python; the queries go     *)
(* from dnf to python to the database file.                                  *)
RunMutating(s)       == Attempt("transaction", s)
RunMutatingPython(s) == Attempt("transaction", s)
HandleMutating(t) ==
  Argument(t, Take(t.names) \o RunMutating(RunMutatingPython(Fail)) \o Changed)

TryCli(s)    == Attempt("show", s)
TryPython(s) == Attempt("show", s)
SqliteList          == Must("show") \o Ok
SqliteInfo(t)       == Argument(t, Must("show") \o May("failed") \o Must("show") \o Ok)
SqliteUserinstalled == Must("show") \o Ok
TrySqlite(t) ==
  May("failed") \o Must("show") \o
  CASE t.state = "list" -> SqliteList
    [] t.state = "info" -> SqliteInfo(t)
    [] t.state = "userinstalled" -> SqliteUserinstalled
    [] OTHER -> Fail

DnfHistory(t) ==
  CASE t.state \in {"undo", "redo", "rollback"} -> HandleMutating(t)
    [] Has(t, "force_sqlite") -> TrySqlite(t)
    [] Has(t, "force_python") -> TryPython(TrySqlite(t)) \o Ok
    [] OTHER                  -> TryCli(TryPython(TrySqlite(t))) \o Ok
=============================================================================
