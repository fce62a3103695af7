--------------------------- MODULE LinuxPackages ---------------------------
(* The package modules of Linux distributions, one operator per Rust         *)
(* function, one plan per module.  t.names is `collect_packages(args)`;      *)
(* arguments that only add words to a command line are left out.             *)
EXTENDS Steps

(* apt.rs.  A cache younger than cache_valid_time is a call without          *)
(* update_cache.  Packages on hold read as not installed ("hold ok           *)
(* installed") and `upgrade` leaves them out; the question for upgrades      *)
(* looks for "Inst <name>", which longer names contain.                      *)
AptGetUpdate == Must("other")

(* Mutant: the return for an empty list is dropped: apt-get always runs. *)
AptInstallAnyway(t, q) ==
  Ask(q, t.names) \o Run(IF Unread(t) THEN "reinstall" ELSE "installLatest") \o Changed

AptInstall(t, q) == Batch(q, t.names, IF Unread(t) THEN "reinstall" ELSE "installLatest")

(* Mutant: the exit status of apt-get remove is not looked at. *)
AptRemoveUnchecked(t) ==
  Ask(IsInstalled(t), t.names) \o OkIfNone \o Loose("remove") \o Changed

AptRemove(t)     == Batch(IsInstalled(t), t.names, "remove")
AptBuildDep      == Run("other") \o Changed
RunAutoremove    == Run("autoremove") \o Changed

Apt(t) ==
  When(Has(t, "update_cache"), AptGetUpdate) \o
  CASE t.names = {} -> IF Has(t, "autoremove") THEN RunAutoremove ELSE Fail
    [] OTHER ->
         (CASE t.state \in {"absent", "purged"} -> AptRemove(t)
            [] t.state = "latest"    -> AptInstall(t, IF Unread(t) THEN "apt upgrade, held"
                                                      ELSE "apt upgrade")
            [] t.state = "build-dep" -> AptBuildDep
            [] OTHER                 -> AptInstall(t, IsMissing(t)))
         \o When(Has(t, "autoremove"), Return \o Loose("autoremove"))

-----------------------------------------------------------------------------
(* yum.rs.  Without names only `autoremove` goes on, also into yum_install,  *)
(* which then finds nothing to do.                                           *)
YumMakecache == Must("other")
YumInstall(t) ==
  IF t.state = "latest" THEN Batch("check-update", t.names, "upgrade")
                        ELSE Batch("missing", t.names, "install")
YumRemove(t) ==
  Ask("installed", t.names) \o
  (IF Has(t, "autoremove") THEN RunSome("remove") \o Run("autoremove")
                           ELSE OkIfNone \o Run("remove")) \o Changed

Yum(t) ==
  When(Has(t, "update_cache"), YumMakecache) \o
  CASE t.names = {} /\ ~Has(t, "autoremove")  -> Fail
    [] t.state \in {"absent", "removed"}      -> YumRemove(t)
    [] OTHER                                  -> YumInstall(t)

-----------------------------------------------------------------------------
(* zypper.rs.  The question looks for "Installed : Yes", which a zypper that *)
(* pads its columns does not print.                                          *)
ZypperRefresh == Must("other")
ZypperInstall(t, upgrade) ==
  IF upgrade THEN Whole(t.names, "installLatest") \o Changed
             ELSE Batch(IsMissing(t), t.names, IF Unread(t) THEN "reinstall" ELSE "install")
ZypperRemove(t)   == Batch(IsInstalled(t), t.names, "remove")
ZypperUpdate      == Run("sysupgrade") \o Did
ZypperDistUpgrade == Run("sysupgrade") \o Changed
ZypperInfo        == Try("show") \o Ok

Zypper(t) ==
  When(Has(t, "update_cache"), ZypperRefresh) \o
  CASE t.state = "absent" -> Named(t, ZypperRemove(t))
    [] t.state = "latest" -> IF t.names = {} THEN ZypperUpdate
                             ELSE ZypperInstall(t, TRUE)
    [] t.state = "dist_upgrade" -> ZypperDistUpgrade
    [] t.state = "info"   -> ZypperInfo
    [] OTHER              -> Named(t, ZypperInstall(t, FALSE))

-----------------------------------------------------------------------------
(* apk.rs.  `latest` only skips the question when `upgrade` is set, and      *)
(* `apk add` leaves what is installed as it is.                              *)
ApkUpdate  == Must("other")
ApkUpgrade == Run("sysupgrade") \o Did
ApkAdd(t)  == (IF Has(t, "upgrade") THEN Take(t.names) ELSE Ask("missing", t.names) \o OkIfNone)
              \o Run("install") \o Changed
ApkDel(P)  == Batch("installed", P, "remove")
ApkInfo    == Try("show") \o Ok

Apk(t) ==
  When(Has(t, "update_cache"), ApkUpdate) \o
  CASE t.names = {} /\ (Has(t, "upgrade") \/ t.state = "latest") -> ApkUpgrade
    [] t.state = "absent" -> Named(t, ApkDel(t.names))
    [] t.state = "info"   -> ApkInfo
    [] OTHER              -> Named(t, ApkAdd(t))

-----------------------------------------------------------------------------
(* pacman.rs.  With `upgrade` the missing packages are named in a -Syu.      *)
PacmanSyncDb     == Must("other")
PacmanSysupgrade == Run("sysupgrade") \o Did

(* Mutant: pacman -Syu whether or not `upgrade` is set. *)
PacmanInstallSyu(t) == Ask("missing", t.names) \o Run("sysupgrade+install") \o Changed

PacmanInstall(t) ==
  Ask("missing", t.names) \o
  (IF Has(t, "upgrade") THEN Run("sysupgrade+install") ELSE OkIfNone \o Run("install")) \o Changed
PacmanRemove(P) == Batch("installed", P, "remove")
PacmanInfo      == Try("show") \o Ok

Pacman(t) ==
  When(Has(t, "update_cache"), PacmanSyncDb) \o
  CASE t.names = {} /\ (Has(t, "upgrade") \/ t.state = "latest") -> PacmanSysupgrade
    [] t.state \in {"absent", "removed"} -> Named(t, PacmanRemove(t.names))
    [] t.state = "info"   -> PacmanInfo
    [] OTHER              -> Named(t, PacmanInstall(t))

-----------------------------------------------------------------------------
(* portage.rs.  emerge is never asked; --noreplace is on by default.         *)
BuildFlags(t) == IF t.state = "latest" \/ Has(t, "update") THEN "installLatest" ELSE "install"
EmergeInstall(t)   == Whole(t.names, BuildFlags(t)) \o Did
EmergeUnmerge(P)   == Whole(P, "remove") \o Changed
EmergeSync         == Run("other") \o Changed
EmergeWorldUpdate  == Run("sysupgrade") \o Did
EmergeInfo         == Try("show") \o Ok

Portage(t) ==
  CASE t.state = "sync"         -> EmergeSync
    [] t.state = "world_update" -> EmergeWorldUpdate
    [] t.state = "info"         -> Named(t, EmergeInfo)
    [] t.state = "absent"       -> Named(t, EmergeUnmerge(t.names))
    [] OTHER                    -> Named(t, EmergeInstall(t))

-----------------------------------------------------------------------------
(* snap.rs: one command for each snap. *)
SnapInstall(refresh, P) ==
  IF refresh THEN Take(P) \o RunEach("upgrade") \o Changed
             ELSE EachNeeded("missing", P, "install")

(* Mutant: the empty list is looked for when the loop has emptied it. *)
SnapRemoveLate(P) == Ask("installed", P) \o RunEach("remove") \o OkIfNone \o Changed

SnapRemove(P)  == EachNeeded("installed", P, "remove")
SnapRefreshAll == Run("sysupgrade") \o Did
SnapInfo       == Try("show") \o Ok

Snap(t) ==
  CASE t.state = "refresh_all" -> SnapRefreshAll
    [] t.state = "absent" -> Named(t, SnapRemove(t.names))
    [] t.state = "latest" -> IF t.names = {} THEN SnapRefreshAll ELSE SnapInstall(TRUE, t.names)
    [] t.state = "info"   -> Named(t, SnapInfo)
    [] OTHER              -> Named(t, SnapInstall(FALSE, t.names))

-----------------------------------------------------------------------------
(* flatpak.rs.  `latest` runs `flatpak install`, which leaves what is        *)
(* installed as it is.                                                       *)
FlatpakInstall(upgrade, P) ==
  IF upgrade THEN Whole(P, "install") \o Changed ELSE Batch("missing", P, "install")
FlatpakUninstall(P) == Batch("installed", P, "remove")
FlatpakUpdateAll    == Run("sysupgrade") \o Did
FlatpakInfo         == Try("show") \o Ok
FlatpakRemoteAdd(t) == When(Has(t, "remote_if_not_exists"), May("ok")) \o Run("other") \o Changed

Flatpak(t) ==
  CASE t.state = "remote_add" -> IF Has(t, "no remote_url") THEN Err ELSE FlatpakRemoteAdd(t)
    [] t.state = "absent" -> Named(t, FlatpakUninstall(t.names))
    [] t.state = "latest" -> IF t.names = {} THEN FlatpakUpdateAll ELSE FlatpakInstall(TRUE, t.names)
    [] t.state = "info"   -> Named(t, FlatpakInfo)
    [] OTHER              -> Named(t, FlatpakInstall(FALSE, t.names))

-----------------------------------------------------------------------------
(* slackpkg.rs: three tools, none of which is asked what it has; `tool` is   *)
(* an argument or what `which` finds.                                        *)
PkgtoolDispatch(t) ==
  LET Target(c) == IF Has(t, "src") THEN Run("other") ELSE Whole(t.names, c)
  IN  CASE t.state = "absent" -> Named(t, Whole(t.names, "remove") \o Changed)
        [] t.state = "latest" -> Named(t, Target("upgrade") \o Changed)
        [] t.names = {} /\ ~Has(t, "src") -> Fail
        [] OTHER              -> Target("installLatest") \o Changed

RunSlackpkg(t, c) == Whole(t.names, c) \o Changed
FrontEnd(t, latest) ==
  CASE t.state = "update_cache" -> RunSlackpkg(t, "other")
    [] t.state = "upgrade_all"  -> RunSlackpkg(t, "sysupgrade")
    [] t.state = "absent"       -> Named(t, RunSlackpkg(t, "remove"))
    [] t.state = "latest"       -> Named(t, RunSlackpkg(t, latest))
    [] OTHER                    -> Named(t, RunSlackpkg(t, "install"))
SlackpkgDispatch(t) == FrontEnd(t, "upgrade")
SlaptDispatch(t)    == FrontEnd(t, "installLatest")

Slackpkg(t) ==
  CASE Has(t, "pkgtool")  -> PkgtoolDispatch(t)
    [] Has(t, "slapt-get") -> SlaptDispatch(t)
    [] OTHER               -> SlackpkgDispatch(t)
=============================================================================
