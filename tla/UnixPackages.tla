--------------------------- MODULE UnixPackages ----------------------------
(* The package modules of the BSDs, Solaris and macOS, and the ones that     *)
(* bring their own store (nix, chocolatey, zopen).  See LinuxPackages.       *)
EXTENDS Steps

(* homebrew.rs.  `tap` comes before everything else. *)
BrewUpdate     == Must("other")
BrewUpgradeAll == Run("sysupgrade") \o Did
BrewInstall(upgrade, P) ==
  IF upgrade THEN Whole(P, "installLatest") \o Changed ELSE Batch("missing", P, "installLatest")
BrewUninstall(P) == Batch("installed", P, "remove")
BrewInfo       == Try("show") \o Ok
BrewLink(P)    == Take(P) \o TryEach("other") \o Succeeded
BrewTap        == May("ok") \o Run("other") \o Changed

Homebrew(t) ==
  IF t.state = "tap" THEN BrewTap ELSE
  When(Has(t, "update_homebrew"), BrewUpdate) \o
  CASE t.names = {} /\ (Has(t, "upgrade_all") \/ t.state = "latest") -> BrewUpgradeAll
    [] t.state = "absent" -> Named(t, BrewUninstall(t.names))
    [] t.state = "latest" -> BrewInstall(TRUE, t.names)
    [] t.state = "info"   -> BrewInfo
    [] t.state \in {"linked", "unlinked"} -> BrewLink(t.names)
    [] OTHER              -> Named(t, BrewInstall(FALSE, t.names))

-----------------------------------------------------------------------------
(* macports.rs.  "already the latest" anywhere in the output makes an        *)
(* upgrade ok.                                                               *)
PortSelfupdate      == Must("other")
PortInstall(P)      == Batch("missing", P, "installLatest")
PortUpgrade(P)      == Whole(P, "upgrade") \o DidAll
PortUpgradeOutdated == Run("sysupgrade") \o Did
PortUninstall(P)    == Batch("installed", P, "remove")
PortReclaim         == Run("autoremove") \o Changed
PortInfo            == Try("show") \o Ok

MacPorts(t) ==
  When(Has(t, "update_cache"), PortSelfupdate) \o
  CASE t.names = {} /\ (Has(t, "upgrade_all") \/ t.state \in {"latest", "upgrade"}) ->
         PortUpgradeOutdated
    [] t.state = "selfupdate" -> PortSelfupdate \o Changed
    [] t.state = "reclaim"    -> PortReclaim
    [] t.state \in {"absent", "uninstall"} -> Named(t, PortUninstall(t.names))
    [] t.state \in {"latest", "upgrade"}   -> PortUpgrade(t.names)
    [] t.state = "info"       -> Named(t, PortInfo)
    [] OTHER                  -> Named(t, PortInstall(t.names))

-----------------------------------------------------------------------------
(* pkg_add.rs (OpenBSD).  update_cache runs `pkg_add -u`, which upgrades     *)
(* every package; the result does not tell.                                  *)
PkgAddInstall(upgrade, P) ==
  IF upgrade THEN Whole(P, "upgrade") \o Changed ELSE Batch("missing", P, "install")
PkgAddUpdateAll == Run("sysupgrade") \o Changed
PkgAddDelete(P) == Batch("installed", P, "remove")
PkgAddInfo      == Try("show") \o Ok

PkgAdd(t) ==
  When(Has(t, "update_cache"), Run("sysupgrade")) \o
  CASE t.state = "absent" -> Named(t, PkgAddDelete(t.names))
    [] t.state = "latest" -> IF t.names = {} THEN PkgAddUpdateAll ELSE PkgAddInstall(TRUE, t.names)
    [] t.state = "info"   -> Named(t, PkgAddInfo)
    [] OTHER              -> Named(t, PkgAddInstall(FALSE, t.names))

-----------------------------------------------------------------------------
(* pkgng.rs (FreeBSD) *)
PkgngUpdate     == Must("other")
PkgngInstall(upgrade, P) ==
  IF upgrade THEN Whole(P, "upgrade") \o Changed ELSE Batch("missing", P, "install")
PkgngDelete(P)  == Batch("installed", P, "remove")
PkgngUpgradeAll == Run("sysupgrade") \o Did
PkgngAutoremove == Run("autoremove") \o Changed
PkgngAudit      == Loose("show") \o Ok
PkgngInfo       == Try("show") \o Ok

Pkgng(t) ==
  When(Has(t, "update_cache"), PkgngUpdate) \o
  CASE t.state = "autoremove" -> PkgngAutoremove
    [] t.state = "audit"      -> PkgngAudit
    [] t.state = "absent"     -> Named(t, PkgngDelete(t.names))
    [] t.state = "latest"     -> IF t.names = {} THEN PkgngUpgradeAll ELSE PkgngInstall(TRUE, t.names)
    [] t.state = "info"       -> Named(t, PkgngInfo)
    [] OTHER                  -> Named(t, PkgngInstall(FALSE, t.names))

-----------------------------------------------------------------------------
(* pkgsrc.rs (NetBSD): pkgin, or pkg_add/pkg_delete when there is no pkgin.  *)
PkgsrcLowlevelDispatch(t) ==
  Named(t, IF t.state = "absent" THEN Batch("installed", t.names, "remove")
                                 ELSE Batch("missing", t.names, "install"))
PkginRun(c, P) == Whole(P, c) \o Did
PkginInfo      == Try("show") \o Ok
PkginDispatch(t) ==
  When(Has(t, "update_cache"), Must("other")) \o
  CASE t.state = "absent"      -> Named(t, PkginRun("remove", t.names))
    [] t.state = "upgrade_all" -> PkginRun("sysupgrade", {})
    [] t.state = "clean"       -> PkginRun("other", {})
    [] t.state = "info"        -> Named(t, PkginInfo)
    [] t.state = "latest"      -> IF t.names = {} THEN PkginRun("sysupgrade", {})
                                  ELSE PkginRun("installLatest", t.names)
    [] OTHER                   -> Named(t, PkginRun("installLatest", t.names))

Pkgsrc(t) == IF Has(t, "pkg_add") THEN PkgsrcLowlevelDispatch(t) ELSE PkginDispatch(t)

-----------------------------------------------------------------------------
(* pkg5.rs (illumos, Solaris) *)
Pkg5Refresh == Must("other")
RunPkg(c)   == Run(c) \o Changed
Pkg5Install(upgrade, P) ==
  (IF upgrade THEN Take(P) ELSE Ask("missing", P) \o OkIfNone)
  \o RunPkg(IF upgrade THEN "upgrade" ELSE "install")
Pkg5Uninstall(P) == Ask("installed", P) \o OkIfNone \o RunPkg("remove")
Pkg5UpdateAll    == Run("sysupgrade") \o Did
Pkg5Verify       == Run("show") \o Ok
Pkg5Fix          == RunPkg("other")
Pkg5Revert       == RunPkg("other")
Pkg5Freeze       == RunPkg("other")
Pkg5Unfreeze     == RunPkg("other")
Pkg5PurgeHistory == RunPkg("other")
Pkg5Info         == Try("show") \o Ok

Pkg5(t) ==
  When(Has(t, "update_cache"), Pkg5Refresh) \o
  CASE t.state = "verify"        -> Pkg5Verify
    [] t.state = "fix"           -> Pkg5Fix
    [] t.state = "revert"        -> Named(t, Pkg5Revert)
    [] t.state = "freeze"        -> Named(t, Pkg5Freeze)
    [] t.state = "unfreeze"      -> Named(t, Pkg5Unfreeze)
    [] t.state = "purge_history" -> Pkg5PurgeHistory
    [] t.state = "info"          -> Named(t, Pkg5Info)
    [] t.state = "absent"        -> Named(t, Pkg5Uninstall(t.names))
    [] t.state = "latest"        -> IF t.names = {} THEN Pkg5UpdateAll ELSE Pkg5Install(TRUE, t.names)
    [] OTHER                     -> Named(t, Pkg5Install(FALSE, t.names))

-----------------------------------------------------------------------------
(* svr4pkg.rs (Solaris 10 and older): one command for each package;          *)
(* `latest` is `present`.                                                    *)
EnsureAdminFile == Must("other")
Svr4Install(P) ==
  Ask("missing", P) \o OkIfNone \o EnsureAdminFile \o RunEach("install") \o Changed
Svr4Remove(P) == EachNeeded("installed", P, "remove")
Svr4Info      == Try("show") \o Ok
Svr4Check     == Run("show") \o Ok

Svr4Pkg(t) ==
  Named(t, CASE t.state = "absent" -> Svr4Remove(t.names)
             [] t.state = "info"   -> Svr4Info
             [] t.state = "check"  -> Svr4Check
             [] OTHER              -> Svr4Install(t.names))

-----------------------------------------------------------------------------
(* nix.rs.  Neither nix nor guix is asked what it has; in flake mode the     *)
(* flake is installed and the names are not looked at.                       *)
NixEnvInstall(P)   == Whole(P, "installLatest") \o Changed
NixEnvUninstall(P) == Whole(P, "remove") \o Changed
NixEnvUpgradeAll   == Run("sysupgrade") \o Changed
NixProfileInstall   == Run("other") \o Changed
NixProfileRemove(P) == Whole(P, "remove") \o Changed
NixBuild       == Run("other") \o Changed
NixDevelop     == Run("other") \o Ok
NixFlakeUpdate == Run("other") \o Changed
NixGc          == Run("other") \o Changed
NixSearch      == Loose("show") \o Ok
NixInfo        == Try("show") \o Ok
GuixDispatch(t) ==
  CASE t.state = "gc"     -> Run("other") \o Changed
    [] t.state = "absent" -> Named(t, Whole(t.names, "remove") \o Changed)
    [] OTHER              -> Named(t, Whole(t.names, "installLatest") \o Changed)

Nix(t) ==
  CASE Has(t, "use_guix")          -> GuixDispatch(t)
    [] t.state = "gc"              -> NixGc
    [] t.state = "build"           -> NixBuild
    [] t.state = "flake_update"    -> NixFlakeUpdate
    [] t.state = "develop"         -> NixDevelop
    [] t.state = "search"          -> NixSearch
    [] t.state = "info"            -> Named(t, NixInfo)
    [] t.state = "latest" /\ t.names = {} -> NixEnvUpgradeAll
    [] t.state = "absent"          -> Named(t, IF Has(t, "flake") THEN NixProfileRemove(t.names)
                                                                  ELSE NixEnvUninstall(t.names))
    [] OTHER                       -> Named(t, IF Has(t, "flake") THEN NixProfileInstall
                                                                  ELSE NixEnvInstall(t.names))

-----------------------------------------------------------------------------
(* chocolatey.rs.  "already installed" anywhere in the output makes an       *)
(* install ok.                                                               *)
ChocoInstall(P)   == Whole(P, "install") \o DidAll
ChocoUpgrade(P)   == Whole(P, "installLatest") \o DidAll
ChocoUpgradeAll   == Run("sysupgrade") \o Changed
ChocoUninstall(P) == Whole(P, "remove") \o Changed
ChocoList         == Loose("show") \o Ok
ChocoInfo         == Try("show") \o Ok

Chocolatey(t) ==
  CASE t.state = "upgrade_all" -> ChocoUpgradeAll
    [] t.state = "list"   -> ChocoList
    [] t.state = "info"   -> Named(t, ChocoInfo)
    [] t.state = "absent" -> Named(t, ChocoUninstall(t.names))
    [] t.state = "latest" -> IF t.names = {} THEN ChocoUpgradeAll ELSE ChocoUpgrade(t.names)
    [] OTHER              -> Named(t, ChocoInstall(t.names))
=============================================================================
