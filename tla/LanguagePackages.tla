------------------------- MODULE LanguagePackages --------------------------
(* The package modules of language ecosystems: pip, pip-tools, pipenv,       *)
(* poetry, conda, uv and pixi.  See LinuxPackages.                           *)
EXTENDS Steps

(* pip.rs.  The virtualenv is created when it is not there; a requirements   *)
(* file is installed in the same command as the names.                       *)
EnsureVirtualenv == Must("other")
PipInstall(upgrade, t) ==
  (IF upgrade THEN Take(t.names) ELSE Ask("missing", t.names)) \o
  (IF Has(t, "requirements")
   THEN Run(IF upgrade THEN "installLatest+other" ELSE "install+other")
   ELSE OkIfNone \o Run(IF upgrade THEN "installLatest" ELSE "install")) \o Did
PipUninstall(P) == Batch("installed", P, "remove")
PipShow         == Try("show") \o Ok

Pip(t) ==
  When(Has(t, "virtualenv"), EnsureVirtualenv) \o
  CASE t.state = "absent" -> Named(t, PipUninstall(t.names))
    [] t.state = "info"   -> Named(t, PipShow)
    [] t.names = {} /\ ~Has(t, "requirements") -> Fail
    [] OTHER              -> PipInstall(t.state = "latest", t)

-----------------------------------------------------------------------------
(* pip_tools.rs: requirements files and a virtualenv, no packages of its own.*)
PipCompile == Run("other") \o Did
PipSync    == Run("other") \o Did
PipTools(t) ==
  CASE t.state = "sync"            -> PipSync
    [] t.state = "upgrade_package" -> Named(t, PipCompile)
    [] OTHER                       -> PipCompile

-----------------------------------------------------------------------------
(* pipenv.rs *)
PipenvRunChange(c)    == Run(c) \o Changed
PipenvInstallPkgs(P)  == Whole(P, "install") \o Did
PipenvUninstall(P)    == Whole(P, "remove") \o Changed
PipenvUpdate(P)       == Take(P) \o PipenvRunChange("upgrade")
PipenvUpdateAll       == PipenvRunChange("sysupgrade")
PipenvInstallAll      == Run("other") \o Did
PipenvLock            == PipenvRunChange("other")
PipenvCheck           == Run("show") \o Ok
PipenvGraph           == Loose("show") \o Ok
PipenvClean           == PipenvRunChange("other")
PipenvRequirements(t) ==
  Run("show") \o (IF Has(t, "requirements_file") THEN Must("other") \o Changed ELSE Ok)
PipenvRun             == Run("other") \o Ok

Pipenv(t) ==
  CASE t.state = "install_all"  -> PipenvInstallAll
    [] t.state = "lock"         -> PipenvLock
    [] t.state = "check"        -> PipenvCheck
    [] t.state = "graph"        -> PipenvGraph
    [] t.state = "clean"        -> PipenvClean
    [] t.state = "requirements" -> PipenvRequirements(t)
    [] t.state = "run"          -> IF Has(t, "command") THEN PipenvRun ELSE Err
    [] t.state = "absent"       -> Named(t, PipenvUninstall(t.names))
    [] t.state = "latest"       -> IF t.names = {} THEN PipenvUpdateAll ELSE PipenvUpdate(t.names)
    [] OTHER                    -> Named(t, PipenvInstallPkgs(t.names))

-----------------------------------------------------------------------------
(* poetry.rs.  A dry run changes nothing and is reported as changed.         *)
PoetryRunChange(t, c) == Run(IF Has(t, "dry_run") THEN "show" ELSE c) \o Changed
PoetryAdd(t)       == Take(t.names) \o PoetryRunChange(t, "install")
PoetryRemove(t)    == Take(t.names) \o PoetryRunChange(t, "remove")
PoetryUpdate(t)    == Take(t.names) \o PoetryRunChange(t, "upgrade")
PoetryUpdateAll(t) == PoetryRunChange(t, "sysupgrade")
PoetryInstall(t)   == Run(IF Has(t, "dry_run") THEN "show" ELSE "other") \o Did
PoetryLock(t)      == PoetryRunChange(t, "other")
PoetryCheck        == Run("show") \o Ok
PoetryBuild(t)     == PoetryRunChange(t, "other")
PoetryPublish(t)   == PoetryRunChange(t, "other")
PoetryExport(t)    == PoetryRunChange(t, "other")
PoetryEnvInfo      == Loose("show") \o Ok
PoetryRun          == Run("other") \o Ok

Poetry(t) ==
  CASE t.state = "install"  -> PoetryInstall(t)
    [] t.state = "lock"     -> PoetryLock(t)
    [] t.state = "check"    -> PoetryCheck
    [] t.state = "build"    -> PoetryBuild(t)
    [] t.state = "publish"  -> PoetryPublish(t)
    [] t.state = "export"   -> PoetryExport(t)
    [] t.state = "env_info" -> PoetryEnvInfo
    [] t.state = "run"      -> IF Has(t, "command") THEN PoetryRun ELSE Err
    [] t.state = "absent"   -> Named(t, PoetryRemove(t))
    [] t.state = "latest"   -> IF t.names = {} THEN PoetryUpdateAll(t) ELSE PoetryUpdate(t)
    [] OTHER                -> Named(t, PoetryAdd(t))

-----------------------------------------------------------------------------
(* conda.rs.  `changed` is read off the JSON list actions.INSTALL and is     *)
(* also the answer when there is no such list.                               *)
CondaInstall(upgrade, P) ==
  Whole(P, IF upgrade THEN "sysupgrade+install" ELSE "install") \o May("changed") \o Did
CondaUninstall(P) == Whole(P, "remove") \o Changed
CondaCreateEnv    == Run("other") \o Changed
CondaRemoveEnv    == Run("other") \o Changed
CondaInfo         == Loose("show") \o Ok

Conda(t) ==
  CASE t.state = "create"     -> CondaCreateEnv
    [] t.state = "remove_env" -> CondaRemoveEnv
    [] t.state = "info"       -> CondaInfo
    [] t.state = "absent"     -> Named(t, CondaUninstall(t.names))
    [] OTHER                  -> Named(t, CondaInstall(t.state = "latest", t.names))

-----------------------------------------------------------------------------
(* uv.rs.  With `project` the names are added to the project, else they are  *)
(* installed with `uv pip`, whose standard output is searched for            *)
(* "Installed" and "Resolved": either may be there or not.                   *)
UvRunChange(c) == Run(c) \o Changed
UvAddOrPip(upgrade, t) ==
  LET install == IF upgrade THEN "installLatest" ELSE "install"
  IN  Take(t.names) \o
      CASE Has(t, "requirements") ->
             Run(IF upgrade THEN "installLatest+other" ELSE "install+other")
             \o May("changed") \o Ok
        [] Has(t, "project")      -> UvRunChange(install)
        [] OTHER                  -> Run(install) \o May("changed") \o Ok
UvRemove(P)      == Take(P) \o UvRunChange("remove")
UvSync           == UvRunChange("other")
UvLock           == UvRunChange("other")
UvRun            == Run("other") \o Ok
UvVenv           == UvRunChange("other")
UvPythonInstall  == UvRunChange("other")
UvPythonList     == Loose("show") \o Ok
UvToolInstall    == UvRunChange("other")
UvToolUninstall  == UvRunChange("other")
UvPipShow        == Loose("show") \o Ok

Uv(t) ==
  CASE t.state = "sync"           -> UvSync
    [] t.state = "lock"           -> UvLock
    [] t.state = "run"            -> IF Has(t, "command") THEN UvRun ELSE Err
    [] t.state = "venv"           -> UvVenv
    [] t.state = "python_install" -> IF Has(t, "python") THEN UvPythonInstall ELSE Err
    [] t.state = "python_list"    -> UvPythonList
    [] t.state = "tool_install"   -> IF Has(t, "tool") THEN UvToolInstall ELSE Err
    [] t.state = "tool_uninstall" -> IF Has(t, "tool") THEN UvToolUninstall ELSE Err
    [] t.state = "absent"         -> Named(t, UvRemove(t.names))
    [] t.state = "info"           -> Named(t, UvPipShow)
    [] t.names = {} /\ ~Has(t, "requirements") -> Fail
    [] OTHER                      -> UvAddOrPip(t.state = "latest", t)

-----------------------------------------------------------------------------
(* pixi.rs *)
PixiInit      == Run("other") \o Changed
PixiInstall   == Run("other") \o Did
PixiAdd(P)    == Whole(P, "install") \o Changed
PixiRemove(P) == Whole(P, "remove") \o Changed
PixiUpdate(P) == Whole(P, "upgrade") \o Changed
PixiUpdateAll == Run("sysupgrade") \o Changed
PixiRun       == Run("other") \o Ok
PixiClean     == Run("other") \o Changed
PixiInfo      == Loose("show") \o Ok

Pixi(t) ==
  CASE t.state = "init"    -> PixiInit
    [] t.state = "install" -> PixiInstall
    [] t.state = "clean"   -> PixiClean
    [] t.state = "info"    -> PixiInfo
    [] t.state = "run"     -> IF Has(t, "command") THEN PixiRun ELSE Err
    [] t.state = "absent"  -> Named(t, PixiRemove(t.names))
    [] t.state = "latest"  -> IF t.names = {} THEN PixiUpdateAll ELSE PixiUpdate(t.names)
    [] OTHER               -> Named(t, PixiAdd(t.names))
=============================================================================
