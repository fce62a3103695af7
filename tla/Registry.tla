------------------------------ MODULE Registry ------------------------------
(* registry.rs: the modules by name, what a task asks of them, and what      *)
(* their results promise.                                                    *)
EXTENDS LinuxPackages, UnixPackages, LanguagePackages, OtherPackages, Deployments, Files

FileModules == {"copy", "template", "file", "git", "command", "shell", "appimage", "preview"}
(* The modules whose commands prepare the next boot. *)
Staged == {"rpm_ostree"}

(* ModuleRegistry::with_defaults, and its `invoke`.                          *)
Invoke(t) ==
  CASE t.module = "apt" -> Apt(t)             [] t.module = "yum" -> Yum(t)
    [] t.module = "zypper" -> Zypper(t)       [] t.module = "apk" -> Apk(t)
    [] t.module = "pacman" -> Pacman(t)       [] t.module = "portage" -> Portage(t)
    [] t.module = "snap" -> Snap(t)           [] t.module = "flatpak" -> Flatpak(t)
    [] t.module = "slackpkg" -> Slackpkg(t)   [] t.module = "homebrew" -> Homebrew(t)
    [] t.module = "macports" -> MacPorts(t)   [] t.module = "pkg_add" -> PkgAdd(t)
    [] t.module = "pkgng" -> Pkgng(t)         [] t.module = "pkgsrc" -> Pkgsrc(t)
    [] t.module = "pkg5" -> Pkg5(t)           [] t.module = "svr4pkg" -> Svr4Pkg(t)
    [] t.module = "nix" -> Nix(t)             [] t.module = "chocolatey" -> Chocolatey(t)
    [] t.module = "pip" -> Pip(t)             [] t.module = "pip_tools" -> PipTools(t)
    [] t.module = "pipenv" -> Pipenv(t)       [] t.module = "poetry" -> Poetry(t)
    [] t.module = "conda" -> Conda(t)         [] t.module = "uv" -> Uv(t)
    [] t.module = "pixi" -> Pixi(t)           [] t.module = "zopen" -> Zopen(t)
    [] t.module = "zos" -> Zos(t)             [] t.module = "appimage" -> Appimage(t)
    [] t.module = "rpm_ostree" -> RpmOstree(t) [] t.module = "ostree" -> Ostree(t)
    [] t.module = "dnf_history" -> DnfHistory(t)
    [] t.module = "copy" -> Copy(t)           [] t.module = "template" -> Template(t)
    [] t.module = "file" -> File(t)           [] t.module = "lineinfile" -> LineInFile(t)
    [] t.module = "git" -> Git(t)             [] t.module = "shell" -> Shell(t)
    [] t.module = "command" -> CommandModule(t)
    [] t.module = "stat" -> Stat(t)           [] t.module = "find" -> Find(t)
    [] t.module = "setup" -> Setup            [] t.module = "debug" -> Debug
    [] t.module = "fail" -> FailModule        [] t.module = "set_fact" -> SetFact(t)
    [] t.module = "python" -> Python(t)       [] t.module = "preview" -> Preview(t, Copy(t))
    [] OTHER -> Fail  \* "module not found"

-----------------------------------------------------------------------------
(* What `state` means: the versions an item of the task may have after an ok *)
(* or a changed.  A module that asks nothing more of `latest` than presence, *)
(* or leaves an absent package alone, promises that much and no more; one    *)
(* that reads a package or a dangling link as absent promises nothing of its *)
(* removal, and a lineinfile with `backrefs` may find no line to replace.    *)
Gone == {"none"}
There == {"old", "new"}
LatestIsPresence == {"apk", "pacman", "flatpak", "svr4pkg", "pkgsrc"}
LatestOfPresent  == {"apt", "yum"}

(* The words of a module for taking an item away.                            *)
Removal(t) ==
  \/ t.state = "absent"
  \/ t.state = "purged" /\ t.module = "apt"
  \/ t.state = "removed" /\ t.module \in {"yum", "pacman"}
  \/ t.state = "uninstall" /\ t.module = "macports"

PackagePromise(t) ==
  IF Unread(t) /\ t.state # "present" THEN Versions
  ELSE CASE Removal(t) -> Gone
         [] t.state = "present" -> There
         [] t.state = "latest"  ->
              IF t.module \in LatestIsPresence THEN There
              ELSE IF t.module \in LatestOfPresent THEN {"none", "new"} ELSE {"new"}
         [] OTHER -> Versions

(* The mode is set by what writes the content, and by file where it exists.  *)
ModeIsSet(t, verdict) ==
  \/ t.module = "file" /\ t.state \in {"directory", "touch", "file"}
  \/ /\ t.module \in {"copy", "template", "appimage"} /\ t.state = "present"
     /\ verdict = "changed" /\ ~Has(t, "inline")

ContentPromise(t) ==
  CASE t.module \in {"copy", "template"} ->
         IF Has(t, "empty") THEN {"none", "new"} ELSE {"new"}
    [] \/ t.state = "absent" /\ t.module \in {"file", "appimage"}
       \/ t.state = "removes" /\ t.module \in {"shell", "command"} ->
         IF Has(t, "dangling") THEN Versions ELSE Gone
    [] \/ t.state = "link" /\ t.module = "file"
       \/ t.state = "latest" /\ t.module = "appimage" -> {"new"}
    [] OTHER -> There

FilePromise(t, verdict, i) ==
  IF i # "mode" THEN ContentPromise(t)
  ELSE IF ModeIsSet(t, verdict) THEN {"new"} ELSE Versions

(* Plans that promise nothing of the items they are given. *)
Unbound(t) ==
  \/ t.module \in {"preview", "python", "zos", "ostree", "pip_tools", "dnf_history", "stat", "find",
                   "setup", "debug", "set_fact"}
  \/ t.module \in {"shell", "command"} /\ t.state \notin {"creates", "removes"}
  \/ t.flags \cap {"flake", "dry_run", "src", "check"} # {}

Promise(t, verdict, i) ==
  IF Unbound(t) \/ i \notin t.names THEN Versions
  ELSE CASE t.module = "lineinfile"   -> IF t.state = "absent" THEN Gone
                                         ELSE IF Has(t, "backrefs") THEN {"none", "new"} ELSE {"new"}
         [] t.module \in FileModules -> FilePromise(t, verdict, i)
         [] OTHER                    -> PackagePromise(t)

(* apt runs autoremove after its result.                                     *)
Sweeps(t) == t.module = "apt" /\ Has(t, "autoremove")

(* The tasks whose ok may hide a change: the result was there before         *)
(* autoremove ran, `pkg_add -u` came before it, one item that was there      *)
(* speaks for all, the words looked for are printed elsewhere, a mode is set *)
(* that is not counted, HEAD stays where it was while the working tree       *)
(* changes, or a file is created that then needs no line.                    *)
MayHide(t) ==
  \/ Sweeps(t)
  \/ t.module = "pkg_add" /\ Has(t, "update_cache")
  \/ t.module \in {"chocolatey", "zopen"}
  \/ t.module = "macports" /\ t.state \in {"latest", "upgrade"}
  \/ t.module = "uv"
  \/ t.module = "file" /\ t.state \in {"directory", "touch"}
  \/ t.module = "git" /\ t.flags \intersect {"force", "recursive"} # {}
  \/ t.module = "lineinfile" /\ Has(t, "create")

(* The tasks that ask and may report a change there was none of; of apt      *)
(* `latest`, where a package with a longer name can be upgraded; and where   *)
(* what is there reads as missing.                                           *)
MayInvent(t) ==
  \/ Unread(t)
  \/ t.module = "apt" /\ t.state = "latest"
  \/ t.module = "pip" /\ Has(t, "requirements")
  \/ t.module = "yum" /\ Has(t, "autoremove")
  \/ t.module = "pacman" /\ Has(t, "upgrade")
  \/ t.module = "file" /\ t.state \notin {"absent", "directory", "touch", "link", "hard"}

(* The tasks that are about more than the items they name.                   *)
SystemStates == {"dist_upgrade", "world_update", "refresh_all", "upgrade_all", "reclaim",
                 "autoremove", "rollback", "cleanup"}
WholeSystem(t) ==
  \/ t.names = {} \/ t.state \in SystemStates
  \/ t.flags \cap {"autoremove", "upgrade", "update_cache"} # {}
  \/ t.module = "conda" /\ t.state = "latest"
  \/ t.module = "rpm_ostree" /\ t.state = "latest"
=============================================================================
