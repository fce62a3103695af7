----------------------------- MODULE ManagedMC -----------------------------
(* The instance of Managed for TLC: every module, every state or operation   *)
(* it knows, and every argument its plan looks at.                           *)
EXTENDS Managed, TLC

(* module |-> its own states, and the         *)
(* arguments its plan looks at. *)
Arguments ==
  [apt      |-> <<{"build-dep"}, {"update_cache", "autoremove", "held"}>>,
   yum      |-> <<{}, {"update_cache", "autoremove"}>>,
   zypper   |-> <<{"dist_upgrade", "info"}, {"update_cache", "padded"}>>,
   apk      |-> <<{"info"}, {"update_cache", "upgrade"}>>,
   pacman   |-> <<{"info"}, {"update_cache", "upgrade"}>>,
   portage  |-> <<{"sync", "world_update", "info"}, {"update"}>>,
   snap     |-> <<{"refresh_all", "info"}, {}>>,
   flatpak  |-> <<{"remote_add", "info"}, {"remote_if_not_exists", "no remote_url"}>>,
   slackpkg |-> <<{"update_cache", "upgrade_all"}, {"pkgtool", "slapt-get", "src"}>>,
   homebrew |-> <<{"tap", "info", "linked"}, {"update_homebrew", "upgrade_all"}>>,
   macports |-> <<{"selfupdate", "reclaim", "info"}, {"update_cache", "upgrade_all"}>>,
   pkg_add  |-> <<{"info"}, {"update_cache"}>>,
   pkgng    |-> <<{"autoremove", "audit", "info"}, {"update_cache"}>>,
   pkgsrc   |-> <<{"upgrade_all", "clean", "info"}, {"update_cache", "pkg_add"}>>,
   pkg5     |-> <<{"verify", "fix", "revert", "freeze", "unfreeze", "purge_history", "info"},
                  {"update_cache"}>>,
   svr4pkg  |-> <<{"info", "check"}, {}>>,
   nix      |-> <<{"gc", "build", "flake_update", "develop", "search", "info"}, {"use_guix", "flake"}>>,
   chocolatey |-> <<{"upgrade_all", "list", "info"}, {}>>,
   pip      |-> <<{"info"}, {"virtualenv", "requirements"}>>,
   pip_tools |-> <<{"sync", "upgrade_package"}, {}>>,
   pipenv   |-> <<{"install_all", "lock", "check", "graph", "clean", "requirements", "run"},
                  {"requirements_file", "command"}>>,
   poetry   |-> <<{"install", "lock", "check", "build", "publish", "export", "env_info", "run"},
                  {"dry_run", "command"}>>,
   conda    |-> <<{"create", "remove_env", "info"}, {}>>,
   uv       |-> <<{"sync", "lock", "run", "venv", "python_install", "python_list", "tool_install",
                   "tool_uninstall", "info"},
                  {"requirements", "project", "command", "python", "tool"}>>,
   pixi     |-> <<{"init", "install", "clean", "info", "run"}, {"command"}>>,
   zopen    |-> <<{"init", "upgrade_all", "list", "info"}, {"update_sources"}>>,
   zos      |-> <<{"job_submit", "job_status", "job_cancel", "job_purge", "dataset_create",
                   "dataset_delete", "dataset_copy", "dataset_fetch", "dataset_write",
                   "member_list", "command", "uss_command", "sysvar"},
                  {"no credentials", "argument missing", "no content"}>>,
   appimage |-> <<{}, {"force", "no dest", "no source", "local source", "wrong checksum",
                       "wrong signature", "integrate", "dangling"}>>,
   rpm_ostree |-> <<{"status", "override replace", "override remove", "override reset", "deployed",
                     "rebased", "rollback", "cleanup", "db_diff", "preview", "override unknown",
                     "unknown"},
                    {"no binary", "not idempotent", "reboot", "check", "pending", "unknown mode",
                     "argument missing"}>>,
   ostree   |-> <<{"init", "fsck", "summary", "prune", "config", "refs", "log", "show", "rev_parse",
                   "diff", "ls", "cat", "commit", "reset", "pull", "pull_local", "checkout",
                   "remote_add", "remote_delete", "remote_list", "remote_show_url",
                   "remote_gpg_import", "admin_status", "admin_upgrade", "admin_deploy",
                   "admin_undeploy", "admin_cleanup", "admin_config_diff", "admin_switch",
                   "admin_unlock"},
                  {"argument missing", "value", "absent", "view", "check", "reboot"}>>,
   dnf_history |-> <<{"undo", "redo", "rollback", "list", "info", "userinstalled"},
                     {"argument missing", "force_sqlite", "force_python"}>>,
   copy     |-> <<{}, {"argument missing", "inline", "empty", "no source", "bad mode"}>>,
   template |-> <<{}, {"argument missing", "no force", "backup", "bad mode"}>>,
   file     |-> <<{"directory", "touch", "link", "hard", "file"},
                {"argument missing", "bad mode", "dangling", "not a directory"}>>,
   lineinfile |-> <<{}, {"argument missing", "no line", "create", "backup", "backrefs"}>>,
   git      |-> <<{}, {"argument missing", "no update", "force", "recursive", "single branch"}>>,
   shell    |-> <<{"creates", "removes"}, {"argument missing", "dangling"}>>,
   command  |-> <<{"creates", "removes"}, {"argument missing", "empty command", "dangling"}>>,
   stat     |-> <<{}, {"argument missing"}>>,
   find     |-> <<{}, {"no paths"}>>,
   setup    |-> <<{}, {}>>,
   debug    |-> <<{}, {}>>,
   fail     |-> <<{}, {}>>,
   set_fact |-> <<{}, {"no pairs"}>>,
   python   |-> <<{"configurable", "subprocess", "ansible"}, {"not found", "native"}>>,
   preview  |-> <<{}, {"bwrap"}>>,
   unknown  |-> <<{}, {}>>]

MCModules == DOMAIN Arguments

(* The tasks two calls may be about: the common states, without arguments.   *)
Common(m) ==
  CASE m = "file" -> {"absent", "directory", "touch", "link", "hard", "file"}
    [] m \in {"copy", "template", "git", "preview"} -> {"present"}
    [] m \in {"shell", "command"} -> {"creates", "removes"}
    [] m \in {"lineinfile", "rpm_ostree"} -> {"present", "absent"}
    [] m = "dnf_history" -> {"undo", "redo"}
    [] m \in {"zos", "ostree", "python", "unknown", "pip_tools", "stat", "find", "setup", "debug",
              "fail", "set_fact"} -> {}
    [] OTHER -> {"present", "absent", "latest"}

NameSets(m) ==
  CASE m = "lineinfile"    -> {{p} : p \in Pkgs}
    [] m \in {"git", "shell", "command"} -> {{"content"}}
    [] m \in FileModules   -> {{"content"}, FileItems}
    [] OTHER               -> {{}, Pkgs}

(* Most modules know present, absent and latest; file and lineinfile have no *)
(* `latest`, and some have no such state at all.                             *)
Stateless == {"zos", "ostree", "dnf_history", "pip_tools", "python", "preview", "copy", "template", "git",
              "shell", "command", "stat", "find", "setup", "debug", "fail", "set_fact", "unknown"}
States(m) ==
  Arguments[m][1] \union
  CASE m \in Stateless              -> {"present"}
    [] m = "file"                   -> {"absent"}
    [] m = "lineinfile"             -> {"present", "absent"}
    [] OTHER                        -> {"present", "absent", "latest"}

(* Every state with at most one argument.                                    *)
MCTasks(m) ==
  [module : {m}, state : States(m),
   names : NameSets(m), flags : {{}} \union {{a} : a \in Arguments[m][2]}]

(* Tasks that are not common take both calls of a behaviour.                 *)
MCCost(t) == IF t.state \in Common(t.module) /\ t.names # {} /\ t.flags = {} THEN 1 ELSE 2

MCSymmetry == Permutations(Pkgs) \union Permutations(Threads)
=============================================================================
