------------------------------- MODULE Files -------------------------------
(* The modules that manage one file or one command: copy, template, file,    *)
(* lineinfile, git, command, shell, stat, find, setup, debug, fail,          *)
(* set_fact, the Python wrappers and preview mode.  The items are the parts  *)
(* of a file, its content and its mode; "new" is what the task asks for.     *)
(* For lineinfile the items are the lines of the file.                       *)
EXTENDS Steps

Content == {"content"}
Requires(t, s)  == IF Has(t, "argument missing") THEN Err ELSE s
CreateDirAll    == Must("mkdir")
ModeOf(t)       == t.names \ Content

(* u32::from_str_radix and set_permissions, when there is a mode.            *)
ApplyMode(t) == Take(ModeOf(t)) \o When(Has(t, "bad mode"), Err) \o MustSome("write")

(* copy.rs.  A file that is not there reads as the empty one.  The mode is   *)
(* neither compared nor, with `content`, applied.                            *)
CopyFile(t) ==
  Ask(IF Has(t, "empty") THEN "differs, there" ELSE "differs", Content) \o OkIfNone
  \o Must("write") \o When(~Has(t, "inline"), ApplyMode(t)) \o Changed

Copy(t) ==
  Requires(t, CreateDirAll \o
    (IF Has(t, "no source") THEN Fail ELSE CopyFile(t)))

(* template.rs.  Only force=false compares; the default writes every time.   *)
Template(t) ==
  Requires(t, Must("show") \o
    When(Has(t, "no force"), Ask("differs", Content) \o OkIfNone) \o
    When(Has(t, "backup"), Must("backup")) \o
    CreateDirAll \o Take(Content) \o Must("write") \o ApplyMode(t) \o Changed)

-----------------------------------------------------------------------------
(* file.rs.  A directory or a touched file that was there is ok, also when   *)
(* its mode has just been changed.  Path::exists() and is_dir() follow links:*)
(* where the path is a dangling one they find nothing, while commands that   *)
(* do not follow it find it in their way.                                    *)
RemovePath(t) == IF Has(t, "dangling") THEN Ok ELSE
  Ask("installed", Content) \o OkIfNone \o Must("remove") \o Changed
EnsureDirectory(t) == IF Has(t, "dangling") THEN Err ELSE
  Ask("missing", Content) \o IfNeeded(Must("install") \o ApplyMode(t) \o Changed)
  \o When(Has(t, "not a directory"), Err) \o ApplyMode(t) \o Ok
TouchFile(t) ==
  Ask("missing", Content) \o IfNeeded(CreateDirAll \o Must("install") \o ApplyMode(t) \o Changed)
  \o Must("show") \o ApplyMode(t) \o Ok
CreateSymlink ==
  Ask("installed", Content) \o IfNeeded(Ask("differs", Content) \o OkIfNone \o Must("remove"))
  \o Take(Content) \o Must("link") \o Changed
CreateHardlink(t) == IF Has(t, "dangling") THEN Err ELSE
  Ask("missing", Content) \o OkIfNone \o Must("link") \o Changed
EnsureFile(t) == IF Has(t, "dangling") THEN Fail ELSE
  Ask("missing", Content) \o FailIfSome \o
  IF ModeOf(t) = {} THEN Ok ELSE ApplyMode(t) \o Changed

File(t) ==
  Requires(t,
    CASE t.state = "absent"    -> RemovePath(t)
      [] t.state = "directory" -> EnsureDirectory(t)
      [] t.state = "touch"     -> TouchFile(t)
      [] t.state = "link"      -> CreateSymlink
      [] t.state = "hard"      -> CreateHardlink(t)
      [] OTHER                 -> EnsureFile(t))

-----------------------------------------------------------------------------
(* lineinfile.rs: the file is read, edited in memory and written back whole. *)
(* An old line is one the regexp matches; with `backrefs` nothing is         *)
(* inserted where it matches none.                                           *)
RemoveLines(t)     == Pick("installed", t.names)
InsertOrReplace(t) ==
  IF Has(t, "no line") THEN Err
  ELSE Pick(IF Has(t, "backrefs") THEN "differs, there" ELSE "differs", t.names)

LineInFile(t) ==
  Requires(t,
    (IF Has(t, "create") THEN CreateDirAll \o Must("create file") ELSE May("failed")) \o List("err") \o
    (IF t.state = "absent" THEN RemoveLines(t) ELSE InsertOrReplace(t)) \o OkIfNone \o
    When(Has(t, "backup"), Must("backup")) \o
    Must(IF t.state = "absent" THEN "rewrite without" ELSE "rewrite") \o Changed)

-----------------------------------------------------------------------------
(* git.rs.  The content is the commit HEAD names, the only thing compared.   *)
(* What the checkout after a clone comes to is not looked at, nor what the   *)
(* forced checkout and the submodules do.                                    *)
GitRun(c)   == Must(c)
GitCheckout == Must("installLatest")
Git(t) ==
  Requires(t, Ask("installed", Content) \o
    IfNeeded(IF Has(t, "no update") THEN Ok
             ELSE When(Has(t, "force"), Try("checkout force")) \o GitRun("fetch") \o GitCheckout \o
                  When(Has(t, "recursive"), Try("submodules")) \o Did) \o
    Take(Content) \o GitRun("clone") \o
    When(~Has(t, "single branch"), Try("installLatest")) \o Changed)

-----------------------------------------------------------------------------
(* command.rs and shell.rs: the item is the path of `creates` or `removes`,  *)
(* which the command is taken to create or remove.                           *)
Shell(t) ==
  Requires(t,
    CASE t.state = "creates" -> Ask("missing", Content) \o OkIfNone \o Run("install") \o Changed
      [] t.state = "removes" ->
           IF Has(t, "dangling") THEN Ok
           ELSE Ask("installed", Content) \o OkIfNone \o Run("remove") \o Changed
      [] OTHER               -> Run("other") \o Changed)
CommandModule(t) == IF Has(t, "empty command") THEN Fail ELSE Shell(t)

(* stat.rs, find.rs, setup.rs, debug.rs, fail.rs, set_fact.rs                *)
Stat(t) == Requires(t, Must("show") \o Ok)

FindIn  == Try("show")
Find(t) == IF Has(t, "no paths") THEN Fail ELSE FindIn \o Ok

CollectOsRelease      == Try("show")
CollectUname          == Try("show") \o Try("show") \o Try("show")
CollectHostname       == Try("show") \o Try("show") \o Try("show")
CollectCpuInfo        == Try("show")
CollectMemInfo        == Try("show")
CollectInterfaces     == Try("show")
CollectMounts         == Try("show")
CollectDatetime       == Try("show") \o Try("show") \o Try("show")
CollectPythonVersion  == Try("show") \o Try("show")
CollectVirtualization == Try("show") \o Try("show") \o Try("show")
CollectAllFacts ==
  CollectOsRelease \o CollectUname \o CollectHostname \o CollectCpuInfo \o CollectMemInfo \o
  CollectInterfaces \o CollectMounts \o CollectDatetime \o CollectPythonVersion \o
  CollectVirtualization
Setup == CollectAllFacts \o Ok

Debug      == Ok
FailModule == Fail
SetFact(t) == IF Has(t, "no pairs") THEN Fail ELSE Ok

-----------------------------------------------------------------------------
(* python_wrapper.rs.  The last JSON object printed decides, whatever the    *)
(* exit status; without one the exit status does.  In the builds without     *)
(* native-python the other two modes fail.                                   *)
WriteArgsFile    == Must("mkdir")
ParseOutput      == May("failed") \o May("changed") \o Ok
InvokeSubprocess == WriteArgsFile \o Loose("other") \o ParseOutput
FindModule(t, s) == IF Has(t, "not found") THEN Fail ELSE s
Dispatch(t) == IF Has(t, "native") THEN Fail ELSE InvokeSubprocess

ConfigurablePython(t) == FindModule(t, Dispatch(t))
SubprocessPython(t)   == FindModule(t, InvokeSubprocess)
AnsiblePython(t)      == FindModule(t, InvokeSubprocess)
PythonModuleWrapper   == InvokeSubprocess

Python(t) ==
  CASE t.state = "configurable" -> ConfigurablePython(t)
    [] t.state = "subprocess"   -> SubprocessPython(t)
    [] t.state = "ansible"      -> AnsiblePython(t)
    [] OTHER                    -> PythonModuleWrapper

(* preview.rs.  The script that runs in the sandbox prints the arguments: it *)
(* is never the module, and it changes nothing.                              *)
BuildModuleScript   == Must("mkdir")
CollectOverlayfsDiff == OkIfUndone
SandboxInvoke       == CreateDirAll \o BuildModuleScript \o Run("show") \o CollectOverlayfsDiff \o Changed
Preview(t, inner)   == IF Has(t, "bwrap") THEN SandboxInvoke ELSE inner
=============================================================================
