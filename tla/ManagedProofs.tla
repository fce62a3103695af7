--------------------------- MODULE ManagedProofs ----------------------------
(* Proofs about Managed, for any machine, any number of calls at a time and  *)
(* every task of every module: a module that has not come to a result has a  *)
(* step left; no call moves what it was not given; none that has moved       *)
(* something reports ok; and one that says ok or changed leaves what it was  *)
(* given as promised.                                                        *)
EXTENDS Managed, WellFoundedInduction, TLAPS

-----------------------------------------------------------------------------
(* What the steps of a plan are.  Commands that act on more than the items   *)
(* they are pointed at, those that write back what has been read, those that *)
(* change what no item stands for, and the rest.                             *)
Systemwide == {"sysupgrade", "sysupgrade+install", "unstage", "rollback", "autoremove"}
Pointed ==
  {"show", "other", "check", "mkdir", "fetch", "backup", "reboot", "remove", "install",
   "installLatest", "reinstall", "upgrade", "install+other", "installLatest+other", "transaction",
   "write", "link", "clone"}
CommandsOf(t) ==
  Pointed \union (IF WholeSystem(t) THEN Systemwide ELSE {})
          \union (IF t.module = "lineinfile" THEN Rewrites ELSE {})
          \union (IF MayHide(t) THEN Unseen ELSE {})

Questions == {"missing", "installed", "kept", "apt upgrade", "check-update", "differs",
              "differs, there", "missing, unread", "installed, unread", "apt upgrade, held"}
Conditions == {"always", "maybe", "none needed", "some needed", "nothing done", "something met",
               "none succeeded"}
Leads == {"next", "failed", "err"}

(* The steps about items of P with commands of C; those that may have a plan *)
(* of steps of S inside; and those of a task: plans are two deep.            *)
Flat(P, C) ==
  [op : {"stop"}, verdict : {"ok", "changed", "failed", "err"}, if : Conditions]
  \union [op : {"take"}, of : SUBSET P]
  \union [op : {"ask", "pick"}, q : Questions, of : SUBSET P]
  \union [op : {"run", "some", "each"}, cmd : C, bad : Leads, lost : Leads]
  \union [op : {"list"}, cmd : {"show"}, bad : Leads, lost : Leads]
  \union [op : {"return"}]
Deep(S, P, C) ==
  Flat(P, C)
  \union [op : {"branch"}, then : Seq(S)]
  \union [op : {"run"}, cmd : C, bad : {"else"}, lost : {"else"}, else : Seq(S)]
Flats(t) == Flat(t.names, CommandsOf(t))
Inner(t) == Deep(Flats(t), t.names, CommandsOf(t))
StepsOf(t) == Deep(Inner(t), t.names, CommandsOf(t))

(* A plan comes to a result: somewhere in it is a stop that always holds.    *)
Final(s) == s.op = "stop" /\ s.if = "always"
Ends(p)  == \E i \in DOMAIN p : Final(p[i])
Parts(t) == Seq(StepsOf(t))
Plans(t) == {p \in Parts(t) : Ends(p)}

(* Plans of the inner levels are plans. *)
LEMMA Levels ==
  ASSUME NEW t
  PROVE  /\ Flats(t) \subseteq Inner(t) /\ Inner(t) \subseteq StepsOf(t)
         /\ Seq(Flats(t)) \subseteq Seq(Inner(t)) /\ Seq(Inner(t)) \subseteq Parts(t)
         /\ \A s \in Flats(t) : <<s>> \in Seq(Flats(t)) /\ <<s>> \in Parts(t)
<1>1. \A S, P, C : Flat(P, C) \subseteq Deep(S, P, C)
  BY Zenon DEF Deep
<1>2. ASSUME NEW S, NEW R, NEW P, NEW C, S \subseteq R
      PROVE  Seq(S) \subseteq Seq(R) /\ Deep(S, P, C) \subseteq Deep(R, P, C)
  <2>1. Seq(S) \subseteq Seq(R)
    BY <1>2
  <2>2. [op : {"branch"}, then : Seq(S)] \subseteq [op : {"branch"}, then : Seq(R)]
    BY <2>1
  <2>3. [op : {"run"}, cmd : C, bad : {"else"}, lost : {"else"}, else : Seq(S)]
        \subseteq [op : {"run"}, cmd : C, bad : {"else"}, lost : {"else"}, else : Seq(R)]
    BY <2>1
  <2> QED
    BY <2>1, <2>2, <2>3, Zenon DEF Deep
<1>3. Flats(t) \subseteq Inner(t)
  BY <1>1 DEF Flats, Inner
<1>4. Inner(t) \subseteq StepsOf(t)
  BY <1>2, <1>3 DEF Inner, StepsOf
<1>5. Seq(Flats(t)) \subseteq Seq(Inner(t)) /\ Seq(Inner(t)) \subseteq Parts(t)
  BY <1>2, <1>3, <1>4 DEF Parts
<1>6. \A s \in Flats(t) : <<s>> \in Seq(Flats(t))
  OBVIOUS
<1> QED
  BY <1>3, <1>4, <1>5, <1>6, Zenon

(* Plans are put together from parts. *)
LEMMA Joining ==
  ASSUME NEW t
  PROVE  /\ \A a, b \in Parts(t) : a \o b \in Parts(t)
         /\ \A a \in Parts(t), b \in Plans(t) : a \o b \in Plans(t) /\ b \in Parts(t)
         /\ \A a \in Plans(t), b \in Parts(t) : a \o b \in Plans(t)
         /\ \A a \in Parts(t) : \A cond : When(cond, a) \in Parts(t)
<1>1. \A a, b \in Parts(t) : a \o b \in Parts(t)
  BY DEF Parts
<1>2. ASSUME NEW a \in Parts(t), NEW b \in Plans(t) PROVE Ends(a \o b) /\ Ends(b \o a)
  <2>1. PICK j \in DOMAIN b : Final(b[j])
    BY DEF Plans, Ends
  <2>2. /\ Len(a) + j \in DOMAIN (a \o b) /\ (a \o b)[Len(a) + j] = b[j]
        /\ j \in DOMAIN (b \o a) /\ (b \o a)[j] = b[j]
    BY DEF Plans, Parts
  <2> QED
    BY <2>1, <2>2, Zenon DEF Ends
<1>3. <<>> \in Parts(t)
  BY DEF Parts
<1> QED
  BY <1>1, <1>2, <1>3 DEF Plans, When

(* The words of the plans are parts, and those that end one plans.           *)
LEMMA StopWords ==
  ASSUME NEW t
  PROVE  /\ \A v \in {"ok", "changed", "failed", "err"}, if \in Conditions :
              Stop(v, if) \in Parts(t) /\ Stop(v, if) \in Seq(Flats(t))
         /\ OkIfNone \in Parts(t) /\ FailIfSome \in Parts(t) /\ OkIfUndone \in Parts(t)
         /\ May("ok") \in Parts(t) /\ May("changed") \in Parts(t) /\ May("failed") \in Parts(t)
         /\ May("err") \in Parts(t)
         /\ Fail \in Plans(t) /\ Err \in Plans(t) /\ Ok \in Plans(t) /\ Changed \in Plans(t)
         /\ Did \in Plans(t) /\ DidAll \in Plans(t) /\ Succeeded \in Plans(t)
<1>1. ASSUME NEW v \in {"ok", "changed", "failed", "err"}, NEW if \in Conditions
      PROVE  /\ Stop(v, if) \in Parts(t) /\ Stop(v, if) \in Seq(Flats(t))
             /\ if = "always" => Stop(v, if) \in Plans(t)
  <2> DEFINE s == [op |-> "stop", verdict |-> v, if |-> if]
  <2>1. s \in Flats(t)
    BY DEF Flat, Flats
  <2>2. s \in StepsOf(t)
    BY <2>1, Levels, Zenon
  <2>3. Stop(v, if) = <<s>>
    BY DEF Stop
  <2>4. if = "always" => Final(s)
    BY DEF Final
  <2> HIDE DEF s
  <2>5. <<s>> \in Seq(StepsOf(t)) /\ <<s>> \in Seq(Flats(t)) /\ 1 \in DOMAIN <<s>> /\ <<s>>[1] = s
    BY <2>1, <2>2
  <2> QED
    BY <2>3, <2>4, <2>5 DEF Parts, Plans, Ends
<1>2. /\ "always" \in Conditions /\ "maybe" \in Conditions /\ "none needed" \in Conditions
      /\ "some needed" \in Conditions /\ "nothing done" \in Conditions
      /\ "something met" \in Conditions /\ "none succeeded" \in Conditions
  BY DEF Conditions
<1>3. /\ OkIfNone \in Parts(t) /\ FailIfSome \in Parts(t) /\ OkIfUndone \in Parts(t)
      /\ May("ok") \in Parts(t) /\ May("changed") \in Parts(t) /\ May("failed") \in Parts(t)
      /\ May("err") \in Parts(t)
  BY <1>1, <1>2 DEF OkIfNone, FailIfSome, OkIfUndone, May
<1>4. Fail \in Plans(t) /\ Err \in Plans(t) /\ Ok \in Plans(t) /\ Changed \in Plans(t)
  BY <1>1, <1>2 DEF Fail, Err, Ok, Changed
<1>5. Stop("ok", "something met") \in Parts(t) /\ Stop("ok", "none succeeded") \in Parts(t)
  BY <1>1, <1>2
<1>6. Did \in Plans(t) /\ DidAll \in Plans(t) /\ Succeeded \in Plans(t)
  BY <1>3, <1>4, <1>5, Joining DEF Did, DidAll, Succeeded
<1> QED
  BY <1>1, <1>3, <1>4, <1>6

LEMMA AskWords ==
  ASSUME NEW t
  PROVE  /\ \A P \in SUBSET t.names :
              /\ Take(P) \in Parts(t) /\ Take(P) \in Seq(Flats(t))
              /\ \A q \in Questions : /\ Ask(q, P) \in Parts(t) /\ Ask(q, P) \in Seq(Flats(t))
                                     /\ Pick(q, P) \in Parts(t)
         /\ Return \in Parts(t)
         /\ \A s \in Seq(Inner(t)) : IfNeeded(s) \in Parts(t)
<1>1. \A s \in StepsOf(t) : <<s>> \in Parts(t)
  BY DEF Parts
<1>2. ASSUME NEW P \in SUBSET t.names PROVE Take(P) \in Parts(t) /\ Take(P) \in Seq(Flats(t))
  <2>1. [op |-> "take", of |-> P] \in Flats(t)
    BY DEF Flat, Flats
  <2> QED
    BY <2>1, Levels, Zenon DEF Take
<1>3. ASSUME NEW P \in SUBSET t.names, NEW q \in Questions, NEW op \in {"ask", "pick"}
      PROVE  LET s == <<[op |-> op, q |-> q, of |-> P]>> IN s \in Parts(t) /\ s \in Seq(Flats(t))
  <2>1. [op |-> op, q |-> q, of |-> P] \in Flats(t)
    BY DEF Flat, Flats
  <2> QED
    BY <2>1, Levels, Zenon
<1>4. ASSUME NEW P \in SUBSET t.names, NEW q \in Questions
      PROVE  /\ Ask(q, P) \in Parts(t) /\ Ask(q, P) \in Seq(Flats(t)) /\ Pick(q, P) \in Parts(t)
  <2> DEFINE asked == IF P = {} THEN <<>> ELSE <<[op |-> "ask", q |-> q, of |-> P]>>
  <2>1. Pick(q, P) \in Parts(t)
    BY <1>3, Zenon DEF Pick
  <2>2. asked \in Parts(t) /\ asked \in Seq(Flats(t))
    <3>1. <<>> \in Parts(t) /\ <<>> \in Seq(Flats(t))
      BY DEF Parts
    <3> QED
      BY <1>3, <3>1, Zenon
  <2>3. Take({}) \in Parts(t) /\ Take({}) \in Seq(Flats(t))
    BY <1>2
  <2>4. Ask(q, P) = Take({}) \o asked
    BY Zenon DEF Ask
  <2> HIDE DEF asked
  <2> QED
    BY <2>1, <2>2, <2>3, <2>4 DEF Parts
<1>5. Return \in Parts(t)
  <2>1. [op |-> "return"] \in Flats(t)
    BY DEF Flat, Flats
  <2> QED
    BY <2>1, Levels, Zenon DEF Return
<1>6. ASSUME NEW s \in Seq(Inner(t)) PROVE IfNeeded(s) \in Parts(t)
  <2>1. [op |-> "branch", then |-> s] \in [op : {"branch"}, then : Seq(Inner(t))]
    OBVIOUS
  <2>2. [op |-> "branch", then |-> s] \in StepsOf(t)
    BY <2>1, Zenon DEF StepsOf, Deep
  <2> QED
    BY <1>1, <2>2, Zenon DEF IfNeeded
<1> QED
  BY <1>2, <1>4, <1>5, <1>6

LEMMA CommandWords ==
  ASSUME NEW t
  PROVE  /\ \A c \in CommandsOf(t) :
              /\ Run(c) \in Parts(t) /\ Must(c) \in Parts(t) /\ Loose(c) \in Parts(t)
              /\ Try(c) \in Parts(t) /\ RunSome(c) \in Parts(t) /\ MustSome(c) \in Parts(t)
              /\ RunEach(c) \in Parts(t) /\ TryEach(c) \in Parts(t)
              /\ \A s \in Seq(Inner(t)) : Attempt(c, s) \in Parts(t)
              /\ \A s \in Seq(Flats(t)) : Attempt(c, s) \in Seq(Inner(t))
              /\ Must(c) \in Seq(Flats(t)) /\ Try(c) \in Seq(Flats(t)) /\ MustSome(c) \in Seq(Flats(t))
         /\ \A bad \in Leads : List(bad) \in Parts(t)
<1>2. ASSUME NEW op \in {"run", "some", "each"}, NEW c \in CommandsOf(t), NEW bad \in Leads,
             NEW lost \in Leads
      PROVE  Command(op, c, bad, lost) \in Parts(t) /\ Command(op, c, bad, lost) \in Seq(Flats(t))
  <2>1. [op |-> op, cmd |-> c, bad |-> bad, lost |-> lost] \in Flats(t)
    BY DEF Flat, Flats
  <2> QED
    BY <2>1, Levels, Zenon DEF Command
<1>3. "next" \in Leads /\ "failed" \in Leads /\ "err" \in Leads
  BY DEF Leads
<1>4. ASSUME NEW c \in CommandsOf(t)
      PROVE  /\ Run(c) \in Parts(t) /\ Must(c) \in Parts(t) /\ Loose(c) \in Parts(t)
             /\ Try(c) \in Parts(t) /\ RunSome(c) \in Parts(t) /\ MustSome(c) \in Parts(t)
             /\ RunEach(c) \in Parts(t) /\ TryEach(c) \in Parts(t)
             /\ Must(c) \in Seq(Flats(t)) /\ Try(c) \in Seq(Flats(t)) /\ MustSome(c) \in Seq(Flats(t))
  BY <1>2, <1>3 DEF Run, Must, Loose, Try, RunSome, MustSome, RunEach, TryEach
<1>5. ASSUME NEW bad \in Leads PROVE List(bad) \in Parts(t)
  <2>1. [op |-> "list", cmd |-> "show", bad |-> bad, lost |-> "err"] \in Flats(t)
    BY <1>3 DEF Flat, Flats
  <2> QED
    BY <2>1, Levels, Zenon DEF List, Command
<1>6. ASSUME NEW S, NEW c \in CommandsOf(t), NEW s \in Seq(S)
      PROVE  Attempt(c, s) \in Seq(Deep(S, t.names, CommandsOf(t)))
  <2>1. [op |-> "run", cmd |-> c, bad |-> "else", lost |-> "else", else |-> s]
        \in [op : {"run"}, cmd : CommandsOf(t), bad : {"else"}, lost : {"else"}, else : Seq(S)]
    OBVIOUS
  <2>2. [op |-> "run", cmd |-> c, bad |-> "else", lost |-> "else", else |-> s]
        \in Deep(S, t.names, CommandsOf(t))
    BY <2>1, Zenon DEF Deep
  <2>3. \A R : \A x \in R : <<x>> \in Seq(R)
    OBVIOUS
  <2> QED
    BY <2>2, <2>3, Zenon DEF Attempt
<1>7. \A c \in CommandsOf(t) :
        /\ \A s \in Seq(Inner(t)) : Attempt(c, s) \in Parts(t)
        /\ \A s \in Seq(Flats(t)) : Attempt(c, s) \in Seq(Inner(t))
  BY <1>6, Zenon DEF Parts, StepsOf, Inner
<1> QED
  BY <1>4, <1>5, <1>7

(* What a task may use of them. *)
LEMMA TaskWords ==
  ASSUME NEW t
  PROVE  /\ Pointed \subseteq CommandsOf(t)
         /\ WholeSystem(t) => Systemwide \subseteq CommandsOf(t)
         /\ t.module = "lineinfile" => Rewrites \subseteq CommandsOf(t)
         /\ MayHide(t) => Unseen \subseteq CommandsOf(t)
         /\ \A flag \in {"autoremove", "upgrade", "update_cache"} : Has(t, flag) => WholeSystem(t)
         /\ \A a \in Plans(t) : Named(t, a) \in Plans(t)
         /\ \A P \in SUBSET t.names, c \in CommandsOf(t) :
              /\ Whole(P, c) \in Parts(t)
              /\ \A q \in Questions : Batch(q, P, c) \in Plans(t) /\ EachNeeded(q, P, c) \in Plans(t)
<1>1. /\ Pointed \subseteq CommandsOf(t)
      /\ WholeSystem(t) => Systemwide \subseteq CommandsOf(t)
      /\ t.module = "lineinfile" => Rewrites \subseteq CommandsOf(t)
      /\ MayHide(t) => Unseen \subseteq CommandsOf(t)
  BY Zenon DEF CommandsOf
<1>4. \A flag \in {"autoremove", "upgrade", "update_cache"} : Has(t, flag) => WholeSystem(t)
  BY Zenon DEF Has, WholeSystem
<1>2. ASSUME NEW a \in Plans(t) PROVE Named(t, a) \in Plans(t)
  BY <1>2, StopWords DEF Named
<1>3. ASSUME NEW P \in SUBSET t.names, NEW c \in CommandsOf(t)
      PROVE  /\ Whole(P, c) \in Parts(t)
             /\ \A q \in Questions : Batch(q, P, c) \in Plans(t) /\ EachNeeded(q, P, c) \in Plans(t)
  <2>1. Take(P) \in Parts(t) /\ Run(c) \in Parts(t) /\ RunEach(c) \in Parts(t)
    BY AskWords, CommandWords
  <2>2. Whole(P, c) \in Parts(t)
    BY <2>1, Joining DEF Whole
  <2>3. ASSUME NEW q \in Questions
        PROVE  Batch(q, P, c) \in Plans(t) /\ EachNeeded(q, P, c) \in Plans(t)
    <3>1. Ask(q, P) \in Parts(t) /\ OkIfNone \in Parts(t) /\ Changed \in Plans(t)
      BY AskWords, StopWords
    <3> QED
      BY <2>1, <3>1, Joining DEF Batch, EachNeeded
  <2> QED
    BY <2>2, <2>3
<1> QED
  BY <1>1, <1>2, <1>3, <1>4

-----------------------------------------------------------------------------
(* The plans of the modules are plans. *)
LEMMA LinuxPlans ==
  ASSUME NEW t
  PROVE  /\ t.module = "apt" => Apt(t) \in Plans(t)
         /\ t.module = "yum" => Yum(t) \in Plans(t)
         /\ Zypper(t) \in Plans(t) /\ Apk(t) \in Plans(t)
         /\ Pacman(t) \in Plans(t) /\ Portage(t) \in Plans(t) /\ Snap(t) \in Plans(t)
         /\ Flatpak(t) \in Plans(t) /\ Slackpkg(t) \in Plans(t)
<1> USE StopWords, AskWords, CommandWords, Joining, TaskWords
<1> USE DEF Pointed, Systemwide, Questions, WholeSystem, SystemStates
<1>1. t.names \in SUBSET t.names /\ {} \in SUBSET t.names
  OBVIOUS
<1>2. Apt(t) \in Plans(t)
  <2>1. When(Has(t, "autoremove"), Return \o Loose("autoremove")) \in Parts(t)
    BY DEF When, Parts
  <2>2. Has(t, "autoremove") => RunAutoremove \in Plans(t)
    BY DEF RunAutoremove
  <2> QED
    BY <1>1, <2>1, <2>2 DEF Apt, AptGetUpdate, AptInstall, AptRemove, AptBuildDep, IsInstalled, IsMissing
<1>3. Yum(t) \in Plans(t)
  BY <1>1 DEF Yum, YumMakecache, YumInstall, YumRemove
<1>4. Zypper(t) \in Plans(t)
  BY <1>1 DEF Zypper, ZypperRefresh, ZypperInstall, ZypperRemove, ZypperUpdate, ZypperDistUpgrade,
              ZypperInfo, IsInstalled, IsMissing
<1>5. Apk(t) \in Plans(t)
  BY <1>1 DEF Apk, ApkUpdate, ApkUpgrade, ApkAdd, ApkDel, ApkInfo
<1>6. Pacman(t) \in Plans(t)
  BY <1>1 DEF Pacman, PacmanSyncDb, PacmanSysupgrade, PacmanInstall, PacmanRemove, PacmanInfo
<1>7. Portage(t) \in Plans(t)
  BY <1>1 DEF Portage, BuildFlags, EmergeInstall, EmergeUnmerge, EmergeSync, EmergeWorldUpdate,
              EmergeInfo
<1>8. Snap(t) \in Plans(t)
  BY <1>1 DEF Snap, SnapInstall, SnapRemove, SnapRefreshAll, SnapInfo
<1>9. Flatpak(t) \in Plans(t)
  BY <1>1 DEF Flatpak, FlatpakInstall, FlatpakUninstall, FlatpakUpdateAll, FlatpakInfo,
              FlatpakRemoteAdd
<1>10. Slackpkg(t) \in Plans(t)
  BY <1>1 DEF Slackpkg, PkgtoolDispatch, RunSlackpkg, FrontEnd, SlackpkgDispatch, SlaptDispatch
<1> QED
  BY <1>2, <1>3, <1>4, <1>5, <1>6, <1>7, <1>8, <1>9, <1>10

LEMMA UnixPlans ==
  ASSUME NEW t
  PROVE  /\ Homebrew(t) \in Plans(t) /\ MacPorts(t) \in Plans(t) /\ PkgAdd(t) \in Plans(t)
         /\ Pkgng(t) \in Plans(t) /\ Pkgsrc(t) \in Plans(t) /\ Pkg5(t) \in Plans(t)
         /\ Svr4Pkg(t) \in Plans(t) /\ Nix(t) \in Plans(t) /\ Chocolatey(t) \in Plans(t)
<1> USE StopWords, AskWords, CommandWords, Joining, TaskWords
<1> USE DEF Pointed, Systemwide, Questions, WholeSystem, SystemStates
<1>1. t.names \in SUBSET t.names /\ {} \in SUBSET t.names
  OBVIOUS
<1>2. Homebrew(t) \in Plans(t)
  BY <1>1 DEF Homebrew, BrewUpdate, BrewUpgradeAll, BrewInstall, BrewUninstall, BrewInfo, BrewLink,
              BrewTap
<1>3. MacPorts(t) \in Plans(t)
  BY <1>1 DEF MacPorts, PortSelfupdate, PortInstall, PortUpgrade, PortUpgradeOutdated,
              PortUninstall, PortReclaim, PortInfo
<1>4. PkgAdd(t) \in Plans(t)
  <2>1. When(Has(t, "update_cache"), Run("sysupgrade")) \in Parts(t)
    BY DEF When, Parts
  <2> QED
    BY <1>1, <2>1 DEF PkgAdd, PkgAddInstall, PkgAddUpdateAll, PkgAddDelete, PkgAddInfo
<1>5. Pkgng(t) \in Plans(t)
  BY <1>1 DEF Pkgng, PkgngUpdate, PkgngInstall, PkgngDelete, PkgngUpgradeAll, PkgngAutoremove,
              PkgngAudit, PkgngInfo
<1>6. Pkgsrc(t) \in Plans(t)
  BY <1>1 DEF Pkgsrc, PkgsrcLowlevelDispatch, PkginRun, PkginInfo, PkginDispatch
<1>7. Pkg5(t) \in Plans(t)
  BY <1>1 DEF Pkg5, Pkg5Refresh, RunPkg, Pkg5Install, Pkg5Uninstall, Pkg5UpdateAll, Pkg5Verify,
              Pkg5Fix, Pkg5Revert, Pkg5Freeze, Pkg5Unfreeze, Pkg5PurgeHistory, Pkg5Info
<1>8. Svr4Pkg(t) \in Plans(t)
  BY <1>1 DEF Svr4Pkg, EnsureAdminFile, Svr4Install, Svr4Remove, Svr4Info, Svr4Check
<1>9. Nix(t) \in Plans(t)
  BY <1>1 DEF Nix, NixEnvInstall, NixEnvUninstall, NixEnvUpgradeAll, NixProfileInstall,
              NixProfileRemove, NixBuild, NixDevelop, NixFlakeUpdate, NixGc, NixSearch, NixInfo,
              GuixDispatch
<1>10. Chocolatey(t) \in Plans(t)
  BY <1>1 DEF Chocolatey, ChocoInstall, ChocoUpgrade, ChocoUpgradeAll, ChocoUninstall, ChocoList,
              ChocoInfo
<1> QED
  BY <1>2, <1>3, <1>4, <1>5, <1>6, <1>7, <1>8, <1>9, <1>10

LEMMA LanguagePlans ==
  ASSUME NEW t
  PROVE  /\ Pip(t) \in Plans(t) /\ PipTools(t) \in Plans(t) /\ Pipenv(t) \in Plans(t)
         /\ t.module = "conda" => Conda(t) \in Plans(t)
         /\ Poetry(t) \in Plans(t) /\ Uv(t) \in Plans(t) /\ Pixi(t) \in Plans(t)
<1> USE StopWords, AskWords, CommandWords, Joining, TaskWords
<1> USE DEF Pointed, Systemwide, Questions, WholeSystem, SystemStates
<1>1. t.names \in SUBSET t.names
  OBVIOUS
<1>2. Pip(t) \in Plans(t)
  BY <1>1 DEF Pip, EnsureVirtualenv, PipInstall, PipUninstall, PipShow
<1>3. PipTools(t) \in Plans(t)
  BY <1>1 DEF PipTools, PipCompile, PipSync
<1>4. Pipenv(t) \in Plans(t)
  BY <1>1 DEF Pipenv, PipenvRunChange, PipenvInstallPkgs, PipenvUninstall, PipenvUpdate,
              PipenvUpdateAll, PipenvInstallAll, PipenvLock, PipenvCheck, PipenvGraph, PipenvClean,
              PipenvRequirements, PipenvRun
<1>5. Poetry(t) \in Plans(t)
  BY <1>1 DEF Poetry, PoetryRunChange, PoetryAdd, PoetryRemove, PoetryUpdate, PoetryUpdateAll,
              PoetryInstall, PoetryLock, PoetryCheck, PoetryBuild, PoetryPublish, PoetryExport,
              PoetryEnvInfo, PoetryRun
<1>6. ASSUME t.module = "conda" PROVE Conda(t) \in Plans(t)
  BY <1>1, <1>6 DEF Conda, CondaInstall, CondaUninstall, CondaCreateEnv, CondaRemoveEnv, CondaInfo
<1>7. Uv(t) \in Plans(t)
  BY <1>1 DEF Uv, UvRunChange, UvAddOrPip, UvRemove, UvSync, UvLock, UvRun, UvVenv, UvPythonInstall,
              UvPythonList, UvToolInstall, UvToolUninstall, UvPipShow
<1>8. Pixi(t) \in Plans(t)
  BY <1>1 DEF Pixi, PixiInit, PixiInstall, PixiAdd, PixiRemove, PixiUpdate, PixiUpdateAll, PixiRun,
              PixiClean, PixiInfo
<1> QED
  BY <1>2, <1>3, <1>4, <1>5, <1>6, <1>7, <1>8

LEMMA OtherPlans ==
  ASSUME NEW t
  PROVE  /\ Zopen(t) \in Plans(t) /\ Zos(t) \in Plans(t)
         /\ "content" \in t.names => Appimage(t) \in Plans(t)
<1> USE StopWords, AskWords, CommandWords, Joining, TaskWords
<1> USE DEF Pointed, Systemwide, Questions, WholeSystem, SystemStates
<1>1. t.names \in SUBSET t.names
  OBVIOUS
<1>2. Zopen(t) \in Plans(t)
  BY <1>1 DEF Zopen, ZopenRun, ZopenInstall, ZopenRemove
<1>3. Zos(t) \in Plans(t)
  <2>1. \A s \in Plans(t) : /\ Needs(t, s) \in Plans(t) /\ Body(t, s) \in Plans(t)
                            /\ FromArgs(t, s) \in Plans(t)
    BY DEF Needs, Body, FromArgs
  <2>2. \A changed \in BOOLEAN : /\ RunAndParse(PostJson, changed) \in Plans(t)
                                 /\ RunAndParse(Delete, changed) \in Plans(t)
                                 /\ RunAndParse(PutData, changed) \in Plans(t)
                                 /\ RunAndParse(Get, changed) \in Plans(t)
    BY DEF RunAndParse, PostJson, Delete, PutData, Get
  <2> QED
    BY <2>1, <2>2
       DEF Zos, JobSubmit, JobStatus, JobCancel, JobPurge, DatasetCreate, DatasetDelete, DatasetCopy,
           DatasetFetch, DatasetWrite, MemberList, TsoCommand, UssCommand, Sysvar
<1>4. ASSUME "content" \in t.names PROVE Appimage(t) \in Plans(t)
  <2>1. {"content"} \in SUBSET t.names /\ t.names \ {"content"} \in SUBSET t.names
    BY <1>4
  <2>2. AppimageAbsent(t) \in Plans(t) /\ AppimageUpdate(t) \in Plans(t)
    BY <2>1 DEF AppimageAbsent, AppimageUpdate
  <2>3. \A cond, s : s \in Parts(t) => When(cond, s) \in Parts(t)
    BY DEF When
  <2>4. Ask("missing", {"content"}) \in Parts(t) /\ Take({"content"}) \in Parts(t)
        /\ Take(t.names \ {"content"}) \in Parts(t) /\ Download \in Parts(t) /\ Reject \in Parts(t)
        /\ Sha256File \in Parts(t)
    BY <2>1 DEF Download, Reject, Sha256File
  <2>5. AppimageInstall(t) \in Plans(t)
    BY <2>3, <2>4 DEF AppimageInstall
  <2> QED
    BY <2>2, <2>5 DEF Appimage
<1> QED
  BY <1>2, <1>3, <1>4

LEMMA DeploymentPlans ==
  ASSUME NEW t
  PROVE  /\ t.module = "rpm_ostree" => RpmOstree(t) \in Plans(t)
         /\ Ostree(t) \in Plans(t) /\ DnfHistory(t) \in Plans(t)
<1> USE StopWords, AskWords, CommandWords, Joining, TaskWords
<1>1. t.names \in SUBSET t.names /\ "next" \in Leads
  BY DEF Leads
<1>2. "show" \in CommandsOf(t) /\ "other" \in CommandsOf(t) /\ "check" \in CommandsOf(t)
      /\ "reboot" \in CommandsOf(t) /\ "install" \in CommandsOf(t) /\ "remove" \in CommandsOf(t)
      /\ "transaction" \in CommandsOf(t)
  BY DEF Pointed
<1>3. DoReboot(t) \in Parts(t) /\ \A a \in Plans(t) : Argument(t, a) \in Plans(t)
  BY <1>2 DEF DoReboot, WhenFlag, When, Argument
<1>4. ASSUME t.module = "rpm_ostree" PROVE RpmOstree(t) \in Plans(t)
  <2>1. RunStatus \in Parts(t)
    BY <1>1 DEF RunStatus
  <2>2. \A c \in CommandsOf(t) : RunRpmOstree(t, c) \in Plans(t)
    BY <1>3 DEF RunRpmOstree
  <2>3. \A q \in Questions : Selected(t, q) \in Parts(t)
    BY <1>1 DEF Selected
  <2>4. /\ HandleInstall(t) \in Plans(t) /\ HandleUninstall(t) \in Plans(t)
        /\ HandleOverride(t) \in Plans(t)
    BY <1>1, <1>2, <1>3, <2>2, <2>3 DEF HandleInstall, HandleUninstall, HandleOverride, Questions
  <2>5. HandleDeploy(t) \in Plans(t) /\ HandleRebase(t) \in Plans(t) /\ HandleDbDiff \in Plans(t)
        /\ HandleUpgradePreview \in Plans(t)
    BY <1>2, <1>3, <2>2 DEF HandleDeploy, HandleRebase, HandleDbDiff, HandleUpgradePreview
  <2>6. t.state = "latest" => HandleUpgrade(t) \in Plans(t)
    BY <1>1, <1>2, <1>3, <1>4 DEF HandleUpgrade, WholeSystem, Systemwide
  <2>7. t.state = "rollback" => HandleRollback \in Plans(t)
    BY DEF HandleRollback, WholeSystem, SystemStates, Systemwide
  <2>8. t.state = "cleanup" => HandleCleanup(t) \in Plans(t)
    BY <1>2 DEF HandleCleanup, WholeSystem, SystemStates, Systemwide
  <2> QED
    BY <2>1, <2>4, <2>5, <2>6, <2>7, <2>8 DEF RpmOstree
<1>5. Ostree(t) \in Plans(t)
  <2>1. RunCmd \in Plans(t) /\ RunChange \in Plans(t)
    BY <1>2 DEF RunCmd, RunChange
  <2>2. CmdSummary(t) \in Plans(t) /\ CmdPull(t) \in Plans(t) /\ CmdAdminUpgrade(t) \in Plans(t)
        /\ CmdAdminDeploy(t) \in Plans(t)
    BY <1>2, <1>3 DEF CmdSummary, CmdPull, CmdAdminUpgrade, CmdAdminDeploy
  <2>3. OstreeDispatch(t) \in Plans(t)
    BY <1>3, <2>1, <2>2
       DEF OstreeDispatch, CmdInit, CmdFsck, CmdPrune, CmdConfig, CmdRefs, CmdLog, CmdShow,
           CmdRevParse, CmdDiff, CmdLs, CmdCat, CmdCommit, CmdReset, CmdPullLocal, CmdCheckout,
           CmdRemoteAdd, CmdRemoteDelete, CmdRemoteList, CmdRemoteShowUrl, CmdRemoteGpgImport,
           CmdAdminStatus, CmdAdminUndeploy, CmdAdminCleanup, CmdAdminConfigDiff, CmdAdminSwitch,
           CmdAdminUnlock
  <2> QED
    BY <1>3, <2>3 DEF Ostree
<1>6. DnfHistory(t) \in Plans(t)
  <2>1. HandleMutating(t) \in Plans(t)
    <3>1. Fail \in Seq(Flats(t))
      BY DEF Fail, Conditions
    <3>2. RunMutating(RunMutatingPython(Fail)) \in Parts(t)
      BY <1>2, <3>1 DEF RunMutating, RunMutatingPython
    <3> QED
      BY <1>1, <1>3, <3>2 DEF HandleMutating
  <2>2. TrySqlite(t) \in Plans(t) /\ TrySqlite(t) \in Seq(Flats(t))
    <3>1. Must("show") \in Parts(t) /\ Must("show") \in Seq(Flats(t))
      BY <1>2
    <3>2. /\ Ok \in Seq(Flats(t)) /\ Err \in Seq(Flats(t)) /\ Fail \in Seq(Flats(t))
          /\ May("failed") \in Seq(Flats(t))
      BY DEF Ok, Err, Fail, May, Conditions
    <3>3. \A a, b \in Seq(Flats(t)) : a \o b \in Seq(Flats(t))
      OBVIOUS
    <3>4. SqliteList \in Plans(t) /\ SqliteList \in Seq(Flats(t))
      BY <3>1, <3>2, <3>3 DEF SqliteList
    <3>5. SqliteInfo(t) \in Plans(t) /\ SqliteInfo(t) \in Seq(Flats(t))
      <4>1. Must("show") \o May("failed") \o Must("show") \o Ok \in Plans(t)
        BY <3>1
      <4>2. Must("show") \o May("failed") \o Must("show") \o Ok \in Seq(Flats(t))
        BY <3>1, <3>2, <3>3
      <4> QED
        BY <3>2, <4>1, <4>2 DEF SqliteInfo, Argument
    <3>6. SqliteUserinstalled \in Plans(t) /\ SqliteUserinstalled \in Seq(Flats(t))
      BY <3>1, <3>2, <3>3 DEF SqliteUserinstalled
    <3> QED
      BY <3>1, <3>2, <3>3, <3>4, <3>5, <3>6 DEF TrySqlite
  <2>3. TryPython(TrySqlite(t)) \in Parts(t) /\ TryCli(TryPython(TrySqlite(t))) \in Parts(t)
    BY <1>2, <2>2, Levels DEF TryPython, TryCli
  <2> QED
    BY <2>1, <2>2, <2>3 DEF DnfHistory
<1> QED
  BY <1>4, <1>5, <1>6

LEMMA FilePlans ==
  ASSUME NEW t
  PROVE  /\ "content" \in t.names =>
              /\ Copy(t) \in Plans(t) /\ Template(t) \in Plans(t) /\ File(t) \in Plans(t)
              /\ t.module = "git" => Git(t) \in Plans(t)
              /\ Shell(t) \in Plans(t) /\ CommandModule(t) \in Plans(t)
         /\ t.module = "lineinfile" => LineInFile(t) \in Plans(t)
         /\ Stat(t) \in Plans(t) /\ Find(t) \in Plans(t) /\ Setup \in Plans(t)
         /\ Debug \in Plans(t) /\ FailModule \in Plans(t) /\ SetFact(t) \in Plans(t)
         /\ Python(t) \in Plans(t)
         /\ \A inner \in Plans(t) : Preview(t, inner) \in Plans(t)
<1> USE StopWords, AskWords, CommandWords, Joining, TaskWords
<1>1. /\ \A c \in {"show", "other", "mkdir", "fetch", "backup", "remove", "install",
                   "installLatest", "write", "link", "clone"} : c \in CommandsOf(t)
      /\ \A q \in {"missing", "installed", "differs", "differs, there"} : q \in Questions
      /\ \A cond \in {"always", "maybe", "none needed", "nothing done"} : cond \in Conditions
      /\ "err" \in Leads
  BY DEF Pointed, Questions, Conditions, Leads
<1>2. CreateDirAll \in Parts(t) /\ CreateDirAll \in Seq(Flats(t))
  BY <1>1 DEF CreateDirAll
<1>3. \A a \in Plans(t) : Requires(t, a) \in Plans(t)
  BY DEF Requires
<1>4. \A cond, s : s \in Parts(t) => When(cond, s) \in Parts(t)
  BY DEF When
<1>5. \A a, b \in Seq(Flats(t)) : a \o b \in Seq(Flats(t))
  OBVIOUS
<1>6. /\ OkIfNone \in Seq(Flats(t)) /\ OkIfUndone \in Seq(Flats(t)) /\ Err \in Seq(Flats(t))
      /\ Ok \in Seq(Flats(t)) /\ Changed \in Seq(Flats(t)) /\ Did \in Seq(Flats(t))
  BY <1>1, <1>5 DEF OkIfNone, OkIfUndone, Err, Ok, Changed, Did
<1>7. \A cond, s : s \in Seq(Flats(t)) => When(cond, s) \in Seq(Flats(t))
  <2>1. <<>> \in Seq(Flats(t))
    OBVIOUS
  <2> QED
    BY <2>1, Zenon DEF When
<1>8. \A s \in Seq(Flats(t)) : IfNeeded(s) \in Parts(t)
  BY Levels
<1>9. ASSUME "content" \in t.names
      PROVE  /\ Copy(t) \in Plans(t) /\ Template(t) \in Plans(t) /\ File(t) \in Plans(t)
             /\ t.module = "git" => Git(t) \in Plans(t)
             /\ Shell(t) \in Plans(t) /\ CommandModule(t) \in Plans(t)
  <2>1. Content \in SUBSET t.names /\ ModeOf(t) \in SUBSET t.names
    BY <1>9 DEF Content, ModeOf
  <2> HIDE DEF Content
  <2>2. ApplyMode(t) \in Parts(t) /\ ApplyMode(t) \in Seq(Flats(t))
    <3>1. /\ When(Has(t, "bad mode"), Err) \in Parts(t)
          /\ When(Has(t, "bad mode"), Err) \in Seq(Flats(t))
      BY <1>4, <1>6, <1>7
    <3>2. Take(ModeOf(t)) \in Parts(t) /\ Take(ModeOf(t)) \in Seq(Flats(t))
      BY <2>1
    <3>3. MustSome("write") \in Parts(t) /\ MustSome("write") \in Seq(Flats(t))
      BY <1>1
    <3> QED
      BY <1>5, <3>1, <3>2, <3>3 DEF ApplyMode
  <2>3. Copy(t) \in Plans(t)
    <3>1. CopyFile(t) \in Plans(t)
      BY <1>1, <1>4, <2>1, <2>2 DEF CopyFile
    <3> QED
      BY <1>2, <1>3, <3>1 DEF Copy
  <2>4. Template(t) \in Plans(t)
    <3>1. When(Has(t, "no force"), Ask("differs", Content) \o OkIfNone) \in Parts(t)
      <4>1. Ask("differs", Content) \o OkIfNone \in Parts(t)
        BY <1>1, <2>1
      <4> QED
        BY <1>4, <4>1
    <3>2. When(Has(t, "backup"), Must("backup")) \in Parts(t)
      BY <1>1, <1>4
    <3>3. Take(Content) \in Parts(t) /\ Must("show") \in Parts(t) /\ Must("write") \in Parts(t)
      BY <1>1, <2>1
    <3> QED
      BY <1>2, <1>3, <2>2, <3>1, <3>2, <3>3 DEF Template
  <2>5. File(t) \in Plans(t)
    <3>1. RemovePath(t) \in Plans(t) /\ CreateHardlink(t) \in Plans(t)
      BY <1>1, <2>1 DEF RemovePath, CreateHardlink
    <3>2. EnsureDirectory(t) \in Plans(t)
      <4>1. IfNeeded(Must("install") \o ApplyMode(t) \o Changed) \in Parts(t)
        BY <1>1, <1>5, <1>6, <1>8, <2>2
      <4>2. When(Has(t, "not a directory"), Err) \in Parts(t)
        BY <1>4 DEF Plans
      <4> QED
        BY <1>1, <2>1, <2>2, <4>1, <4>2 DEF EnsureDirectory
    <3>3. TouchFile(t) \in Plans(t)
      <4>1. IfNeeded(CreateDirAll \o Must("install") \o ApplyMode(t) \o Changed) \in Parts(t)
        BY <1>1, <1>2, <1>5, <1>6, <1>8, <2>2
      <4> QED
        BY <1>1, <2>1, <2>2, <4>1 DEF TouchFile
    <3>4. CreateSymlink \in Plans(t)
      <4>1. IfNeeded(Ask("differs", Content) \o OkIfNone \o Must("remove")) \in Parts(t)
        BY <1>1, <1>5, <1>6, <1>8, <2>1
      <4> QED
        BY <1>1, <2>1, <4>1 DEF CreateSymlink
    <3>5. EnsureFile(t) \in Plans(t)
      <4>1. Ask("missing", Content) \in Parts(t)
        BY <1>1, <2>1
      <4> QED
        BY <2>2, <4>1 DEF EnsureFile
    <3> QED
      BY <1>3, <3>1, <3>2, <3>3, <3>4, <3>5 DEF File
  <2>6. ASSUME t.module = "git" PROVE Git(t) \in Plans(t)
    <3> DEFINE update == When(Has(t, "force"), Try("checkout force")) \o GitRun("fetch") \o GitCheckout \o
                         When(Has(t, "recursive"), Try("submodules")) \o Did
    <3>0. /\ When(Has(t, "force"), Try("checkout force")) \in Seq(Flats(t))
          /\ When(Has(t, "recursive"), Try("submodules")) \in Seq(Flats(t))
      <4>1. <<>> \in Seq(Flats(t))
        OBVIOUS
      <4>2. Has(t, "force") \/ Has(t, "recursive") => Unseen \subseteq CommandsOf(t)
        BY <2>6 DEF MayHide, Has
      <4>3. /\ Has(t, "force") => Try("checkout force") \in Seq(Flats(t))
            /\ Has(t, "recursive") => Try("submodules") \in Seq(Flats(t))
        BY <4>2 DEF Unseen
      <4> QED
        BY <4>1, <4>3, Zenon DEF When
    <3>1. update \in Seq(Flats(t))
      BY <1>1, <1>5, <1>6, <3>0 DEF GitRun, GitCheckout
    <3>2. IfNeeded(IF Has(t, "no update") THEN Ok ELSE update) \in Parts(t)
      BY <1>6, <1>8, <3>1
    <3> QED
      BY <1>1, <1>3, <1>4, <2>1, <3>2 DEF Git, GitRun
  <2>7. Shell(t) \in Plans(t)
    BY <1>1, <1>3, <2>1 DEF Shell
  <2> QED
    BY <2>3, <2>4, <2>5, <2>6, <2>7 DEF CommandModule
<1>10. ASSUME t.module = "lineinfile" PROVE LineInFile(t) \in Plans(t)
  <2>1. RemoveLines(t) \in Parts(t) /\ InsertOrReplace(t) \in Parts(t)
    BY <1>1 DEF RemoveLines, InsertOrReplace
  <2>2. Must("rewrite") \in Parts(t) /\ Must("rewrite without") \in Parts(t)
    BY <1>10 DEF Rewrites
  <2>3. Has(t, "create") => Must("create file") \in Parts(t)
    <3>1. Has(t, "create") => Unseen \subseteq CommandsOf(t)
      BY <1>10 DEF MayHide
    <3> QED
      BY <3>1 DEF Unseen
  <2> QED
    BY <1>1, <1>2, <1>3, <1>4, <2>1, <2>2, <2>3 DEF LineInFile
<1>11. Stat(t) \in Plans(t) /\ Find(t) \in Plans(t)
  BY <1>1, <1>3 DEF Stat, Find, FindIn
<1>12. Setup \in Plans(t)
  <2>1. Try("show") \in Parts(t)
    BY <1>1
  <2> QED
    BY <2>1 DEF Setup, CollectAllFacts, CollectOsRelease, CollectUname, CollectHostname,
                CollectCpuInfo, CollectMemInfo, CollectInterfaces, CollectMounts, CollectDatetime,
                CollectPythonVersion, CollectVirtualization
<1>13. Debug \in Plans(t) /\ FailModule \in Plans(t) /\ SetFact(t) \in Plans(t)
  BY DEF Debug, FailModule, SetFact
<1>14. Python(t) \in Plans(t)
  <2>1. InvokeSubprocess \in Plans(t)
    BY <1>1 DEF InvokeSubprocess, WriteArgsFile, ParseOutput
  <2> QED
    BY <2>1 DEF Python, ConfigurablePython, SubprocessPython, AnsiblePython, PythonModuleWrapper,
                FindModule, Dispatch
<1>15. \A inner \in Plans(t) : Preview(t, inner) \in Plans(t)
  BY <1>1, <1>2 DEF Preview, SandboxInvoke, BuildModuleScript, CollectOverlayfsDiff
<1> QED
  BY <1>9, <1>10, <1>11, <1>12, <1>13, <1>14, <1>15

(* Where the plans of all modules are in P, so is any invocation.            *)
PlansIn(t, P) ==
  /\ Fail \in P /\ (t.module = "apt" => Apt(t) \in P) /\ (t.module = "yum" => Yum(t) \in P)
  /\ (t.module = "zypper" => Zypper(t) \in P) /\ (t.module = "apk" => Apk(t) \in P)
  /\ (t.module = "pacman" => Pacman(t) \in P) /\ (t.module = "portage" => Portage(t) \in P)
  /\ (t.module = "snap" => Snap(t) \in P) /\ (t.module = "flatpak" => Flatpak(t) \in P)
  /\ (t.module = "slackpkg" => Slackpkg(t) \in P) /\ (t.module = "homebrew" => Homebrew(t) \in P)
  /\ (t.module = "macports" => MacPorts(t) \in P) /\ (t.module = "pkg_add" => PkgAdd(t) \in P)
  /\ (t.module = "pkgng" => Pkgng(t) \in P) /\ (t.module = "pkgsrc" => Pkgsrc(t) \in P)
  /\ (t.module = "pkg5" => Pkg5(t) \in P) /\ (t.module = "svr4pkg" => Svr4Pkg(t) \in P)
  /\ (t.module = "nix" => Nix(t) \in P) /\ (t.module = "chocolatey" => Chocolatey(t) \in P)
  /\ (t.module = "pip" => Pip(t) \in P) /\ (t.module = "pip_tools" => PipTools(t) \in P)
  /\ (t.module = "pipenv" => Pipenv(t) \in P) /\ (t.module = "poetry" => Poetry(t) \in P)
  /\ (t.module = "conda" => Conda(t) \in P) /\ (t.module = "uv" => Uv(t) \in P)
  /\ (t.module = "pixi" => Pixi(t) \in P) /\ (t.module = "zopen" => Zopen(t) \in P)
  /\ (t.module = "zos" => Zos(t) \in P) /\ (t.module = "appimage" => Appimage(t) \in P)
  /\ (t.module = "rpm_ostree" => RpmOstree(t) \in P) /\ (t.module = "ostree" => Ostree(t) \in P)
  /\ (t.module = "dnf_history" => DnfHistory(t) \in P) /\ (t.module = "copy" => Copy(t) \in P)
  /\ (t.module = "template" => Template(t) \in P) /\ (t.module = "file" => File(t) \in P)
  /\ (t.module = "lineinfile" => LineInFile(t) \in P) /\ (t.module = "git" => Git(t) \in P)
  /\ (t.module = "shell" => Shell(t) \in P) /\ (t.module = "command" => CommandModule(t) \in P)
  /\ (t.module = "stat" => Stat(t) \in P) /\ (t.module = "find" => Find(t) \in P)
  /\ (t.module = "setup" => Setup \in P) /\ (t.module = "debug" => Debug \in P)
  /\ (t.module = "fail" => FailModule \in P) /\ (t.module = "set_fact" => SetFact(t) \in P)
  /\ (t.module = "python" => Python(t) \in P)
  /\ (t.module = "preview" => Preview(t, Copy(t)) \in P)

LEMMA ByModule ==
  ASSUME NEW t, NEW P, PlansIn(t, P)
  PROVE  Invoke(t) \in P
<1>1. /\ (t.module = "apt" => Invoke(t) = Apt(t)) /\ (t.module = "yum" => Invoke(t) = Yum(t))
      /\ (t.module = "zypper" => Invoke(t) = Zypper(t)) /\ (t.module = "apk" => Invoke(t) = Apk(t))
      /\ (t.module = "pacman" => Invoke(t) = Pacman(t))
      /\ (t.module = "portage" => Invoke(t) = Portage(t))
      /\ (t.module = "snap" => Invoke(t) = Snap(t))
      /\ (t.module = "flatpak" => Invoke(t) = Flatpak(t))
  BY Zenon DEF Invoke
<1>2. /\ (t.module = "slackpkg" => Invoke(t) = Slackpkg(t))
      /\ (t.module = "homebrew" => Invoke(t) = Homebrew(t))
      /\ (t.module = "macports" => Invoke(t) = MacPorts(t))
      /\ (t.module = "pkg_add" => Invoke(t) = PkgAdd(t))
      /\ (t.module = "pkgng" => Invoke(t) = Pkgng(t))
      /\ (t.module = "pkgsrc" => Invoke(t) = Pkgsrc(t))
      /\ (t.module = "pkg5" => Invoke(t) = Pkg5(t))
      /\ (t.module = "svr4pkg" => Invoke(t) = Svr4Pkg(t))
  BY Zenon DEF Invoke
<1>3. /\ (t.module = "nix" => Invoke(t) = Nix(t))
      /\ (t.module = "chocolatey" => Invoke(t) = Chocolatey(t))
      /\ (t.module = "pip" => Invoke(t) = Pip(t))
      /\ (t.module = "pip_tools" => Invoke(t) = PipTools(t))
      /\ (t.module = "pipenv" => Invoke(t) = Pipenv(t))
      /\ (t.module = "poetry" => Invoke(t) = Poetry(t))
      /\ (t.module = "conda" => Invoke(t) = Conda(t)) /\ (t.module = "uv" => Invoke(t) = Uv(t))
  BY Zenon DEF Invoke
<1>4. /\ (t.module = "pixi" => Invoke(t) = Pixi(t)) /\ (t.module = "zopen" => Invoke(t) = Zopen(t))
      /\ (t.module = "zos" => Invoke(t) = Zos(t))
      /\ (t.module = "appimage" => Invoke(t) = Appimage(t))
      /\ (t.module = "rpm_ostree" => Invoke(t) = RpmOstree(t))
      /\ (t.module = "ostree" => Invoke(t) = Ostree(t))
      /\ (t.module = "dnf_history" => Invoke(t) = DnfHistory(t))
      /\ (t.module = "copy" => Invoke(t) = Copy(t))
  BY Zenon DEF Invoke
<1>5. /\ (t.module = "template" => Invoke(t) = Template(t))
      /\ (t.module = "file" => Invoke(t) = File(t))
      /\ (t.module = "lineinfile" => Invoke(t) = LineInFile(t))
      /\ (t.module = "git" => Invoke(t) = Git(t)) /\ (t.module = "shell" => Invoke(t) = Shell(t))
      /\ (t.module = "command" => Invoke(t) = CommandModule(t))
      /\ (t.module = "stat" => Invoke(t) = Stat(t)) /\ (t.module = "find" => Invoke(t) = Find(t))
  BY Zenon DEF Invoke
<1>6. /\ (t.module = "setup" => Invoke(t) = Setup) /\ (t.module = "debug" => Invoke(t) = Debug)
      /\ (t.module = "fail" => Invoke(t) = FailModule)
      /\ (t.module = "set_fact" => Invoke(t) = SetFact(t))
      /\ (t.module = "python" => Invoke(t) = Python(t))
      /\ (t.module = "preview" => Invoke(t) = Preview(t, Copy(t)))
  BY Zenon DEF Invoke
<1>7. /\ (t.module = "apt" => Invoke(t) \in P) /\ (t.module = "yum" => Invoke(t) \in P)
      /\ (t.module = "zypper" => Invoke(t) \in P) /\ (t.module = "apk" => Invoke(t) \in P)
      /\ (t.module = "pacman" => Invoke(t) \in P) /\ (t.module = "portage" => Invoke(t) \in P)
      /\ (t.module = "snap" => Invoke(t) \in P) /\ (t.module = "flatpak" => Invoke(t) \in P)
  BY <1>1, SMT DEF PlansIn
<1>8. /\ (t.module = "slackpkg" => Invoke(t) \in P) /\ (t.module = "homebrew" => Invoke(t) \in P)
      /\ (t.module = "macports" => Invoke(t) \in P) /\ (t.module = "pkg_add" => Invoke(t) \in P)
      /\ (t.module = "pkgng" => Invoke(t) \in P) /\ (t.module = "pkgsrc" => Invoke(t) \in P)
      /\ (t.module = "pkg5" => Invoke(t) \in P) /\ (t.module = "svr4pkg" => Invoke(t) \in P)
  BY <1>2, SMT DEF PlansIn
<1>9. /\ (t.module = "nix" => Invoke(t) \in P) /\ (t.module = "chocolatey" => Invoke(t) \in P)
      /\ (t.module = "pip" => Invoke(t) \in P) /\ (t.module = "pip_tools" => Invoke(t) \in P)
      /\ (t.module = "pipenv" => Invoke(t) \in P) /\ (t.module = "poetry" => Invoke(t) \in P)
      /\ (t.module = "conda" => Invoke(t) \in P) /\ (t.module = "uv" => Invoke(t) \in P)
  BY <1>3, SMT DEF PlansIn
<1>10. /\ (t.module = "pixi" => Invoke(t) \in P) /\ (t.module = "zopen" => Invoke(t) \in P)
      /\ (t.module = "zos" => Invoke(t) \in P) /\ (t.module = "appimage" => Invoke(t) \in P)
      /\ (t.module = "rpm_ostree" => Invoke(t) \in P) /\ (t.module = "ostree" => Invoke(t) \in P)
      /\ (t.module = "dnf_history" => Invoke(t) \in P) /\ (t.module = "copy" => Invoke(t) \in P)
  BY <1>4, SMT DEF PlansIn
<1>11. /\ (t.module = "template" => Invoke(t) \in P) /\ (t.module = "file" => Invoke(t) \in P)
      /\ (t.module = "lineinfile" => Invoke(t) \in P) /\ (t.module = "git" => Invoke(t) \in P)
      /\ (t.module = "shell" => Invoke(t) \in P) /\ (t.module = "command" => Invoke(t) \in P)
      /\ (t.module = "stat" => Invoke(t) \in P) /\ (t.module = "find" => Invoke(t) \in P)
  BY <1>5, SMT DEF PlansIn
<1>12. /\ (t.module = "setup" => Invoke(t) \in P) /\ (t.module = "debug" => Invoke(t) \in P)
      /\ (t.module = "fail" => Invoke(t) \in P) /\ (t.module = "set_fact" => Invoke(t) \in P)
      /\ (t.module = "python" => Invoke(t) \in P) /\ (t.module = "preview" => Invoke(t) \in P)
  BY <1>6, SMT DEF PlansIn
<1>13. CASE /\ t.module # "apt" /\ t.module # "yum" /\ t.module # "zypper" /\ t.module # "apk"
            /\ t.module # "pacman" /\ t.module # "portage" /\ t.module # "snap"
            /\ t.module # "flatpak" /\ t.module # "slackpkg" /\ t.module # "homebrew"
            /\ t.module # "macports" /\ t.module # "pkg_add" /\ t.module # "pkgng"
            /\ t.module # "pkgsrc" /\ t.module # "pkg5" /\ t.module # "svr4pkg" /\ t.module # "nix"
            /\ t.module # "chocolatey" /\ t.module # "pip" /\ t.module # "pip_tools"
            /\ t.module # "pipenv" /\ t.module # "poetry" /\ t.module # "conda" /\ t.module # "uv"
            /\ t.module # "pixi" /\ t.module # "zopen" /\ t.module # "zos" /\ t.module # "appimage"
            /\ t.module # "rpm_ostree" /\ t.module # "ostree" /\ t.module # "dnf_history"
            /\ t.module # "copy" /\ t.module # "template" /\ t.module # "file"
            /\ t.module # "lineinfile" /\ t.module # "git" /\ t.module # "shell"
            /\ t.module # "command" /\ t.module # "stat" /\ t.module # "find" /\ t.module # "setup"
            /\ t.module # "debug" /\ t.module # "fail" /\ t.module # "set_fact"
            /\ t.module # "python" /\ t.module # "preview"
  <2>1. Invoke(t) = Fail
    BY <1>13, Zenon DEF Invoke
  <2> QED
    BY <2>1, Zenon DEF PlansIn
<1> QED
  BY <1>7, <1>8, <1>9, <1>10, <1>11, <1>12, <1>13, Zenon

(* Whatever module a task names, its invocation is a plan. *)
LEMMA AllPlans ==
  ASSUME NEW m \in Modules, NEW t \in Tasks(m)
  PROVE  PlansIn(t, Plans(t))
<1>1. t.module \in FileModules => "content" \in t.names
  BY ManagedAssumption
<1>2. t.module \in {"copy", "template", "file", "git", "shell", "command", "preview", "appimage"} =>
        "content" \in t.names
  BY <1>1 DEF FileModules
<1>3. t.module \in {"copy", "template", "file", "git", "shell", "command"} =>
        /\ Copy(t) \in Plans(t) /\ Template(t) \in Plans(t) /\ File(t) \in Plans(t)
        /\ t.module = "git" => Git(t) \in Plans(t)
        /\ Shell(t) \in Plans(t) /\ CommandModule(t) \in Plans(t)
  BY <1>2, FilePlans
<1>4. t.module = "preview" => Preview(t, Copy(t)) \in Plans(t)
  BY <1>2, FilePlans
<1>5. t.module = "appimage" => Appimage(t) \in Plans(t)
  BY <1>2, OtherPlans
<1>6. Fail \in Plans(t)
  BY StopWords
<1>7. Zopen(t) \in Plans(t) /\ Zos(t) \in Plans(t)
  BY OtherPlans
<1>8. /\ t.module = "lineinfile" => LineInFile(t) \in Plans(t)
      /\ Stat(t) \in Plans(t) /\ Find(t) \in Plans(t) /\ Setup \in Plans(t)
      /\ Debug \in Plans(t) /\ FailModule \in Plans(t) /\ SetFact(t) \in Plans(t)
      /\ Python(t) \in Plans(t)
  BY FilePlans
<1> QED
  BY <1>3, <1>4, <1>5, <1>6, <1>7, <1>8, LinuxPlans, UnixPlans, LanguagePlans, DeploymentPlans
     DEF PlansIn

LEMMA Invocations ==
  ASSUME NEW m \in Modules, NEW t \in Tasks(m)
  PROVE  Invoke(t) \in Plans(t)
BY AllPlans, ByModule

-----------------------------------------------------------------------------
(* What Managed finds in a step. *)
LEMMA StepFacts ==
  ASSUME NEW t, NEW s \in StepsOf(t)
  PROVE  /\ s.op = "stop" => s.verdict \in {"ok", "changed", "failed", "err"} /\ s.if \in Conditions
         /\ s.op \in {"take", "ask", "pick"} => s.of \subseteq t.names
         /\ s.op = "ask" => \A P \in SUBSET s.of : /\ [s EXCEPT !.of = P] \in StepsOf(t)
                                                /\ [s EXCEPT !.of = P].op = "ask"
                                                /\ ~Final([s EXCEPT !.of = P])
         /\ s.op \in {"run", "some", "each", "list"} =>
              /\ s.cmd \in CommandsOf(t)
              /\ s.bad \in Leads \union {"else"} /\ s.lost \in Leads \union {"else"}
              /\ s.bad = "else" \/ s.lost = "else" => s.else \in Seq(Inner(t))
         /\ s.op = "branch" => s.then \in Seq(Inner(t))
<1> DEFINE C == CommandsOf(t)
<1>1. "show" \in C
  BY TaskWords DEF Pointed
<1>2. \/ s \in Flat(t.names, C)
      \/ s \in [op : {"branch"}, then : Seq(Inner(t))]
      \/ s \in [op : {"run"}, cmd : C, bad : {"else"}, lost : {"else"}, else : Seq(Inner(t))]
  BY Zenon DEF StepsOf, Deep
<1>3. s \in Flat(t.names, C) =>
        \/ s \in [op : {"stop"}, verdict : {"ok", "changed", "failed", "err"}, if : Conditions]
        \/ s \in [op : {"take"}, of : SUBSET t.names]
        \/ s \in [op : {"ask", "pick"}, q : Questions, of : SUBSET t.names]
        \/ s \in [op : {"run", "some", "each"}, cmd : C, bad : Leads, lost : Leads]
        \/ s \in [op : {"list"}, cmd : {"show"}, bad : Leads, lost : Leads]
        \/ s \in [op : {"return"}]
  BY Zenon DEF Flat
<1> HIDE DEF C
<1>4. "else" \notin Leads
  BY DEF Leads
<1>5. ASSUME s.op = "ask", NEW P \in SUBSET s.of
      PROVE  /\ [s EXCEPT !.of = P] \in StepsOf(t) /\ [s EXCEPT !.of = P].op = "ask"
             /\ ~Final([s EXCEPT !.of = P])
  <2>1. s \in [op : {"ask", "pick"}, q : Questions, of : SUBSET t.names]
    BY <1>2, <1>3, <1>5
  <2>2. [s EXCEPT !.of = P] \in [op : {"ask", "pick"}, q : Questions, of : SUBSET t.names]
    BY <2>1
  <2>3. [s EXCEPT !.of = P] \in StepsOf(t)
    BY <2>2, Zenon DEF StepsOf, Deep, Flat, C
  <2> QED
    BY <2>1, <2>3, <1>5 DEF Final
<1>6. s.op \in {"run", "some", "each", "list"} =>
        /\ s.cmd \in C /\ s.bad \in Leads \union {"else"} /\ s.lost \in Leads \union {"else"}
        /\ s.bad = "else" \/ s.lost = "else" => s.else \in Seq(Inner(t))
  BY <1>1, <1>2, <1>3, <1>4
<1>7. /\ s.op = "stop" => s.verdict \in {"ok", "changed", "failed", "err"} /\ s.if \in Conditions
      /\ s.op \in {"take", "ask", "pick"} => s.of \subseteq t.names
      /\ s.op = "branch" => s.then \in Seq(Inner(t))
  BY <1>2, <1>3
<1> QED
  BY <1>5, <1>6, <1>7 DEF C

LEMMA Tails ==
  ASSUME NEW S, NEW p \in Seq(S)
  PROVE  /\ p # <<>> => Head(p) \in S /\ Tail(p) \in Seq(S)
         /\ p # <<>> /\ Ends(p) /\ ~Final(Head(p)) => Ends(Tail(p))
         /\ AfterReturn(p) \in Seq(S)
         /\ Ends(p) => p # <<>>
<1>1. p # <<>> => Head(p) \in S /\ Tail(p) \in Seq(S)
  OBVIOUS
<1>2. ASSUME p # <<>>, Ends(p), ~Final(Head(p)) PROVE Ends(Tail(p))
  <2>1. PICK i \in DOMAIN p : Final(p[i])
    BY <1>2, Zenon DEF Ends
  <2>2. i # 1 /\ i \in 1..Len(p)
    BY <1>2, <2>1
  <2>3. i - 1 \in DOMAIN Tail(p) /\ Tail(p)[i - 1] = p[i]
    BY <1>2, <2>2
  <2> QED
    BY <2>1, <2>3, Zenon DEF Ends
<1>3. AfterReturn(p) \in Seq(S)
  <2> DEFINE marks == {i \in DOMAIN p : p[i].op = "return"}
             first == CHOOSE i \in marks : \A j \in marks : i <= j
  <2>1. CASE marks = {}
    BY <2>1 DEF AfterReturn
  <2>2. CASE marks # {}
    <3>1. \E i \in marks : \A j \in marks : i <= j
      <4>1. marks \subseteq Nat
        OBVIOUS
      <4> HIDE DEF marks
      <4>2. PICK n \in marks : \A j \in marks : ~ (<<j, n>> \in OpToRel(<, Nat))
        BY <4>1, <2>2, NatLessThanWellFounded, WFMin, Zenon
      <4>3. ASSUME NEW j \in marks PROVE n <= j
        <5>1. j < n => <<j, n>> \in OpToRel(<, Nat)
          BY <4>1 DEF OpToRel
        <5>2. ~ (j < n)
          BY <4>2, <5>1
        <5> QED
          BY <4>1, <5>2
      <4> QED
        BY <4>3
    <3>2. first \in marks
      BY <3>1, Zenon
    <3>3. first \in 1..Len(p)
      BY <3>2
    <3> HIDE DEF first
    <3>4. SubSeq(p, 1 + first, Len(p)) \in Seq(S)
      BY <3>3
    <3> QED
      BY <2>2, <3>4 DEF AfterReturn, first
  <2> QED
    BY <2>1, <2>2
<1> QED
  BY <1>1, <1>2, <1>3 DEF Ends

-----------------------------------------------------------------------------
(* Types.  A call that has no result yet has a plan that comes to one.       *)
Fields ==
  {"task", "todo", "needs", "listing", "verdict", "did", "met", "succeeded", "asked", "blind",
   "stale", "moved", "trampled", "overtaken", "undone", "shared"}
Sound(c, m) ==
  /\ DOMAIN c = Fields
  /\ c.verdict \in Verdicts
  /\ c.listing \in [Items(m) -> Versions] \union {<<>>}
  /\ IF c.task = Idle THEN c.todo = <<>> /\ c.needs = {}
     ELSE /\ c.task \in Tasks(m) /\ c.todo \in Parts(c.task)
          /\ c.needs \subseteq c.task.names
          /\ c.verdict = "running" => Ends(c.todo)

Machine ==
  /\ module \in Modules /\ spent \in 0..MaxCost
  /\ disk \in [Items(module) -> Versions] /\ booted \in [Items(module) -> Versions]
TypeInv ==
  /\ Machine
  /\ DOMAIN call = Threads /\ \A t \in Threads : Sound(call[t], module)

(* The calls that go on with a part of what they had left, or with a result. *)
LEMMA StillSound ==
  ASSUME NEW m, NEW c, Sound(c, m), c.task # Idle,
         NEW d, DOMAIN d = Fields, d.task = c.task, d.needs = c.needs,
         d.listing \in [Items(m) -> Versions] \union {<<>>},
         d.todo = c.todo, d.verdict = c.verdict
  PROVE  Sound(d, m)
BY DEF Sound

LEMMA GoOnSound ==
  ASSUME NEW m, NEW c, Sound(c, m), c.task # Idle, c.todo # <<>>, ~Final(Head(c.todo))
  PROVE  /\ Sound(GoOn(c), m)
         /\ GoOn(c).task = c.task /\ GoOn(c).todo = Tail(c.todo)
<1> DEFINE d == GoOn(c)
<1>1. /\ DOMAIN d = Fields /\ d.task = c.task /\ d.needs = c.needs /\ d.listing = c.listing
      /\ d.verdict = c.verdict /\ d.todo = Tail(c.todo)
  BY DEF GoOn, Sound, Fields
<1>2. /\ Tail(c.todo) \in Parts(c.task)
      /\ Ends(c.todo) => Ends(Tail(c.todo))
  BY Tails DEF Sound, Parts
<1> HIDE DEF d
<1>3. Sound(d, m)
  BY <1>1, <1>2 DEF Sound
<1> QED
  BY <1>1, <1>3 DEF d

LEMMA EndSound ==
  ASSUME NEW m, NEW c, Sound(c, m), c.task # Idle,
         NEW v \in {"ok", "changed", "failed", "err"}
  PROVE  Sound(End(c, v), m) /\ End(c, v).task = c.task /\ End(c, v).verdict # "running"
<1> DEFINE d == End(c, v)
<1>1. /\ DOMAIN d = Fields /\ d.task = c.task /\ d.needs = {} /\ d.listing = <<>>
      /\ d.todo = IF v = "err" THEN <<>> ELSE AfterReturn(c.todo)
      /\ d.verdict = IF c.verdict = "running" \/ v = "err" THEN v ELSE c.verdict
  BY DEF End, Sound, Fields
<1>2. AfterReturn(c.todo) \in Parts(c.task) /\ <<>> \in Parts(c.task)
  BY Tails DEF Sound, Parts
<1> HIDE DEF d
<1>3. d.verdict \in Verdicts /\ d.verdict # "running"
  BY <1>1 DEF Sound, Verdicts
<1>4. Sound(d, m)
  BY <1>1, <1>2, <1>3 DEF Sound
<1> QED
  BY <1>1, <1>3, <1>4 DEF d

LEMMA LocalSound ==
  ASSUME TypeInv, NEW t \in Threads, NEW c, Sound(c, module), Local(t, c)
  PROVE  TypeInv'
<1>1. call' = [call EXCEPT ![t] = c] /\ UNCHANGED <<module, disk, booted, spent>>
  BY DEF Local
<1>2. DOMAIN call' = Threads /\ \A u \in Threads : call'[u] = IF u = t THEN c ELSE call[u]
  BY <1>1 DEF TypeInv
<1>3. Machine'
  BY <1>1 DEF TypeInv, Machine
<1>4. \A u \in Threads : Sound(call'[u], module)
  BY <1>2 DEF TypeInv
<1>5. \A u \in Threads : Sound(call[u], module)'
  BY <1>1, <1>4 DEF Sound
<1> QED
  BY <1>2, <1>3, <1>5 DEF TypeInv

(* A move of t's, whether or not it also changes what no item stands for.    *)
Moves(t, f, c) == \E made \in Made(Step(t).cmd) \union {FALSE} : Move(t, f, made, c)
(* What a successful command comes to.                                       *)
Onto(t, targets, f, says) ==
  [Past(t, targets) EXCEPT
     !.did = @ \/ says, !.succeeded = TRUE,
     !.met = @ \/ \E i \in targets : f[i] = disk[i],
     !.listing = IF Step(t).op = "list" THEN booted ELSE @,
     !.stale = @ \/ (Step(t).op = "list" /\ booted # disk)]

LEMMA SuccessMoves ==
  ASSUME NEW t, Success(t)
  PROVE  \E targets \in Targets(t) : \E f \in Succeeding(t, targets) :
         \E says \in IF Step(t).cmd \in Elsewhere THEN {TRUE, f # disk} ELSE {f # disk} :
           Moves(t, f, Onto(t, targets, f, says))
<1>1. PICK targets \in Targets(t) : \E f \in Succeeding(t, targets) :
        \E says \in IF Step(t).cmd \in Elsewhere THEN {TRUE, f # disk} ELSE {f # disk} :
        \E made \in Made(Step(t).cmd) : Move(t, f, made, Onto(t, targets, f, says))
  BY Zenon DEF Success, Onto
<1>2. PICK f \in Succeeding(t, targets) :
        \E says \in IF Step(t).cmd \in Elsewhere THEN {TRUE, f # disk} ELSE {f # disk} :
        \E made \in Made(Step(t).cmd) : Move(t, f, made, Onto(t, targets, f, says))
  BY <1>1, Zenon
<1>3. PICK says \in IF Step(t).cmd \in Elsewhere THEN {TRUE, f # disk} ELSE {f # disk} :
        \E made \in Made(Step(t).cmd) : Move(t, f, made, Onto(t, targets, f, says))
  BY <1>2, Zenon
<1>4. Moves(t, f, Onto(t, targets, f, says))
  BY <1>3, Zenon DEF Moves
<1> QED
  BY <1>4, Zenon

LEMMA FailureMoves ==
  ASSUME NEW t, Failure(t)
  PROVE  \E targets \in Targets(t) :
           \/ \E f \in Failing(t, targets) : Moves(t, f, Consequence(t, targets, Step(t).bad))
           \/ Moves(t, disk, Consequence(t, targets, Step(t).lost))
<1>1. PICK targets \in Targets(t) :
        \/ \E f \in Failing(t, targets) : \E made \in Made(Step(t).cmd) :
             Move(t, f, made, Consequence(t, targets, Step(t).bad))
        \/ Move(t, disk, FALSE, Consequence(t, targets, Step(t).lost))
  BY Zenon DEF Failure
<1>2. CASE Move(t, disk, FALSE, Consequence(t, targets, Step(t).lost))
  BY <1>2, Zenon DEF Moves
<1>3. CASE \E f \in Failing(t, targets) : \E made \in Made(Step(t).cmd) :
             Move(t, f, made, Consequence(t, targets, Step(t).bad))
  BY <1>3, Zenon DEF Moves
<1> QED
  BY <1>1, <1>2, <1>3, Zenon

(* Of the other calls a move only notes what it does to them. *)
LEMMA MoveSound ==
  ASSUME TypeInv, NEW t \in Threads, NEW f \in [DOMAIN disk -> Versions],
         NEW c, Sound(c, module), c.task # Idle, Moves(t, f, c)
  PROVE  TypeInv'
<1>0. PICK made \in Made(Step(t).cmd) \union {FALSE} : Move(t, f, made, c)
  BY Zenon DEF Moves
<1>1. DOMAIN call' = Threads /\ \E x, y : call'[t] = [c EXCEPT !.moved = x, !.trampled = y]
  BY <1>0, Zenon DEF Move
<1>2. \A u \in Threads \ {t} :
        \/ call'[u] = call[u]
        \/ /\ call[u].task # Idle
           /\ \E x, y : call'[u] = [call[u] EXCEPT !.overtaken = x, !.undone = y]
  BY <1>0, Zenon DEF Move
<1>3. Machine'
  BY <1>0 DEF Move, TypeInv, Machine
<1>4. module' = module
  BY <1>0 DEF Move
<1>5. Sound(call'[t], module)
  BY <1>1, StillSound DEF Sound, Fields
<1>6. ASSUME NEW u \in Threads, u # t PROVE Sound(call'[u], module)
  <2>1. Sound(call[u], module)
    BY DEF TypeInv
  <2>2. CASE call'[u] = call[u]
    BY <2>1, <2>2
  <2>3. CASE call[u].task # Idle /\ \E x, y : call'[u] = [call[u] EXCEPT !.overtaken = x, !.undone = y]
    BY <2>1, <2>3, StillSound DEF Sound, Fields
  <2> QED
    BY <1>2, <1>6, <2>2, <2>3
<1>7. \A u \in Threads : Sound(call[u], module)'
  BY <1>4, <1>5, <1>6 DEF Sound
<1> QED
  BY <1>1, <1>3, <1>7, Zenon DEF TypeInv

(* What a call that has a step left has. *)
LEMMA RunningFacts ==
  ASSUME TypeInv, NEW t \in Threads, Running(t)
  PROVE  /\ call[t].task # Idle /\ call[t].task \in Tasks(module) /\ Sound(call[t], module)
         /\ call[t].todo \in Parts(call[t].task) /\ call[t].todo # <<>>
         /\ Step(t) = Head(call[t].todo) /\ Step(t) \in StepsOf(call[t].task)
         /\ call[t].needs \subseteq call[t].task.names
<1>1. Sound(call[t], module) /\ call[t].todo # <<>>
  BY DEF TypeInv, Running
<1>2. /\ call[t].task # Idle /\ call[t].task \in Tasks(module)
      /\ call[t].todo \in Parts(call[t].task) /\ call[t].needs \subseteq call[t].task.names
  BY <1>1 DEF Sound
<1>3. Head(call[t].todo) \in StepsOf(call[t].task)
  BY <1>1, <1>2, Tails DEF Parts
<1> QED
  BY <1>1, <1>2, <1>3 DEF Step

LEMMA BeginSound ==
  ASSUME TypeInv, NEW t \in Threads, NEW task \in Tasks(module), Begin(t, task)
  PROVE  TypeInv'
<1>1. module \in Modules /\ module' = module
  BY DEF TypeInv, Machine, Begin
<1>2. /\ task # Idle /\ Cost(task) \in Nat /\ MaxCost \in Nat
      /\ Invoke(task) \in Parts(task) /\ Ends(Invoke(task))
  BY <1>1, ManagedAssumption, Invocations DEF Plans
<1>3. Machine'
  <2>1. spent + Cost(task) <= MaxCost /\ spent' = spent + Cost(task)
    BY DEF Begin
  <2>2. spent' \in 0..MaxCost
    BY <1>2, <2>1 DEF TypeInv, Machine
  <2> QED
    BY <2>2 DEF TypeInv, Machine, Begin
<1>4. /\ DOMAIN call' = Threads
      /\ \E x : call'[t] = Started(task, Invoke(task), x)
      /\ \A u \in Threads \ {t} : \E x : call'[u] = [call[u] EXCEPT !.shared = x]
  BY Zenon DEF Begin
<1>5. Sound(call'[t], module)
  BY <1>2, <1>4 DEF Sound, Started, Fields, Verdicts
<1>6. ASSUME NEW u \in Threads \ {t} PROVE Sound(call'[u], module)
  BY <1>4 DEF TypeInv, Sound, Fields
<1>7. \A u \in Threads : Sound(call[u], module)'
  BY <1>1, <1>5, <1>6 DEF Sound
<1> QED
  BY <1>3, <1>4, <1>7 DEF TypeInv

LEMMA LocalStepsSound ==
  ASSUME TypeInv, NEW t \in Threads, StopOrGoOn(t) \/ AskNext(t) \/ Select(t)
  PROVE  TypeInv'
<1> DEFINE c == call[t]
           s == Step(t)
<1>1. Running(t) /\ s.op \in {"stop", "ask", "take", "pick", "branch", "some", "each"}
  BY DEF StopOrGoOn, AskNext, Select, At, Step
<1>2. /\ c.task # Idle /\ Sound(c, module) /\ c.todo # <<>> /\ s = Head(c.todo)
      /\ s \in StepsOf(c.task) /\ c.todo \in Parts(c.task) /\ c.needs \subseteq c.task.names
  BY <1>1, RunningFacts
<1>3. ~Final(s) => Sound(GoOn(c), module)
  BY <1>2, GoOnSound
<1>4. \A d : Sound(d, module) /\ Local(t, d) => TypeInv'
  BY LocalSound
<1>5. ASSUME StopOrGoOn(t) PROVE TypeInv'
  <2>1. s.op = "stop" /\ s.verdict \in {"ok", "changed", "failed", "err"}
    BY <1>2, <1>5, StepFacts DEF StopOrGoOn, At, Step
  <2>2. PICK holds \in Holds(s.if, c) : Local(t, IF holds THEN End(c, s.verdict) ELSE GoOn(c))
    BY <1>5 DEF StopOrGoOn
  <2>3. CASE holds
    BY <1>2, <1>4, <2>1, <2>2, <2>3, EndSound
  <2>4. CASE ~holds
    <3>1. s.if # "always"
      BY <2>2, <2>4 DEF Holds
    <3> QED
      BY <1>3, <1>4, <2>2, <2>4, <3>1 DEF Final
  <2> QED
    BY <2>3, <2>4
<1>6. ASSUME AskNext(t) PROVE TypeInv'
  <2>1. s.op = "ask" /\ s.of \subseteq c.task.names
    BY <1>2, <1>6, StepFacts DEF AskNext, At, Step
  <2>2. PICK i \in s.of : \E yes, blind : Answer(t, i, yes, blind)
    BY <1>6, Zenon DEF AskNext
  <2>3. PICK yes, blind : Answer(t, i, yes, blind)
    BY <2>2, Zenon
  <2> DEFINE others == s.of \ {i}
             rest == IF others = {} THEN Tail(c.todo)
                     ELSE <<[s EXCEPT !.of = others]>> \o Tail(c.todo)
             d == [c EXCEPT !.needs = IF yes THEN @ \union {i} ELSE @, !.asked = TRUE,
                            !.blind = @ \/ blind, !.todo = rest]
  <2>4. Local(t, d)
    BY <2>3, Zenon DEF Answer
  <2>5. rest \in Parts(c.task) /\ (Ends(c.todo) => Ends(rest))
    <3>1. Tail(c.todo) \in Parts(c.task) /\ (Ends(c.todo) => Ends(Tail(c.todo)))
      BY <1>2, <2>1, Tails DEF Final, Parts
    <3>2. [s EXCEPT !.of = others] \in StepsOf(c.task)
      BY <1>2, <2>1, StepFacts
    <3>3. <<[s EXCEPT !.of = others]>> \in Parts(c.task)
      BY <3>2 DEF Parts
    <3> HIDE DEF others
    <3> QED
      BY <3>1, <3>3, Joining DEF Plans
  <2> HIDE DEF rest
  <2>6. /\ DOMAIN d = Fields /\ d.task = c.task /\ d.todo = rest /\ d.verdict = c.verdict
        /\ d.listing = c.listing /\ d.needs \subseteq c.needs \union {i}
    BY <1>2 DEF Sound, Fields
  <2> HIDE DEF d
  <2>7. Sound(d, module)
    BY <1>2, <2>1, <2>5, <2>6 DEF Sound
  <2> QED
    BY <1>4, <2>4, <2>7
<1>7. ASSUME Select(t) PROVE TypeInv'
  <2> DEFINE g == GoOn(c)
  <2>1. Sound(g, module) /\ g.task = c.task /\ g.todo = Tail(c.todo)
    <3>1. s.op # "stop"
      BY <1>7 DEF Select, At, Step
    <3> QED
      BY <1>2, <3>1, GoOnSound DEF Final
  <2>2. \A P \in SUBSET c.task.names : \A asked :
          /\ Sound([g EXCEPT !.needs = P], module)
          /\ Sound([g EXCEPT !.needs = P, !.asked = asked], module)
    <3> HIDE DEF g
    <3>1. SUFFICES ASSUME NEW P \in SUBSET c.task.names, NEW asked
                   PROVE  /\ Sound([g EXCEPT !.needs = P], module)
                          /\ Sound([g EXCEPT !.needs = P, !.asked = asked], module)
      OBVIOUS
    <3> DEFINE d == [g EXCEPT !.needs = P]
               e == [g EXCEPT !.needs = P, !.asked = asked]
    <3>2. DOMAIN g = Fields
      BY <2>1 DEF Sound
    <3>3. /\ DOMAIN d = Fields /\ d.needs = P /\ d.verdict = g.verdict /\ d.listing = g.listing
          /\ d.task = g.task /\ d.todo = g.todo
      BY <3>2 DEF Fields
    <3>4. /\ DOMAIN e = Fields /\ e.needs = P /\ e.verdict = g.verdict /\ e.listing = g.listing
          /\ e.task = g.task /\ e.todo = g.todo
      BY <3>2 DEF Fields
    <3>5. g.task # Idle
      BY <1>2, <2>1
    <3> HIDE DEF d, e
    <3>6. Sound(d, module)
      BY <2>1, <3>3, <3>5 DEF Sound
    <3>7. Sound(e, module)
      BY <2>1, <3>4, <3>5 DEF Sound
    <3> QED
      BY <3>6, <3>7 DEF d, e
  <2>3. CASE s.op = "take" /\ Local(t, [g EXCEPT !.needs = s.of])
    BY <1>2, <1>4, <2>2, <2>3, StepFacts
  <2>4. CASE s.op = "pick" /\ Local(t, [g EXCEPT !.needs = Picked(s, c.listing), !.asked = TRUE])
    <3>1. Picked(s, c.listing) \in SUBSET c.task.names
      BY <1>2, <2>4, StepFacts DEF Picked
    <3> QED
      BY <1>4, <2>2, <2>4, <3>1
  <2>5. CASE /\ s.op = "branch"
             /\ Local(t, [g EXCEPT !.todo = IF c.needs = {} THEN @ ELSE s.then \o @])
    <3>1. s.then \in Parts(c.task)
      BY <1>2, <2>5, StepFacts, Levels
    <3>2. /\ g.todo \in Parts(c.task) /\ s.then \o g.todo \in Parts(c.task)
          /\ Ends(g.todo) => Ends(s.then \o g.todo)
      BY <1>2, <2>1, <3>1, Joining DEF Plans, Sound
    <3>3. Sound([g EXCEPT !.todo = s.then \o @], module) /\ Sound([g EXCEPT !.todo = @], module)
      <4> HIDE DEF g
      <4> QED
        BY <1>2, <2>1, <3>2 DEF Sound, Fields
    <3> QED
      BY <1>4, <2>5, <3>3
  <2>6. CASE Local(t, g)
    BY <1>4, <2>1, <2>6
  <2> QED
    BY <1>7, <2>3, <2>4, <2>5, <2>6, Zenon DEF Select, At, Step
<1> QED
  BY <1>5, <1>6, <1>7

LEMMA PastSound ==
  ASSUME NEW m, NEW c, Sound(c, m), c.task # Idle, c.todo # <<>>, ~Final(Head(c.todo)), NEW P
  PROVE  /\ Sound([c EXCEPT !.needs = @ \ P], m) /\ Sound(GoOn(c), m)
         /\ [c EXCEPT !.needs = @ \ P].task = c.task /\ GoOn(c).task = c.task
BY GoOnSound DEF Sound, Fields

LEMMA CommandStepsSound ==
  ASSUME TypeInv, NEW t \in Threads, Success(t) \/ Failure(t)
  PROVE  TypeInv'
<1> DEFINE c == call[t]
           s == Step(t)
<1>1. Running(t) /\ s.op \in {"run", "some", "each", "list"}
  BY DEF Success, Failure, At, Step
<1>2. /\ c.task # Idle /\ Sound(c, module) /\ c.todo # <<>> /\ s = Head(c.todo)
      /\ s \in StepsOf(c.task) /\ c.todo \in Parts(c.task) /\ c.needs \subseteq c.task.names
      /\ ~Final(s)
  BY <1>1, RunningFacts DEF Final
<1>3. \A targets : Sound(Past(t, targets), module) /\ Past(t, targets).task = c.task
  BY <1>2, PastSound DEF Past
<1>4. \A f \in [DOMAIN disk -> Versions] : \A d :
        Sound(d, module) /\ d.task # Idle /\ Moves(t, f, d) => TypeInv'
  BY MoveSound
<1>5. ASSUME Success(t) PROVE TypeInv'
  <2>1. PICK targets \in Targets(t) : \E f \in Succeeding(t, targets) : \E says :
          Moves(t, f, Onto(t, targets, f, says))
    BY <1>5, SuccessMoves, Zenon
  <2>2. PICK f \in Succeeding(t, targets) : \E says : Moves(t, f, Onto(t, targets, f, says))
    BY <2>1, Zenon
  <2>3. PICK says : Moves(t, f, Onto(t, targets, f, says))
    BY <2>2, Zenon
  <2> DEFINE p == Past(t, targets)
             met == p.met \/ \E i \in targets : f[i] = disk[i]
             listing == IF s.op = "list" THEN booted ELSE p.listing
             d == [p EXCEPT !.did = p.did \/ says, !.succeeded = TRUE, !.met = met,
                            !.listing = listing,
                            !.stale = p.stale \/ (s.op = "list" /\ booted # disk)]
  <2>4. f \in [DOMAIN disk -> Versions]
    BY DEF Succeeding
  <2>5. listing \in [Items(module) -> Versions] \union {<<>>}
    BY <1>3 DEF Sound, TypeInv, Machine
  <2>6. Sound(p, module) /\ p.task = c.task
    BY <1>3
  <2>8. Moves(t, f, d)
    BY <2>3 DEF Onto
  <2> HIDE DEF p, met, listing
  <2>9. /\ DOMAIN d = Fields /\ d.task = p.task /\ d.todo = p.todo /\ d.verdict = p.verdict
        /\ d.listing = listing /\ d.needs = p.needs
    BY <2>6 DEF Sound, Fields
  <2> HIDE DEF d
  <2>7. Sound(d, module) /\ d.task = c.task
    BY <1>2, <2>5, <2>6, <2>9 DEF Sound
  <2> QED
    BY <1>2, <1>4, <2>4, <2>7, <2>8
<1>6. ASSUME Failure(t) PROVE TypeInv'
  <2>1. PICK targets \in Targets(t), f \in [DOMAIN disk -> Versions], leads \in {s.bad, s.lost} :
          Moves(t, f, Consequence(t, targets, leads))
    <3>1. disk \in [DOMAIN disk -> Versions]
      BY DEF TypeInv, Machine
    <3> QED
      BY <1>6, <3>1, Zenon DEF Failure, Failing, Moves
  <2>2. leads \in Leads \union {"else"} /\ (leads = "else" => s.else \in Parts(c.task))
    BY <1>1, <1>2, <2>1, StepFacts, Levels
  <2> DEFINE d == Consequence(t, targets, leads)
  <2>3. Sound(d, module) /\ d.task = c.task
    <3>1. CASE leads = "next"
      <4>1. \E blind : d = [Past(t, targets) EXCEPT !.blind = blind]
        BY <3>1, Zenon DEF Consequence
      <4> QED
        BY <1>2, <1>3, <4>1, StillSound DEF Sound, Fields
    <3>2. CASE leads = "else"
      <4> DEFINE g == GoOn(c)
      <4>1. d = [g EXCEPT !.todo = s.else \o @]
        BY <3>2 DEF Consequence
      <4>2. Sound(g, module) /\ g.task = c.task
        BY <1>2, GoOnSound
      <4> HIDE DEF g, d
      <4>3. s.else \o g.todo \in Parts(c.task) /\ (Ends(g.todo) => Ends(s.else \o g.todo))
        BY <1>2, <2>2, <3>2, <4>2, Joining DEF Plans, Sound
      <4> QED
        BY <1>2, <4>1, <4>2, <4>3 DEF Sound, Fields
    <3>3. CASE leads \in {"failed", "err"}
      <4>1. d = End(c, leads)
        BY <3>3 DEF Consequence
      <4> QED
        BY <1>2, <3>3, <4>1, EndSound
    <3> QED
      BY <2>2, <3>1, <3>2, <3>3 DEF Leads
  <2> HIDE DEF d
  <2> QED
    BY <1>2, <1>4, <2>1, <2>3 DEF d
<1> QED
  BY <1>5, <1>6

LEMMA CrashSound ==
  ASSUME TypeInv, NEW reboot \in BOOLEAN, Crash(reboot)
  PROVE  TypeInv'
<1>1. module' = module /\ Machine'
  BY DEF Crash, TypeInv, Machine
<1>2. DOMAIN call' = Threads /\ \A t \in Threads : call'[t] = Between
  BY DEF Crash
<1>3. Sound(Between, module)
  BY DEF Sound, Between, Started, Fields, Verdicts
<1>4. \A t \in Threads : Sound(call[t], module)'
  BY <1>1, <1>2, <1>3 DEF Sound
<1> QED
  BY <1>1, <1>2, <1>4 DEF TypeInv

LEMMA TypeInit == Init => TypeInv
<1> SUFFICES ASSUME Init PROVE TypeInv
  OBVIOUS
<1>1. Machine
  BY ManagedAssumption DEF Init, Machine
<1>2. \A t \in Threads : Sound(call[t], module)
  BY DEF Init, Sound, Between, Started, Fields, Verdicts
<1> QED
  BY <1>1, <1>2 DEF Init, TypeInv

LEMMA TypeStep == TypeInv /\ [Next]_vars => TypeInv'
<1> SUFFICES ASSUME TypeInv, [Next]_vars PROVE TypeInv'
  OBVIOUS
<1>1. CASE UNCHANGED vars
  BY <1>1 DEF vars, TypeInv, Machine, Sound
<1>2. ASSUME NEW t \in Threads, NEW task \in Tasks(module), Begin(t, task) PROVE TypeInv'
  BY <1>2, BeginSound
<1>3. ASSUME NEW t \in Threads, StopOrGoOn(t) \/ AskNext(t) \/ Select(t) PROVE TypeInv'
  BY <1>3, LocalStepsSound
<1>4. ASSUME NEW t \in Threads, Success(t) \/ Failure(t) PROVE TypeInv'
  BY <1>4, CommandStepsSound
<1>5. ASSUME NEW reboot \in BOOLEAN, Crash(reboot) PROVE TypeInv'
  BY <1>5, CrashSound
<1> QED
  BY <1>1, <1>2, <1>3, <1>4, <1>5, Zenon DEF Next

(* TypeCorrect: a call is about items of the machine, and a module that has  *)
(* not come to a result has a step left: no plan of the 46 runs out without  *)
(* one, whichever way its questions and commands go.                         *)
THEOREM TypeCorrect == Spec => []TypeOK
<1>1. TypeInv => TypeOK
  <2> SUFFICES ASSUME TypeInv, NEW t \in Threads
               PROVE  LET c == call[t]
                      IN  /\ c.task \in Tasks(module) \union {Idle}
                          /\ c.needs \subseteq Items(module) /\ c.verdict \in Verdicts
                          /\ c.listing \in [Items(module) -> Versions] \union {<<>>}
                          /\ (c.verdict = "running" /\ c.task # Idle => Running(t))
    BY DEF TypeOK, TypeInv, Machine
  <2>1. Sound(call[t], module) /\ module \in Modules
    BY DEF TypeInv, Machine
  <2>2. call[t].task # Idle => call[t].task.names \subseteq Items(module)
    BY <2>1, ManagedAssumption DEF Sound
  <2>3. Ends(call[t].todo) => call[t].todo # <<>>
    BY DEF Ends
  <2> QED
    BY <2>1, <2>2, <2>3 DEF Sound, Running
<1> QED
  BY <1>1, TypeInit, TypeStep, PTL DEF Spec

-----------------------------------------------------------------------------
(* What a step makes of a call c: a result, or what is left of its plan.     *)
Ended(c, d, v) ==
  /\ d.todo = IF v = "err" THEN <<>> ELSE AfterReturn(c.todo)
  /\ d.verdict = IF c.verdict = "running" \/ v = "err" THEN v ELSE c.verdict
Onward(c, d) ==
  /\ d.verdict = c.verdict
  /\ LET s == Head(c.todo)
     IN  \/ d.todo = Tail(c.todo)
         \/ s.op = "ask" /\ \E P \in SUBSET s.of : d.todo = <<[s EXCEPT !.of = P]>> \o Tail(c.todo)
         \/ s.op = "branch" /\ d.todo = s.then \o Tail(c.todo)
         \/ s.op = "run" /\ "else" \in {s.bad, s.lost} /\ d.todo = s.else \o Tail(c.todo)
         \/ s.op = "each" /\ d.todo = c.todo

(* What the other calls do not notice.                                       *)
Apart(t) ==
  \A u \in Threads \ {t} :
    /\ call'[u].task = call[u].task /\ call'[u].todo = call[u].todo
    /\ call'[u].verdict = call[u].verdict /\ call'[u].listing = call[u].listing
    /\ call'[u].did = call[u].did /\ call'[u].shared = call[u].shared
    /\ call'[u].moved = call[u].moved /\ call'[u].trampled = call[u].trampled

LEMMA LocalShape ==
  ASSUME TypeInv, NEW t \in Threads, StopOrGoOn(t) \/ AskNext(t) \/ Select(t)
  PROVE  /\ UNCHANGED <<module, disk, booted>> /\ Apart(t)
         /\ LET c == call[t]
                d == call'[t]
                s == Head(c.todo)
            IN  /\ d.task = c.task /\ d.shared = c.shared /\ d.did = c.did
                /\ d.moved = c.moved /\ d.trampled = c.trampled
                /\ \/ Onward(c, d) /\ d.listing = c.listing /\ s.op # "list"
                   \/ Ended(c, d, s.verdict) /\ s.op = "stop" /\ \E h \in Holds(s.if, c) : h
<1> DEFINE c == call[t]
           s == Head(c.todo)
           Kept(d) == /\ DOMAIN d = Fields
                      /\ d.task = c.task /\ d.shared = c.shared /\ d.did = c.did
                      /\ d.moved = c.moved /\ d.trampled = c.trampled
           Went(d) == /\ Kept(d)
                      /\ \/ Onward(c, d) /\ d.listing = c.listing /\ s.op # "list"
                         \/ Ended(c, d, s.verdict) /\ s.op = "stop" /\ \E h \in Holds(s.if, c) : h
<1>1. Running(t) /\ s.op \in {"stop", "ask", "take", "pick", "branch", "some", "each"}
  BY DEF StopOrGoOn, AskNext, Select, At
<1>2. DOMAIN c = Fields
  BY <1>1, RunningFacts DEF Sound
<1>3. DOMAIN call = Threads
  BY DEF TypeInv
<1>4. SUFFICES \E d : Local(t, d) /\ Went(d)
  <2>1. ASSUME NEW d, Local(t, d), Went(d)
        PROVE  UNCHANGED <<module, disk, booted>> /\ Apart(t) /\ Went(call'[t])
    <3>1. call' = [call EXCEPT ![t] = d] /\ UNCHANGED <<module, disk, booted>>
      BY <2>1 DEF Local
    <3>2. call'[t] = d /\ \A u \in Threads \ {t} : call'[u] = call[u]
      BY <1>3, <3>1
    <3> HIDE DEF Went
    <3> QED
      BY <2>1, <3>1, <3>2, Zenon DEF Apart
  <2> QED
    BY <2>1, Zenon
<1>5. LET g == GoOn(c) IN Kept(g) /\ Onward(c, g) /\ g.listing = c.listing /\ g.todo = Tail(c.todo)
  BY <1>2 DEF GoOn, Fields, Onward
<1>6. CASE StopOrGoOn(t)
  <2>1. PICK holds \in Holds(s.if, c) : Local(t, IF holds THEN End(c, s.verdict) ELSE GoOn(c))
    BY <1>6 DEF StopOrGoOn, Step
  <2>2. s.op = "stop"
    BY <1>6 DEF StopOrGoOn, At
  <2>3. CASE holds
    <3>1. Kept(End(c, s.verdict)) /\ Ended(c, End(c, s.verdict), s.verdict)
      BY <1>2 DEF End, Ended, Fields
    <3>2. \E h \in Holds(s.if, c) : h
      BY <2>1, <2>3, Zenon
    <3> QED
      BY <2>1, <2>2, <2>3, <3>1, <3>2
  <2>4. CASE ~holds
    BY <1>5, <2>1, <2>2, <2>4
  <2> QED
    BY <2>3, <2>4
<1>7. CASE AskNext(t)
  <2>1. s.op = "ask"
    BY <1>7 DEF AskNext, At
  <2>2. PICK i \in s.of : \E yes, blind : Answer(t, i, yes, blind)
    BY <1>7, Zenon DEF AskNext, Step
  <2>3. PICK yes, blind : Answer(t, i, yes, blind)
    BY <2>2, Zenon
  <2> DEFINE others == s.of \ {i}
             rest == IF others = {} THEN Tail(c.todo)
                     ELSE <<[s EXCEPT !.of = others]>> \o Tail(c.todo)
             d == [c EXCEPT !.needs = IF yes THEN @ \union {i} ELSE @, !.asked = TRUE,
                            !.blind = @ \/ blind, !.todo = rest]
  <2>4. Local(t, d)
    BY <2>3, Zenon DEF Answer, Step
  <2> HIDE DEF rest
  <2>5. Kept(d) /\ d.todo = rest /\ d.verdict = c.verdict /\ d.listing = c.listing
    BY <1>2 DEF Fields
  <2> HIDE DEF d
  <2>6. rest = Tail(c.todo) \/ \E P \in SUBSET s.of : rest = <<[s EXCEPT !.of = P]>> \o Tail(c.todo)
    <3>1. others \in SUBSET s.of
      OBVIOUS
    <3> QED
      BY <3>1, Zenon DEF rest
  <2>7. Onward(c, d)
    BY <2>1, <2>5, <2>6, Zenon DEF Onward
  <2> QED
    BY <2>1, <2>4, <2>5, <2>7
<1>8. CASE Select(t)
  <2>1. s.op # "list"
    BY <1>1
  <2> DEFINE g == GoOn(c)
  <2>2. DOMAIN g = Fields
    BY <1>5
  <2>3. \/ Local(t, g) \/ \E P : Local(t, [g EXCEPT !.needs = P])
        \/ \E P : Local(t, [g EXCEPT !.needs = P, !.asked = TRUE])
        \/ s.op = "branch" /\ Local(t, [g EXCEPT !.todo = IF c.needs = {} THEN @ ELSE s.then \o @])
    BY <1>8, Zenon DEF Select, At, Step
  <2>4. g.verdict = c.verdict /\ g.todo = Tail(c.todo) /\ g.listing = c.listing /\ Kept(g)
    BY <1>5 DEF Onward
  <2> HIDE DEF g
  <2>5. CASE \/ Local(t, g) \/ \E P : Local(t, [g EXCEPT !.needs = P])
             \/ \E P : Local(t, [g EXCEPT !.needs = P, !.asked = TRUE])
    <3>1. PICK d : /\ Local(t, d)
                   /\ \/ d = g \/ \E P : d = [g EXCEPT !.needs = P]
                      \/ \E P : d = [g EXCEPT !.needs = P, !.asked = TRUE]
      BY <2>5, Zenon
    <3>2. Kept(d) /\ d.verdict = c.verdict /\ d.todo = Tail(c.todo) /\ d.listing = c.listing
      BY <2>4, <3>1 DEF Fields
    <3> QED
      BY <2>1, <3>1, <3>2 DEF Onward
  <2>6. CASE s.op = "branch" /\ Local(t, [g EXCEPT !.todo = IF c.needs = {} THEN @ ELSE s.then \o @])
    <3> DEFINE d == [g EXCEPT !.todo = IF c.needs = {} THEN @ ELSE s.then \o @]
    <3>1. Kept(d) /\ d.verdict = c.verdict /\ d.listing = c.listing
          /\ d.todo = IF c.needs = {} THEN Tail(c.todo) ELSE s.then \o Tail(c.todo)
      BY <2>4 DEF Fields
    <3>2. Onward(c, d)
      BY <2>6, <3>1, Zenon DEF Onward
    <3> QED
      BY <2>1, <2>6, <3>1, <3>2
  <2> QED
    BY <2>3, <2>5, <2>6
<1> QED
  BY <1>6, <1>7, <1>8

(* And what a command makes of the machine.                                  *)
Moved(t, targets, f, c, d) ==
  /\ module' = module /\ disk' = f /\ booted' = IF module \in Staged THEN booted ELSE f
  /\ Apart(t)
  /\ d.task = c.task /\ d.shared = c.shared
  /\ d.moved => c.moved \/ f # disk \/ Head(c.todo).cmd \in Unseen
  /\ d.trampled => c.trampled \/ \E i \in DOMAIN disk \ c.task.names : f[i] # disk[i]

LEMMA MoveShape ==
  ASSUME TypeInv, NEW t \in Threads, Success(t) \/ Failure(t)
  PROVE  \E targets \in SUBSET call[t].task.names, f \in [DOMAIN disk -> Versions] :
           LET c == call[t]
               d == call'[t]
               s == Head(c.todo)
           IN  /\ Moved(t, targets, f, c, d) /\ s.op \in {"run", "some", "each", "list"}
               /\ \/ /\ f \in Succeeding(t, targets) /\ Onward(c, d)
                     /\ d.listing = IF s.op = "list" THEN booted ELSE c.listing
                     /\ (c.did => d.did) /\ (f # disk => d.did)
                  \/ \E leads \in {s.bad, s.lost} :
                       /\ f \in Failing(t, targets) /\ (leads = s.bad \/ f = disk)
                       /\ d.did = c.did
                       /\ \/ leads \in {"next", "else"} /\ Onward(c, d) /\ d.listing = c.listing
                          \/ leads \in {"failed", "err"} /\ Ended(c, d, leads)
<1> DEFINE c == call[t]
           s == Head(c.todo)
           Kept(d) == /\ DOMAIN d = Fields
                      /\ d.task = c.task /\ d.shared = c.shared
                      /\ d.moved = c.moved /\ d.trampled = c.trampled
<1>1. Running(t) /\ s.op \in {"run", "some", "each", "list"}
  BY DEF Success, Failure, At
<1>2. /\ DOMAIN c = Fields /\ c.needs \subseteq c.task.names /\ c.task # Idle
      /\ s \in StepsOf(c.task)
  BY <1>1, RunningFacts DEF Sound, Step
<1>3. /\ s.bad \in Leads \union {"else"} /\ s.lost \in Leads \union {"else"}
  BY <1>1, <1>2, StepFacts
<1>4. s.bad = "else" \/ s.lost = "else" => s.op = "run"
  <2>1. s \in Flat(c.task.names, CommandsOf(c.task)) => (s.bad # "else" /\ s.lost # "else") \/ s.op \notin {"run", "some", "each", "list"}
    BY DEF Flat, Leads
  <2>2. s \notin Flat(c.task.names, CommandsOf(c.task)) => s.op \in {"branch", "run"}
    BY <1>2 DEF StepsOf, Deep
  <2> QED
    BY <1>1, <2>1, <2>2
<1>5. \A targets \in Targets(t) :
        /\ targets \in SUBSET c.task.names
        /\ LET p == Past(t, targets)
           IN  /\ Kept(p) /\ Onward(c, p) /\ p.listing = c.listing /\ p.did = c.did
  <2> SUFFICES ASSUME NEW targets \in Targets(t)
               PROVE  /\ targets \in SUBSET c.task.names
                      /\ LET p == Past(t, targets)
                         IN  /\ Kept(p) /\ Onward(c, p) /\ p.listing = c.listing /\ p.did = c.did
    OBVIOUS
  <2>1. targets \in SUBSET c.task.names
    BY <1>2 DEF Targets
  <2>2. LET g == GoOn(c) IN Kept(g) /\ Onward(c, g) /\ g.listing = c.listing /\ g.did = c.did
    BY <1>2 DEF GoOn, Fields, Onward
  <2>3. ASSUME s.op = "each"
        PROVE  LET g == [c EXCEPT !.needs = @ \ targets]
               IN  Kept(g) /\ Onward(c, g) /\ g.listing = c.listing /\ g.did = c.did
    BY <1>2, <2>3 DEF Fields, Onward
  <2> QED
    BY <2>1, <2>2, <2>3 DEF Past, Step
<1>6. ASSUME NEW f, NEW d, Moves(t, f, d), Kept(d)
      PROVE  /\ \A targets : Moved(t, targets, f, c, call'[t])
             /\ LET e == call'[t]
                IN  /\ e.todo = d.todo /\ e.verdict = d.verdict /\ e.listing = d.listing
                    /\ e.did = d.did
  <2>0. PICK made \in Made(s.cmd) \union {FALSE} : Move(t, f, made, d)
    BY <1>6, Zenon DEF Moves, Step
  <2>1. \E x, y : /\ call'[t] = [d EXCEPT !.moved = x, !.trampled = y]
                  /\ x = (d.moved \/ made \/ f # disk)
                  /\ y = (d.trampled \/ \E i \in DOMAIN disk \ c.task.names : f[i] # disk[i])
    BY <1>6, <2>0, Zenon DEF Move
  <2>2. PICK x, y : /\ call'[t] = [d EXCEPT !.moved = x, !.trampled = y]
                    /\ x = (d.moved \/ made \/ f # disk)
                    /\ y = (d.trampled \/ \E i \in DOMAIN disk \ c.task.names : f[i] # disk[i])
    BY <2>1
  <2> DEFINE e == call'[t]
  <2>3. /\ e.todo = d.todo /\ e.verdict = d.verdict /\ e.listing = d.listing /\ e.did = d.did
        /\ e.task = d.task /\ e.shared = d.shared /\ e.moved = x /\ e.trampled = y
    BY <1>6, <2>2 DEF Fields
  <2>4. \A u \in Threads \ {t} :
          \/ call'[u] = call[u]
          \/ /\ call[u].task # Idle
             /\ \E a, b : call'[u] = [call[u] EXCEPT !.overtaken = a, !.undone = b]
    BY <2>0, Zenon DEF Move
  <2>5. Apart(t)
    <3>1. \A u \in Threads : DOMAIN call[u] = Fields
      BY DEF TypeInv, Sound
    <3>2. \A q : DOMAIN q = Fields =>
            \A a, b : LET k == [q EXCEPT !.overtaken = a, !.undone = b]
                     IN  /\ k.task = q.task /\ k.todo = q.todo /\ k.verdict = q.verdict
                         /\ k.listing = q.listing /\ k.did = q.did /\ k.shared = q.shared
                         /\ k.moved = q.moved /\ k.trampled = q.trampled
      BY DEF Fields
    <3>3. ASSUME NEW u \in Threads \ {t}
          PROVE  /\ call'[u].task = call[u].task /\ call'[u].todo = call[u].todo
                 /\ call'[u].verdict = call[u].verdict /\ call'[u].listing = call[u].listing
                 /\ call'[u].did = call[u].did /\ call'[u].shared = call[u].shared
                 /\ call'[u].moved = call[u].moved /\ call'[u].trampled = call[u].trampled
      <4>1. PICK q : q = call[u] /\ DOMAIN q = Fields
        BY <3>1
      <4>2. CASE call'[u] = q
        BY <4>1, <4>2
      <4>3. CASE \E a, b : call'[u] = [q EXCEPT !.overtaken = a, !.undone = b]
        BY <3>2, <4>1, <4>3
      <4> QED
        BY <2>4, <4>1, <4>2, <4>3
    <3> QED
      BY <3>3 DEF Apart
  <2>6. module' = module /\ disk' = f /\ booted' = IF module \in Staged THEN booted ELSE f
    BY <2>0 DEF Move
  <2>7a. made => s.cmd \in Unseen
    BY <2>0, Zenon DEF Made
  <2> HIDE DEF e
  <2>7. /\ e.moved => c.moved \/ f # disk \/ s.cmd \in Unseen
        /\ e.trampled => c.trampled \/ \E i \in DOMAIN disk \ c.task.names : f[i] # disk[i]
    BY <1>6, <2>2, <2>3, <2>7a, Zenon
  <2>8. \A targets : Moved(t, targets, f, c, e)
    BY <1>6, <2>3, <2>5, <2>6, <2>7, Zenon DEF Moved
  <2> QED
    BY <2>3, <2>8 DEF e
<1>7. ASSUME Success(t)
      PROVE  \E targets \in SUBSET c.task.names, f \in [DOMAIN disk -> Versions] :
               LET e == call'[t]
               IN  /\ Moved(t, targets, f, c, e)
                   /\ f \in Succeeding(t, targets) /\ Onward(c, e)
                   /\ e.listing = IF s.op = "list" THEN booted ELSE c.listing
                   /\ (c.did => e.did) /\ (f # disk => e.did)
  <2>a. PICK targets \in Targets(t) : \E f \in Succeeding(t, targets) :
          \E says \in IF s.cmd \in Elsewhere THEN {TRUE, f # disk} ELSE {f # disk} :
          Moves(t, f, [Past(t, targets) EXCEPT
                     !.did = @ \/ says, !.succeeded = TRUE,
                     !.met = @ \/ \E i \in targets : f[i] = disk[i],
                     !.listing = IF s.op = "list" THEN booted ELSE @,
                     !.stale = @ \/ (s.op = "list" /\ booted # disk)])
    BY <1>7, SuccessMoves, Zenon DEF Onto, Step
  <2>b. PICK f \in Succeeding(t, targets) :
          \E says \in IF s.cmd \in Elsewhere THEN {TRUE, f # disk} ELSE {f # disk} :
          Moves(t, f, [Past(t, targets) EXCEPT
                     !.did = @ \/ says, !.succeeded = TRUE,
                     !.met = @ \/ \E i \in targets : f[i] = disk[i],
                     !.listing = IF s.op = "list" THEN booted ELSE @,
                     !.stale = @ \/ (s.op = "list" /\ booted # disk)])
    BY <2>a
  <2>1. PICK says \in IF s.cmd \in Elsewhere THEN {TRUE, f # disk} ELSE {f # disk} :
          Moves(t, f, [Past(t, targets) EXCEPT
                     !.did = @ \/ says, !.succeeded = TRUE,
                     !.met = @ \/ \E i \in targets : f[i] = disk[i],
                     !.listing = IF s.op = "list" THEN booted ELSE @,
                     !.stale = @ \/ (s.op = "list" /\ booted # disk)])
    BY <2>b
  <2>2. \E did, met, listing, stale :
              /\ did = (Past(t, targets).did \/ says)
              /\ listing = IF s.op = "list" THEN booted ELSE Past(t, targets).listing
              /\ Moves(t, f, [Past(t, targets) EXCEPT !.did = did, !.succeeded = TRUE, !.met = met,
                                                     !.listing = listing, !.stale = stale])
    BY <2>1, Zenon
  <2>3. PICK did, met, listing, stale :
              /\ did = (Past(t, targets).did \/ says)
              /\ listing = IF s.op = "list" THEN booted ELSE Past(t, targets).listing
              /\ Moves(t, f, [Past(t, targets) EXCEPT !.did = did, !.succeeded = TRUE, !.met = met,
                                                     !.listing = listing, !.stale = stale])
    BY <2>2, Zenon
  <2> DEFINE p == Past(t, targets)
             d == [p EXCEPT !.did = did, !.succeeded = TRUE, !.met = met,
                            !.listing = listing, !.stale = stale]
             e == call'[t]
  <2>4. targets \in SUBSET c.task.names
        /\ Kept(p) /\ Onward(c, p) /\ p.listing = c.listing /\ p.did = c.did
    BY <1>5
  <2>5. Moves(t, f, d) /\ listing = (IF s.op = "list" THEN booted ELSE p.listing)
        /\ did = (p.did \/ says)
    BY <2>3, Zenon
  <2>6. f # disk => says
    BY <2>1, Zenon
  <2> HIDE DEF p
  <2>7. Kept(d) /\ d.todo = p.todo /\ d.verdict = p.verdict /\ d.listing = listing /\ d.did = did
    BY <2>4 DEF Fields
  <2> HIDE DEF d
  <2>8. /\ \A T : Moved(t, T, f, c, e)
        /\ e.todo = d.todo /\ e.verdict = d.verdict /\ e.listing = d.listing /\ e.did = d.did
    BY <1>6, <2>5, <2>7
  <2>9. Onward(c, e)
    BY <2>4, <2>7, <2>8 DEF Onward
  <2>10. (c.did => e.did) /\ (f # disk => e.did)
    <3>1. e.did = (c.did \/ says)
      BY <2>4, <2>5, <2>7, <2>8, Zenon
    <3> QED
      BY <2>6, <3>1, Zenon
  <2>11. e.listing = IF s.op = "list" THEN booted ELSE c.listing
    BY <2>4, <2>5, <2>7, <2>8
  <2>12. f \in [DOMAIN disk -> Versions]
    BY DEF Succeeding
  <2> HIDE DEF e
  <2>13. Moved(t, targets, f, c, e)
    BY <2>8, Zenon
  <2> QED
    BY <2>4, <2>9, <2>10, <2>11, <2>12, <2>13, Zenon DEF e
<1>8. ASSUME Failure(t)
      PROVE  \E targets \in SUBSET c.task.names, f \in [DOMAIN disk -> Versions], leads \in {s.bad, s.lost} :
               LET e == call'[t]
               IN  /\ Moved(t, targets, f, c, e)
                   /\ f \in Failing(t, targets) /\ (leads = s.bad \/ f = disk)
                   /\ e.did = c.did
                   /\ \/ leads \in {"next", "else"} /\ Onward(c, e) /\ e.listing = c.listing
                      \/ leads \in {"failed", "err"} /\ Ended(c, e, leads)
  <2>1. \A T : disk \in Failing(t, T)
    BY DEF Failing, TypeInv, Machine
  <2>2. PICK targets \in Targets(t), leads \in {s.bad, s.lost} :
          \E f \in Failing(t, targets) : /\ leads = s.bad \/ f = disk
                                         /\ Moves(t, f, Consequence(t, targets, leads))
    BY <1>8, <2>1, Zenon DEF Failure, Step, Moves
  <2>3. PICK f \in Failing(t, targets) : /\ leads = s.bad \/ f = disk
                                         /\ Moves(t, f, Consequence(t, targets, leads))
    BY <2>2
  <2> DEFINE d == Consequence(t, targets, leads)
             e == call'[t]
  <2>4. targets \in SUBSET c.task.names /\ f \in [DOMAIN disk -> Versions]
    BY <1>5 DEF Failing
  <2>5. /\ Kept(d) /\ d.did = c.did
        /\ \/ leads \in {"next", "else"} /\ Onward(c, d) /\ d.listing = c.listing
           \/ leads \in {"failed", "err"} /\ Ended(c, d, leads)
    <3>1. CASE leads = "next"
      <4> DEFINE p == Past(t, targets)
      <4>1. \E x : d = [p EXCEPT !.blind = x]
        BY <3>1, Zenon DEF Consequence
      <4>2. Kept(p) /\ Onward(c, p) /\ p.listing = c.listing /\ p.did = c.did
        BY <1>5
      <4> HIDE DEF d, p
      <4>3. /\ Kept(d) /\ d.todo = p.todo /\ d.verdict = p.verdict /\ d.listing = p.listing
            /\ d.did = p.did
        BY <4>1, <4>2 DEF Fields
      <4> QED
        BY <3>1, <4>2, <4>3 DEF Onward
    <3>2. CASE leads = "else"
      <4> DEFINE g == GoOn(c)
      <4>1. d = [g EXCEPT !.todo = s.else \o @]
        BY <3>2 DEF Consequence, Step
      <4>2. Kept(g) /\ g.listing = c.listing /\ g.did = c.did /\ g.verdict = c.verdict
            /\ g.todo = Tail(c.todo)
        BY <1>2 DEF GoOn, Fields
      <4> HIDE DEF g, d
      <4>3. Kept(d) /\ d.did = c.did /\ d.listing = c.listing /\ d.verdict = c.verdict
            /\ d.todo = s.else \o Tail(c.todo)
        BY <4>1, <4>2 DEF Fields
      <4>4. s.op = "run" /\ "else" \in {s.bad, s.lost}
        BY <1>4, <3>2
      <4> QED
        BY <3>2, <4>3, <4>4 DEF Onward
    <3>3. CASE leads \in {"failed", "err"}
      <4>1. d = End(c, leads)
        BY <3>3 DEF Consequence
      <4>2. Kept(End(c, leads)) /\ Ended(c, End(c, leads), leads) /\ End(c, leads).did = c.did
        BY <1>2 DEF End, Ended, Fields
      <4> QED
        BY <3>3, <4>1, <4>2
    <3> QED
      BY <1>3, <3>1, <3>2, <3>3 DEF Leads
  <2> HIDE DEF d
  <2>6. /\ \A T : Moved(t, T, f, c, e)
        /\ e.todo = d.todo /\ e.verdict = d.verdict /\ e.listing = d.listing /\ e.did = d.did
    BY <1>6, <2>3, <2>5 DEF d
  <2> HIDE DEF e
  <2>7. /\ \/ leads \in {"next", "else"} /\ Onward(c, e) /\ e.listing = c.listing
           \/ leads \in {"failed", "err"} /\ Ended(c, e, leads)
        /\ e.did = c.did
    BY <2>5, <2>6 DEF Onward, Ended
  <2>8. Moved(t, targets, f, c, e)
    BY <2>6, Zenon
  <2> QED
    BY <2>3, <2>4, <2>7, <2>8, Zenon DEF e
<1> QED
  BY <1>1, <1>7, <1>8, Zenon

-----------------------------------------------------------------------------
(* lineinfile: it reads, and then writes at most once; in between it only    *)
(* looks and makes copies.                                                   *)
Quiet == {"show", "other", "check", "mkdir", "fetch", "backup", "reboot"}
Writes(s) == s.op = "run" /\ s.cmd \in Rewrites
LineStep(s) ==
  /\ s.op \in {"stop", "take", "ask", "pick", "run", "list"}
  /\ s.op \in {"run", "list"} => s.bad = "err" /\ s.lost = "err" /\ s.cmd \in Quiet \union Unseen \union Rewrites
  /\ s.op = "list" => s.cmd = "show"
Lined(p) ==
  /\ \A i \in DOMAIN p : LineStep(p[i])
  /\ \A i, j \in DOMAIN p : i < j => ~ Writes(p[i]) \/ ~ Writes(p[j])
Calm(p)  == \A i \in DOMAIN p : LineStep(p[i]) /\ ~ Writes(p[i])
Lists(p) == \E i \in DOMAIN p : p[i].op = "list"
Fresh(p) == \A i \in DOMAIN p : Writes(p[i]) => \E j \in DOMAIN p : j < i /\ p[j].op = "list"

LEMMA LinesJoin ==
  ASSUME NEW S, NEW a \in Seq(S), NEW b \in Seq(S)
  PROVE  /\ Calm(a) /\ Calm(b) => Calm(a \o b)
         /\ Calm(a) /\ Lined(b) => Lined(a \o b)
         /\ Lined(a) /\ Calm(b) => Lined(a \o b)
         /\ Calm(a) /\ Fresh(b) => Fresh(a \o b)
         /\ Calm(a) => Fresh(a)
         /\ Lists(b) => Lists(a \o b)
         /\ Fresh(a) /\ Lists(a) => Fresh(a \o b) /\ Lists(a \o b)
<1> DEFINE ab == a \o b
<1>1. /\ ab \in Seq(S) /\ Len(ab) = Len(a) + Len(b) /\ Len(a) \in Nat /\ Len(b) \in Nat
      /\ DOMAIN ab = 1..Len(ab) /\ DOMAIN a = 1..Len(a) /\ DOMAIN b = 1..Len(b)
  OBVIOUS
<1>a. \A i \in DOMAIN ab :
        \/ i <= Len(a) /\ i \in DOMAIN a /\ ab[i] = a[i]
        \/ i > Len(a) /\ i - Len(a) \in DOMAIN b /\ ab[i] = b[i - Len(a)]
  OBVIOUS
<1>b. /\ \A i \in DOMAIN a : i \in DOMAIN ab /\ ab[i] = a[i]
      /\ \A i \in DOMAIN b : Len(a) + i \in DOMAIN ab /\ ab[Len(a) + i] = b[i]
  OBVIOUS
<1> HIDE DEF ab
<1>2. Calm(a) /\ Calm(b) => Calm(ab)
  BY <1>a DEF Calm
<1>3. Calm(a) /\ Lined(b) => Lined(ab)
  <2> SUFFICES ASSUME Calm(a), Lined(b) PROVE Lined(ab)
    OBVIOUS
  <2>1. \A i \in DOMAIN ab : LineStep(ab[i])
    BY <1>a DEF Calm, Lined
  <2>2. ASSUME NEW i \in DOMAIN ab, NEW j \in DOMAIN ab, i < j
        PROVE  ~ Writes(ab[i]) \/ ~ Writes(ab[j])
    BY <1>1, <1>a, <2>2 DEF Calm, Lined
  <2> QED
    BY <2>1, <2>2 DEF Lined
<1>4. Lined(a) /\ Calm(b) => Lined(ab)
  <2> SUFFICES ASSUME Lined(a), Calm(b) PROVE Lined(ab)
    OBVIOUS
  <2>1. \A i \in DOMAIN ab : LineStep(ab[i])
    BY <1>a DEF Calm, Lined
  <2>2. ASSUME NEW i \in DOMAIN ab, NEW j \in DOMAIN ab, i < j
        PROVE  ~ Writes(ab[i]) \/ ~ Writes(ab[j])
    BY <1>1, <1>a, <2>2 DEF Calm, Lined
  <2> QED
    BY <2>1, <2>2 DEF Lined
<1>5. Calm(a) /\ Fresh(b) => Fresh(ab)
  <2> SUFFICES ASSUME Calm(a), Fresh(b), NEW i \in DOMAIN ab, Writes(ab[i])
               PROVE  \E j \in DOMAIN ab : j < i /\ ab[j].op = "list"
    BY DEF Fresh
  <2>1. i > Len(a) /\ Writes(b[i - Len(a)]) /\ i - Len(a) \in DOMAIN b
    BY <1>1, <1>a DEF Calm
  <2>2. PICK j \in DOMAIN b : j < i - Len(a) /\ b[j].op = "list"
    BY <2>1 DEF Fresh
  <2>3. Len(a) + j \in DOMAIN ab /\ Len(a) + j < i /\ ab[Len(a) + j].op = "list"
    BY <1>1, <1>b, <2>2
  <2> QED
    BY <2>3
<1>6. Lists(b) => Lists(ab)
  BY <1>b DEF Lists
<1>7. ASSUME Fresh(a), Lists(a) PROVE Fresh(ab) /\ Lists(ab)
  <2>1. PICK k \in DOMAIN a : a[k].op = "list"
    BY <1>7 DEF Lists
  <2>2. ASSUME NEW i \in DOMAIN ab, Writes(ab[i]) PROVE \E j \in DOMAIN ab : j < i /\ ab[j].op = "list"
    <3>1. CASE i <= Len(a) /\ i \in DOMAIN a /\ ab[i] = a[i]
      <4>1. PICK j \in DOMAIN a : j < i /\ a[j].op = "list"
        BY <1>7, <2>2, <3>1 DEF Fresh
      <4> QED
        BY <1>b, <4>1
    <3>2. CASE i > Len(a)
      BY <1>1, <1>b, <2>1, <3>2
    <3> QED
      BY <1>a, <2>2, <3>1, <3>2
  <2> QED
    BY <1>b, <2>1, <2>2 DEF Fresh, Lists
<1>8. Calm(a) => Fresh(a)
  BY DEF Calm, Fresh
<1> QED
  BY <1>2, <1>3, <1>4, <1>5, <1>6, <1>7, <1>8 DEF ab

(* As the plan goes on. *)
LEMMA LinesGoOn ==
  ASSUME NEW S, NEW p \in Seq(S), p # <<>>, Lined(p)
  PROVE  /\ Lined(Tail(p))
         /\ Fresh(p) /\ Head(p).op # "list" => Fresh(Tail(p))
         /\ Writes(Head(p)) => Fresh(Tail(p))
         /\ \A s : /\ s.op = "ask" => Lined(<<s>> \o Tail(p))
                   /\ s.op = "ask" /\ Fresh(p) => Fresh(<<s>> \o Tail(p)) \/ Head(p).op = "list"
<1> DEFINE q == Tail(p)
<1>1. /\ DOMAIN p = 1..Len(p) /\ DOMAIN q = 1..Len(q) /\ Len(q) = Len(p) - 1 /\ Len(q) \in Nat
      /\ \A i \in DOMAIN q : i + 1 \in DOMAIN p /\ q[i] = p[i + 1]
      /\ \A i \in DOMAIN p : i # 1 => i - 1 \in DOMAIN q /\ q[i - 1] = p[i]
      /\ 1 \in DOMAIN p /\ Head(p) = p[1] /\ q \in Seq(S)
  OBVIOUS
<1> HIDE DEF q
<1>2. Lined(q)
  <2>1. \A i \in DOMAIN q : LineStep(q[i])
    BY <1>1 DEF Lined
  <2>2. ASSUME NEW i \in DOMAIN q, NEW j \in DOMAIN q, i < j
        PROVE  ~ Writes(q[i]) \/ ~ Writes(q[j])
    <3>1. i + 1 \in DOMAIN p /\ j + 1 \in DOMAIN p /\ i + 1 < j + 1
      BY <1>1, <2>2
    <3> QED
      BY <1>1, <3>1 DEF Lined
  <2> QED
    BY <2>1, <2>2 DEF Lined
<1>3. Fresh(p) /\ Head(p).op # "list" => Fresh(q)
  <2> SUFFICES ASSUME Fresh(p), Head(p).op # "list", NEW i \in DOMAIN q, Writes(q[i])
               PROVE  \E j \in DOMAIN q : j < i /\ q[j].op = "list"
    BY DEF Fresh
  <2>1. PICK j \in DOMAIN p : j < i + 1 /\ p[j].op = "list"
    BY <1>1 DEF Fresh
  <2>2. j - 1 \in DOMAIN q /\ j - 1 < i /\ q[j - 1].op = "list"
    BY <1>1, <2>1
  <2> QED
    BY <2>2
<1>4. Writes(Head(p)) => Fresh(q)
  <2> SUFFICES ASSUME Writes(p[1]), NEW i \in DOMAIN q PROVE ~ Writes(q[i])
    BY <1>1 DEF Fresh
  <2>1. i + 1 \in DOMAIN p /\ 1 < i + 1
    BY <1>1
  <2> QED
    BY <1>1, <2>1 DEF Lined
<1>5. ASSUME NEW s, s.op = "ask"
      PROVE  /\ Lined(<<s>> \o q)
             /\ Fresh(p) => Fresh(<<s>> \o q) \/ Head(p).op = "list"
  <2>1. Calm(<<s>>) /\ <<s>> \in Seq(S \union {s}) /\ q \in Seq(S \union {s})
    BY <1>1, <1>5 DEF Calm, LineStep, Writes
  <2> QED
    BY <1>2, <1>3, <2>1, LinesJoin
<1> QED
  BY <1>2, <1>3, <1>4, <1>5 DEF q
LEMMA LineInFileIsLined ==
  ASSUME NEW t, t.module = "lineinfile"
  PROVE  Lined(LineInFile(t)) /\ Fresh(LineInFile(t))
<1> DEFINE P == Parts(t)
<1> USE StopWords, AskWords, CommandWords, Joining, TaskWords
<1>1. /\ \A c \in {"show", "mkdir", "backup", "rewrite", "rewrite without"} : Must(c) \in P
      /\ May("failed") \in P /\ List("err") \in P /\ OkIfNone \in P /\ Changed \in P /\ Err \in P
      /\ Pick("installed", t.names) \in P /\ Pick("differs", t.names) \in P
      /\ Pick("differs, there", t.names) \in P /\ <<>> \in P
      /\ Has(t, "create") => Must("create file") \in P
  <2>1. /\ \A c \in {"show", "mkdir", "backup", "rewrite", "rewrite without"} : c \in CommandsOf(t)
        /\ \A q \in {"installed", "differs", "differs, there"} : q \in Questions
        /\ "err" \in Leads
    BY DEF CommandsOf, Pointed, Questions, Leads, Rewrites
  <2>2. \A c \in {"show", "mkdir", "backup", "rewrite", "rewrite without"} : Must(c) \in P
    BY <2>1
  <2>3. /\ May("failed") \in P /\ List("err") \in P /\ OkIfNone \in P
        /\ Changed \in P /\ Err \in P
    BY <2>1 DEF Plans
  <2>4. Pick("installed", t.names) \in P /\ Pick("differs", t.names) \in P
        /\ Pick("differs, there", t.names) \in P
    BY <2>1
  <2>5. <<>> \in P
    BY DEF Parts
  <2>6. Has(t, "create") => Must("create file") \in P
    <3>1. Has(t, "create") => Unseen \subseteq CommandsOf(t)
      BY DEF MayHide
    <3> QED
      BY <3>1 DEF Unseen
  <2> QED
    BY <2>2, <2>3, <2>4, <2>5, <2>6, Zenon
<1>2. /\ \A s : LineStep(s) /\ ~ Writes(s) => Calm(<<s>>)
      /\ \A s : LineStep(s) => Lined(<<s>>)
  BY DEF Calm, Lined
<1>3. /\ \A c \in {"create file", "mkdir", "backup"} : Calm(Must(c))
      /\ Calm(May("failed")) /\ Calm(List("err")) /\ Lists(List("err"))
      /\ Calm(OkIfNone) /\ Calm(Changed) /\ Calm(Err)
      /\ Calm(Pick("installed", t.names)) /\ Calm(Pick("differs", t.names))
      /\ Calm(Pick("differs, there", t.names)) /\ Calm(<<>>)
  <2>1. ASSUME NEW c \in {"create file", "mkdir", "backup"} PROVE Calm(Must(c))
    <3> DEFINE s == [op |-> "run", cmd |-> c, bad |-> "err", lost |-> "err"]
    <3>1. LineStep(s) /\ ~ Writes(s)
      BY DEF LineStep, Writes, Quiet, Unseen, Rewrites
    <3>2. Must(c) = <<s>>
      BY DEF Must, Command
    <3> HIDE DEF s
    <3> QED
      BY <1>2, <3>1, <3>2
  <2>2. Calm(List("err")) /\ Lists(List("err"))
    <3> DEFINE s == [op |-> "list", cmd |-> "show", bad |-> "err", lost |-> "err"]
    <3>1. LineStep(s) /\ ~ Writes(s) /\ s.op = "list"
      BY DEF LineStep, Writes, Quiet
    <3>2. List("err") = <<s>>
      BY DEF List, Command
    <3> HIDE DEF s
    <3>3. Lists(<<s>>)
      BY <3>1 DEF Lists
    <3> QED
      BY <1>2, <3>1, <3>2, <3>3
  <2>3. ASSUME NEW v, NEW if PROVE Calm(Stop(v, if))
    <3> DEFINE s == [op |-> "stop", verdict |-> v, if |-> if]
    <3>1. LineStep(s) /\ ~ Writes(s)
      BY DEF LineStep, Writes
    <3>2. Stop(v, if) = <<s>>
      BY DEF Stop
    <3> HIDE DEF s
    <3> QED
      BY <1>2, <3>1, <3>2
  <2>4. ASSUME NEW q PROVE Calm(Pick(q, t.names))
    <3> DEFINE s == [op |-> "pick", q |-> q, of |-> t.names]
    <3>1. LineStep(s) /\ ~ Writes(s)
      BY DEF LineStep, Writes
    <3>2. Pick(q, t.names) = <<s>>
      BY DEF Pick
    <3> HIDE DEF s
    <3> QED
      BY <1>2, <3>1, <3>2
  <2>5. Calm(<<>>)
    BY DEF Calm
  <2> QED
    BY <2>1, <2>2, <2>3, <2>4, <2>5 DEF May, OkIfNone, Changed, Err
<1>4. ASSUME NEW c \in Rewrites PROVE Lined(Must(c))
  <2> DEFINE s == [op |-> "run", cmd |-> c, bad |-> "err", lost |-> "err"]
  <2>1. LineStep(s)
    BY DEF LineStep
  <2>2. Must(c) = <<s>>
    BY DEF Must, Command
  <2> HIDE DEF s
  <2> QED
    BY <1>2, <2>1, <2>2
<1> DEFINE a == IF Has(t, "create") THEN CreateDirAll \o Must("create file") ELSE May("failed")
           b == IF t.state = "absent" THEN RemoveLines(t) ELSE InsertOrReplace(t)
           c == When(Has(t, "backup"), Must("backup"))
           w == Must(IF t.state = "absent" THEN "rewrite without" ELSE "rewrite")
<1>5. a \in P /\ Calm(a)
  BY <1>1, <1>3, LinesJoin DEF CreateDirAll, Parts
<1>6. b \in P /\ Calm(b)
  BY <1>1, <1>3 DEF RemoveLines, InsertOrReplace
<1>7. c \in P /\ Calm(c)
  BY <1>1, <1>3 DEF When
<1>8. w \in P /\ Lined(w)
  BY <1>1, <1>4 DEF Rewrites
<1> HIDE DEF a, b, c, w
<1>9. \A x, y \in P : /\ x \o y \in P
                      /\ Calm(x) /\ Calm(y) => Calm(x \o y)
                      /\ Calm(x) /\ Lined(y) => Lined(x \o y)
                      /\ Lined(x) /\ Calm(y) => Lined(x \o y)
                      /\ Calm(x) => Fresh(x)
                      /\ Lists(y) => Lists(x \o y)
                      /\ Fresh(x) /\ Lists(x) => Fresh(x \o y) /\ Lists(x \o y)
  BY LinesJoin DEF Parts
<1> DEFINE u == a \o List("err")
           v == u \o b \o OkIfNone \o c
<1>10. u \in P /\ Calm(u) /\ Fresh(u) /\ Lists(u)
  BY <1>1, <1>3, <1>5, <1>9
<1> HIDE DEF u
<1>11. v \in P /\ Calm(v) /\ Fresh(v) /\ Lists(v)
  BY <1>1, <1>3, <1>6, <1>7, <1>9, <1>10
<1> HIDE DEF v
<1>12. Lined(v \o w \o Changed) /\ Fresh(v \o w \o Changed)
  BY <1>1, <1>3, <1>8, <1>9, <1>11
<1>13. Lined(Err) /\ Fresh(Err)
  BY <1>1, <1>3, <1>9 DEF Err, Stop, Lined, Calm
<1> QED
  BY <1>12, <1>13 DEF LineInFile, Requires, a, b, c, w, u, v

(* What a command does to the items it is not pointed at: nothing, or what   *)
(* has been read is written back.                                            *)
LEMMA CommandsKeep ==
  ASSUME TypeInv, NEW t \in Threads, NEW targets,
         NEW f \in Succeeding(t, targets) \union Failing(t, targets)
  PROVE  /\ Step(t).cmd \in Pointed \union Unseen => \A i \in DOMAIN disk \ targets : f[i] = disk[i]
         /\ Step(t).cmd \in Quiet \union Unseen => f = disk
         /\ Step(t).cmd \in Rewrites /\ call[t].listing = disk /\ f \in Succeeding(t, targets) =>
              \A i \in DOMAIN disk \ targets : f[i] = disk[i]
<1> DEFINE c == Step(t).cmd
           b == Before(t, c)
           Became(i) == \/ f[i] = disk[i] \/ f[i] \in After(PartOf(c, i, targets), b[i], booted[i])
                        \/ f[i] \in AfterFailed(PartOf(c, i, targets), b[i], booted[i])
<1>1. \A i \in DOMAIN disk : Became(i)
  <2>1. CASE f \in Succeeding(t, targets)
    BY <2>1, Zenon DEF Succeeding
  <2>2. CASE f \in Failing(t, targets)
    BY <2>2, Zenon DEF Failing
  <2> QED
    BY <2>1, <2>2
<1>2. f \in [DOMAIN disk -> Versions] /\ disk \in [DOMAIN disk -> Versions]
  BY DEF Succeeding, Failing, TypeInv, Machine
<1>3. \A part, v, boot :
        part \in Quiet \union Unseen => After(part, v, boot) = {v} /\ AfterFailed(part, v, boot) = {v}
  <2> SUFFICES ASSUME NEW part \in Quiet \union Unseen, NEW v, NEW boot
               PROVE  After(part, v, boot) = {v} /\ AfterFailed(part, v, boot) = {v}
    OBVIOUS
  <2>1. After(part, v, boot) = {v}
    BY DEF Quiet, Unseen, After
  <2>2. part \notin {"write", "rewrite", "clone", "reread"}
    BY DEF Quiet, Unseen
  <2> QED
    BY <2>1, <2>2 DEF AfterFailed
<1>4. c \notin Rewrites => b = disk
  BY DEF Before
<1>5. ASSUME c \in Pointed \union Unseen, NEW i \in DOMAIN disk \ targets PROVE f[i] = disk[i]
  <2>1. PartOf(c, i, targets) = "show" /\ c \notin Rewrites
    BY <1>5 DEF PartOf, Pointed, Unseen, Everywhere, Rewrites
  <2> QED
    BY <1>1, <1>3, <1>4, <2>1 DEF Quiet
<1>6. ASSUME c \in Quiet \union Unseen PROVE f = disk
  <2>1. c \notin Rewrites
    BY <1>6 DEF Quiet, Unseen, Rewrites
  <2>2. ASSUME NEW i \in DOMAIN disk PROVE f[i] = disk[i]
    <3>1. PartOf(c, i, targets) \in {c, "show"}
      BY <1>6 DEF PartOf, Quiet, Unseen, Everywhere, Rewrites
    <3>2. PartOf(c, i, targets) \in Quiet \union Unseen
      BY <1>6, <3>1 DEF Quiet
    <3> QED
      BY <1>1, <1>3, <1>4, <2>1, <3>2
  <2> QED
    BY <1>2, <2>2
<1>7. ASSUME c \in Rewrites, call[t].listing = disk, f \in Succeeding(t, targets),
             NEW i \in DOMAIN disk \ targets
      PROVE  f[i] = disk[i]
  <2>1. PartOf(c, i, targets) = "reread" /\ b = disk
    BY <1>7 DEF PartOf, Rewrites, Everywhere, Before
  <2>2. f[i] \in After("reread", disk[i], booted[i])
    BY <1>7, <2>1, Zenon DEF Succeeding
  <2> QED
    BY <2>2 DEF After
<1> QED
  BY <1>5, <1>6, <1>7

-----------------------------------------------------------------------------
(* The inductive invariant.  While a call of lineinfile is not shared, no    *)
(* other call runs, so what it has read is what there is.                    *)
OwnOf(c, m, d) ==
  /\ (c.task # Idle /\ m = "lineinfile") =>
       Lined(c.todo) /\ (~ c.shared => Fresh(c.todo) \/ c.listing = d)
  /\ c.trampled => /\ c.task # Idle
                   /\ \/ WholeSystem(c.task)
                      \/ m = "lineinfile" /\ (c.shared \/ (c.todo = <<>> /\ c.verdict = "err"))
Alone == \A t, u \in Threads : t # u /\ Running(t) /\ Running(u) => call[t].shared
OwnInv ==
  /\ TypeInv
  /\ module \notin Staged => booted = disk
  /\ Alone
  /\ \A t \in Threads : OwnOf(call[t], module, disk)

LEMMA Emptied ==
  /\ Lined(<<>>) /\ Fresh(<<>>)
  /\ \A p : Lined(p) => AfterReturn(p) = <<>>
BY DEF Lined, Fresh, AfterReturn, LineStep

(* A step of t leaves the others' part of it alone. *)
LEMMA OwnOthers ==
  ASSUME OwnInv, NEW t \in Threads, Running(t), Apart(t), module' = module, TypeInv',
         module \notin Staged => booted' = disk', call'[t].shared = call[t].shared,
         OwnOf(call'[t], module, disk')
  PROVE  OwnInv'
<1>1. Alone'
  BY DEF OwnInv, Alone, Running, Apart
<1>2. ASSUME NEW u \in Threads \ {t} PROVE OwnOf(call'[u], module, disk')
  <2> DEFINE c == call[u]
             d == call'[u]
  <2>1. /\ d.task = c.task /\ d.todo = c.todo /\ d.verdict = c.verdict /\ d.shared = c.shared
        /\ d.trampled = c.trampled
    BY DEF Apart
  <2>2. OwnOf(c, module, disk)
    BY DEF OwnInv
  <2>3. ~ c.shared => Fresh(c.todo)
    BY Emptied DEF OwnInv, Alone, Running
  <2> HIDE DEF c, d
  <2>4. OwnOf(d, module, disk')
    BY <2>1, <2>2, <2>3 DEF OwnOf
  <2> QED
    BY <2>4 DEF d
<1>3. \A u \in Threads : OwnOf(call'[u], module', disk')
  BY <1>2
<1> QED
  BY <1>1, <1>3 DEF OwnInv

LEMMA OwnLocal ==
  ASSUME OwnInv, NEW t \in Threads, StopOrGoOn(t) \/ AskNext(t) \/ Select(t)
  PROVE  OwnInv'
<1> DEFINE c == call[t]
           d == call'[t]
           s == Head(c.todo)
<1>1. TypeInv /\ TypeInv' /\ OwnOf(c, module, disk)
  BY LocalStepsSound DEF OwnInv
<1>2. Running(t) /\ s.op \in {"stop", "ask", "take", "pick", "branch", "some", "each"}
  BY DEF StopOrGoOn, AskNext, Select, At
<1>3. /\ UNCHANGED <<module, disk, booted>> /\ Apart(t)
      /\ d.task = c.task /\ d.shared = c.shared /\ d.trampled = c.trampled
      /\ \/ Onward(c, d) /\ d.listing = c.listing /\ s.op # "list"
         \/ Ended(c, d, s.verdict)
  BY <1>1, LocalShape
<1>4. /\ c.task # Idle /\ c.todo \in Seq(StepsOf(c.task)) /\ c.todo # <<>> /\ s \in StepsOf(c.task)
  BY <1>1, <1>2, RunningFacts DEF Parts, Step
<1>5. s.op = "ask" => \A P \in SUBSET s.of : [s EXCEPT !.of = P].op = "ask"
  BY <1>4, StepFacts
<1> HIDE DEF c, d
<1>6. ASSUME module = "lineinfile"
      PROVE  Lined(d.todo) /\ (~ d.shared => Fresh(d.todo) \/ d.listing = disk)
  <2>1. Lined(c.todo) /\ (~ c.shared => Fresh(c.todo) \/ c.listing = disk)
    BY <1>1, <1>4, <1>6 DEF OwnOf
  <2>2. LineStep(s)
    BY <1>4, <2>1 DEF Lined
  <2>3. CASE Ended(c, d, s.verdict)
    BY <2>1, <2>3, Emptied DEF Ended
  <2>4. CASE Onward(c, d) /\ d.listing = c.listing /\ s.op # "list"
    <3>1. \/ d.todo = Tail(c.todo)
          \/ \E r : r.op = "ask" /\ s.op = "ask" /\ d.todo = <<r>> \o Tail(c.todo)
      BY <1>2, <1>5, <2>2, <2>4, Zenon DEF Onward, LineStep
    <3>2. Lined(d.todo) /\ (Fresh(c.todo) => Fresh(d.todo))
      BY <1>4, <2>1, <2>4, <3>1, LinesGoOn
    <3> QED
      BY <1>3, <2>1, <2>4, <3>2
  <2> QED
    BY <1>3, <2>3, <2>4
<1>7. d.trampled => /\ d.task # Idle
                    /\ WholeSystem(d.task) \/ (module = "lineinfile" /\ d.shared)
  BY <1>1, <1>3, <1>4 DEF OwnOf
<1>8. OwnOf(d, module, disk')
  BY <1>3, <1>6, <1>7 DEF OwnOf
<1> QED
  BY <1>1, <1>2, <1>3, <1>8, OwnOthers DEF OwnInv, c, d

LEMMA OwnMove ==
  ASSUME OwnInv, NEW t \in Threads, Success(t) \/ Failure(t)
  PROVE  OwnInv'
<1> DEFINE c == call[t]
           d == call'[t]
           s == Head(c.todo)
<1>1. TypeInv /\ TypeInv' /\ OwnOf(c, module, disk) /\ Running(t)
  BY CommandStepsSound DEF OwnInv, Success, Failure, At
<1>2. PICK targets \in SUBSET c.task.names, f \in [DOMAIN disk -> Versions] :
           /\ Moved(t, targets, f, c, d) /\ s.op \in {"run", "some", "each", "list"}
           /\ \/ /\ f \in Succeeding(t, targets) /\ Onward(c, d)
                 /\ d.listing = IF s.op = "list" THEN booted ELSE c.listing
                 /\ (c.did => d.did) /\ (f # disk => d.did)
              \/ \E leads \in {s.bad, s.lost} :
                   /\ f \in Failing(t, targets) /\ (leads = s.bad \/ f = disk)
                   /\ d.did = c.did
                   /\ \/ leads \in {"next", "else"} /\ Onward(c, d) /\ d.listing = c.listing
                      \/ leads \in {"failed", "err"} /\ Ended(c, d, leads)
  BY <1>1, MoveShape, Zenon
<1>3. /\ module' = module /\ disk' = f /\ (module \notin Staged => booted' = disk') /\ Apart(t)
      /\ d.task = c.task /\ d.shared = c.shared
      /\ d.trampled => c.trampled \/ \E i \in DOMAIN disk \ c.task.names : f[i] # disk[i]
  BY <1>2 DEF Moved
<1>4. /\ c.task # Idle /\ c.todo \in Seq(StepsOf(c.task)) /\ c.todo # <<>> /\ s \in StepsOf(c.task)
      /\ c.task \in Tasks(module) /\ module \in Modules
  BY <1>1, RunningFacts DEF Parts, Step, TypeInv, Machine
<1>5. s.cmd \in CommandsOf(c.task) /\ c.task.module = module
  BY <1>2, <1>4, StepFacts, ManagedAssumption
<1>6. /\ s.cmd \in Pointed \union Unseen => \A i \in DOMAIN disk \ targets : f[i] = disk[i]
      /\ s.cmd \in Quiet \union Unseen => f = disk
      /\ s.cmd \in Rewrites /\ c.listing = disk /\ f \in Succeeding(t, targets) =>
           \A i \in DOMAIN disk \ targets : f[i] = disk[i]
  <2>1. f \in Succeeding(t, targets) \union Failing(t, targets)
    BY <1>2
  <2> QED
    BY <1>1, <2>1, CommandsKeep DEF Step
<1>7. module \notin Staged => booted = disk
  BY DEF OwnInv
<1> DEFINE Succeeds == /\ f \in Succeeding(t, targets) /\ Onward(c, d)
                       /\ d.listing = IF s.op = "list" THEN booted ELSE c.listing
<1>8. \/ Succeeds
      \/ \E leads \in {s.bad, s.lost} :
           \/ leads \in {"next", "else"} /\ Onward(c, d) /\ d.listing = c.listing
           \/ leads \in {"failed", "err"} /\ Ended(c, d, leads)
  BY <1>2, Zenon
<1>9. s.op \in {"run", "some", "each", "list"}
  BY <1>2
<1> HIDE DEF c, d
<1>10. ASSUME module # "lineinfile" PROVE OwnOf(d, module, f)
  <2>1. ~ WholeSystem(c.task) => s.cmd \in Pointed \union Unseen
    BY <1>5, <1>10 DEF CommandsOf
  <2>2. d.trampled => d.task # Idle /\ WholeSystem(d.task)
    BY <1>1, <1>3, <1>4, <1>6, <1>10, <2>1 DEF OwnOf
  <2> QED
    BY <1>10, <2>2 DEF OwnOf
<1>11. ASSUME module = "lineinfile" PROVE OwnOf(d, module, f)
  <2>1. Lined(c.todo) /\ (~ c.shared => Fresh(c.todo) \/ c.listing = disk)
    BY <1>1, <1>4, <1>11 DEF OwnOf
  <2>2. LineStep(s) /\ s = c.todo[1] /\ 1 \in DOMAIN c.todo
    BY <1>4, <2>1 DEF Lined
  <2>3. s.op \in {"run", "list"} /\ s.bad = "err" /\ s.lost = "err" /\ s.cmd \in Quiet \union Unseen \union Rewrites
        /\ (s.op = "list" => s.cmd \in Quiet)
    BY <1>9, <2>2 DEF LineStep, Quiet
  <2>4. c.trampled => WholeSystem(c.task) \/ c.shared
    BY <1>1, <1>4 DEF OwnOf
  <2>5. CASE Succeeds
    <3>1. d.todo = Tail(c.todo)
      BY <2>3, <2>5, Zenon DEF Onward
    <3>2. Lined(d.todo)
      BY <1>4, <2>1, <3>1, LinesGoOn
    <3>3. ~ c.shared /\ s.cmd \in Rewrites => c.listing = disk
      <4>1. ASSUME s.cmd \in Rewrites PROVE ~ Fresh(c.todo)
        <5>1. Writes(s)
          BY <2>3, <4>1 DEF Writes, Quiet, Unseen, Rewrites
        <5>2. ~ \E j \in DOMAIN c.todo : j < 1
          BY <1>4
        <5> QED
          BY <2>2, <5>1, <5>2 DEF Fresh
      <4> QED
        BY <2>1, <4>1
    <3>4. ~ c.shared => Fresh(d.todo) \/ d.listing = f
      <4>1. CASE s.op = "list"
        BY <1>6, <1>7, <1>11, <2>3, <2>5, <4>1 DEF Staged
      <4>2. CASE s.op = "run" /\ s.cmd \in Quiet \union Unseen
        <5>1. Fresh(c.todo) => Fresh(d.todo)
          BY <1>4, <2>1, <3>1, <4>2, LinesGoOn
        <5> QED
          BY <1>6, <2>1, <2>5, <4>2, <5>1
      <4>3. CASE s.op = "run" /\ s.cmd \in Rewrites
        BY <1>4, <2>1, <3>1, <4>3, LinesGoOn DEF Writes
      <4> QED
        BY <2>3, <4>1, <4>2, <4>3
    <3>5. d.trampled => WholeSystem(c.task) \/ c.shared
      <4>1. ASSUME ~ c.shared, NEW i \in DOMAIN disk \ c.task.names PROVE f[i] = disk[i]
        <5>1. i \in DOMAIN disk \ targets
          BY <1>2
        <5> QED
          BY <1>6, <2>3, <2>5, <3>3, <4>1, <5>1
      <4> QED
        BY <1>3, <2>4, <4>1
    <3> QED
      BY <1>3, <1>4, <1>11, <3>2, <3>4, <3>5 DEF OwnOf
  <2>6. CASE Ended(c, d, "err")
    <3>1. d.todo = <<>> /\ d.verdict = "err"
      BY <2>6 DEF Ended
    <3> QED
      BY <1>3, <1>4, <1>11, <3>1, Emptied DEF OwnOf
  <2>7. Succeeds \/ Ended(c, d, "err")
    BY <1>8, <2>3
  <2> QED
    BY <2>5, <2>6, <2>7
<1>12. OwnOf(d, module, disk')
  BY <1>3, <1>10, <1>11
<1> QED
  BY <1>1, <1>3, <1>12, OwnOthers DEF c, d

LEMMA OwnBegin ==
  ASSUME OwnInv, NEW t \in Threads, NEW task \in Tasks(module), Begin(t, task)
  PROVE  OwnInv'
<1>1. TypeInv' /\ UNCHANGED <<module, disk, booted>> /\ ~ Running(t) /\ module \in Modules
  BY BeginSound DEF OwnInv, Begin, TypeInv, Machine
<1>2. task # Idle /\ task.module = module
  BY <1>1, ManagedAssumption
<1>3. /\ call'[t] = Started(task, Invoke(task), \E v \in Threads \ {t} : Running(v))
      /\ \A u \in Threads \ {t} : call'[u] = [call[u] EXCEPT !.shared = @ \/ Running(u)]
  BY Zenon DEF Begin
<1>4. \A u \in Threads \ {t} :
        \E x : x = (call[u].shared \/ Running(u)) /\ call'[u] = [call[u] EXCEPT !.shared = x]
  BY <1>3, Zenon
<1>5. \A u \in Threads : DOMAIN call[u] = Fields
  BY DEF OwnInv, TypeInv, Sound
<1>6. \A u \in Threads \ {t} :
        /\ call'[u].task = call[u].task /\ call'[u].todo = call[u].todo
        /\ call'[u].verdict = call[u].verdict /\ call'[u].listing = call[u].listing
        /\ call'[u].trampled = call[u].trampled
        /\ call'[u].shared = (call[u].shared \/ Running(u))
  BY <1>4, <1>5 DEF Fields
<1>7. Alone'
  <2>1. ASSUME NEW u \in Threads, NEW v \in Threads, u # v, call'[u].todo # <<>>, call'[v].todo # <<>>
        PROVE  call'[u].shared
    <3>1. CASE u = t
      <4>1. Running(v)
        BY <1>6, <2>1, <3>1 DEF Running
      <4>2. PICK x : x = (\E w \in Threads \ {t} : Running(w)) /\ call'[t] = Started(task, Invoke(task), x)
        BY <1>3, Zenon
      <4>3. call'[t].shared = x
        BY <4>2 DEF Started
      <4> QED
        BY <2>1, <3>1, <4>1, <4>2, <4>3, Zenon
    <3>2. CASE u # t
      BY <1>6, <2>1, <3>2 DEF Running
    <3> QED
      BY <3>1, <3>2
  <2> QED
    BY <2>1 DEF Alone, Running
<1>8. ASSUME NEW u \in Threads PROVE OwnOf(call'[u], module, disk)
  <2>1. CASE u = t
    <3>1. \E x : call'[t] = Started(task, Invoke(task), x)
      BY <1>3
    <3>2. /\ call'[t].task = task /\ call'[t].todo = Invoke(task) /\ call'[t].trampled = FALSE
      BY <3>1 DEF Started
    <3>3. module = "lineinfile" => Lined(Invoke(task)) /\ Fresh(Invoke(task))
      <4>1. module = "lineinfile" => Invoke(task) = LineInFile(task)
        BY <1>2 DEF Invoke
      <4> QED
        BY <1>2, <4>1, LineInFileIsLined
    <3> QED
      BY <2>1, <3>2, <3>3 DEF OwnOf
  <2>2. CASE u # t
    <3> DEFINE c == call[u]
               d == call'[u]
    <3>1. /\ d.task = c.task /\ d.todo = c.todo /\ d.verdict = c.verdict /\ d.listing = c.listing
          /\ d.trampled = c.trampled /\ (c.shared => d.shared) /\ OwnOf(c, module, disk)
      BY <1>6, <2>2 DEF OwnInv
    <3> HIDE DEF c, d
    <3>2. OwnOf(d, module, disk)
      BY <3>1 DEF OwnOf
    <3> QED
      BY <3>2 DEF d
  <2> QED
    BY <2>1, <2>2
<1>9. \A u \in Threads : OwnOf(call'[u], module', disk')
  BY <1>1, <1>8
<1> QED
  BY <1>1, <1>7, <1>9 DEF OwnInv

LEMMA OwnCrash ==
  ASSUME OwnInv, NEW reboot \in BOOLEAN, Crash(reboot)
  PROVE  OwnInv'
<1>1. TypeInv' /\ UNCHANGED <<module, disk>> /\ booted' \in {booted, disk}
  BY CrashSound DEF OwnInv, Crash
<1>2. \A u \in Threads : call'[u] = Between
  BY DEF Crash
<1>3. Between.task = Idle /\ Between.todo = <<>> /\ Between.trampled = FALSE
  BY DEF Between, Started
<1>4. Alone'
  BY <1>2, <1>3 DEF Alone, Running
<1>5. \A u \in Threads : OwnOf(call'[u], module', disk')
  BY <1>2, <1>3 DEF OwnOf
<1> QED
  BY <1>1, <1>4, <1>5 DEF OwnInv

LEMMA OwnInit == Init => OwnInv
<1> SUFFICES ASSUME Init PROVE OwnInv
  OBVIOUS
<1>1. TypeInv /\ booted = disk
  BY TypeInit DEF Init
<1>2. \A u \in Threads : call[u] = Between
  BY DEF Init
<1>3. Between.task = Idle /\ Between.todo = <<>> /\ Between.trampled = FALSE
  BY DEF Between, Started
<1>4. Alone
  BY <1>2, <1>3 DEF Alone, Running
<1>5. \A u \in Threads : OwnOf(call[u], module, disk)
  BY <1>2, <1>3 DEF OwnOf
<1> QED
  BY <1>1, <1>4, <1>5 DEF OwnInv

LEMMA OwnStep == OwnInv /\ [Next]_vars => OwnInv'
<1> SUFFICES ASSUME OwnInv, [Next]_vars PROVE OwnInv'
  OBVIOUS
<1>1. CASE UNCHANGED vars
  <2>1. TypeInv'
    BY <1>1, TypeStep DEF OwnInv
  <2> QED
    BY <1>1, <2>1 DEF OwnInv, vars, Alone, Running, OwnOf
<1>2. ASSUME NEW t \in Threads, NEW task \in Tasks(module), Begin(t, task) PROVE OwnInv'
  BY <1>2, OwnBegin
<1>3. ASSUME NEW t \in Threads, StopOrGoOn(t) \/ AskNext(t) \/ Select(t) PROVE OwnInv'
  BY <1>3, OwnLocal
<1>4. ASSUME NEW t \in Threads, Success(t) \/ Failure(t) PROVE OwnInv'
  BY <1>4, OwnMove
<1>5. ASSUME NEW reboot \in BOOLEAN, Crash(reboot) PROVE OwnInv'
  BY <1>5, OwnCrash
<1> QED
  BY <1>1, <1>2, <1>3, <1>4, <1>5, Zenon DEF Next

(* OnlyItsOwn: a call moves no item that it was not given, however many      *)
(* calls run beside it, whether it succeeds or fails half way, and also when *)
(* an earlier call was killed; but for the tasks that are about the whole    *)
(* system, and lineinfile when its file is shared or its write fails.        *)
THEOREM OnlyItsOwn == Spec => []MovesOnlyItsOwn
<1>1. OwnInv => MovesOnlyItsOwn
  <2> SUFFICES ASSUME OwnInv, NEW t \in Threads, call[t].trampled
               PROVE  \/ WholeSystem(call[t].task)
                      \/ module = "lineinfile" /\ (call[t].shared \/ Done(t, "err"))
    BY DEF MovesOnlyItsOwn
  <2>1. OwnOf(call[t], module, disk)
    BY DEF OwnInv
  <2> QED
    BY <2>1 DEF OwnOf, Done, Running
<1> QED
  BY <1>1, OwnInit, OwnStep, PTL DEF Spec
-----------------------------------------------------------------------------
(* What a step may come to, and a plan inside it: still, it moves nothing;   *)
(* mute, it reports no ok; firm, it is the last one if a command of it that  *)
(* moves things fails; told, it reports ok only when nothing was done.       *)
Grades == {"still", "mute", "firm", "told"}
Acts   == {"run", "some", "each", "list"}
Of(g, s) ==
  /\ s.op # "return"
  /\ g = "still" /\ s.op \in Acts => s.cmd \in Quiet
  /\ g = "mute" /\ s.op = "stop" => s.verdict # "ok"
  /\ g = "firm" /\ s.op \in Acts => s.cmd \in Quiet \/ s.bad \in {"failed", "err"}
  /\ g = "told" /\ s.op = "stop" /\ s.verdict = "ok" => s.if = "nothing done"
Holding(g, S, I) ==
  {s \in S : /\ Of(g, s)
             /\ s.op = "branch" => s.then \in Seq(I)
             /\ s.op = "run" /\ s.bad = "else" => s.else \in Seq(I)}
Low(g, t)    == Holding(g, Flats(t), {})
Middle(g, t) == Holding(g, Inner(t), Low(g, t))
Graded(g, t) == Holding(g, StepsOf(t), Middle(g, t))

StillPlans(t) == Seq(Graded("still", t))
MutePlans(t)  == Seq(Graded("mute", t))
FirmPlans(t)  == Seq(Graded("firm", t))
ToldPlans(t)  == Seq(Graded("told", t))

(* No step that reports ok comes after one that moves things; but it may     *)
(* report that nothing was done when that one had to succeed.                *)
Pair(t, a, b) ==
  \/ a \in Graded("still", t) \/ b \in Graded("mute", t)
  \/ a \in Graded("firm", t) /\ b \in Graded("told", t)
Paired(t, p) ==
  /\ \A i \in DOMAIN p : p[i].op # "return"
  /\ \A i, j \in DOMAIN p : i < j => Pair(t, p[i], p[j])
Good(t, s) ==
  \/ s \in Graded("still", t) \/ s \in Graded("mute", t)
  \/ s.op = "branch" /\ s.then \in Seq(Flats(t)) /\ Paired(t, s.then)
Honest(t) == {p \in Parts(t) : Paired(t, p) /\ \A i \in DOMAIN p : Good(t, p[i])}

(* The records of a level. *)
LEMMA FlatSteps ==
  ASSUME NEW P, NEW C, NEW s \in Flat(P, C)
  PROVE  /\ s.op # "branch" /\ ~ (s.op = "run" /\ (s.bad = "else" \/ s.lost = "else"))
         /\ s.op \in Acts => s.bad \in Leads /\ s.lost \in Leads /\ (s.cmd \in C \/ s.cmd = "show")
<1>1. \/ s \in [op : {"stop"}, verdict : {"ok", "changed", "failed", "err"}, if : Conditions]
      \/ s \in [op : {"take"}, of : SUBSET P]
      \/ s \in [op : {"ask", "pick"}, q : Questions, of : SUBSET P]
      \/ s \in [op : {"run", "some", "each"}, cmd : C, bad : Leads, lost : Leads]
      \/ s \in [op : {"list"}, cmd : {"show"}, bad : Leads, lost : Leads]
      \/ s \in [op : {"return"}]
  BY Zenon DEF Flat
<1>2. "else" \notin Leads
  BY DEF Leads
<1> QED
  BY <1>1, <1>2 DEF Acts

LEMMA GradeLevels ==
  ASSUME NEW t, NEW g
  PROVE  /\ Low(g, t) \subseteq Middle(g, t) /\ Middle(g, t) \subseteq Graded(g, t)
         /\ Seq(Low(g, t)) \subseteq Seq(Middle(g, t))
         /\ Seq(Middle(g, t)) \subseteq Seq(Graded(g, t))
         /\ Graded(g, t) \subseteq StepsOf(t) /\ Seq(Graded(g, t)) \subseteq Parts(t)
         /\ \A s \in Flats(t) : Of(g, s) => s \in Low(g, t) /\ s \in Graded(g, t)
<1>1. ASSUME NEW s \in Flats(t), Of(g, s)
      PROVE  \A I : s \in Holding(g, Flats(t), I)
  BY <1>1, FlatSteps DEF Flats, Holding
<1>2. \A S, R : S \subseteq R => Seq(S) \subseteq Seq(R)
  OBVIOUS
<1>3. ASSUME NEW S, NEW R, S \subseteq R, NEW I, NEW J, I \subseteq J
      PROVE  Holding(g, S, I) \subseteq Holding(g, R, J)
  <2>1. Seq(I) \subseteq Seq(J)
    BY <1>2, <1>3
  <2> QED
    BY <1>3, <2>1, Zenon DEF Holding
<1>4. Low(g, t) \subseteq Middle(g, t)
  <2>1. {} \subseteq Low(g, t)
    OBVIOUS
  <2> QED
    BY <1>3, <2>1, Levels DEF Low, Middle
<1>5. Middle(g, t) \subseteq Graded(g, t)
  BY <1>3, <1>4, Levels DEF Middle, Graded
<1>6. Graded(g, t) \subseteq StepsOf(t)
  BY DEF Graded, Holding
<1>7. Seq(Graded(g, t)) \subseteq Parts(t)
  BY <1>2, <1>6 DEF Parts
<1>8. \A s \in Flats(t) : Of(g, s) => s \in Low(g, t) /\ s \in Graded(g, t)
  BY <1>1, <1>4, <1>5 DEF Low
<1> QED
  BY <1>2, <1>4, <1>5, <1>6, <1>7, <1>8, Zenon

(* Plans are put together. *)
LEMMA HonestJoins ==
  ASSUME NEW t
  PROVE  /\ \A g : \A a, b \in Seq(Graded(g, t)) : a \o b \in Seq(Graded(g, t))
         /\ StillPlans(t) \subseteq Honest(t) /\ MutePlans(t) \subseteq Honest(t)
         /\ \A a, b \in Honest(t) :
              \/ a \in StillPlans(t) \/ b \in MutePlans(t)
              \/ a \in FirmPlans(t) /\ b \in ToldPlans(t)
              => a \o b \in Honest(t)
<1>1. \A S : \A a, b \in Seq(S) : a \o b \in Seq(S)
  OBVIOUS
<1>2. \A g : \A s \in Graded(g, t) : s.op # "return"
  BY DEF Graded, Holding, Of
<1>3. ASSUME NEW a \in StillPlans(t) \union MutePlans(t) PROVE a \in Honest(t)
  <2>1. \/ \A i \in DOMAIN a : a[i] \in Graded("still", t)
        \/ \A i \in DOMAIN a : a[i] \in Graded("mute", t)
    BY DEF StillPlans, MutePlans
  <2>2. a \in Parts(t)
    BY GradeLevels, Zenon DEF StillPlans, MutePlans
  <2>3. Paired(t, a) /\ \A i \in DOMAIN a : Good(t, a[i])
    BY <1>2, <2>1, Zenon DEF Paired, Pair, Good
  <2> QED
    BY <2>2, <2>3, Zenon DEF Honest
<1>4. ASSUME NEW a \in Honest(t), NEW b \in Honest(t),
             \/ a \in StillPlans(t) \/ b \in MutePlans(t)
             \/ a \in FirmPlans(t) /\ b \in ToldPlans(t)
      PROVE  a \o b \in Honest(t)
  <2> DEFINE ab == a \o b
  <2>1. a \in Seq(StepsOf(t)) /\ b \in Seq(StepsOf(t)) /\ ab \in Parts(t)
    BY <1>1, Zenon DEF Honest, Parts
  <2>2. /\ DOMAIN a \subseteq Nat /\ DOMAIN b \subseteq Nat /\ Len(a) \in Nat
        /\ \A i \in DOMAIN ab : /\ i \in Nat
                                /\ \/ i <= Len(a) /\ i \in DOMAIN a /\ ab[i] = a[i]
                                   \/ i > Len(a) /\ i - Len(a) \in DOMAIN b /\ ab[i] = b[i - Len(a)]
    BY <2>1
  <2>3. \A i \in DOMAIN a, j \in DOMAIN b : Pair(t, a[i], b[j])
    <3>1. /\ a \in StillPlans(t) => \A i \in DOMAIN a : a[i] \in Graded("still", t)
          /\ a \in FirmPlans(t) => \A i \in DOMAIN a : a[i] \in Graded("firm", t)
          /\ b \in MutePlans(t) => \A j \in DOMAIN b : b[j] \in Graded("mute", t)
          /\ b \in ToldPlans(t) => \A j \in DOMAIN b : b[j] \in Graded("told", t)
      BY DEF StillPlans, MutePlans, FirmPlans, ToldPlans
    <3> QED
      BY <1>4, <3>1, Zenon DEF Pair
  <2> HIDE DEF ab
  <2>4. /\ \A i \in DOMAIN a : a[i].op # "return" /\ Good(t, a[i])
        /\ \A i \in DOMAIN b : b[i].op # "return" /\ Good(t, b[i])
        /\ \A i, j \in DOMAIN a : i < j => Pair(t, a[i], a[j])
        /\ \A i, j \in DOMAIN b : i < j => Pair(t, b[i], b[j])
    BY Zenon DEF Honest, Paired
  <2>5. \A i \in DOMAIN ab : ab[i].op # "return" /\ Good(t, ab[i])
    BY <2>2, <2>4
  <2>6. ASSUME NEW i \in DOMAIN ab, NEW j \in DOMAIN ab, i < j PROVE Pair(t, ab[i], ab[j])
    <3>1. CASE j <= Len(a)
      BY <2>2, <2>4, <2>6, <3>1
    <3>2. CASE i <= Len(a) /\ j > Len(a)
      BY <2>2, <2>3, <3>2
    <3>3. CASE i > Len(a)
      <4>1. i - Len(a) < j - Len(a) /\ i - Len(a) \in DOMAIN b /\ j - Len(a) \in DOMAIN b
        BY <2>2, <2>6, <3>3
      <4>2. ab[i] = b[i - Len(a)] /\ ab[j] = b[j - Len(a)]
        BY <2>2, <2>6, <3>3
      <4> QED
        BY <2>4, <4>1, <4>2
    <3> QED
      BY <2>2, <3>1, <3>2, <3>3
  <2> QED
    BY <2>1, <2>5, <2>6, Zenon DEF Honest, Paired, ab
<1> QED
  BY <1>1, <1>3, <1>4, Zenon

(* The words. *)
LEMMA FlatWords ==
  ASSUME NEW t, NEW s \in Flats(t)
  PROVE  /\ <<s>> \in Seq(Flats(t))
         /\ \A g : Of(g, s) => <<s>> \in Seq(Graded(g, t))
<1>1. \A S : \A x \in S : <<x>> \in Seq(S)
  OBVIOUS
<1> QED
  BY <1>1, GradeLevels, Zenon

LEMMA StopGrades ==
  ASSUME NEW t
  PROVE  /\ \A v \in {"ok", "changed", "failed", "err"}, if \in Conditions :
              /\ Stop(v, if) \in StillPlans(t) /\ Stop(v, if) \in FirmPlans(t)
              /\ v # "ok" => Stop(v, if) \in MutePlans(t) /\ Stop(v, if) \in ToldPlans(t)
              /\ if = "nothing done" => Stop(v, if) \in ToldPlans(t)
         /\ \A p \in {Fail, Err, Changed, FailIfSome, May("changed"), May("failed"), May("err")} :
              /\ p \in StillPlans(t) /\ p \in FirmPlans(t) /\ p \in MutePlans(t) /\ p \in ToldPlans(t)
         /\ \A p \in {Ok, OkIfNone, OkIfUndone, May("ok"), Did, DidAll, Succeeded} :
              p \in StillPlans(t) /\ p \in FirmPlans(t)
         /\ OkIfUndone \in ToldPlans(t) /\ Did \in ToldPlans(t)
<1>1. ASSUME NEW v \in {"ok", "changed", "failed", "err"}, NEW if \in Conditions
      PROVE  /\ Stop(v, if) \in StillPlans(t) /\ Stop(v, if) \in FirmPlans(t)
             /\ v # "ok" => Stop(v, if) \in MutePlans(t) /\ Stop(v, if) \in ToldPlans(t)
             /\ if = "nothing done" => Stop(v, if) \in ToldPlans(t)
  <2> DEFINE s == [op |-> "stop", verdict |-> v, if |-> if]
  <2>1. s \in Flats(t) /\ s.op = "stop" /\ s.verdict = v /\ s.if = if
    BY DEF Flats, Flat
  <2>2. Stop(v, if) = <<s>>
    BY DEF Stop
  <2> HIDE DEF s
  <2>3. /\ Of("still", s) /\ Of("firm", s)
        /\ v # "ok" => Of("mute", s) /\ Of("told", s)
        /\ if = "nothing done" => Of("told", s)
    BY <2>1 DEF Of, Acts
  <2> QED
    BY <2>1, <2>2, <2>3, FlatWords, Zenon DEF StillPlans, FirmPlans, MutePlans, ToldPlans
<1>2. /\ "always" \in Conditions /\ "maybe" \in Conditions /\ "none needed" \in Conditions
      /\ "some needed" \in Conditions /\ "nothing done" \in Conditions
      /\ "something met" \in Conditions /\ "none succeeded" \in Conditions
  BY DEF Conditions
<1>3. \A p \in {Fail, Err, Changed, FailIfSome, May("changed"), May("failed"), May("err")} :
        /\ p \in StillPlans(t) /\ p \in FirmPlans(t) /\ p \in MutePlans(t) /\ p \in ToldPlans(t)
  BY <1>1, <1>2 DEF Fail, Err, Changed, FailIfSome, May
<1>4. /\ \A p \in {Ok, OkIfNone, OkIfUndone, May("ok")} : p \in StillPlans(t) /\ p \in FirmPlans(t)
      /\ OkIfUndone \in ToldPlans(t)
  BY <1>1, <1>2 DEF Ok, OkIfNone, OkIfUndone, May
<1>5. \A a, b : /\ a \in StillPlans(t) /\ b \in StillPlans(t) => a \o b \in StillPlans(t)
                /\ a \in FirmPlans(t) /\ b \in FirmPlans(t) => a \o b \in FirmPlans(t)
                /\ a \in ToldPlans(t) /\ b \in ToldPlans(t) => a \o b \in ToldPlans(t)
  BY HonestJoins, Zenon DEF StillPlans, FirmPlans, ToldPlans
<1>6. /\ \A p \in {Did, DidAll, Succeeded} : p \in StillPlans(t) /\ p \in FirmPlans(t)
      /\ Did \in ToldPlans(t)
  <2>1. Stop("ok", "something met") \in StillPlans(t) \cap FirmPlans(t)
        /\ Stop("ok", "none succeeded") \in StillPlans(t) \cap FirmPlans(t)
    BY <1>1, <1>2
  <2> QED
    BY <1>3, <1>4, <1>5, <2>1 DEF Did, DidAll, Succeeded
<1> QED
  BY <1>1, <1>3, <1>4, <1>6

LEMMA AskGrades ==
  ASSUME NEW t
  PROVE  \A P \in SUBSET t.names :
           /\ Take(P) \in StillPlans(t) /\ Take(P) \in FirmPlans(t) /\ Take(P) \in MutePlans(t)
           /\ \A q \in Questions :
                /\ Ask(q, P) \in StillPlans(t) /\ Ask(q, P) \in FirmPlans(t) /\ Ask(q, P) \in MutePlans(t)
                /\ Pick(q, P) \in StillPlans(t) /\ Pick(q, P) \in FirmPlans(t) /\ Pick(q, P) \in MutePlans(t)
<1> DEFINE All(p) == p \in StillPlans(t) /\ p \in FirmPlans(t) /\ p \in MutePlans(t)
<1>1. ASSUME NEW s \in Flats(t), s.op \in {"take", "ask", "pick"} PROVE All(<<s>>)
  <2>1. Of("still", s) /\ Of("firm", s) /\ Of("mute", s)
    BY <1>1 DEF Of, Acts
  <2> QED
    BY <2>1, FlatWords, Zenon DEF StillPlans, FirmPlans, MutePlans
<1>2. ASSUME NEW P \in SUBSET t.names PROVE All(Take(P))
  <2>1. [op |-> "take", of |-> P] \in Flats(t)
    BY DEF Flat, Flats
  <2> HIDE DEF All
  <2> QED
    BY <1>1, <2>1 DEF Take
<1>3. ASSUME NEW P \in SUBSET t.names, NEW q \in Questions, NEW op \in {"ask", "pick"}
      PROVE  All(<<[op |-> op, q |-> q, of |-> P]>>)
  <2>1. [op |-> op, q |-> q, of |-> P] \in Flats(t)
    BY DEF Flat, Flats
  <2> HIDE DEF All
  <2> QED
    BY <1>1, <2>1
<1>4. All(<<>>) /\ \A a, b : All(a) /\ All(b) => All(a \o b)
  <2>1. \A S : <<>> \in Seq(S)
    OBVIOUS
  <2> QED
    BY <2>1, HonestJoins, Zenon DEF StillPlans, FirmPlans, MutePlans
<1> HIDE DEF All
<1>5. ASSUME NEW P \in SUBSET t.names, NEW q \in Questions PROVE All(Ask(q, P)) /\ All(Pick(q, P))
  <2>1. {} \in SUBSET t.names
    OBVIOUS
  <2> QED
    BY <1>2, <1>3, <1>4, <2>1, Zenon DEF Ask, Pick
<1> QED
  BY <1>2, <1>5 DEF All

LEMMA CommandGrades ==
  ASSUME NEW t
  PROVE  /\ \A c \in CommandsOf(t) :
              /\ \A p \in {Run(c), Must(c), RunSome(c), MustSome(c), RunEach(c)} :
                   p \in MutePlans(t) /\ p \in FirmPlans(t)
              /\ \A p \in {Loose(c), Try(c), TryEach(c)} : p \in MutePlans(t)
         /\ \A c \in Quiet :
              \A p \in {Run(c), Must(c), RunEach(c), Loose(c), Try(c), TryEach(c)} :
                p \in StillPlans(t) /\ p \in FirmPlans(t) /\ p \in MutePlans(t)
         /\ \A bad \in Leads :
              /\ List(bad) \in StillPlans(t) /\ List(bad) \in FirmPlans(t)
              /\ List(bad) \in MutePlans(t)
<1>1. Quiet \subseteq CommandsOf(t)
  BY DEF Quiet, CommandsOf, Pointed
<1>2. ASSUME NEW op \in {"run", "some", "each"}, NEW c \in CommandsOf(t), NEW bad \in Leads,
             NEW lost \in Leads
      PROVE  LET p == Command(op, c, bad, lost)
             IN  /\ p \in MutePlans(t) /\ (c \in Quiet => p \in StillPlans(t) /\ p \in FirmPlans(t))
                 /\ bad \in {"failed", "err"} => p \in FirmPlans(t)
  <2> DEFINE s == [op |-> op, cmd |-> c, bad |-> bad, lost |-> lost]
  <2>1. s \in Flats(t) /\ s.op = op /\ s.cmd = c /\ s.bad = bad
    BY DEF Flats, Flat
  <2>2. Command(op, c, bad, lost) = <<s>>
    BY DEF Command
  <2> HIDE DEF s
  <2>3. /\ Of("mute", s) /\ (c \in Quiet => Of("still", s) /\ Of("firm", s))
        /\ bad \in {"failed", "err"} => Of("firm", s)
    BY <2>1 DEF Of, Acts
  <2> QED
    BY <2>1, <2>2, <2>3, FlatWords, Zenon DEF StillPlans, FirmPlans, MutePlans, ToldPlans
<1>3. "next" \in Leads /\ "failed" \in Leads /\ "err" \in Leads
  BY DEF Leads
<1>4. ASSUME NEW c \in CommandsOf(t)
      PROVE  /\ \A p \in {Run(c), Must(c), RunSome(c), MustSome(c), RunEach(c)} :
                  p \in MutePlans(t) /\ p \in FirmPlans(t)
             /\ \A p \in {Loose(c), Try(c), TryEach(c)} : p \in MutePlans(t)
  BY <1>2, <1>3 DEF Run, Must, Loose, Try, RunSome, MustSome, RunEach, TryEach
<1>5. ASSUME NEW c \in Quiet
      PROVE  \A p \in {Run(c), Must(c), RunEach(c), Loose(c), Try(c), TryEach(c)} :
               p \in StillPlans(t) /\ p \in FirmPlans(t) /\ p \in MutePlans(t)
  BY <1>1, <1>2, <1>3 DEF Run, Must, Loose, Try, RunEach, TryEach
<1>6. ASSUME NEW bad \in Leads
      PROVE  List(bad) \in StillPlans(t) /\ List(bad) \in FirmPlans(t) /\ List(bad) \in MutePlans(t)
  <2> DEFINE s == [op |-> "list", cmd |-> "show", bad |-> bad, lost |-> "err"]
  <2>1. s \in Flats(t) /\ s.op = "list" /\ s.cmd = "show"
    BY <1>3 DEF Flats, Flat
  <2>2. List(bad) = <<s>>
    BY DEF List, Command
  <2> HIDE DEF s
  <2>3. Of("mute", s) /\ Of("still", s) /\ Of("firm", s)
    BY <2>1 DEF Of, Acts, Quiet
  <2> QED
    BY <2>1, <2>2, <2>3, FlatWords, Zenon DEF StillPlans, FirmPlans, MutePlans
<1> QED
  BY <1>4, <1>5, <1>6

LEMMA HonestWords ==
  ASSUME NEW t
  PROVE  /\ StillPlans(t) \subseteq Honest(t) /\ MutePlans(t) \subseteq Honest(t)
         /\ \A a, b \in StillPlans(t) : a \o b \in StillPlans(t)
         /\ \A a, b \in MutePlans(t) : a \o b \in MutePlans(t)
         /\ \A a, b \in FirmPlans(t) : a \o b \in FirmPlans(t)
         /\ \A a \in Honest(t), b \in MutePlans(t) : a \o b \in Honest(t)
         /\ \A a \in StillPlans(t), b \in Honest(t) : a \o b \in Honest(t)
         /\ \A a \in FirmPlans(t), b \in StillPlans(t) :
              a \in Honest(t) /\ b \in ToldPlans(t) => a \o b \in Honest(t)
         /\ \A S \in {StillPlans(t), MutePlans(t), FirmPlans(t)} :
              \A cond, s : s \in S => When(cond, s) \in S
         /\ \A a \in Honest(t) : Named(t, a) \in Honest(t)
         /\ \A P \in SUBSET t.names, c \in CommandsOf(t) :
              /\ Whole(P, c) \in MutePlans(t) /\ Whole(P, c) \in FirmPlans(t)
              /\ \A q \in Questions : Batch(q, P, c) \in Honest(t) /\ EachNeeded(q, P, c) \in Honest(t)
<1>1. /\ StillPlans(t) \subseteq Honest(t) /\ MutePlans(t) \subseteq Honest(t)
      /\ \A a, b \in StillPlans(t) : a \o b \in StillPlans(t)
      /\ \A a, b \in MutePlans(t) : a \o b \in MutePlans(t)
      /\ \A a, b \in FirmPlans(t) : a \o b \in FirmPlans(t)
  BY HonestJoins, Zenon DEF StillPlans, MutePlans, FirmPlans
<1>2. /\ \A a \in Honest(t), b \in MutePlans(t) : a \o b \in Honest(t)
      /\ \A a \in StillPlans(t), b \in Honest(t) : a \o b \in Honest(t)
      /\ \A a \in FirmPlans(t), b \in StillPlans(t) :
           a \in Honest(t) /\ b \in ToldPlans(t) => a \o b \in Honest(t)
  BY <1>1, HonestJoins, Zenon
<1>3. \A S \in {StillPlans(t), MutePlans(t), FirmPlans(t)} :
        \A cond, s : s \in S => When(cond, s) \in S
  <2>1. <<>> \in StillPlans(t) /\ <<>> \in MutePlans(t) /\ <<>> \in FirmPlans(t)
    BY DEF StillPlans, MutePlans, FirmPlans
  <2> QED
    BY <2>1, Zenon DEF When
<1>4. \A a \in Honest(t) : Named(t, a) \in Honest(t)
  BY <1>1, StopGrades DEF Named
<1>5. ASSUME NEW P \in SUBSET t.names, NEW c \in CommandsOf(t)
      PROVE  /\ Whole(P, c) \in MutePlans(t) /\ Whole(P, c) \in FirmPlans(t)
             /\ \A q \in Questions : Batch(q, P, c) \in Honest(t) /\ EachNeeded(q, P, c) \in Honest(t)
  <2>1. /\ Take(P) \in MutePlans(t) /\ Take(P) \in FirmPlans(t)
        /\ \A r \in {Run(c), RunEach(c)} : r \in MutePlans(t) /\ r \in FirmPlans(t)
        /\ Changed \in MutePlans(t) /\ OkIfNone \in StillPlans(t)
        /\ \A q \in Questions : Ask(q, P) \in StillPlans(t)
    BY AskGrades, CommandGrades, StopGrades
  <2>2. Whole(P, c) \in MutePlans(t) /\ Whole(P, c) \in FirmPlans(t)
    BY <1>1, <2>1 DEF Whole
  <2>3. ASSUME NEW q \in Questions
        PROVE  Batch(q, P, c) \in Honest(t) /\ EachNeeded(q, P, c) \in Honest(t)
    <3>1. Ask(q, P) \o OkIfNone \in Honest(t)
      BY <1>1, <2>1
    <3> QED
      BY <1>2, <2>1, <3>1 DEF Batch, EachNeeded
  <2> QED
    BY <2>2, <2>3
<1> QED
  BY <1>1, <1>2, <1>3, <1>4, <1>5, Zenon

-----------------------------------------------------------------------------
(* The plans of the modules are honest, but for those that MayHide names.    *)
LEMMA LinuxHonest ==
  ASSUME NEW t, ~ MayHide(t)
  PROVE  /\ t.module = "apt" => Apt(t) \in Honest(t)
         /\ t.module = "yum" => Yum(t) \in Honest(t)
         /\ Zypper(t) \in Honest(t) /\ Apk(t) \in Honest(t)
         /\ Pacman(t) \in Honest(t) /\ Portage(t) \in Honest(t) /\ Snap(t) \in Honest(t)
         /\ Flatpak(t) \in Honest(t) /\ Slackpkg(t) \in Honest(t)
<1> USE StopGrades, AskGrades, CommandGrades, HonestWords, TaskWords
<1> USE DEF Pointed, Systemwide, Questions, WholeSystem, SystemStates, Quiet
<1>1. t.names \in SUBSET t.names /\ {} \in SUBSET t.names
  OBVIOUS
<1>2. ASSUME t.module = "apt" PROVE Apt(t) \in Honest(t)
  <2>1. ~ Has(t, "autoremove")
    BY <1>2 DEF MayHide, Sweeps
  <2>2. When(Has(t, "autoremove"), Return \o Loose("autoremove")) \in MutePlans(t)
    BY <2>1 DEF When, MutePlans
  <2> QED
    BY <1>1, <2>1, <2>2 DEF Apt, AptGetUpdate, AptInstall, AptRemove, AptBuildDep, IsInstalled, IsMissing
<1>3. Yum(t) \in Honest(t)
  BY <1>1 DEF Yum, YumMakecache, YumInstall, YumRemove
<1>4. Zypper(t) \in Honest(t)
  BY <1>1 DEF Zypper, ZypperRefresh, ZypperInstall, ZypperRemove, ZypperUpdate, ZypperDistUpgrade,
              ZypperInfo, IsInstalled, IsMissing
<1>5. Apk(t) \in Honest(t)
  BY <1>1 DEF Apk, ApkUpdate, ApkUpgrade, ApkAdd, ApkDel, ApkInfo
<1>6. Pacman(t) \in Honest(t)
  BY <1>1 DEF Pacman, PacmanSyncDb, PacmanSysupgrade, PacmanInstall, PacmanRemove, PacmanInfo
<1>7. Portage(t) \in Honest(t)
  BY <1>1 DEF Portage, BuildFlags, EmergeInstall, EmergeUnmerge, EmergeSync, EmergeWorldUpdate,
              EmergeInfo
<1>8. Snap(t) \in Honest(t)
  BY <1>1 DEF Snap, SnapInstall, SnapRemove, SnapRefreshAll, SnapInfo
<1>9. Flatpak(t) \in Honest(t)
  BY <1>1 DEF Flatpak, FlatpakInstall, FlatpakUninstall, FlatpakUpdateAll, FlatpakInfo,
              FlatpakRemoteAdd
<1>10. Slackpkg(t) \in Honest(t)
  BY <1>1 DEF Slackpkg, PkgtoolDispatch, RunSlackpkg, FrontEnd, SlackpkgDispatch, SlaptDispatch
<1> QED
  BY <1>2, <1>3, <1>4, <1>5, <1>6, <1>7, <1>8, <1>9, <1>10

LEMMA UnixHonest ==
  ASSUME NEW t, ~ MayHide(t)
  PROVE  /\ Homebrew(t) \in Honest(t) /\ (t.module = "macports" => MacPorts(t) \in Honest(t))
         /\ (t.module = "pkg_add" => PkgAdd(t) \in Honest(t))
         /\ Pkgng(t) \in Honest(t) /\ Pkgsrc(t) \in Honest(t) /\ Pkg5(t) \in Honest(t)
         /\ Svr4Pkg(t) \in Honest(t) /\ Nix(t) \in Honest(t) /\ t.module # "chocolatey"
<1> USE StopGrades, AskGrades, CommandGrades, HonestWords, TaskWords
<1> USE DEF Pointed, Systemwide, Questions, WholeSystem, SystemStates, Quiet
<1>1. t.names \in SUBSET t.names /\ {} \in SUBSET t.names
  OBVIOUS
<1>2. Homebrew(t) \in Honest(t)
  BY <1>1 DEF Homebrew, BrewUpdate, BrewUpgradeAll, BrewInstall, BrewUninstall, BrewInfo, BrewLink,
              BrewTap
<1>3. ASSUME t.module = "macports" PROVE MacPorts(t) \in Honest(t)
  <2>1. t.state \notin {"latest", "upgrade"}
    BY <1>3 DEF MayHide
  <2> QED
    BY <1>1, <2>1 DEF MacPorts, PortSelfupdate, PortInstall, PortUpgrade, PortUpgradeOutdated,
                PortUninstall, PortReclaim, PortInfo
<1>4. ASSUME t.module = "pkg_add" PROVE PkgAdd(t) \in Honest(t)
  <2>1. ~ Has(t, "update_cache")
    BY <1>4 DEF MayHide
  <2>2. When(Has(t, "update_cache"), Run("sysupgrade")) \in StillPlans(t)
    BY <2>1 DEF When, StillPlans
  <2> QED
    BY <1>1, <2>2 DEF PkgAdd, PkgAddInstall, PkgAddUpdateAll, PkgAddDelete, PkgAddInfo
<1>5. Pkgng(t) \in Honest(t)
  BY <1>1 DEF Pkgng, PkgngUpdate, PkgngInstall, PkgngDelete, PkgngUpgradeAll, PkgngAutoremove,
              PkgngAudit, PkgngInfo
<1>6. Pkgsrc(t) \in Honest(t)
  BY <1>1 DEF Pkgsrc, PkgsrcLowlevelDispatch, PkginRun, PkginInfo, PkginDispatch
<1>7. Pkg5(t) \in Honest(t)
  BY <1>1 DEF Pkg5, Pkg5Refresh, RunPkg, Pkg5Install, Pkg5Uninstall, Pkg5UpdateAll, Pkg5Verify,
              Pkg5Fix, Pkg5Revert, Pkg5Freeze, Pkg5Unfreeze, Pkg5PurgeHistory, Pkg5Info
<1>8. Svr4Pkg(t) \in Honest(t)
  BY <1>1 DEF Svr4Pkg, EnsureAdminFile, Svr4Install, Svr4Remove, Svr4Info, Svr4Check
<1>9. Nix(t) \in Honest(t)
  BY <1>1 DEF Nix, NixEnvInstall, NixEnvUninstall, NixEnvUpgradeAll, NixProfileInstall,
              NixProfileRemove, NixBuild, NixDevelop, NixFlakeUpdate, NixGc, NixSearch, NixInfo,
              GuixDispatch
<1>10. t.module # "chocolatey"
  BY DEF MayHide
<1> QED
  BY <1>2, <1>3, <1>4, <1>5, <1>6, <1>7, <1>8, <1>9, <1>10

LEMMA LanguageHonest ==
  ASSUME NEW t, ~ MayHide(t)
  PROVE  /\ Pip(t) \in Honest(t) /\ PipTools(t) \in Honest(t) /\ Pipenv(t) \in Honest(t)
         /\ t.module = "conda" => Conda(t) \in Honest(t)
         /\ Poetry(t) \in Honest(t) /\ t.module # "uv" /\ Pixi(t) \in Honest(t)
<1> USE StopGrades, AskGrades, CommandGrades, HonestWords, TaskWords
<1> USE DEF Pointed, Systemwide, Questions, WholeSystem, SystemStates, Quiet
<1>1. t.names \in SUBSET t.names
  OBVIOUS
<1>2. Pip(t) \in Honest(t)
  BY <1>1 DEF Pip, EnsureVirtualenv, PipInstall, PipUninstall, PipShow
<1>3. PipTools(t) \in Honest(t)
  BY <1>1 DEF PipTools, PipCompile, PipSync
<1>4. Pipenv(t) \in Honest(t)
  BY <1>1 DEF Pipenv, PipenvRunChange, PipenvInstallPkgs, PipenvUninstall, PipenvUpdate,
              PipenvUpdateAll, PipenvInstallAll, PipenvLock, PipenvCheck, PipenvGraph, PipenvClean,
              PipenvRequirements, PipenvRun
<1>5. Poetry(t) \in Honest(t)
  BY <1>1 DEF Poetry, PoetryRunChange, PoetryAdd, PoetryRemove, PoetryUpdate, PoetryUpdateAll,
              PoetryInstall, PoetryLock, PoetryCheck, PoetryBuild, PoetryPublish, PoetryExport,
              PoetryEnvInfo, PoetryRun
<1>6. ASSUME t.module = "conda" PROVE Conda(t) \in Honest(t)
  BY <1>1, <1>6 DEF Conda, CondaInstall, CondaUninstall, CondaCreateEnv, CondaRemoveEnv, CondaInfo
<1>7. t.module # "uv"
  BY DEF MayHide
<1>8. Pixi(t) \in Honest(t)
  BY <1>1 DEF Pixi, PixiInit, PixiInstall, PixiAdd, PixiRemove, PixiUpdate, PixiUpdateAll, PixiRun,
              PixiClean, PixiInfo
<1> QED
  BY <1>2, <1>3, <1>4, <1>5, <1>6, <1>7, <1>8

LEMMA OtherHonest ==
  ASSUME NEW t, ~ MayHide(t)
  PROVE  /\ t.module # "zopen" /\ Zos(t) \in Honest(t)
         /\ "content" \in t.names => Appimage(t) \in Honest(t)
<1> USE StopGrades, AskGrades, CommandGrades, HonestWords, TaskWords
<1> USE DEF Pointed, Questions, Quiet
<1>1. t.module # "zopen"
  BY DEF MayHide
<1>2. Zos(t) \in Honest(t)
  <2>1. \A s \in Honest(t) : /\ Needs(t, s) \in Honest(t) /\ Body(t, s) \in Honest(t)
                             /\ FromArgs(t, s) \in Honest(t)
    BY DEF Needs, Body, FromArgs
  <2>2. \A changed \in BOOLEAN : /\ RunAndParse(PostJson, changed) \in Honest(t)
                                 /\ RunAndParse(Delete, changed) \in Honest(t)
                                 /\ RunAndParse(PutData, changed) \in Honest(t)
                                 /\ RunAndParse(Get, changed) \in Honest(t)
    BY DEF RunAndParse, PostJson, Delete, PutData, Get
  <2> QED
    BY <2>1, <2>2
       DEF Zos, JobSubmit, JobStatus, JobCancel, JobPurge, DatasetCreate, DatasetDelete, DatasetCopy,
           DatasetFetch, DatasetWrite, MemberList, TsoCommand, UssCommand, Sysvar
<1>3. ASSUME "content" \in t.names PROVE Appimage(t) \in Honest(t)
  <2>1. {"content"} \in SUBSET t.names /\ t.names \ {"content"} \in SUBSET t.names
    BY <1>3
  <2>2. AppimageAbsent(t) \in Honest(t) /\ AppimageUpdate(t) \in Honest(t)
    BY <2>1 DEF AppimageAbsent, AppimageUpdate
  <2>3. /\ Download \in MutePlans(t) /\ Reject \in MutePlans(t) /\ Sha256File \in MutePlans(t)
        /\ Must("mkdir") \in StillPlans(t) /\ Must("write") \in MutePlans(t)
        /\ Try("other") \in MutePlans(t) /\ Try("show") \in MutePlans(t) /\ Changed \in MutePlans(t)
        /\ Take({"content"}) \in StillPlans(t) /\ Take(t.names \ {"content"}) \in MutePlans(t)
    BY <2>1 DEF Download, Reject, Sha256File
  <2>4. When(~ Has(t, "force"), Ask("missing", {"content"}) \o OkIfNone) \in StillPlans(t)
    BY <2>1
  <2>5. /\ When(Has(t, "wrong checksum"), Sha256File \o Reject) \in MutePlans(t)
        /\ When(Has(t, "wrong signature"), Try("show") \o Reject) \in MutePlans(t)
        /\ When(Has(t, "integrate"), Try("other")) \in MutePlans(t)
        /\ (IF Has(t, "local source") THEN Must("write") ELSE Download) \in MutePlans(t)
    BY <2>3
  <2> DEFINE a == When(~ Has(t, "force"), Ask("missing", {"content"}) \o OkIfNone)
                  \o Must("mkdir") \o Take({"content"})
             b == a \o (IF Has(t, "local source") THEN Must("write") ELSE Download)
                  \o When(Has(t, "wrong checksum"), Sha256File \o Reject)
                  \o When(Has(t, "wrong signature"), Try("show") \o Reject)
             c == b \o Take(t.names \ {"content"}) \o Must("write")
                  \o When(Has(t, "integrate"), Try("other")) \o Changed
  <2>6. a \in StillPlans(t)
    BY <2>3, <2>4
  <2>7. b \in Honest(t)
    <3> HIDE DEF a
    <3> QED
      BY <2>3, <2>5, <2>6
  <2>8. c \in Honest(t)
    <3> HIDE DEF b
    <3> QED
      BY <2>3, <2>5, <2>7
  <2>9. AppimageInstall(t) = c
    BY DEF AppimageInstall
  <2> HIDE DEF c
  <2> QED
    BY <2>2, <2>8, <2>9 DEF Appimage
<1> QED
  BY <1>1, <1>2, <1>3

(* What is tried when a command fails. *)
LEMMA AttemptGrades ==
  ASSUME NEW t, NEW g \in {"still", "mute"}, NEW c \in CommandsOf(t), g = "still" => c \in Quiet
  PROVE  /\ \A s \in Seq(Low(g, t)) : Attempt(c, s) \in Seq(Middle(g, t))
         /\ \A s \in Seq(Middle(g, t)) : Attempt(c, s) \in Seq(Graded(g, t))
<1>1. ASSUME NEW S, NEW I, I \subseteq S, NEW s \in Seq(I)
      PROVE  Attempt(c, s) \in Seq(Holding(g, Deep(S, t.names, CommandsOf(t)), I))
  <2> DEFINE r == [op |-> "run", cmd |-> c, bad |-> "else", lost |-> "else", else |-> s]
  <2>1. s \in Seq(S)
    BY <1>1
  <2>2. r \in [op : {"run"}, cmd : CommandsOf(t), bad : {"else"}, lost : {"else"}, else : Seq(S)]
    BY <2>1
  <2>3. r \in Deep(S, t.names, CommandsOf(t))
    BY <2>2, Zenon DEF Deep
  <2>4. Of(g, r) /\ r.op = "run" /\ r.else = s /\ s \in Seq(I)
    BY DEF Of, Acts
  <2> HIDE DEF r
  <2>5. r \in Holding(g, Deep(S, t.names, CommandsOf(t)), I)
    BY <2>3, <2>4 DEF Holding
  <2>6. \A R : \A x \in R : <<x>> \in Seq(R)
    OBVIOUS
  <2> QED
    BY <2>5, <2>6, Zenon DEF Attempt, r
<1>2. Low(g, t) \subseteq Flats(t) /\ Middle(g, t) \subseteq Inner(t)
  BY DEF Low, Middle, Holding
<1> QED
  BY <1>1, <1>2, Zenon DEF Middle, Graded, Inner, StepsOf

(* The words of those plans, none of which has a plan inside.                *)
LEMMA LowWords ==
  ASSUME NEW t
  PROVE  /\ Fail \in Seq(Low("mute", t))
         /\ \A p \in {Must("show"), Ok, Err, Fail, May("failed")} : p \in Seq(Low("still", t))
         /\ \A a, b \in Seq(Low("still", t)) : a \o b \in Seq(Low("still", t))
<1>1. \A g : \A s \in Flats(t) : Of(g, s) => <<s>> \in Seq(Low(g, t))
  <2>1. \A S : \A x \in S : <<x>> \in Seq(S)
    OBVIOUS
  <2> QED
    BY <2>1, GradeLevels, Zenon
<1>2. ASSUME NEW v \in {"ok", "failed", "err"}, NEW if \in {"always", "maybe"}
      PROVE  /\ Stop(v, if) \in Seq(Low("still", t))
             /\ v # "ok" => Stop(v, if) \in Seq(Low("mute", t))
  <2> DEFINE s == [op |-> "stop", verdict |-> v, if |-> if]
  <2>1. s \in Flats(t) /\ Of("still", s) /\ (v # "ok" => Of("mute", s))
    BY DEF Flats, Flat, Conditions, Of, Acts
  <2>2. Stop(v, if) = <<s>>
    BY DEF Stop
  <2> HIDE DEF s
  <2> QED
    BY <1>1, <2>1, <2>2, Zenon
<1>3. Must("show") \in Seq(Low("still", t))
  <2> DEFINE s == [op |-> "run", cmd |-> "show", bad |-> "err", lost |-> "err"]
  <2>1. s \in Flats(t) /\ Of("still", s)
    BY DEF Flats, Flat, CommandsOf, Pointed, Leads, Of, Acts, Quiet
  <2>2. Must("show") = <<s>>
    BY DEF Must, Command
  <2> HIDE DEF s
  <2> QED
    BY <1>1, <2>1, <2>2, Zenon
<1>4. \A S : \A a, b \in Seq(S) : a \o b \in Seq(S)
  OBVIOUS
<1>5. /\ Fail \in Seq(Low("mute", t))
      /\ \A p \in {Ok, Err, Fail, May("failed")} : p \in Seq(Low("still", t))
  BY <1>2 DEF Ok, Err, Fail, May
<1> QED
  BY <1>3, <1>4, <1>5, Zenon

LEMMA DeploymentHonest ==
  ASSUME NEW t
  PROVE  /\ t.module = "rpm_ostree" => RpmOstree(t) \in Honest(t)
         /\ Ostree(t) \in Honest(t) /\ DnfHistory(t) \in Honest(t)
<1> USE StopGrades, AskGrades, CommandGrades, HonestWords, TaskWords
<1>1. t.names \in SUBSET t.names /\ "next" \in Leads
  BY DEF Leads
<1>2. /\ \A c \in {"show", "other", "check", "reboot"} : c \in CommandsOf(t) /\ c \in Quiet
      /\ \A c \in {"install", "remove", "transaction"} : c \in CommandsOf(t)
  BY DEF Pointed, Quiet
<1>3. /\ DoReboot(t) \in StillPlans(t) /\ DoReboot(t) \in MutePlans(t) /\ DoReboot(t) \in FirmPlans(t)
      /\ \A a \in Honest(t) : Argument(t, a) \in Honest(t)
  BY <1>2 DEF DoReboot, WhenFlag, Argument
<1>4. ASSUME t.module = "rpm_ostree" PROVE RpmOstree(t) \in Honest(t)
  <2>1. RunStatus \in StillPlans(t)
    BY <1>1 DEF RunStatus
  <2>2. \A c \in CommandsOf(t) : RunRpmOstree(t, c) \in MutePlans(t)
    BY <1>3 DEF RunRpmOstree
  <2>3. \A q \in Questions : Selected(t, q) \in StillPlans(t)
    BY <1>1 DEF Selected
  <2>4. /\ HandleInstall(t) \in Honest(t) /\ HandleUninstall(t) \in Honest(t)
        /\ HandleOverride(t) \in Honest(t)
    BY <1>1, <1>2, <1>3, <2>2, <2>3 DEF HandleInstall, HandleUninstall, HandleOverride, Questions
  <2>5. HandleDeploy(t) \in Honest(t) /\ HandleRebase(t) \in Honest(t) /\ HandleDbDiff \in Honest(t)
        /\ HandleUpgradePreview \in Honest(t)
    BY <1>2, <1>3, <2>2 DEF HandleDeploy, HandleRebase, HandleDbDiff, HandleUpgradePreview
  <2>6. t.state = "latest" => HandleUpgrade(t) \in Honest(t)
    <3>1. ASSUME t.state = "latest", NEW c \in {"sysupgrade", "sysupgrade+install"}
          PROVE  Take(t.names) \o Run(c) \o DoReboot(t) \o Did \in Honest(t)
      <4>1. c \in CommandsOf(t)
        BY <1>4, <3>1 DEF WholeSystem, Systemwide
      <4>2. Take(t.names) \o Run(c) \o DoReboot(t) \in MutePlans(t) \cap FirmPlans(t)
        BY <1>1, <1>3, <4>1
      <4> QED
        BY <4>2
    <3> QED
      BY <1>2, <3>1 DEF HandleUpgrade
  <2>7. t.state = "rollback" => HandleRollback \in Honest(t)
    BY DEF HandleRollback, WholeSystem, SystemStates, Systemwide
  <2>8. t.state = "cleanup" => HandleCleanup(t) \in Honest(t)
    BY <1>2 DEF HandleCleanup, WholeSystem, SystemStates, Systemwide
  <2> QED
    BY <2>1, <2>4, <2>5, <2>6, <2>7, <2>8 DEF RpmOstree
<1>5. Ostree(t) \in Honest(t)
  <2>1. RunCmd \in Honest(t) /\ RunChange \in Honest(t)
    BY <1>2 DEF RunCmd, RunChange
  <2>2. CmdSummary(t) \in Honest(t) /\ CmdPull(t) \in Honest(t) /\ CmdAdminUpgrade(t) \in Honest(t)
        /\ CmdAdminDeploy(t) \in Honest(t)
    BY <1>2, <1>3 DEF CmdSummary, CmdPull, CmdAdminUpgrade, CmdAdminDeploy
  <2>3. OstreeDispatch(t) \in Honest(t)
    BY <1>3, <2>1, <2>2
       DEF OstreeDispatch, CmdInit, CmdFsck, CmdPrune, CmdConfig, CmdRefs, CmdLog, CmdShow,
           CmdRevParse, CmdDiff, CmdLs, CmdCat, CmdCommit, CmdReset, CmdPullLocal, CmdCheckout,
           CmdRemoteAdd, CmdRemoteDelete, CmdRemoteList, CmdRemoteShowUrl, CmdRemoteGpgImport,
           CmdAdminStatus, CmdAdminUndeploy, CmdAdminCleanup, CmdAdminConfigDiff, CmdAdminSwitch,
           CmdAdminUnlock
  <2> QED
    BY <1>3, <2>3 DEF Ostree
<1>6. DnfHistory(t) \in Honest(t)
  <2>1. HandleMutating(t) \in Honest(t)
    <3>1. Fail \in Seq(Low("mute", t))
      BY LowWords
    <3>2. RunMutating(RunMutatingPython(Fail)) \in MutePlans(t)
      BY <1>2, <3>1, AttemptGrades DEF RunMutating, RunMutatingPython, MutePlans
    <3> QED
      BY <1>1, <1>3, <3>2 DEF HandleMutating
  <2>2. TrySqlite(t) \in Seq(Low("still", t))
    <3> DEFINE S == Seq(Low("still", t))
    <3>1. Must("show") \in S /\ Ok \in S /\ Err \in S /\ Fail \in S /\ May("failed") \in S
          /\ \A a, b \in S : a \o b \in S
      BY LowWords
    <3> HIDE DEF S
    <3>2. SqliteList \in S /\ SqliteUserinstalled \in S /\ SqliteInfo(t) \in S
      BY <3>1 DEF SqliteList, SqliteUserinstalled, SqliteInfo, Argument
    <3>3. TrySqlite(t) \in S
      BY <3>1, <3>2 DEF TrySqlite
    <3> QED
      BY <3>3 DEF S
  <2>3. TryPython(TrySqlite(t)) \in StillPlans(t) /\ TryCli(TryPython(TrySqlite(t))) \in StillPlans(t)
    <3>1. TryPython(TrySqlite(t)) \in Seq(Middle("still", t))
      BY <1>2, <2>2, AttemptGrades DEF TryPython
    <3> QED
      BY <1>2, <3>1, AttemptGrades, GradeLevels DEF TryCli, StillPlans
  <2>4. TrySqlite(t) \in StillPlans(t)
    BY <2>2, GradeLevels DEF StillPlans
  <2> QED
    BY <2>1, <2>3, <2>4 DEF DnfHistory
<1> QED
  BY <1>4, <1>5, <1>6

LEMMA HonestBranch ==
  ASSUME NEW t, NEW s \in Seq(Flats(t)), s \in Honest(t)
  PROVE  IfNeeded(s) \in Honest(t)
<1> DEFINE r == [op |-> "branch", then |-> s]
<1>1. IfNeeded(s) = <<r>> /\ r.op = "branch" /\ r.then = s
  BY DEF IfNeeded
<1>2. <<r>> \in Parts(t)
  BY <1>1, AskWords, Levels, Zenon
<1> HIDE DEF r
<1>3. Good(t, r)
  BY <1>1, Zenon DEF Good, Honest
<1>4. DOMAIN <<r>> = {1} /\ <<r>>[1] = r
  OBVIOUS
<1>5. Paired(t, <<r>>)
  BY <1>1, <1>4 DEF Paired
<1> QED
  BY <1>1, <1>2, <1>3, <1>4, <1>5 DEF Honest

LEMMA FlatPlans ==
  ASSUME NEW t
  PROVE  /\ \A a, b \in Seq(Flats(t)) : a \o b \in Seq(Flats(t))
         /\ \A cond : \A s \in Seq(Flats(t)) : When(cond, s) \in Seq(Flats(t))
         /\ \A p \in {OkIfNone, Ok, Did} : p \in Seq(Flats(t))
<1>1. <<>> \in Seq(Flats(t)) /\ \A a, b \in Seq(Flats(t)) : a \o b \in Seq(Flats(t))
  OBVIOUS
<1>2. \A cond : \A s \in Seq(Flats(t)) : When(cond, s) \in Seq(Flats(t))
  BY <1>1, Zenon DEF When
<1>3. \A p \in {OkIfNone, OkIfUndone, Changed, Ok} : p \in Seq(Flats(t))
  BY StopWords DEF OkIfNone, OkIfUndone, Changed, Ok, Conditions
<1> QED
  BY <1>1, <1>2, <1>3 DEF Did

LEMMA FourJoin ==
  ASSUME NEW G
  PROVE  <<>> \in Seq(G) /\ \A a, b, c, d \in Seq(G) : a \o b \o c \o d \in Seq(G)
OBVIOUS

LEMMA GitKeeps ==
  ASSUME NEW t, ~ MayHide(t), t.module = "git"
  PROVE  ~ Has(t, "force") /\ ~ Has(t, "recursive")
BY DEF MayHide, Has

LEMMA FileHonest ==
  ASSUME NEW t, ~ MayHide(t)
  PROVE  /\ "content" \in t.names =>
              /\ Copy(t) \in Honest(t) /\ Template(t) \in Honest(t)
              /\ t.module = "file" => File(t) \in Honest(t)
              /\ t.module = "git" => Git(t) \in Honest(t)
              /\ Shell(t) \in Honest(t) /\ CommandModule(t) \in Honest(t)
         /\ t.module = "lineinfile" => LineInFile(t) \in Honest(t)
         /\ Stat(t) \in Honest(t) /\ Find(t) \in Honest(t) /\ Setup \in Honest(t)
         /\ Debug \in Honest(t) /\ FailModule \in Honest(t) /\ SetFact(t) \in Honest(t)
         /\ Python(t) \in Honest(t)
         /\ \A inner \in Honest(t) : Preview(t, inner) \in Honest(t)
<1> USE StopGrades, AskGrades, CommandGrades, HonestWords
<1>1. /\ \A c \in {"show", "other", "mkdir", "fetch", "backup", "remove", "install",
                   "installLatest", "write", "link", "clone"} : c \in CommandsOf(t)
      /\ \A c \in {"show", "other", "mkdir", "fetch", "backup"} : c \in Quiet
      /\ \A q \in {"missing", "installed", "differs", "differs, there"} : q \in Questions
      /\ "err" \in Leads
  BY TaskWords DEF Pointed, Questions, Leads, Quiet
<1>2. CreateDirAll \in StillPlans(t) /\ CreateDirAll \in MutePlans(t)
  BY <1>1 DEF CreateDirAll
<1>3. \A a \in Honest(t) : Requires(t, a) \in Honest(t)
  BY DEF Requires
<1>4. ASSUME "content" \in t.names
      PROVE  /\ Copy(t) \in Honest(t) /\ Template(t) \in Honest(t)
             /\ t.module = "file" => File(t) \in Honest(t)
             /\ t.module = "git" => Git(t) \in Honest(t)
             /\ Shell(t) \in Honest(t) /\ CommandModule(t) \in Honest(t)
  <2>1. Content \in SUBSET t.names /\ ModeOf(t) \in SUBSET t.names
    BY <1>4 DEF Content, ModeOf
  <2> HIDE DEF Content
  <2>2. ApplyMode(t) \in MutePlans(t)
    <3>1. When(Has(t, "bad mode"), Err) \in MutePlans(t) /\ Take(ModeOf(t)) \in MutePlans(t)
          /\ MustSome("write") \in MutePlans(t)
      BY <1>1, <2>1
    <3> QED
      BY <3>1 DEF ApplyMode
  <2>3. Copy(t) \in Honest(t)
    <3>1. \A q \in {"differs", "differs, there"} : Ask(q, Content) \o OkIfNone \in Honest(t)
      BY <1>1, <2>1
    <3>2. When(~ Has(t, "inline"), ApplyMode(t)) \in MutePlans(t) /\ Must("write") \in MutePlans(t)
      BY <1>1, <2>2
    <3>3. CopyFile(t) \in Honest(t)
      BY <3>1, <3>2 DEF CopyFile
    <3> QED
      BY <1>2, <1>3, <3>3 DEF Copy
  <2>4. Template(t) \in Honest(t)
    <3>1. When(Has(t, "no force"), Ask("differs", Content) \o OkIfNone) \in StillPlans(t)
      BY <1>1, <2>1
    <3>2. When(Has(t, "backup"), Must("backup")) \in StillPlans(t) /\ Must("show") \in StillPlans(t)
      BY <1>1
    <3>3. Take(Content) \in MutePlans(t) /\ Must("write") \in MutePlans(t)
      BY <1>1, <2>1
    <3> QED
      BY <1>2, <1>3, <2>2, <3>1, <3>2, <3>3 DEF Template
  <2>5. ASSUME t.module = "file" PROVE File(t) \in Honest(t)
    <3>1. RemovePath(t) \in Honest(t) /\ CreateHardlink(t) \in Honest(t)
      BY <1>1, <2>1 DEF RemovePath, CreateHardlink
    <3>2. t.state \notin {"directory", "touch"}
      BY <2>5 DEF MayHide
    <3>3. CreateSymlink \in Honest(t)
      <4> DEFINE inner == Ask("differs", Content) \o OkIfNone \o Must("remove")
      <4>1. Ask("differs", Content) \o OkIfNone \in Honest(t)
        BY <1>1, <2>1
      <4>2. inner \in Honest(t)
        BY <1>1, <4>1
      <4>3. inner \in Seq(Flats(t))
        <5>1. Ask("differs", Content) \in Seq(Flats(t)) /\ Must("remove") \in Seq(Flats(t))
          BY <1>1, <2>1, AskWords, CommandWords
        <5> QED
          BY <5>1, FlatPlans, Zenon
      <4> HIDE DEF inner
      <4>4. IfNeeded(inner) \in Honest(t)
        BY <4>2, <4>3, HonestBranch
      <4>5. Ask("installed", Content) \o IfNeeded(inner) \in Honest(t)
        BY <1>1, <2>1, <4>4
      <4> QED
        BY <1>1, <2>1, <4>5 DEF CreateSymlink, inner
    <3>4. EnsureFile(t) \in Honest(t)
      <4>1. Ask("missing", Content) \o FailIfSome \in StillPlans(t)
        BY <1>1, <2>1
      <4> QED
        BY <2>2, <4>1 DEF EnsureFile
    <3> QED
      BY <1>3, <2>2, <3>1, <3>2, <3>3, <3>4 DEF File
  <2>6. ASSUME t.module = "git" PROVE Git(t) \in Honest(t)
    <3> DEFINE before == When(Has(t, "force"), Try("checkout force")) \o GitRun("fetch") \o GitCheckout \o
                         When(Has(t, "recursive"), Try("submodules"))
               then == IF Has(t, "no update") THEN Ok ELSE before \o Did
    <3>0. When(Has(t, "force"), Try("checkout force")) = <<>>
          /\ When(Has(t, "recursive"), Try("submodules")) = <<>>
      <4>1. ~ Has(t, "force") /\ ~ Has(t, "recursive")
        BY <2>6, GitKeeps, Zenon
      <4> QED
        BY <4>1 DEF When
    <3>1. before \in MutePlans(t) /\ before \in FirmPlans(t)
      <4>1. <<>> \in MutePlans(t) /\ <<>> \in FirmPlans(t)
        BY FourJoin, Zenon DEF MutePlans, FirmPlans
      <4>2. /\ GitRun("fetch") \in MutePlans(t) /\ GitCheckout \in MutePlans(t)
            /\ GitRun("fetch") \in FirmPlans(t) /\ GitCheckout \in FirmPlans(t)
        BY <1>1 DEF GitRun, GitCheckout
      <4>4. \A a, b, c, d \in MutePlans(t) : a \o b \o c \o d \in MutePlans(t)
        BY FourJoin, Zenon DEF MutePlans
      <4>5. \A a, b, c, d \in FirmPlans(t) : a \o b \o c \o d \in FirmPlans(t)
        BY FourJoin, Zenon DEF FirmPlans
      <4> QED
        BY <3>0, <4>1, <4>2, <4>4, <4>5, Zenon
    <3>2. before \in Seq(Flats(t)) /\ Did \in Seq(Flats(t)) /\ Ok \in Seq(Flats(t))
      <4>1. /\ <<>> \in Seq(Flats(t)) /\ Must("fetch") \in Seq(Flats(t))
            /\ Must("installLatest") \in Seq(Flats(t))
        BY <1>1, CommandWords, FourJoin
      <4>2. Did \in Seq(Flats(t)) /\ Ok \in Seq(Flats(t))
        BY FlatPlans
      <4>3. \A a, b, c, d \in Seq(Flats(t)) : a \o b \o c \o d \in Seq(Flats(t))
        BY FourJoin, Zenon
      <4>4. before \in Seq(Flats(t))
        BY <3>0, <4>1, <4>3, Zenon DEF GitRun, GitCheckout
      <4> QED
        BY <4>2, <4>4
    <3> HIDE DEF before
    <3>3. before \o Did \in Honest(t)
      BY <3>1
    <3>4. then \in Honest(t)
      BY <3>3
    <3>5. then \in Seq(Flats(t))
      BY <3>2, FlatPlans, Zenon
    <3> HIDE DEF then
    <3>6. Ask("installed", Content) \o IfNeeded(then) \in Honest(t)
      BY <1>1, <2>1, <3>4, <3>5, HonestBranch
    <3>7. /\ Take(Content) \in MutePlans(t) /\ GitRun("clone") \in MutePlans(t)
          /\ When(~ Has(t, "single branch"), Try("installLatest")) \in MutePlans(t)
      BY <1>1, <2>1 DEF GitRun
    <3>8. Ask("installed", Content) \o IfNeeded(then) \o Take(Content) \o GitRun("clone") \o
          When(~ Has(t, "single branch"), Try("installLatest")) \o Changed \in Honest(t)
      BY <3>6, <3>7
    <3> QED
      BY <1>3, <3>8 DEF Git, then, before
  <2>7. Shell(t) \in Honest(t)
    BY <1>1, <1>3, <2>1 DEF Shell
  <2> QED
    BY <2>3, <2>4, <2>5, <2>6, <2>7 DEF CommandModule
<1>5. ASSUME t.module = "lineinfile" PROVE LineInFile(t) \in Honest(t)
  <2>1. RemoveLines(t) \in StillPlans(t) /\ InsertOrReplace(t) \in StillPlans(t)
    BY <1>1 DEF RemoveLines, InsertOrReplace
  <2>2. Must("rewrite") \in MutePlans(t) /\ Must("rewrite without") \in MutePlans(t)
    BY <1>5, TaskWords DEF Rewrites
  <2>3. When(Has(t, "backup"), Must("backup")) \in StillPlans(t) /\ ~ Has(t, "create")
        /\ List("err") \in StillPlans(t) /\ May("failed") \in StillPlans(t)
    BY <1>1, <1>5 DEF MayHide
  <2>4. (IF Has(t, "create") THEN CreateDirAll \o Must("create file") ELSE May("failed")) \o List("err") \o
        (IF t.state = "absent" THEN RemoveLines(t) ELSE InsertOrReplace(t)) \o OkIfNone \o
        When(Has(t, "backup"), Must("backup")) \in StillPlans(t)
    BY <1>2, <2>1, <2>3
  <2> QED
    BY <1>3, <2>2, <2>4 DEF LineInFile
<1>6. Stat(t) \in Honest(t) /\ Find(t) \in Honest(t)
  BY <1>1, <1>3 DEF Stat, Find, FindIn
<1>7. Setup \in Honest(t)
  <2>1. Try("show") \in StillPlans(t)
    BY <1>1
  <2> QED
    BY <2>1 DEF Setup, CollectAllFacts, CollectOsRelease, CollectUname, CollectHostname,
                CollectCpuInfo, CollectMemInfo, CollectInterfaces, CollectMounts, CollectDatetime,
                CollectPythonVersion, CollectVirtualization
<1>8. Debug \in Honest(t) /\ FailModule \in Honest(t) /\ SetFact(t) \in Honest(t)
  BY DEF Debug, FailModule, SetFact
<1>9. Python(t) \in Honest(t)
  <2>1. InvokeSubprocess \in Honest(t)
    BY <1>1 DEF InvokeSubprocess, WriteArgsFile, ParseOutput
  <2> QED
    BY <2>1 DEF Python, ConfigurablePython, SubprocessPython, AnsiblePython, PythonModuleWrapper,
                FindModule, Dispatch
<1>10. \A inner \in Honest(t) : Preview(t, inner) \in Honest(t)
  BY <1>1, <1>2 DEF Preview, SandboxInvoke, BuildModuleScript, CollectOverlayfsDiff
<1> QED
  BY <1>4, <1>5, <1>6, <1>7, <1>8, <1>9, <1>10

LEMMA HonestInvocations ==
  ASSUME NEW m \in Modules, NEW t \in Tasks(m), ~ MayHide(t)
  PROVE  Invoke(t) \in Honest(t)
<1>1. t.module \in FileModules => "content" \in t.names
  BY ManagedAssumption
<1>2. t.module \in {"copy", "template", "file", "git", "shell", "command", "preview", "appimage"} =>
        "content" \in t.names
  BY <1>1 DEF FileModules
<1>3. t.module \in {"copy", "template", "file", "git", "shell", "command"} =>
        /\ Copy(t) \in Honest(t) /\ Template(t) \in Honest(t)
        /\ t.module = "file" => File(t) \in Honest(t)
        /\ t.module = "git" => Git(t) \in Honest(t)
        /\ Shell(t) \in Honest(t) /\ CommandModule(t) \in Honest(t)
  BY <1>2, FileHonest
<1>4. t.module = "preview" => Preview(t, Copy(t)) \in Honest(t)
  BY <1>2, FileHonest
<1>5. t.module = "appimage" => Appimage(t) \in Honest(t)
  BY <1>2, OtherHonest
<1>6. PlansIn(t, Honest(t))
  <2>1. Fail \in Honest(t)
    BY StopGrades, HonestWords
  <2>2. t.module # "zopen" /\ Zos(t) \in Honest(t)
    BY OtherHonest
  <2>3. /\ t.module = "lineinfile" => LineInFile(t) \in Honest(t)
        /\ Stat(t) \in Honest(t) /\ Find(t) \in Honest(t) /\ Setup \in Honest(t)
        /\ Debug \in Honest(t) /\ FailModule \in Honest(t) /\ SetFact(t) \in Honest(t)
        /\ Python(t) \in Honest(t)
    BY FileHonest
  <2> QED
    BY <1>3, <1>4, <1>5, <2>1, <2>2, <2>3, LinuxHonest, UnixHonest, LanguageHonest, DeploymentHonest
       DEF PlansIn
<1> QED
  BY <1>6, ByModule

-----------------------------------------------------------------------------
(* As a plan goes on. *)
LEMMA InsideSteps ==
  ASSUME NEW t, NEW s \in StepsOf(t)
  PROVE  /\ s.op \in Acts /\ "else" \in {s.bad, s.lost} => s.op = "run" /\ s.bad = "else"
         /\ s.op = "ask" => \A P \in SUBSET s.of : \A g : [s EXCEPT !.of = P] \in Graded(g, t)
<1>1. \/ s \in Flat(t.names, CommandsOf(t))
      \/ s \in [op : {"branch"}, then : Seq(Inner(t))]
      \/ s \in [op : {"run"}, cmd : CommandsOf(t), bad : {"else"}, lost : {"else"}, else : Seq(Inner(t))]
  BY Zenon DEF StepsOf, Deep
<1>2. s.op \in Acts /\ "else" \in {s.bad, s.lost} => s.op = "run" /\ s.bad = "else"
  BY <1>1, FlatSteps DEF Acts, Leads
<1>3. ASSUME s.op = "ask", NEW P \in SUBSET s.of, NEW g PROVE [s EXCEPT !.of = P] \in Graded(g, t)
  <2> DEFINE r == [s EXCEPT !.of = P]
  <2>1. r \in StepsOf(t) /\ r.op = "ask"
    BY <1>3, StepFacts
  <2> HIDE DEF r
  <2>2. Of(g, r)
    BY <2>1 DEF Of, Acts
  <2> QED
    BY <2>1, <2>2 DEF Graded, Holding, r
<1> QED
  BY <1>2, <1>3

LEMMA GradeGoesOn ==
  ASSUME NEW t, NEW g, NEW p \in Seq(Graded(g, t)), p # <<>>
  PROVE  LET s == Head(p)
         IN  /\ Tail(p) \in Seq(Graded(g, t))
             /\ s.op = "ask" => \A P \in SUBSET s.of :
                                  <<[s EXCEPT !.of = P]>> \o Tail(p) \in Seq(Graded(g, t))
             /\ s.op = "branch" => s.then \o Tail(p) \in Seq(Graded(g, t))
             /\ s.op = "run" /\ "else" \in {s.bad, s.lost} => s.else \o Tail(p) \in Seq(Graded(g, t))
<1> DEFINE s == Head(p)
           S == Graded(g, t)
<1>1. s \in S /\ Tail(p) \in Seq(S)
  OBVIOUS
<1>2. /\ \A a, b \in Seq(S) : a \o b \in Seq(S)
      /\ \A x \in S : <<x>> \in Seq(S)
  OBVIOUS
<1>3. /\ s.op = "branch" => s.then \in Seq(Middle(g, t))
      /\ s.op = "run" /\ s.bad = "else" => s.else \in Seq(Middle(g, t))
      /\ s \in StepsOf(t)
  BY <1>1, Zenon DEF Graded, Holding
<1>4. Seq(Middle(g, t)) \subseteq Seq(S)
  BY GradeLevels
<1> HIDE DEF S, s
<1>5. s.op = "ask" => \A P \in SUBSET s.of : [s EXCEPT !.of = P] \in S
  BY <1>3, InsideSteps DEF S
<1>6. s.op = "run" /\ "else" \in {s.bad, s.lost} => s.bad = "else"
  BY <1>3, InsideSteps DEF Acts
<1>7. /\ s.op = "ask" => \A P \in SUBSET s.of : <<[s EXCEPT !.of = P]>> \o Tail(p) \in Seq(S)
      /\ s.op = "branch" => s.then \o Tail(p) \in Seq(S)
      /\ s.op = "run" /\ "else" \in {s.bad, s.lost} => s.else \o Tail(p) \in Seq(S)
  BY <1>1, <1>2, <1>3, <1>4, <1>5, <1>6, Zenon
<1> QED
  BY <1>1, <1>7, Zenon DEF s, S

LEMMA GradesNest ==
  ASSUME NEW t
  PROVE  /\ Graded("mute", t) \subseteq Graded("told", t)
         /\ \A s \in Flats(t) : s.op # "return" => Good(t, s)
<1>1. \A s : Of("mute", s) => Of("told", s)
  BY DEF Of
<1>2. ASSUME NEW S, NEW I, NEW J, I \subseteq J
      PROVE  Holding("mute", S, I) \subseteq Holding("told", S, J)
  <2>1. Seq(I) \subseteq Seq(J)
    BY <1>2
  <2> QED
    BY <1>1, <2>1, Zenon DEF Holding
<1>3. Graded("mute", t) \subseteq Graded("told", t)
  <2>1. Low("mute", t) \subseteq Low("told", t)
    <3>1. {} \subseteq {}
      OBVIOUS
    <3> QED
      BY <1>2, <3>1, Zenon DEF Low
  <2>2. Middle("mute", t) \subseteq Middle("told", t)
    BY <1>2, <2>1, Zenon DEF Middle
  <2> QED
    BY <1>2, <2>2, Zenon DEF Graded
<1>4. ASSUME NEW s \in Flats(t), s.op # "return" PROVE Good(t, s)
  <2>1. Of("still", s) \/ Of("mute", s)
    BY <1>4 DEF Of, Acts
  <2> QED
    BY <2>1, GradeLevels DEF Good
<1> QED
  BY <1>3, <1>4

(* How the first step of an honest plan and the rest of it go together.      *)
LEMMA HonestSplit ==
  ASSUME NEW t, NEW p \in Honest(t), p # <<>>
  PROVE  LET s == Head(p)
             r == Tail(p)
         IN  /\ s \in StepsOf(t) /\ s.op # "return" /\ Good(t, s) /\ r \in Honest(t)
             /\ s \in Graded("still", t) \/ r \in MutePlans(t)
                \/ (s \in Graded("firm", t) /\ r \in ToldPlans(t))
             /\ AfterReturn(p) = <<>>
<1> DEFINE s == Head(p)
           r == Tail(p)
<1>1. /\ p \in Seq(StepsOf(t)) /\ \A i \in DOMAIN p : p[i].op # "return" /\ Good(t, p[i])
      /\ \A i, j \in DOMAIN p : i < j => Pair(t, p[i], p[j])
  BY DEF Honest, Paired, Parts
<1>2. /\ 1 \in DOMAIN p /\ s = p[1] /\ r \in Seq(StepsOf(t))
      /\ \A i \in DOMAIN r : /\ i \in Nat /\ i >= 1
                             /\ i + 1 \in DOMAIN p /\ r[i] = p[i + 1]
  BY <1>1
<1>3. s \in StepsOf(t)
  BY <1>1
<1> HIDE DEF s, r
<1>4. \A i, j \in DOMAIN r : i < j => Pair(t, r[i], r[j])
  <2> SUFFICES ASSUME NEW i \in DOMAIN r, NEW j \in DOMAIN r, i < j PROVE Pair(t, r[i], r[j])
    OBVIOUS
  <2>1. i + 1 < j + 1 /\ i + 1 \in DOMAIN p /\ j + 1 \in DOMAIN p
    BY <1>2
  <2>2. Pair(t, p[i + 1], p[j + 1])
    BY <1>1, <2>1
  <2> QED
    BY <1>2, <2>2
<1>5. \A i \in DOMAIN r : r[i].op # "return" /\ Good(t, r[i])
  BY <1>1, <1>2
<1>6. r \in Honest(t)
  BY <1>2, <1>4, <1>5, Zenon DEF Honest, Paired, Parts
<1>7. \A i \in DOMAIN r : Pair(t, s, r[i])
  <2> SUFFICES ASSUME NEW i \in DOMAIN r PROVE Pair(t, s, r[i])
    OBVIOUS
  <2>1. 1 < i + 1 /\ i + 1 \in DOMAIN p
    BY <1>2
  <2>2. Pair(t, p[1], p[i + 1])
    BY <1>1, <1>2, <2>1
  <2> QED
    BY <1>2, <2>2
<1>8. \A S : (\A i \in DOMAIN r : r[i] \in S) => r \in Seq(S)
  BY <1>2
<1>9. \/ s \in Graded("still", t) \/ r \in MutePlans(t)
      \/ s \in Graded("firm", t) /\ r \in ToldPlans(t)
  <2>1. CASE s \in Graded("firm", t) /\ s \notin Graded("still", t)
    <3>1. \A i \in DOMAIN r : r[i] \in Graded("told", t)
      BY <1>7, <2>1, GradesNest, Zenon DEF Pair
    <3> QED
      BY <1>8, <2>1, <3>1, Zenon DEF ToldPlans
  <2>2. CASE s \notin Graded("firm", t) /\ s \notin Graded("still", t)
    <3>1. \A i \in DOMAIN r : r[i] \in Graded("mute", t)
      BY <1>7, <2>2, Zenon DEF Pair
    <3> QED
      BY <1>8, <3>1, Zenon DEF MutePlans
  <2> QED
    BY <2>1, <2>2
<1>10. AfterReturn(p) = <<>>
  BY <1>1 DEF AfterReturn
<1> QED
  BY <1>1, <1>2, <1>3, <1>6, <1>9, <1>10, Zenon DEF s, r

(* What a step brings in instead of itself is as honest as it is.            *)
LEMMA HonestInside ==
  ASSUME NEW t, NEW s \in StepsOf(t), Good(t, s),
         NEW q,
         \/ s.op = "branch" /\ q = s.then
         \/ s.op = "run" /\ s.bad = "else" /\ q = s.else
  PROVE  /\ q \in Honest(t)
         /\ \A g : s \in Graded(g, t) => q \in Seq(Graded(g, t))
<1>1. ASSUME NEW g, s \in Graded(g, t) PROVE q \in Seq(Graded(g, t))
  <2>1. q \in Seq(Middle(g, t))
    BY <1>1, Zenon DEF Graded, Holding
  <2> QED
    BY <2>1, GradeLevels, Zenon
<1>2. CASE s \in Graded("still", t) \/ s \in Graded("mute", t)
  BY <1>1, <1>2, HonestJoins, Zenon DEF StillPlans, MutePlans
<1>3. CASE s.op = "branch" /\ s.then \in Seq(Flats(t)) /\ Paired(t, s.then)
  <2>1. q \in Seq(Flats(t)) /\ Paired(t, q)
    BY <1>3
  <2>2. q \in Parts(t)
    BY <2>1, Levels, Zenon
  <2>3. \A i \in DOMAIN q : q[i] \in Flats(t)
    BY <2>1
  <2>4. \A i \in DOMAIN q : Good(t, q[i])
    BY <2>1, <2>3, GradesNest, Zenon DEF Paired
  <2> QED
    BY <1>1, <2>1, <2>2, <2>4, Zenon DEF Honest
<1> QED
  BY <1>1, <1>2, <1>3 DEF Good

(* An honest plan stays one as it goes on, whichever way it goes.            *)
LEMMA HonestGoesOn ==
  ASSUME NEW t, NEW p \in Honest(t), p # <<>>
  PROVE  LET s == Head(p)
         IN  /\ Tail(p) \in Honest(t)
             /\ s.op = "ask" => \A P \in SUBSET s.of : <<[s EXCEPT !.of = P]>> \o Tail(p) \in Honest(t)
             /\ s.op = "branch" => s.then \o Tail(p) \in Honest(t)
             /\ s.op = "run" /\ "else" \in {s.bad, s.lost} => s.else \o Tail(p) \in Honest(t)
             /\ AfterReturn(p) = <<>>
             /\ s.op \in Acts /\ s.cmd \notin Quiet =>
                  \/ p \in MutePlans(t)
                  \/ s.bad \in {"failed", "err"} /\ p \in ToldPlans(t)
<1> DEFINE s == Head(p)
           r == Tail(p)
<1>1. /\ s \in StepsOf(t) /\ Good(t, s) /\ r \in Honest(t) /\ AfterReturn(p) = <<>>
      /\ s \in Graded("still", t) \/ r \in MutePlans(t)
         \/ (s \in Graded("firm", t) /\ r \in ToldPlans(t))
  BY HonestSplit
<1>2. /\ p = <<s>> \o r /\ p \in Seq(StepsOf(t)) /\ r \in Seq(StepsOf(t))
  BY DEF Honest, Parts
<1>3. /\ \A S : s \in S /\ r \in Seq(S) => p \in Seq(S)
      /\ \A S : \A x \in S : <<x>> \in Seq(S)
  BY <1>2
<1> HIDE DEF s, r
<1>4. ASSUME NEW q \in Honest(t), \A g : s \in Graded(g, t) => q \in Seq(Graded(g, t))
      PROVE  q \o r \in Honest(t)
  <2>1. \/ q \in StillPlans(t) \/ r \in MutePlans(t)
        \/ q \in FirmPlans(t) /\ r \in ToldPlans(t)
    BY <1>1, <1>4, Zenon DEF StillPlans, FirmPlans
  <2> QED
    BY <1>1, <2>1, HonestJoins, Zenon
<1>5. ASSUME s.op = "ask", NEW P \in SUBSET s.of PROVE <<[s EXCEPT !.of = P]>> \o r \in Honest(t)
  <2>1. \A g : <<[s EXCEPT !.of = P]>> \in Seq(Graded(g, t))
    BY <1>1, <1>3, <1>5, InsideSteps
  <2>2. <<[s EXCEPT !.of = P]>> \in Honest(t)
    BY <2>1, HonestJoins, Zenon DEF StillPlans
  <2> QED
    BY <1>4, <2>1, <2>2, Zenon
<1>6. s.op = "branch" => s.then \o r \in Honest(t)
  BY <1>1, <1>4, HonestInside, Zenon
<1>7. ASSUME s.op = "run", "else" \in {s.bad, s.lost} PROVE s.else \o r \in Honest(t)
  <2>1. s.bad = "else"
    BY <1>1, <1>7, InsideSteps DEF Acts
  <2> QED
    BY <1>1, <1>4, <1>7, <2>1, HonestInside, Zenon
<1>8. ASSUME s.op \in Acts, s.cmd \notin Quiet
      PROVE  \/ p \in MutePlans(t)
             \/ s.bad \in {"failed", "err"} /\ p \in ToldPlans(t)
  <2>1. s \notin Graded("still", t)
    BY <1>8 DEF Graded, Holding, Of
  <2>2. s \in Graded("mute", t)
    BY <1>1, <1>8, <2>1 DEF Good, Acts
  <2>3. s \in Graded("firm", t) => s.bad \in {"failed", "err"}
    BY <1>8 DEF Graded, Holding, Of
  <2>4. s \in Graded("told", t)
    BY <2>2, GradesNest, Zenon
  <2> QED
    BY <1>1, <1>3, <2>1, <2>2, <2>3, <2>4, Zenon DEF MutePlans, ToldPlans
<1> QED
  BY <1>1, <1>5, <1>6, <1>7, <1>8, Zenon DEF s, r

-----------------------------------------------------------------------------
(* The inductive invariant.  A call that has moved something has no step     *)
(* left that reports ok, or none but those that ask whether something was    *)
(* done, and knows that it was.                                              *)
MaySay(c, p) == p \in MutePlans(c.task) \/ (c.did /\ p \in ToldPlans(c.task))
HideOf(c) ==
  (c.task # Idle /\ ~ MayHide(c.task)) =>
    /\ c.verdict = "running" => c.todo \in Honest(c.task) /\ (c.moved => MaySay(c, c.todo))
    /\ c.verdict = "ok" => ~ c.moved /\ c.todo = <<>>
HideInv == TypeInv /\ \A t \in Threads : HideOf(call[t])

(* A call that goes on, having moved what it had the right to.               *)
LEMMA HideOnward ==
  ASSUME NEW c, NEW d, c.task # Idle, ~ MayHide(c.task), c.todo # <<>>, HideOf(c),
         d.task = c.task, Onward(c, d), c.did => d.did,
         d.moved => \/ c.moved
                    \/ c.verdict = "running" => MaySay(d, c.todo)
  PROVE  HideOf(d)
<1> DEFINE p == c.todo
           t == c.task
           s == Head(p)
<1>1. CASE c.verdict = "running"
  <2>1. p \in Honest(t) /\ p # <<>>
    BY <1>1 DEF HideOf
  <2>2. d.moved => MaySay(d, p)
    BY <1>1 DEF HideOf, MaySay
  <2>3. d.verdict = "running"
    BY <1>1 DEF Onward
  <2>4. \/ d.todo = Tail(p)
        \/ s.op = "ask" /\ \E P \in SUBSET s.of : d.todo = <<[s EXCEPT !.of = P]>> \o Tail(p)
        \/ s.op = "branch" /\ d.todo = s.then \o Tail(p)
        \/ s.op = "run" /\ "else" \in {s.bad, s.lost} /\ d.todo = s.else \o Tail(p)
        \/ d.todo = p
    BY Zenon DEF Onward
  <2> HIDE DEF p, s
  <2>5. d.todo \in Honest(t)
    BY <2>1, <2>4, HonestGoesOn, Zenon DEF s
  <2>6. ASSUME NEW g, p \in Seq(Graded(g, t)) PROVE d.todo \in Seq(Graded(g, t))
    <3>1. /\ Tail(p) \in Seq(Graded(g, t))
          /\ s.op = "ask" => \A P \in SUBSET s.of :
                               <<[s EXCEPT !.of = P]>> \o Tail(p) \in Seq(Graded(g, t))
          /\ s.op = "branch" => s.then \o Tail(p) \in Seq(Graded(g, t))
          /\ s.op = "run" /\ "else" \in {s.bad, s.lost} => s.else \o Tail(p) \in Seq(Graded(g, t))
      BY <2>1, <2>6, GradeGoesOn DEF s
    <3> QED
      BY <2>4, <2>6, <3>1, Zenon
  <2>7. MaySay(d, p) => MaySay(d, d.todo)
    BY <2>6, Zenon DEF MaySay, MutePlans, ToldPlans
  <2> QED
    BY <2>2, <2>3, <2>5, <2>7 DEF HideOf
<1>2. CASE c.verdict # "running"
  BY <1>2 DEF HideOf, Onward
<1> QED
  BY <1>1, <1>2

(* And one that comes to a result.                                           *)
LEMMA HideEnded ==
  ASSUME NEW c, NEW d, c.task # Idle, ~ MayHide(c.task), c.todo # <<>>, HideOf(c),
         d.task = c.task, NEW v \in {"ok", "changed", "failed", "err"}, Ended(c, d, v),
         v = "ok" /\ c.verdict = "running" => d.moved = c.moved /\ (c.moved => ~ MaySay(c, c.todo))
  PROVE  HideOf(d)
<1>1. d.verdict # "running"
  BY DEF Ended
<1>2. ASSUME d.verdict = "ok" PROVE ~ d.moved /\ d.todo = <<>>
  <2>1. c.verdict = "running" /\ v = "ok"
    BY <1>2 DEF Ended, HideOf
  <2>2. c.todo \in Honest(c.task) /\ ~ c.moved
    BY <2>1 DEF HideOf
  <2>3. d.todo = <<>>
    BY <2>1, <2>2, HonestGoesOn DEF Ended
  <2> QED
    BY <2>1, <2>2, <2>3
<1> QED
  BY <1>1, <1>2 DEF HideOf

(* A step of t leaves the others alone.                                      *)
LEMMA HideOthers ==
  ASSUME HideInv, NEW t \in Threads, Apart(t), TypeInv', HideOf(call'[t])
  PROVE  HideInv'
<1>1. ASSUME NEW u \in Threads \ {t} PROVE HideOf(call'[u])
  <2> DEFINE c == call[u]
             d == call'[u]
  <2>1. /\ d.task = c.task /\ d.todo = c.todo /\ d.verdict = c.verdict /\ d.did = c.did
        /\ d.moved = c.moved /\ HideOf(c)
    BY DEF Apart, HideInv
  <2> HIDE DEF c, d
  <2>2. HideOf(d)
    BY <2>1 DEF HideOf, MaySay
  <2> QED
    BY <2>2 DEF d
<1>2. \A u \in Threads : HideOf(call'[u])
  BY <1>1
<1> QED
  BY <1>2 DEF HideInv

LEMMA HideLocal ==
  ASSUME HideInv, NEW t \in Threads, StopOrGoOn(t) \/ AskNext(t) \/ Select(t)
  PROVE  HideInv'
<1> DEFINE c == call[t]
           d == call'[t]
           s == Head(c.todo)
<1>1. TypeInv /\ TypeInv' /\ HideOf(c) /\ Running(t)
  BY LocalStepsSound DEF HideInv, StopOrGoOn, AskNext, Select, At
<1>2. /\ Apart(t) /\ d.task = c.task /\ d.did = c.did /\ d.moved = c.moved
      /\ \/ Onward(c, d)
         \/ Ended(c, d, s.verdict) /\ s.op = "stop" /\ \E h \in Holds(s.if, c) : h
  BY <1>1, LocalShape
<1>3. c.task # Idle /\ c.todo \in Parts(c.task) /\ c.todo # <<>> /\ s \in StepsOf(c.task)
  BY <1>1, RunningFacts DEF Step
<1>4. ASSUME s.op = "stop", s.verdict = "ok", MaySay(c, c.todo)
      PROVE  ~ \E h \in Holds(s.if, c) : h
  <2>1. ASSUME NEW g, c.todo \in Seq(Graded(g, c.task)) PROVE s \in Graded(g, c.task)
    BY <1>3, <2>1
  <2>2. s \notin Graded("mute", c.task)
    BY <1>4 DEF Graded, Holding, Of
  <2>3. c.did /\ s \in Graded("told", c.task)
    BY <1>4, <2>1, <2>2, Zenon DEF MaySay, MutePlans, ToldPlans
  <2>4. s.if = "nothing done"
    BY <1>4, <2>3 DEF Graded, Holding, Of
  <2> QED
    BY <2>3, <2>4 DEF Holds
<1>5. s.op = "stop" => s.verdict \in {"ok", "changed", "failed", "err"}
  BY <1>3, StepFacts
<1> HIDE DEF c, d, s
<1>6. HideOf(d)
  <2>1. CASE MayHide(c.task)
    BY <1>2, <2>1 DEF HideOf
  <2>2. CASE ~ MayHide(c.task) /\ Onward(c, d)
    BY <1>1, <1>2, <1>3, <2>2, HideOnward
  <2>3. CASE /\ ~ MayHide(c.task) /\ Ended(c, d, s.verdict) /\ s.op = "stop"
             /\ \E h \in Holds(s.if, c) : h
    BY <1>1, <1>2, <1>3, <1>4, <1>5, <2>3, HideEnded
  <2> QED
    BY <1>2, <2>1, <2>2, <2>3
<1> QED
  BY <1>1, <1>2, <1>6, HideOthers DEF d

LEMMA HideMove ==
  ASSUME HideInv, NEW t \in Threads, Success(t) \/ Failure(t)
  PROVE  HideInv'
<1> DEFINE c == call[t]
           d == call'[t]
           s == Head(c.todo)
<1>1. TypeInv /\ TypeInv' /\ HideOf(c) /\ Running(t)
  BY CommandStepsSound DEF HideInv, Success, Failure, At
<1>2. PICK targets \in SUBSET c.task.names, f \in [DOMAIN disk -> Versions] :
           /\ Moved(t, targets, f, c, d) /\ s.op \in {"run", "some", "each", "list"}
           /\ \/ /\ f \in Succeeding(t, targets) /\ Onward(c, d)
                 /\ d.listing = IF s.op = "list" THEN booted ELSE c.listing
                 /\ (c.did => d.did) /\ (f # disk => d.did)
              \/ \E leads \in {s.bad, s.lost} :
                   /\ f \in Failing(t, targets) /\ (leads = s.bad \/ f = disk)
                   /\ d.did = c.did
                   /\ \/ leads \in {"next", "else"} /\ Onward(c, d) /\ d.listing = c.listing
                      \/ leads \in {"failed", "err"} /\ Ended(c, d, leads)
  BY <1>1, MoveShape, Zenon
<1>4. c.task # Idle /\ c.todo # <<>> /\ s \in StepsOf(c.task)
  BY <1>1, RunningFacts DEF Step
<1>3. Apart(t) /\ d.task = c.task /\ (~ MayHide(c.task) /\ d.moved => c.moved \/ f # disk)
  <2>1. s.cmd \in CommandsOf(c.task)
    BY <1>2, <1>4, StepFacts
  <2>2. ~ MayHide(c.task) => s.cmd \notin Unseen
    BY <2>1 DEF CommandsOf, Pointed, Systemwide, Rewrites, Unseen
  <2> QED
    BY <1>2, <2>2, Zenon DEF Moved
<1>5. s.cmd \in Quiet => f = disk
  <2>1. f \in Succeeding(t, targets) \union Failing(t, targets)
    BY <1>2
  <2> QED
    BY <1>1, <2>1, CommandsKeep DEF Step
<1>6. s.op \in Acts
  BY <1>2 DEF Acts
<1>7. \/ Onward(c, d) /\ (c.did => d.did) /\ (f # disk => d.did)
      \/ Onward(c, d) /\ d.did = c.did /\ (s.bad \notin {"failed", "err"} \/ f = disk)
      \/ \E v \in {"failed", "err"} : Ended(c, d, v)
  <2>1. \/ Onward(c, d) /\ (c.did => d.did) /\ (f # disk => d.did)
        \/ \E leads \in {s.bad, s.lost} :
             /\ leads = s.bad \/ f = disk
             /\ d.did = c.did
             /\ \/ leads \in {"next", "else"} /\ Onward(c, d)
                \/ leads \in {"failed", "err"} /\ Ended(c, d, leads)
    BY <1>2, Zenon
  <2> HIDE DEF c, d, s
  <2> QED
    BY <2>1
<1> HIDE DEF c, d, s
<1>8. HideOf(d)
  <2>1. CASE MayHide(c.task)
    BY <1>3, <2>1 DEF HideOf
  <2>2. CASE \E v \in {"failed", "err"} : Ended(c, d, v) /\ ~ MayHide(c.task)
    BY <1>1, <1>3, <1>4, <2>2, HideEnded
  <2>3. ASSUME ~ MayHide(c.task), Onward(c, d), c.did => d.did,
               f # disk => d.did \/ s.bad \notin {"failed", "err"}
        PROVE  HideOf(d)
    <3>1. ASSUME d.moved, ~ c.moved, c.verdict = "running" PROVE MaySay(d, c.todo)
      <4>1. f # disk /\ s.cmd \notin Quiet
        BY <1>3, <1>5, <2>3, <3>1
      <4>2. c.todo \in Honest(c.task)
        BY <1>1, <1>4, <2>3, <3>1 DEF HideOf
      <4>3. \/ c.todo \in MutePlans(c.task)
            \/ s.bad \in {"failed", "err"} /\ c.todo \in ToldPlans(c.task)
        BY <1>4, <1>6, <4>1, <4>2, HonestGoesOn DEF s
      <4> QED
        BY <1>3, <2>3, <4>1, <4>3 DEF MaySay
    <3> QED
      BY <1>1, <1>3, <1>4, <2>3, <3>1, HideOnward
  <2> QED
    BY <1>7, <2>1, <2>2, <2>3
<1> QED
  BY <1>1, <1>3, <1>8, HideOthers DEF d

LEMMA HideBegin ==
  ASSUME HideInv, NEW t \in Threads, NEW task \in Tasks(module), Begin(t, task)
  PROVE  HideInv'
<1>1. TypeInv' /\ module \in Modules
  BY BeginSound DEF HideInv, TypeInv, Machine
<1>2. /\ \E x : call'[t] = Started(task, Invoke(task), x)
      /\ \A u \in Threads \ {t} : \E x : call'[u] = [call[u] EXCEPT !.shared = x]
  BY Zenon DEF Begin
<1>3. HideOf(call'[t])
  <2>1. ~ MayHide(task) => Invoke(task) \in Honest(task)
    BY <1>1, HonestInvocations
  <2>2. /\ call'[t].task = task /\ call'[t].todo = Invoke(task) /\ call'[t].verdict = "running"
        /\ call'[t].moved = FALSE
    BY <1>2 DEF Started
  <2> QED
    BY <2>1, <2>2 DEF HideOf
<1>4. ASSUME NEW u \in Threads \ {t} PROVE HideOf(call'[u])
  <2> DEFINE c == call[u]
             d == call'[u]
  <2>1. DOMAIN c = Fields /\ HideOf(c)
    BY DEF HideInv, TypeInv, Sound
  <2>2. PICK x : d = [c EXCEPT !.shared = x]
    BY <1>2
  <2> HIDE DEF c, d
  <2>3. /\ d.task = c.task /\ d.todo = c.todo /\ d.verdict = c.verdict /\ d.did = c.did
        /\ d.moved = c.moved
    BY <2>1, <2>2 DEF Fields
  <2>4. HideOf(d)
    BY <2>1, <2>3 DEF HideOf, MaySay
  <2> QED
    BY <2>4 DEF d
<1>5. \A u \in Threads : HideOf(call'[u])
  BY <1>3, <1>4
<1> QED
  BY <1>1, <1>5 DEF HideInv

LEMMA HideInit == Init => HideInv
<1>1. Between.task = Idle
  BY DEF Between, Started
<1> QED
  BY <1>1, TypeInit DEF Init, HideInv, HideOf

LEMMA HideStep == HideInv /\ [Next]_vars => HideInv'
<1> SUFFICES ASSUME HideInv, [Next]_vars PROVE HideInv'
  OBVIOUS
<1>1. TypeInv'
  BY TypeStep DEF HideInv
<1>2. CASE UNCHANGED vars
  BY <1>1, <1>2 DEF HideInv, vars, HideOf, MaySay
<1>3. ASSUME NEW t \in Threads, NEW task \in Tasks(module), Begin(t, task) PROVE HideInv'
  BY <1>3, HideBegin
<1>4. ASSUME NEW t \in Threads, StopOrGoOn(t) \/ AskNext(t) \/ Select(t) PROVE HideInv'
  BY <1>4, HideLocal
<1>5. ASSUME NEW t \in Threads, Success(t) \/ Failure(t) PROVE HideInv'
  BY <1>5, HideMove
<1>6. ASSUME NEW reboot \in BOOLEAN, Crash(reboot) PROVE HideInv'
  <2>1. Between.task = Idle /\ \A t \in Threads : call'[t] = Between
    BY <1>6 DEF Crash, Between, Started
  <2> QED
    BY <1>1, <2>1 DEF HideInv, HideOf
<1> QED
  BY <1>2, <1>3, <1>4, <1>5, <1>6, Zenon DEF Next

(* OkHides: a call that reports ok has not moved an item, nor changed what   *)
(* no item stands for, whichever way its questions and commands went and     *)
(* whatever runs beside it, so no handler misses a notification; for every   *)
(* task of every module but those MayHide names: git's that force a checkout *)
(* or update submodules and lineinfile's that create a file are among them.  *)
THEOREM OkHides == Spec => []OkHidesNothing
<1>1. HideInv => OkHidesNothing
  BY DEF HideInv, HideOf, OkHidesNothing, Done
<1> QED
  BY <1>1, HideInit, HideStep, PTL DEF Spec

-----------------------------------------------------------------------------
(* For a call to have reached its goal when it says so: what is known of an  *)
(* item of its task before each step of its plan.  Nothing; that it is among *)
(* the needed ones or as the task wants it ("due"); that it is as wanted if  *)
(* anything is needed ("have"); that it is as wanted if the listing shows it *)
(* so ("read"), or else needed ("picked"); that it is as wanted ("met").     *)
Labels == {"lost", "due", "have", "read", "picked", "met"}
Want(t, i) == Promise(t, "changed", i)
Claim(k, i, W, c, D) ==
  CASE k = "lost"   -> TRUE
    [] k = "due"    -> i \in c.needs \/ D[i] \in W
    [] k = "have"   -> c.needs # {} => D[i] \in W
    [] k = "read"   -> i \in DOMAIN c.listing /\ (c.listing[i] \in W => D[i] \in W)
    [] k = "picked" -> /\ i \in DOMAIN c.listing
                       /\ i \in c.needs \/ (c.listing[i] \in W /\ D[i] \in W)
    [] k = "met"    -> D[i] \in W

(* What an answer tells, what a command does to an item it is pointed at and *)
(* to one it is not, and what that does to an item that is, or is not, as    *)
(* wanted.                                                                   *)
Decides(q, W)  == \A v \in Versions \ W : Answers(q, v) = {TRUE}
Confirms(q, W) == \A v \in Versions \ W : Answers(q, v) = {FALSE}
Direct == Rewrites \union {"rollback"}
Missed(c, i) ==
  CASE c \in Everywhere \/ (c = "autoremove" /\ i = Orphan) -> c
    [] c = "sysupgrade+install"                             -> "sysupgrade"
    [] OTHER                                                -> "show"
Aimed(c, i) ==
  CASE c = "autoremove" /\ i # Orphan -> "show"
    [] c = "sysupgrade+install"       -> "installLatest"
    [] OTHER                          -> c
Keeps(part, W) == \A v \in W, b \in Versions : Possible(part, v) => After(part, v, b) \subseteq W
Spares(part, W) == \A v \in W, b \in Versions : AfterFailed(part, v, b) \subseteq W
Sets(part, W)  == \A v, b \in Versions : Possible(part, v) => After(part, v, b) \subseteq W

Plain(s) == s.bad # "else" /\ s.lost # "else"
Strict(s) == s.bad \in {"failed", "err"} /\ s.lost \in {"failed", "err"}
Safe(s, i, W) ==
  /\ s.cmd \notin Direct /\ Keeps(Aimed(s.cmd, i), W) /\ Keeps(Missed(s.cmd, i), W)
  /\ s.bad = "next" => Spares(Aimed(s.cmd, i), W) /\ Spares(Missed(s.cmd, i), W)
Fixing(s, i, W) ==
  /\ s.cmd \notin Direct /\ Sets(Aimed(s.cmd, i), W) /\ Keeps(Missed(s.cmd, i), W) /\ Strict(s)
WritesBack(s, W) ==
  /\ s.cmd \in Rewrites /\ Strict(s) /\ \A v, b \in Versions : After(s.cmd, v, b) \subseteq W

(* A step takes what is known from a to b.                                   *)
StopDoes(t, i, s, a, b) ==
  /\ \/ s.verdict \notin {"ok", "changed"} \/ Promise(t, s.verdict, i) = Versions
     \/ a = "met" \/ (s.if = "none needed" /\ a \in {"due", "picked"})
  /\ s.if = "always" \/ b \in {a, "lost"} \/ (s.if = "some needed" /\ a = "due" /\ b = "met")
SelectDoes(t, i, s, a, b) ==
  \/ b = "lost"
  \/ a = "met" /\ b = "met"
  \/ s.op = "take" /\ i \in s.of /\ b = "due"
  \/ s.op = "take" /\ s.of = {} /\ b = "have"
  \/ s.op = "ask" /\ b = "due" /\ (a = "due" \/ (i \in s.of /\ Decides(s.q, Want(t, i))))
                  /\ t.module \notin Staged
  \/ s.op = "ask" /\ a = "have" /\ b = "have" /\ s.of = {i} /\ Confirms(s.q, Want(t, i))
                  /\ t.module \notin Staged
  \/ s.op = "pick" /\ a = "read" /\ b \in {"due", "picked"} /\ i \in s.of /\ Decides(s.q, Want(t, i))
CommandDoes(t, i, s, a, b) ==
  /\ Plain(s)
  /\ \/ b = "lost"
     \/ s.op = "list" /\ s.cmd = "show" /\ b = "read"
     \/ s.op \in {"run", "some"} /\ a = b /\ Safe(s, i, Want(t, i))
     \/ s.op \in {"run", "some", "each"} /\ a = "due" /\ b = "met" /\ Fixing(s, i, Want(t, i))
     \/ s.op = "run" /\ a = "picked" /\ b = "met" /\ WritesBack(s, Want(t, i))
FlatDoes(t, i, s, a, b) ==
  \/ s.op = "stop" /\ StopDoes(t, i, s, a, b)
  \/ s.op \in {"take", "ask", "pick"} /\ SelectDoes(t, i, s, a, b)
  \/ s.op \in {"run", "some", "each", "list"} /\ CommandDoes(t, i, s, a, b)

IsPlan(p) == \E S : p \in Seq(S)
FlatPath(t, i, p, a, b) ==
  /\ IsPlan(p)
  /\ \E k \in [Nat -> Labels] :
       k[1] = a /\ k[Len(p) + 1] = b /\ \A n \in 1..Len(p) : FlatDoes(t, i, p[n], k[n], k[n + 1])
BranchDoes(t, i, s, a, b) ==
  /\ \E e \in {"lost", a} \union (IF a = "have" THEN {"met"} ELSE {}) : FlatPath(t, i, s.then, e, b)
  /\ b \in {"lost", a} \/ (a = "due" /\ b = "met")
Does(t, i, s, a, b) ==
  FlatDoes(t, i, s, a, b) \/ (s.op = "branch" /\ BranchDoes(t, i, s, a, b)) \/ s.op = "return"
Path(t, i, p, a, b) ==
  /\ IsPlan(p)
  /\ \E k \in [Nat -> Labels] :
       k[1] = a /\ k[Len(p) + 1] = b /\ \A n \in 1..Len(p) : Does(t, i, p[n], k[n], k[n + 1])

LEMMA PlanJoins ==
  /\ IsPlan(<<>>) /\ \A s : IsPlan(<<s>>)
  /\ \A p, q : IsPlan(p) /\ IsPlan(q) => IsPlan(p \o q)
  /\ \A p : IsPlan(p) /\ p # <<>> => IsPlan(Tail(p))
<1>1. <<>> \in Seq({}) /\ \A s : <<s>> \in Seq({s})
  OBVIOUS
<1>2. ASSUME NEW p, NEW q, NEW S, p \in Seq(S), NEW R, q \in Seq(R) PROVE p \o q \in Seq(S \union R)
  <2>1. Seq(S) \subseteq Seq(S \union R) /\ Seq(R) \subseteq Seq(S \union R)
    OBVIOUS
  <2> QED
    BY <1>2, <2>1
<1>3. ASSUME NEW S, NEW p \in Seq(S), p # <<>> PROVE Tail(p) \in Seq(S)
  BY <1>3
<1> QED
  BY <1>1, <1>2, <1>3, Zenon DEF IsPlan

LEMMA PlanFacts ==
  ASSUME NEW p, NEW q, IsPlan(p), IsPlan(q)
  PROVE  /\ Len(p) \in Nat /\ Len(p \o q) = Len(p) + Len(q)
         /\ \A n \in 1..Len(p) : (p \o q)[n] = p[n]
         /\ \A n \in 1..Len(q) : (p \o q)[Len(p) + n] = q[n]
         /\ p # <<>> => /\ Len(Tail(p)) = Len(p) - 1 /\ Len(p) >= 1 /\ Head(p) = p[1]
                        /\ \A n \in 1..(Len(p) - 1) : Tail(p)[n] = p[n + 1]
<1>1. PICK S, R : p \in Seq(S) /\ q \in Seq(R)
  BY Zenon DEF IsPlan
<1>2. PICK T : p \in Seq(T) /\ q \in Seq(T)
  <2>1. Seq(S) \subseteq Seq(S \union R) /\ Seq(R) \subseteq Seq(S \union R)
    OBVIOUS
  <2> QED
    BY <1>1, <2>1
<1> QED
  BY <1>2

LEMMA FlatPathJoins ==
  ASSUME NEW t, NEW i, NEW p, NEW q, NEW a, NEW b, NEW e,
         FlatPath(t, i, p, a, b), FlatPath(t, i, q, b, e)
  PROVE  FlatPath(t, i, p \o q, a, e)
<1>1. IsPlan(p) /\ IsPlan(q) /\ IsPlan(p \o q)
  BY PlanJoins DEF FlatPath
<1>2. PICK k \in [Nat -> Labels] :
        k[1] = a /\ k[Len(p) + 1] = b /\ \A n \in 1..Len(p) : FlatDoes(t, i, p[n], k[n], k[n + 1])
  BY DEF FlatPath
<1>3. PICK l \in [Nat -> Labels] :
        l[1] = b /\ l[Len(q) + 1] = e /\ \A n \in 1..Len(q) : FlatDoes(t, i, q[n], l[n], l[n + 1])
  BY DEF FlatPath
<1> DEFINE m == [n \in Nat |-> IF n <= Len(p) THEN k[n] ELSE l[n - Len(p)]]
<1>4. /\ Len(p) \in Nat /\ Len(q) \in Nat /\ Len(p \o q) = Len(p) + Len(q)
      /\ \A n \in 1..Len(p) : (p \o q)[n] = p[n]
      /\ \A n \in 1..Len(q) : (p \o q)[Len(p) + n] = q[n]
  BY <1>1, PlanFacts
<1> HIDE DEF IsPlan
<1>5. m \in [Nat -> Labels]
  BY <1>4
<1>6. m[1] = a /\ m[Len(p \o q) + 1] = e
  BY <1>2, <1>3, <1>4
<1>7. ASSUME NEW n \in 1..Len(p \o q) PROVE FlatDoes(t, i, (p \o q)[n], m[n], m[n + 1])
  <2>1. CASE n <= Len(p)
    <3>1. m[n] = k[n] /\ m[n + 1] = k[n + 1] /\ n \in 1..Len(p)
      BY <1>2, <1>3, <1>4, <2>1
    <3> QED
      BY <1>2, <1>4, <3>1
  <2>2. CASE n > Len(p)
    <3> DEFINE j == n - Len(p)
    <3>1. j \in 1..Len(q) /\ n = Len(p) + j
      BY <1>4, <2>2
    <3>2. m[n] = l[j] /\ m[n + 1] = l[j + 1]
      BY <1>4, <3>1
    <3> HIDE DEF j
    <3> QED
      BY <1>3, <1>4, <3>1, <3>2
  <2> QED
    BY <1>4, <2>1, <2>2
<1> HIDE DEF m
<1> QED
  BY <1>1, <1>5, <1>6, <1>7 DEF FlatPath

LEMMA PathJoins ==
  ASSUME NEW t, NEW i, NEW p, NEW q, NEW a, NEW b, NEW e,
         Path(t, i, p, a, b), Path(t, i, q, b, e)
  PROVE  Path(t, i, p \o q, a, e)
<1>1. IsPlan(p) /\ IsPlan(q) /\ IsPlan(p \o q)
  BY PlanJoins DEF Path
<1>2. PICK k \in [Nat -> Labels] :
        k[1] = a /\ k[Len(p) + 1] = b /\ \A n \in 1..Len(p) : Does(t, i, p[n], k[n], k[n + 1])
  BY DEF Path
<1>3. PICK l \in [Nat -> Labels] :
        l[1] = b /\ l[Len(q) + 1] = e /\ \A n \in 1..Len(q) : Does(t, i, q[n], l[n], l[n + 1])
  BY DEF Path
<1> DEFINE m == [n \in Nat |-> IF n <= Len(p) THEN k[n] ELSE l[n - Len(p)]]
<1>4. /\ Len(p) \in Nat /\ Len(q) \in Nat /\ Len(p \o q) = Len(p) + Len(q)
      /\ \A n \in 1..Len(p) : (p \o q)[n] = p[n]
      /\ \A n \in 1..Len(q) : (p \o q)[Len(p) + n] = q[n]
  BY <1>1, PlanFacts
<1> HIDE DEF IsPlan
<1>5. m \in [Nat -> Labels]
  BY <1>4
<1>6. m[1] = a /\ m[Len(p \o q) + 1] = e
  BY <1>2, <1>3, <1>4
<1>7. ASSUME NEW n \in 1..Len(p \o q) PROVE Does(t, i, (p \o q)[n], m[n], m[n + 1])
  <2>1. CASE n <= Len(p)
    <3>1. m[n] = k[n] /\ m[n + 1] = k[n + 1] /\ n \in 1..Len(p)
      BY <1>2, <1>3, <1>4, <2>1
    <3> QED
      BY <1>2, <1>4, <3>1
  <2>2. CASE n > Len(p)
    <3> DEFINE j == n - Len(p)
    <3>1. j \in 1..Len(q) /\ n = Len(p) + j
      BY <1>4, <2>2
    <3>2. m[n] = l[j] /\ m[n + 1] = l[j + 1]
      BY <1>4, <3>1
    <3> HIDE DEF j
    <3> QED
      BY <1>3, <1>4, <3>1, <3>2
  <2> QED
    BY <1>4, <2>1, <2>2
<1> HIDE DEF m
<1> QED
  BY <1>1, <1>5, <1>6, <1>7 DEF Path

LEMMA PathOne ==
  ASSUME NEW t, NEW i, NEW s, NEW a \in Labels, NEW b \in Labels
  PROVE  /\ Path(t, i, <<>>, a, a) /\ FlatPath(t, i, <<>>, a, a)
         /\ FlatDoes(t, i, s, a, b) => FlatPath(t, i, <<s>>, a, b)
         /\ Does(t, i, s, a, b) => Path(t, i, <<s>>, a, b)
<1> DEFINE k == [n \in Nat |-> IF n = 1 THEN a ELSE b]
           l == [n \in Nat |-> a]
<1>1. k \in [Nat -> Labels] /\ k[1] = a /\ k[2] = b /\ l \in [Nat -> Labels] /\ l[1] = a
  OBVIOUS
<1>2. Len(<<s>>) = 1 /\ <<s>>[1] = s /\ Len(<<>>) = 0 /\ 1..0 = {} /\ 1..1 = {1} /\ 1 + 1 = 2 /\ 0 + 1 = 1
  OBVIOUS
<1> HIDE DEF k, l
<1>3. IsPlan(<<>>) /\ IsPlan(<<s>>)
  BY PlanJoins
<1>4. Path(t, i, <<>>, a, a) /\ FlatPath(t, i, <<>>, a, a)
  BY <1>1, <1>2, <1>3 DEF Path, FlatPath
<1>5. ASSUME FlatDoes(t, i, s, a, b) PROVE FlatPath(t, i, <<s>>, a, b)
  BY <1>1, <1>2, <1>3, <1>5 DEF FlatPath
<1>6. ASSUME Does(t, i, s, a, b) PROVE Path(t, i, <<s>>, a, b)
  BY <1>1, <1>2, <1>3, <1>6 DEF Path
<1> QED
  BY <1>4, <1>5, <1>6

LEMMA PathSplits ==
  ASSUME NEW t, NEW i, NEW p, NEW a, NEW b, Path(t, i, p, a, b), p # <<>>
  PROVE  \E e \in Labels : Does(t, i, Head(p), a, e) /\ Path(t, i, Tail(p), e, b)
<1>1. IsPlan(p) /\ IsPlan(Tail(p))
  BY PlanJoins DEF Path
<1>2. PICK k \in [Nat -> Labels] :
        k[1] = a /\ k[Len(p) + 1] = b /\ \A n \in 1..Len(p) : Does(t, i, p[n], k[n], k[n + 1])
  BY DEF Path
<1>3. /\ Len(p) \in Nat /\ Len(Tail(p)) = Len(p) - 1 /\ Len(p) >= 1 /\ Head(p) = p[1]
      /\ \A n \in 1..(Len(p) - 1) : Tail(p)[n] = p[n + 1]
  BY <1>1, PlanFacts
<1> DEFINE l == [n \in Nat |-> k[n + 1]]
<1>4. l \in [Nat -> Labels] /\ l[1] = k[2] /\ l[Len(Tail(p)) + 1] = b
  BY <1>2, <1>3
<1>5. ASSUME NEW n \in 1..Len(Tail(p)) PROVE Does(t, i, Tail(p)[n], l[n], l[n + 1])
  <2>1. n + 1 \in 1..Len(p) /\ Tail(p)[n] = p[n + 1] /\ l[n] = k[n + 1] /\ l[n + 1] = k[n + 1 + 1]
    BY <1>3
  <2> QED
    BY <1>2, <2>1
<1>6. k[2] \in Labels /\ Does(t, i, Head(p), a, k[2])
  BY <1>2, <1>3
<1> HIDE DEF l
<1>7. Path(t, i, Tail(p), k[2], b)
  BY <1>1, <1>4, <1>5 DEF Path
<1> QED
  BY <1>6, <1>7

LEMMA FlatIsPath ==
  ASSUME NEW t, NEW i, NEW p, NEW a, NEW b, FlatPath(t, i, p, a, b)
  PROVE  Path(t, i, p, a, b)
BY DEF FlatPath, Path, Does

-----------------------------------------------------------------------------
(* What a step makes of a call and of the machine, as far as that matters to *)
(* what is known of an item.  Nothing is claimed of a call that could not    *)
(* get an answer, read another deployment or lost what it did to another.    *)
Clean(c) == ~ (c.blind \/ c.stale \/ c.undone)
LocalTurn(c, d) ==
  LET s == Head(c.todo)
      r == Tail(c.todo)
  IN  /\ d.task = c.task /\ (Clean(d) => Clean(c))
      /\ \/ s.op = "stop" /\ Ended(c, d, s.verdict) /\ \E h \in Holds(s.if, c) : h
         \/ /\ d.verdict = c.verdict /\ d.listing = c.listing
            /\ \/ /\ s.op = "stop" /\ (\E h \in Holds(s.if, c) : ~h)
                  /\ d.needs = c.needs /\ d.todo = r
               \/ /\ s.op = "ask"
                  /\ \E j \in s.of : \E yes :
                       /\ Clean(d) => yes \in Answers(s.q, booted[j])
                       /\ d.needs = IF yes THEN c.needs \union {j} ELSE c.needs
                       /\ d.todo = IF s.of \ {j} = {} THEN r
                                   ELSE <<[s EXCEPT !.of = s.of \ {j}]>> \o r
               \/ s.op = "take" /\ d.needs = s.of /\ d.todo = r
               \/ s.op = "pick" /\ d.needs = Picked(s, c.listing) /\ d.todo = r
               \/ /\ s.op = "branch" /\ d.needs = c.needs
                  /\ d.todo = IF c.needs = {} THEN r ELSE s.then \o r
               \/ s.op \in {"some", "each"} /\ c.needs = {} /\ d.needs = c.needs /\ d.todo = r

Passed(c, d, targets) ==
  LET s == Head(c.todo)
  IN  IF s.op = "each" THEN targets \subseteq c.needs /\ d.needs = c.needs \ targets /\ d.todo = c.todo
      ELSE targets = c.needs /\ d.needs = c.needs /\ d.todo = Tail(c.todo)
MoveTurn(t, targets, f, c, d) ==
  LET s == Head(c.todo)
  IN  /\ d.task = c.task /\ (Clean(d) => Clean(c))
      /\ \/ /\ f \in Succeeding(t, targets) /\ d.verdict = c.verdict /\ Passed(c, d, targets)
            /\ d.listing = IF s.op = "list" THEN booted ELSE c.listing
            /\ s.op = "list" /\ Clean(d) => booted = disk
         \/ /\ f \in Failing(t, targets) /\ (s.bad = "next" \/ (s.lost = "next" /\ f = disk))
            /\ d.verdict = c.verdict /\ Passed(c, d, targets) /\ d.listing = c.listing
            /\ s.op = "list" => ~ Clean(d)
         \/ /\ f \in Failing(t, targets)
            /\ \/ s.bad \in {"failed", "err"} /\ Ended(c, d, s.bad)
               \/ s.lost \in {"failed", "err"} /\ Ended(c, d, s.lost) /\ f = disk
         \/ ~ Plain(s) /\ d.verdict = c.verdict

(* A call another one has acted beside. *)
Beside(c, d, D, f) ==
  /\ d.task = c.task /\ d.todo = c.todo /\ d.needs = c.needs /\ d.listing = c.listing
  /\ d.verdict = c.verdict /\ (Clean(d) => Clean(c))
  /\ c.task # Idle /\ Clean(d) =>
       \A i \in DOMAIN D : i \in c.task.names => f[i] = D[i] \/ f[i] \in Want(c.task, i)

LEMMA LocalTurns ==
  ASSUME TypeInv, NEW t \in Threads, StopOrGoOn(t) \/ AskNext(t) \/ Select(t)
  PROVE  /\ UNCHANGED <<module, disk, booted>> /\ LocalTurn(call[t], call'[t])
         /\ \A u \in Threads \ {t} : call'[u] = call[u]
<1> DEFINE c == call[t]
           s == Head(c.todo)
           r == Tail(c.todo)
           g == GoOn(c)
<1>1. Running(t) /\ s.op \in {"stop", "ask", "take", "pick", "branch", "some", "each"}
  BY DEF StopOrGoOn, AskNext, Select, At
<1>2. DOMAIN c = Fields
  BY <1>1, RunningFacts DEF Sound
<1>3. DOMAIN call = Threads
  BY DEF TypeInv
<1>4. SUFFICES \E d : Local(t, d) /\ LocalTurn(c, d)
  <2>1. ASSUME NEW d, Local(t, d), LocalTurn(c, d)
        PROVE  /\ UNCHANGED <<module, disk, booted>> /\ LocalTurn(c, call'[t])
               /\ \A u \in Threads \ {t} : call'[u] = call[u]
    <3>1. call' = [call EXCEPT ![t] = d] /\ UNCHANGED <<module, disk, booted>>
      BY <2>1 DEF Local
    <3>2. call'[t] = d /\ \A u \in Threads \ {t} : call'[u] = call[u]
      BY <1>3, <3>1
    <3> QED
      BY <2>1, <3>1, <3>2, Zenon
  <2> QED
    BY <2>1, Zenon
<1>5. /\ DOMAIN g = Fields /\ g.task = c.task /\ g.verdict = c.verdict /\ g.listing = c.listing
      /\ g.needs = c.needs /\ g.todo = r
      /\ g.blind = c.blind /\ g.stale = c.stale /\ g.undone = c.undone
  BY <1>2 DEF GoOn, Fields
<1>6. CASE StopOrGoOn(t)
  <2>1. PICK holds \in Holds(s.if, c) : Local(t, IF holds THEN End(c, s.verdict) ELSE GoOn(c))
    BY <1>6 DEF StopOrGoOn, Step
  <2>2. s.op = "stop"
    BY <1>6 DEF StopOrGoOn, At
  <2>3. CASE holds
    <3> DEFINE d == End(c, s.verdict)
    <3>1. Ended(c, d, s.verdict) /\ d.task = c.task
          /\ d.blind = c.blind /\ d.stale = c.stale /\ d.undone = c.undone
      BY <1>2 DEF End, Ended, Fields
    <3>2. \E h \in Holds(s.if, c) : h
      BY <2>1, <2>3, Zenon
    <3> HIDE DEF d, s
    <3>3. LocalTurn(c, d)
      BY <2>2, <3>1, <3>2 DEF LocalTurn, Clean, s
    <3> QED
      BY <2>1, <2>3, <3>3 DEF d
  <2>4. CASE ~ holds
    <3>1. \E h \in Holds(s.if, c) : ~ h
      BY <2>1, <2>4, Zenon
    <3> HIDE DEF g, s, r
    <3>2. LocalTurn(c, g)
      BY <1>5, <2>2, <3>1 DEF LocalTurn, Clean, s, r
    <3> QED
      BY <2>1, <2>4, <3>2 DEF g
  <2> QED
    BY <2>3, <2>4
<1>7. CASE AskNext(t)
  <2>1. s.op = "ask"
    BY <1>7 DEF AskNext, At
  <2>2. PICK j \in s.of : \E yes, blind : /\ Answer(t, j, yes, blind)
                                          /\ blind \/ yes \in Answers(s.q, booted[j])
    BY <1>7, Zenon DEF AskNext, Step
  <2>3. PICK yes, blind : /\ Answer(t, j, yes, blind)
                          /\ blind \/ yes \in Answers(s.q, booted[j])
    BY <2>2, Zenon
  <2> DEFINE rest == IF s.of \ {j} = {} THEN r ELSE <<[s EXCEPT !.of = s.of \ {j}]>> \o r
             more == IF yes THEN c.needs \union {j} ELSE c.needs
             dark == c.blind \/ blind
             d == [c EXCEPT !.needs = more, !.asked = TRUE, !.blind = dark, !.todo = rest]
  <2>4. Local(t, d)
    BY <2>3, Zenon DEF Answer, Step
  <2> HIDE DEF rest, more, dark, s, r
  <2>5. /\ d.task = c.task /\ d.todo = rest /\ d.verdict = c.verdict /\ d.listing = c.listing
        /\ d.needs = more /\ d.blind = dark /\ d.stale = c.stale /\ d.undone = c.undone
    BY <1>2 DEF Fields
  <2> HIDE DEF d
  <2>6. (Clean(d) => Clean(c)) /\ (Clean(d) => yes \in Answers(s.q, booted[j]))
    BY <2>3, <2>5, Zenon DEF Clean, dark
  <2>7. LocalTurn(c, d)
    BY <2>1, <2>5, <2>6, Zenon DEF LocalTurn, s, r, rest, more
  <2> QED
    BY <2>4, <2>7
<1>8. CASE Select(t)
  <2>1. \/ s.op = "take" /\ Local(t, [g EXCEPT !.needs = s.of])
        \/ s.op = "pick" /\ Local(t, [g EXCEPT !.needs = Picked(s, c.listing), !.asked = TRUE])
        \/ s.op = "branch" /\ Local(t, [g EXCEPT !.todo = IF c.needs = {} THEN @ ELSE s.then \o @])
        \/ s.op \in {"some", "each"} /\ c.needs = {} /\ Local(t, g)
    BY <1>8, Zenon DEF Select, At, Step
  <2> HIDE DEF g
  <2>2. CASE s.op = "take" /\ Local(t, [g EXCEPT !.needs = s.of])
    <3> DEFINE d == [g EXCEPT !.needs = s.of]
    <3> HIDE DEF r, s
    <3>1. /\ d.task = c.task /\ d.todo = r /\ d.verdict = c.verdict /\ d.listing = c.listing
          /\ d.needs = s.of /\ d.blind = c.blind /\ d.stale = c.stale /\ d.undone = c.undone
      BY <1>5 DEF Fields
    <3> HIDE DEF d
    <3>2. LocalTurn(c, d)
      BY <2>2, <3>1 DEF LocalTurn, Clean, s, r
    <3> QED
      BY <2>2, <3>2 DEF d
  <2>3. CASE s.op = "pick" /\ Local(t, [g EXCEPT !.needs = Picked(s, c.listing), !.asked = TRUE])
    <3> DEFINE P == Picked(s, c.listing)
               d == [g EXCEPT !.needs = P, !.asked = TRUE]
    <3> HIDE DEF P, r, s
    <3>1. /\ d.task = c.task /\ d.todo = r /\ d.verdict = c.verdict /\ d.listing = c.listing
          /\ d.needs = P /\ d.blind = c.blind /\ d.stale = c.stale /\ d.undone = c.undone
      BY <1>5 DEF Fields
    <3>2. Local(t, d)
      BY <2>3 DEF P
    <3> HIDE DEF d
    <3>3. LocalTurn(c, d)
      BY <2>3, <3>1 DEF LocalTurn, Clean, s, r, P
    <3> QED
      BY <3>2, <3>3
  <2>4. CASE s.op = "branch" /\ Local(t, [g EXCEPT !.todo = IF c.needs = {} THEN @ ELSE s.then \o @])
    <3> DEFINE p == IF c.needs = {} THEN g.todo ELSE s.then \o g.todo
               d == [g EXCEPT !.todo = p]
    <3> HIDE DEF p, r, s
    <3>1. /\ d.task = c.task /\ d.todo = p /\ d.verdict = c.verdict /\ d.listing = c.listing
          /\ d.needs = c.needs /\ d.blind = c.blind /\ d.stale = c.stale /\ d.undone = c.undone
      BY <1>5 DEF Fields
    <3>2. Local(t, d)
      BY <2>4 DEF p
    <3>3. p = IF c.needs = {} THEN r ELSE s.then \o r
      BY <1>5 DEF p
    <3> HIDE DEF d
    <3>4. LocalTurn(c, d)
      BY <2>4, <3>1, <3>3 DEF LocalTurn, Clean, s, r
    <3> QED
      BY <3>2, <3>4
  <2>5. CASE s.op \in {"some", "each"} /\ c.needs = {} /\ Local(t, g)
    <3> HIDE DEF s, r
    <3>1. LocalTurn(c, g)
      BY <1>5, <2>5 DEF LocalTurn, Clean, s, r
    <3> QED
      BY <2>5, <3>1
  <2> QED
    BY <2>1, <2>2, <2>3, <2>4, <2>5
<1> QED
  BY <1>6, <1>7, <1>8

LEMMA PassedBy ==
  ASSUME TypeInv, NEW t \in Threads, Running(t), NEW targets \in Targets(t),
         Head(call[t].todo).op \in {"run", "some", "each", "list"}
  PROVE  LET c == call[t]
             p == Past(t, targets)
         IN  /\ DOMAIN p = Fields /\ Passed(c, p, targets)
             /\ p.task = c.task /\ p.verdict = c.verdict /\ p.listing = c.listing
             /\ p.blind = c.blind /\ p.stale = c.stale /\ p.undone = c.undone
<1> DEFINE c == call[t]
           s == Head(c.todo)
<1>1. DOMAIN c = Fields
  BY RunningFacts DEF Sound
<1>2. CASE s.op = "each"
  <2>1. PICK j \in c.needs : targets = {j}
    BY <1>2 DEF Targets, Step
  <2>2. targets \subseteq c.needs
    BY <2>1
  <2> DEFINE left == c.needs \ targets
             p == [c EXCEPT !.needs = left]
  <2>3. Past(t, targets) = p
    BY <1>2 DEF Past, Step
  <2> HIDE DEF left
  <2>4. /\ DOMAIN p = Fields /\ p.needs = left /\ p.todo = c.todo
        /\ p.task = c.task /\ p.verdict = c.verdict /\ p.listing = c.listing
        /\ p.blind = c.blind /\ p.stale = c.stale /\ p.undone = c.undone
    BY <1>1 DEF Fields
  <2> HIDE DEF p
  <2>5. Passed(c, p, targets)
    BY <1>2, <2>2, <2>4 DEF Passed, left
  <2> QED
    BY <2>3, <2>4, <2>5
<1>3. CASE s.op # "each"
  <2>1. targets = c.needs
    BY <1>3 DEF Targets, Step
  <2> DEFINE p == GoOn(c)
  <2>2. /\ DOMAIN p = Fields /\ p.needs = c.needs /\ p.todo = Tail(c.todo)
        /\ p.task = c.task /\ p.verdict = c.verdict /\ p.listing = c.listing
        /\ p.blind = c.blind /\ p.stale = c.stale /\ p.undone = c.undone
    BY <1>1 DEF Fields, GoOn
  <2>3. Past(t, targets) = p
    BY <1>3 DEF Past, Step
  <2> HIDE DEF p
  <2>4. Passed(c, p, targets)
    BY <1>3, <2>1, <2>2 DEF Passed
  <2> QED
    BY <2>2, <2>3, <2>4
<1> QED
  BY <1>2, <1>3

LEMMA MovesBeside ==
  ASSUME TypeInv, NEW t \in Threads, NEW f, NEW e, Moves(t, f, e), NEW u \in Threads \ {t}
  PROVE  Beside(call[u], call'[u], disk, f)
<1> DEFINE c == call[u]
           d == call'[u]
<1>1. DOMAIN c = Fields
  BY DEF TypeInv, Sound
<1>2. CASE c.task = Idle
  <2>1. d = c
    BY <1>2, Zenon DEF Moves, Move
  <2> HIDE DEF c, d
  <2> QED
    BY <1>2, <2>1, Zenon DEF Beside, c, d
<1>3. CASE c.task # Idle
  <2> DEFINE M == {i \in DOMAIN disk : f[i] # disk[i]} \cap c.task.names
             lost == \E i \in M : f[i] \notin Promise(c.task, "changed", i)
  <2>1. \E x, y : d = [c EXCEPT !.overtaken = x, !.undone = y] /\ y = (c.undone \/ lost)
    BY <1>3, Zenon DEF Moves, Move
  <2>2. PICK x, y : d = [c EXCEPT !.overtaken = x, !.undone = y] /\ y = (c.undone \/ lost)
    BY <2>1, Zenon
  <2> HIDE DEF c, d, lost
  <2>3. /\ d.task = c.task /\ d.todo = c.todo /\ d.needs = c.needs /\ d.listing = c.listing
        /\ d.verdict = c.verdict /\ d.blind = c.blind /\ d.stale = c.stale /\ d.undone = y
    BY <1>1, <2>2 DEF Fields
  <2>4. Clean(d) => Clean(c) /\ ~ lost
    BY <2>2, <2>3, Zenon DEF Clean
  <2>5. ~ lost => \A i \in DOMAIN disk : i \in c.task.names => f[i] = disk[i] \/ f[i] \in Want(c.task, i)
    BY DEF lost, Want
  <2>6. Beside(c, d, disk, f)
    BY <2>3, <2>4, <2>5, Zenon DEF Beside
  <2> QED
    BY <2>6 DEF c, d
<1> QED
  BY <1>2, <1>3

LEMMA MoveTurns ==
  ASSUME TypeInv, NEW t \in Threads, Success(t) \/ Failure(t)
  PROVE  \E targets \in SUBSET call[t].task.names, f \in [DOMAIN disk -> Versions] :
           /\ MoveTurn(t, targets, f, call[t], call'[t]) /\ Head(call[t].todo).op \in {"run", "some", "each", "list"}
           /\ module' = module /\ disk' = f
           /\ \A u \in Threads \ {t} : Beside(call[u], call'[u], disk, f)
<1> DEFINE c == call[t]
           s == Head(c.todo)
           Kept(d) == DOMAIN d = Fields /\ d.task = c.task
           Turned(d) == \E targets \in Targets(t), f \in [DOMAIN disk -> Versions] :
                          Moves(t, f, d) /\ Kept(d) /\ MoveTurn(t, targets, f, c, d)
<1>1. Running(t) /\ s.op \in {"run", "some", "each", "list"}
  BY DEF Success, Failure, At
<1>2. /\ DOMAIN c = Fields /\ c.needs \subseteq c.task.names /\ c.task # Idle
      /\ s \in StepsOf(c.task)
  BY <1>1, RunningFacts DEF Sound, Step
<1>3. s.bad \in Leads \union {"else"} /\ s.lost \in Leads \union {"else"}
  BY <1>1, <1>2, StepFacts
<1>4. \A targets \in Targets(t) : targets \in SUBSET c.task.names
  BY <1>2 DEF Targets
<1>5. SUFFICES \E d : Turned(d)
  <2>1. PICK d : Turned(d)
    BY <1>5
  <2>2. PICK targets \in Targets(t), f \in [DOMAIN disk -> Versions] :
          Moves(t, f, d) /\ Kept(d) /\ MoveTurn(t, targets, f, c, d)
    BY <2>1
  <2> DEFINE e == call'[t]
  <2>a. PICK made \in Made(Step(t).cmd) \union {FALSE} : Move(t, f, made, d)
    BY <2>2, Zenon DEF Moves
  <2>3. \E x, y : e = [d EXCEPT !.moved = x, !.trampled = y]
    BY <2>a, Zenon DEF Move
  <2>4. /\ e.task = d.task /\ e.todo = d.todo /\ e.needs = d.needs /\ e.listing = d.listing
        /\ e.verdict = d.verdict /\ e.blind = d.blind /\ e.stale = d.stale /\ e.undone = d.undone
    BY <2>2, <2>3 DEF Fields
  <2> HIDE DEF e, c
  <2>5. Clean(e) = Clean(d)
    BY <2>4 DEF Clean
  <2>6. \A T : Passed(c, e, T) = Passed(c, d, T)
    BY <2>4 DEF Passed
  <2>7. \A v : Ended(c, d, v) = Ended(c, e, v)
    BY <2>4 DEF Ended
  <2>8. MoveTurn(t, targets, f, c, e)
    BY <2>2, <2>4, <2>5, <2>6, <2>7, Zenon DEF MoveTurn
  <2>9. module' = module /\ disk' = f
    BY <2>2 DEF Moves, Move
  <2>10. \A u \in Threads \ {t} : Beside(call[u], call'[u], disk, f)
    BY <2>2, MovesBeside
  <2> QED
    BY <1>1, <1>4, <2>2, <2>8, <2>9, <2>10 DEF e, c
<1>6. CASE Success(t)
  <2>1. PICK targets \in Targets(t) : \E f \in Succeeding(t, targets) :
          \E says \in IF s.cmd \in Elsewhere THEN {TRUE, f # disk} ELSE {f # disk} :
          Moves(t, f, [Past(t, targets) EXCEPT
                     !.did = @ \/ says, !.succeeded = TRUE,
                     !.met = @ \/ \E i \in targets : f[i] = disk[i],
                     !.listing = IF s.op = "list" THEN booted ELSE @,
                     !.stale = @ \/ (s.op = "list" /\ booted # disk)])
    BY <1>6, SuccessMoves, Zenon DEF Onto, Step
  <2>2. PICK f \in Succeeding(t, targets) :
          \E says \in IF s.cmd \in Elsewhere THEN {TRUE, f # disk} ELSE {f # disk} :
          Moves(t, f, [Past(t, targets) EXCEPT
                     !.did = @ \/ says, !.succeeded = TRUE,
                     !.met = @ \/ \E i \in targets : f[i] = disk[i],
                     !.listing = IF s.op = "list" THEN booted ELSE @,
                     !.stale = @ \/ (s.op = "list" /\ booted # disk)])
    BY <2>1
  <2> DEFINE p == Past(t, targets)
  <2>3. PICK did, met, listing, stale :
          /\ listing = IF s.op = "list" THEN booted ELSE p.listing
          /\ stale = (p.stale \/ (s.op = "list" /\ booted # disk))
          /\ Moves(t, f, [p EXCEPT !.did = did, !.succeeded = TRUE, !.met = met,
                                  !.listing = listing, !.stale = stale])
    BY <2>2, ZenonT(60)
  <2> DEFINE d == [p EXCEPT !.did = did, !.succeeded = TRUE, !.met = met,
                            !.listing = listing, !.stale = stale]
  <2>4. /\ DOMAIN p = Fields /\ Passed(c, p, targets)
        /\ p.task = c.task /\ p.verdict = c.verdict /\ p.listing = c.listing
        /\ p.blind = c.blind /\ p.stale = c.stale /\ p.undone = c.undone
    BY <1>1, PassedBy
  <2> HIDE DEF p
  <2>5. /\ DOMAIN d = Fields /\ d.task = c.task /\ d.todo = p.todo /\ d.needs = p.needs
        /\ d.verdict = c.verdict /\ d.listing = listing
        /\ d.blind = c.blind /\ d.stale = stale /\ d.undone = c.undone
    BY <2>4 DEF Fields
  <2>6. Moves(t, f, d)
    BY <2>3, Zenon
  <2> HIDE DEF d, c
  <2>7. Passed(c, d, targets)
    BY <2>4, <2>5 DEF Passed
  <2>8. (Clean(d) => Clean(c)) /\ (s.op = "list" /\ Clean(d) => booted = disk)
    BY <2>3, <2>4, <2>5, Zenon DEF Clean
  <2>9. d.listing = IF s.op = "list" THEN booted ELSE c.listing
    BY <2>3, <2>4, <2>5
  <2>10. MoveTurn(t, targets, f, c, d)
    BY <2>2, <2>5, <2>7, <2>8, <2>9, Zenon DEF MoveTurn
  <2>11. f \in [DOMAIN disk -> Versions]
    BY DEF Succeeding
  <2> QED
    BY <2>5, <2>6, <2>10, <2>11 DEF c
<1>7. CASE Failure(t)
  <2>1. \A T : disk \in Failing(t, T)
    BY DEF Failing, TypeInv, Machine
  <2>2. PICK targets \in Targets(t), leads \in {s.bad, s.lost} :
          \E f \in Failing(t, targets) : /\ leads = s.bad \/ (leads = s.lost /\ f = disk)
                                         /\ Moves(t, f, Consequence(t, targets, leads))
    BY <1>7, <2>1, FailureMoves, Zenon DEF Step
  <2>3. PICK f \in Failing(t, targets) : /\ leads = s.bad \/ (leads = s.lost /\ f = disk)
                                         /\ Moves(t, f, Consequence(t, targets, leads))
    BY <2>2
  <2> DEFINE d == Consequence(t, targets, leads)
  <2>4. f \in [DOMAIN disk -> Versions]
    BY DEF Failing
  <2>5. CASE leads = "next"
    <3> DEFINE p == Past(t, targets)
    <3>1. PICK x : d = [p EXCEPT !.blind = x] /\ x = (p.blind \/ s.op = "list")
      BY <2>5, Zenon DEF Consequence, Step
    <3>2. /\ DOMAIN p = Fields /\ Passed(c, p, targets)
          /\ p.task = c.task /\ p.verdict = c.verdict /\ p.listing = c.listing
          /\ p.blind = c.blind /\ p.stale = c.stale /\ p.undone = c.undone
      BY <1>1, PassedBy
    <3> HIDE DEF p, d
    <3>3. /\ DOMAIN d = Fields /\ d.task = c.task /\ d.todo = p.todo /\ d.needs = p.needs
          /\ d.verdict = c.verdict /\ d.listing = c.listing
          /\ d.blind = x /\ d.stale = c.stale /\ d.undone = c.undone
      BY <3>1, <3>2 DEF Fields
    <3> HIDE DEF c
    <3>4. Passed(c, d, targets)
      BY <3>2, <3>3 DEF Passed
    <3>5. (Clean(d) => Clean(c)) /\ (s.op = "list" => ~ Clean(d))
      BY <3>1, <3>2, <3>3, Zenon DEF Clean
    <3>6. s.bad = "next" \/ (s.lost = "next" /\ f = disk)
      BY <2>3, <2>5
    <3>7. MoveTurn(t, targets, f, c, d)
      BY <3>3, <3>4, <3>5, <3>6, Zenon DEF MoveTurn
    <3> QED
      BY <2>3, <2>4, <3>3, <3>7 DEF c, d
  <2>6. CASE leads = "else"
    <3>1. ~ Plain(s)
      BY <2>6 DEF Plain
    <3> DEFINE g == GoOn(c)
    <3>2. PICK x : d = [g EXCEPT !.todo = x]
      BY <2>6, Zenon DEF Consequence
    <3>3. /\ DOMAIN g = Fields /\ g.task = c.task /\ g.verdict = c.verdict
          /\ g.blind = c.blind /\ g.stale = c.stale /\ g.undone = c.undone
      BY <1>2 DEF GoOn, Fields
    <3> HIDE DEF g, d
    <3>4. /\ DOMAIN d = Fields /\ d.task = c.task /\ d.verdict = c.verdict
          /\ d.blind = c.blind /\ d.stale = c.stale /\ d.undone = c.undone
      BY <3>2, <3>3 DEF Fields
    <3> HIDE DEF c
    <3>5. MoveTurn(t, targets, f, c, d)
      BY <3>1, <3>4 DEF MoveTurn, Clean
    <3> QED
      BY <2>3, <2>4, <3>4, <3>5 DEF c, d
  <2>7. CASE leads \in {"failed", "err"}
    <3>1. d = End(c, leads)
      BY <2>7 DEF Consequence
    <3> DEFINE e == End(c, leads)
    <3>2. /\ DOMAIN e = Fields /\ e.task = c.task /\ Ended(c, e, leads)
          /\ e.blind = c.blind /\ e.stale = c.stale /\ e.undone = c.undone
      BY <1>2 DEF End, Ended, Fields
    <3> HIDE DEF e, d, c
    <3>3. \/ s.bad \in {"failed", "err"} /\ Ended(c, e, s.bad)
          \/ s.lost \in {"failed", "err"} /\ Ended(c, e, s.lost) /\ f = disk
      BY <2>3, <2>7, <3>2
    <3>4. MoveTurn(t, targets, f, c, e)
      BY <2>3, <3>2, <3>3 DEF MoveTurn, Clean
    <3> QED
      BY <2>3, <2>4, <3>1, <3>2, <3>4 DEF c, d, e
  <2> QED
    BY <1>3, <2>5, <2>6, <2>7 DEF Leads
<1> QED
  BY <1>6, <1>7

-----------------------------------------------------------------------------
(* What the call has still to do for item i, and when it has a result.  Only *)
(* what leaves the item as promised comes after a result.                    *)
Tidy(t, i, s) ==
  /\ s.op = "run" /\ s.bad = "next" /\ s.lost = "err"
  /\ \A v \in {"ok", "changed"} : Safe(s, i, Promise(t, v, i))
Tidied(t, i, p) == \A n \in DOMAIN p : Tidy(t, i, p[n])
TidyAfter(t, i, p) ==
  \A n, m \in DOMAIN p : n < m /\ p[n].op = "return" => Tidy(t, i, p[m])
ItemGoal(c, D, i) ==
  LET t == c.task
  IN  /\ c.verdict = "running" =>
           /\ TidyAfter(t, i, c.todo)
           /\ \E k \in Labels : \E b : Claim(k, i, Want(t, i), c, D) /\ Path(t, i, c.todo, k, b)
      /\ c.verdict \in {"ok", "changed"} =>
           D[i] \in Promise(t, c.verdict, i) /\ Tidied(t, i, c.todo)

LEMMA Promises ==
  ASSUME NEW t, NEW i, NEW v \in {"ok", "changed"}
  PROVE  Want(t, i) \subseteq Promise(t, v, i)
<1>1. ModeIsSet(t, v) => ModeIsSet(t, "changed")
  BY DEF ModeIsSet
<1>2. FilePromise(t, "changed", i) \subseteq FilePromise(t, v, i)
  BY <1>1 DEF FilePromise, Versions
<1> QED
  BY <1>2 DEF Promise, Want

LEMMA ClaimStays ==
  ASSUME NEW k \in Labels, NEW i, NEW W, NEW c, NEW d, NEW D, NEW f, Claim(k, i, W, c, D),
         D[i] \in W => f[i] \in W, d.needs = c.needs, d.listing = c.listing
  PROVE  Claim(k, i, W, d, f)
BY DEF Claim, Labels

LEMMA FirstReturn ==
  ASSUME NEW S, NEW p \in Seq(S)
  PROVE  \/ AfterReturn(p) = <<>>
         \/ \E n \in 1..Len(p) : p[n].op = "return" /\ AfterReturn(p) = SubSeq(p, 1 + n, Len(p))
<1> DEFINE marks == {i \in DOMAIN p : p[i].op = "return"}
           first == CHOOSE i \in marks : \A j \in marks : i <= j
<1>1. CASE marks = {}
  BY <1>1 DEF AfterReturn
<1>2. CASE marks # {}
  <2>1. \E i \in marks : \A j \in marks : i <= j
    <3>1. marks \subseteq Nat
      OBVIOUS
    <3> HIDE DEF marks
    <3>2. PICK n \in marks : \A j \in marks : ~ (<<j, n>> \in OpToRel(<, Nat))
      BY <3>1, <1>2, NatLessThanWellFounded, WFMin, Zenon
    <3>3. ASSUME NEW j \in marks PROVE n <= j
      <4>1. j < n => <<j, n>> \in OpToRel(<, Nat)
        BY <3>1 DEF OpToRel
      <4>2. ~ (j < n)
        BY <3>2, <4>1
      <4> QED
        BY <3>1, <4>2
    <3> QED
      BY <3>3
  <2>2. first \in marks
    BY <2>1, Zenon
  <2>3. first \in 1..Len(p) /\ p[first].op = "return"
    BY <2>2
  <2> HIDE DEF first
  <2> QED
    BY <1>2, <2>3 DEF AfterReturn, first
<1> QED
  BY <1>1, <1>2

LEMMA TidyTails ==
  ASSUME NEW t, NEW i, NEW p, IsPlan(p), p # <<>>, TidyAfter(t, i, p)
  PROVE  /\ TidyAfter(t, i, Tail(p)) /\ Tidied(t, i, AfterReturn(p)) /\ Tidied(t, i, <<>>)
         /\ \A s : TidyAfter(t, i, <<s>> \o Tail(p)) \/ s.op = "return"
         /\ \A q : IsPlan(q) /\ (\A n \in 1..Len(q) : q[n].op # "return") => TidyAfter(t, i, q \o Tail(p))
<1>1. PICK S : p \in Seq(S)
  BY Zenon DEF IsPlan
<1>2. TidyAfter(t, i, Tail(p))
  <2>1. \A n \in DOMAIN Tail(p) : n \in Nat /\ n + 1 \in DOMAIN p /\ Tail(p)[n] = p[n + 1]
    BY <1>1
  <2> SUFFICES ASSUME NEW n \in DOMAIN Tail(p), NEW m \in DOMAIN Tail(p), n < m,
                      Tail(p)[n].op = "return"
               PROVE  Tidy(t, i, Tail(p)[m])
    BY DEF TidyAfter
  <2>2. n + 1 < m + 1
    BY <2>1
  <2> QED
    BY <2>1, <2>2 DEF TidyAfter
<1>3. Tidied(t, i, AfterReturn(p))
  <2>1. CASE AfterReturn(p) = <<>>
    BY <2>1 DEF Tidied
  <2>2. ASSUME NEW n \in 1..Len(p), p[n].op = "return", AfterReturn(p) = SubSeq(p, 1 + n, Len(p))
        PROVE  Tidied(t, i, AfterReturn(p))
    <3>1. /\ n \in DOMAIN p
          /\ \A m \in DOMAIN AfterReturn(p) :
               n + m \in DOMAIN p /\ n + m > n /\ AfterReturn(p)[m] = p[n + m]
      BY <1>1, <2>2
    <3> QED
      BY <2>2, <3>1 DEF TidyAfter, Tidied
  <2> QED
    BY <1>1, <2>1, <2>2, FirstReturn
<1>4. ASSUME NEW q, IsPlan(q), \A n \in 1..Len(q) : q[n].op # "return"
      PROVE  TidyAfter(t, i, q \o Tail(p))
  <2> DEFINE r == Tail(p)
  <2>1. IsPlan(r)
    BY PlanJoins
  <2>2. /\ Len(q) \in Nat /\ Len(r) \in Nat /\ Len(q \o r) = Len(q) + Len(r)
        /\ \A n \in 1..Len(q) : (q \o r)[n] = q[n]
        /\ \A n \in 1..Len(r) : (q \o r)[Len(q) + n] = r[n]
    BY <1>4, <2>1, PlanFacts
  <2>3. DOMAIN (q \o r) = 1..Len(q \o r) /\ DOMAIN r = 1..Len(r)
    BY <1>4, <2>1, PlanJoins DEF IsPlan
  <2> HIDE DEF r
  <2> SUFFICES ASSUME NEW n \in DOMAIN (q \o r), NEW m \in DOMAIN (q \o r), n < m,
                      (q \o r)[n].op = "return"
               PROVE  Tidy(t, i, (q \o r)[m])
    BY DEF TidyAfter, r
  <2>4. n \notin 1..Len(q)
    BY <1>4, <2>2
  <2>5. /\ n - Len(q) \in DOMAIN r /\ m - Len(q) \in DOMAIN r /\ n - Len(q) < m - Len(q)
        /\ n = Len(q) + (n - Len(q)) /\ m = Len(q) + (m - Len(q))
    BY <2>2, <2>3, <2>4
  <2>6. (q \o r)[n] = r[n - Len(q)] /\ (q \o r)[m] = r[m - Len(q)]
    BY <2>2, <2>3, <2>5
  <2> QED
    BY <1>2, <2>5, <2>6 DEF TidyAfter, r
<1>5. ASSUME NEW s, s.op # "return" PROVE TidyAfter(t, i, <<s>> \o Tail(p))
  <2>1. Len(<<s>>) = 1 /\ <<s>>[1] = s /\ 1..1 = {1}
    OBVIOUS
  <2>2. \A n \in 1..Len(<<s>>) : <<s>>[n].op # "return"
    BY <1>5, <2>1
  <2> QED
    BY <1>4, <2>2, PlanJoins
<1>6. Tidied(t, i, <<>>)
  BY DEF Tidied
<1> QED
  BY <1>2, <1>3, <1>4, <1>5, <1>6

-----------------------------------------------------------------------------
(* A call whose next label holds has its goal ahead. *)
LEMMA GoalOnward ==
  ASSUME NEW d, NEW D, NEW i, NEW k \in Labels, NEW b,
         TidyAfter(d.task, i, d.todo), Claim(k, i, Want(d.task, i), d, D),
         Path(d.task, i, d.todo, k, b), d.verdict = "running"
  PROVE  ItemGoal(d, D, i)
BY DEF ItemGoal

(* One that has a result keeps what it has promised. *)
LEMMA GoalEnded ==
  ASSUME NEW c, NEW d, NEW D, NEW i, NEW v \in {"ok", "changed", "failed", "err"},
         Ended(c, d, v), d.task = c.task, IsPlan(c.todo), c.todo # <<>>, c.verdict = "running",
         TidyAfter(c.task, i, c.todo),
         v \in {"ok", "changed"} => D[i] \in Promise(c.task, v, i)
  PROVE  ItemGoal(d, D, i)
<1>1. d.verdict = v /\ d.todo = IF v = "err" THEN <<>> ELSE AfterReturn(c.todo)
  BY DEF Ended
<1>2. Tidied(c.task, i, d.todo)
  BY <1>1, TidyTails
<1> QED
  BY <1>1, <1>2 DEF ItemGoal

LEMMA GoalStop ==
  ASSUME NEW c, NEW i, NEW D, D[i] \in Versions, NEW a, NEW e,
         NEW s, s.op = "stop", s.verdict \in {"ok", "changed"},
         Claim(a, i, Want(c.task, i), c, D), Does(c.task, i, s, a, e), \E h \in Holds(s.if, c) : h
  PROVE  D[i] \in Promise(c.task, s.verdict, i)
<1> DEFINE W == Want(c.task, i)
<1>1. \/ Promise(c.task, s.verdict, i) = Versions \/ a = "met"
      \/ s.if = "none needed" /\ a \in {"due", "picked"}
  BY DEF Does, FlatDoes, StopDoes
<1>2. s.if = "none needed" => c.needs = {}
  BY DEF Holds
<1> HIDE DEF W
<1>3. Promise(c.task, s.verdict, i) = Versions \/ D[i] \in W
  BY <1>1, <1>2 DEF Claim, W
<1> QED
  BY <1>3, Promises DEF W

LEMMA Selects ==
  ASSUME NEW m, NEW c, Sound(c, m), NEW i, NEW D, D[i] \in Versions, NEW a \in Labels, NEW e,
         Claim(a, i, Want(c.task, i), c, D), NEW d, d.listing = c.listing,
         LET s == Head(c.todo)
         IN  /\ Does(c.task, i, s, a, e)
             /\ \/ s.op = "stop" /\ (\E h \in Holds(s.if, c) : ~ h) /\ d.needs = c.needs
                \/ s.op = "take" /\ d.needs = s.of
                \/ s.op = "pick" /\ d.needs = Picked(s, c.listing)
                \/ s.op \in {"some", "each"} /\ c.needs = {} /\ d.needs = c.needs
  PROVE  Claim(e, i, Want(c.task, i), d, D)
<1> DEFINE s == Head(c.todo)
           W == Want(c.task, i)
<1> HIDE DEF W
<1>1. CASE s.op = "stop"
  <2>1. d.needs = c.needs /\ \E h \in Holds(s.if, c) : ~ h
    BY <1>1
  <2>2. s.if = "always" \/ e \in {a, "lost"} \/ (s.if = "some needed" /\ a = "due" /\ e = "met")
    BY <1>1 DEF Does, FlatDoes, StopDoes
  <2>3. s.if # "always" /\ (s.if = "some needed" => c.needs = {})
    BY <2>1 DEF Holds
  <2>4. CASE e = a
    BY <2>1, <2>4, ClaimStays
  <2>5. CASE e = "lost" \/ (a = "due" /\ e = "met" /\ c.needs = {})
    BY <2>5 DEF Claim
  <2> QED
    BY <2>2, <2>3, <2>4, <2>5
<1>2. CASE s.op = "take"
  <2>1. d.needs = s.of
    BY <1>2
  <2>2. \/ e = "lost" \/ (a = "met" /\ e = "met") \/ (i \in s.of /\ e = "due")
        \/ (s.of = {} /\ e = "have")
    BY <1>2 DEF Does, FlatDoes, SelectDoes
  <2> QED
    BY <2>1, <2>2 DEF Claim
<1>3. CASE s.op = "pick"
  <2>1. d.needs = Picked(s, c.listing)
    BY <1>3
  <2>2. \/ e = "lost" \/ (a = "met" /\ e = "met")
        \/ a = "read" /\ e \in {"due", "picked"} /\ i \in s.of /\ Decides(s.q, W)
    BY <1>3 DEF Does, FlatDoes, SelectDoes, W
  <2>3. CASE e = "lost" \/ (a = "met" /\ e = "met")
    BY <2>3 DEF Claim
  <2>4. CASE a = "read" /\ e \in {"due", "picked"} /\ i \in s.of /\ Decides(s.q, W)
    <3>1. i \in DOMAIN c.listing /\ (c.listing[i] \in W => D[i] \in W)
      BY <2>4 DEF Claim, W
    <3>2. c.listing[i] \in Versions
      <4>1. c.listing \in [Items(m) -> Versions] \/ c.listing = <<>>
        BY DEF Sound
      <4> QED
        BY <3>1, <4>1
    <3>3. i \notin d.needs => TRUE \notin Answers(s.q, c.listing[i])
      BY <2>1, <2>4, <3>1 DEF Picked
    <3>4. i \notin d.needs => c.listing[i] \in W
      BY <2>4, <3>2, <3>3 DEF Decides
    <3> QED
      BY <2>4, <3>1, <3>4 DEF Claim, W
  <2> QED
    BY <2>2, <2>3, <2>4
<1>4. CASE s.op \in {"some", "each"}
  <2>1. d.needs = c.needs /\ c.needs = {}
    BY <1>4
  <2>2. e = "lost" \/ e = a \/ (a = "due" /\ e = "met")
    BY <1>4 DEF Does, FlatDoes, CommandDoes
  <2>3. CASE e = a
    BY <2>1, <2>3, ClaimStays
  <2>4. CASE e = "lost" \/ (a = "due" /\ e = "met")
    BY <2>1, <2>4 DEF Claim
  <2> QED
    BY <2>2, <2>3, <2>4
<1> QED
  BY <1>1, <1>2, <1>3, <1>4

(* A question about one item of several: the rest of it is still to be asked.*)
AskedOn(c, d, i, D, s, j, e) ==
  IF s.of \ {j} = {} THEN Claim(e, i, Want(c.task, i), d, D)
  ELSE \E k \in Labels : /\ Claim(k, i, Want(c.task, i), d, D)
                        /\ Does(c.task, i, [s EXCEPT !.of = s.of \ {j}], k, e)
LEMMA Asks ==
  ASSUME NEW c, NEW d, NEW i, NEW D, D[i] \in Versions, NEW a \in Labels, NEW e \in Labels,
         Claim(a, i, Want(c.task, i), c, D), d.listing = c.listing,
         NEW s \in StepsOf(c.task), s.op = "ask", Does(c.task, i, s, a, e),
         NEW j \in s.of, d.needs \in {c.needs, c.needs \union {j}},
         c.task.module \notin Staged =>
           /\ Answers(s.q, D[j]) = {TRUE} => j \in d.needs
           /\ Answers(s.q, D[j]) = {FALSE} => d.needs = c.needs
  PROVE  AskedOn(c, d, i, D, s, j, e)
<1> DEFINE W == Want(c.task, i)
           r == [s EXCEPT !.of = s.of \ {j}]
           t == c.task
           Goal == IF s.of \ {j} = {} THEN Claim(e, i, W, d, D)
                   ELSE \E k \in Labels : Claim(k, i, W, d, D) /\ Does(t, i, r, k, e)
<1> SUFFICES Goal
  BY DEF AskedOn
<1> HIDE DEF W
<1>1. r.op = "ask" /\ r.q = s.q /\ r.of = s.of \ {j}
  <2>1. s \in [op : {"ask", "pick"}, q : Questions, of : SUBSET t.names]
    <3>1. \/ s \in Flat(t.names, CommandsOf(t))
          \/ s \in [op : {"branch"}, then : Seq(Inner(t))]
          \/ s \in [op : {"run"}, cmd : CommandsOf(t), bad : {"else"}, lost : {"else"}, else : Seq(Inner(t))]
      BY Zenon DEF StepsOf, Deep
    <3> QED
      BY <3>1 DEF Flat
  <2> QED
    BY <2>1
<1> HIDE DEF r
<1>2. \A k : SelectDoes(t, i, r, k, e) => Does(t, i, r, k, e)
  BY <1>1 DEF Does, FlatDoes
<1>3. \/ e = "lost" \/ (a = "met" /\ e = "met")
      \/ e = "due" /\ a = "due" /\ t.module \notin Staged
      \/ e = "due" /\ a # "due" /\ i \in s.of /\ Decides(s.q, W) /\ t.module \notin Staged
      \/ e = "have" /\ a = "have" /\ s.of = {i} /\ Confirms(s.q, W) /\ t.module \notin Staged
  BY DEF Does, FlatDoes, SelectDoes, W
<1>4. CASE e = "lost"
  <2>1. Claim("lost", i, W, d, D) /\ SelectDoes(t, i, r, "lost", e)
    BY <1>4 DEF Claim, SelectDoes
  <2> QED
    BY <1>2, <1>4, <2>1 DEF Labels
<1>5. CASE a = "met" /\ e = "met"
  <2>1. Claim("met", i, W, d, D) /\ SelectDoes(t, i, r, "met", e)
    BY <1>5 DEF Claim, SelectDoes, W
  <2> QED
    BY <1>2, <1>5, <2>1 DEF Labels
<1>6. CASE e = "due" /\ a = "due" /\ t.module \notin Staged
  <2>1. Claim("due", i, W, d, D)
    BY <1>6 DEF Claim, W
  <2>2. SelectDoes(t, i, r, "due", e)
    BY <1>1, <1>6 DEF SelectDoes
  <2> QED
    BY <1>2, <1>6, <2>1, <2>2 DEF Labels
<1>7. CASE e = "due" /\ i \in s.of /\ Decides(s.q, W) /\ t.module \notin Staged
  <2>1. CASE i = j
    <3>1. D[i] \notin W => i \in d.needs
      BY <1>7, <2>1 DEF Decides
    <3>2. Claim("due", i, W, d, D)
      BY <2>1, <3>1 DEF Claim
    <3>3. SelectDoes(t, i, r, "due", e)
      BY <1>1, <1>7 DEF SelectDoes
    <3> QED
      BY <1>2, <1>7, <3>2, <3>3 DEF Labels
  <2>2. CASE i # j
    <3>1. i \in r.of /\ s.of \ {j} # {}
      BY <1>1, <1>7, <2>2
    <3>2. Claim("lost", i, W, d, D) /\ SelectDoes(t, i, r, "lost", e)
      BY <1>1, <1>7, <3>1 DEF Claim, SelectDoes, W
    <3> QED
      BY <1>2, <3>1, <3>2 DEF Labels
  <2> QED
    BY <2>1, <2>2
<1>8. CASE e = "have" /\ a = "have" /\ s.of = {i} /\ Confirms(s.q, W) /\ t.module \notin Staged
  <2>1. s.of \ {j} = {} /\ j = i
    BY <1>8
  <2>2. D[i] \notin W => d.needs = c.needs
    BY <1>8, <2>1 DEF Confirms
  <2>3. Claim("have", i, W, d, D)
    BY <1>8, <2>2 DEF Claim, W
  <2> QED
    BY <1>8, <2>1, <2>3
<1> QED
  BY <1>3, <1>4, <1>5, <1>6, <1>7, <1>8

(* A branch: what it brings in leads to what comes after it. *)
LEMMA Branches ==
  ASSUME NEW c, NEW d, NEW i, NEW D, NEW a \in Labels, NEW e \in Labels, NEW b,
         Claim(a, i, Want(c.task, i), c, D), d.listing = c.listing, d.needs = c.needs,
         NEW s, s.op = "branch", Does(c.task, i, s, a, e), IsPlan(c.todo), c.todo # <<>>,
         TidyAfter(c.task, i, c.todo), Path(c.task, i, Tail(c.todo), e, b),
         d.todo = IF c.needs = {} THEN Tail(c.todo) ELSE s.then \o Tail(c.todo)
  PROVE  /\ TidyAfter(c.task, i, d.todo)
         /\ \E k \in Labels : Claim(k, i, Want(c.task, i), d, D) /\ Path(c.task, i, d.todo, k, b)
<1> DEFINE W == Want(c.task, i)
           t == c.task
           r == Tail(c.todo)
<1>1. /\ \E x \in {"lost", a} \union (IF a = "have" THEN {"met"} ELSE {}) : FlatPath(t, i, s.then, x, e)
      /\ e \in {"lost", a} \/ (a = "due" /\ e = "met")
  BY DEF Does, FlatDoes, BranchDoes
<1> HIDE DEF W
<1>2. CASE c.needs = {}
  <2>1. Claim(e, i, W, d, D)
    BY <1>1, <1>2 DEF Claim, W
  <2>2. TidyAfter(t, i, r)
    BY TidyTails
  <2> QED
    BY <1>2, <2>1, <2>2 DEF W
<1>3. CASE c.needs # {}
  <2>1. PICK x \in {"lost", a} \union (IF a = "have" THEN {"met"} ELSE {}) : FlatPath(t, i, s.then, x, e)
    BY <1>1
  <2>2. x \in Labels /\ Claim(x, i, W, d, D)
    BY <1>3, <2>1 DEF Claim, W, Labels
  <2>3. Path(t, i, s.then \o r, x, b)
    BY <2>1, FlatIsPath, PathJoins
  <2>4. IsPlan(s.then) /\ \A n \in 1..Len(s.then) : s.then[n].op # "return"
    <3>1. PICK k : \A n \in 1..Len(s.then) : FlatDoes(t, i, s.then[n], k[n], k[n + 1])
      BY <2>1 DEF FlatPath
    <3>2. ASSUME NEW n \in 1..Len(s.then) PROVE s.then[n].op # "return"
      <4>1. FlatDoes(t, i, s.then[n], k[n], k[n + 1])
        BY <3>1
      <4> QED
        BY <4>1 DEF FlatDoes
    <3> QED
      BY <2>1, <3>2 DEF FlatPath
  <2>5. TidyAfter(t, i, s.then \o r)
    BY <2>4, TidyTails
  <2> QED
    BY <1>3, <2>2, <2>3, <2>5 DEF W
<1> QED
  BY <1>2, <1>3

LEMMA PlanOf ==
  ASSUME NEW m, NEW c, Sound(c, m), c.task # Idle, c.todo # <<>>
  PROVE  /\ IsPlan(c.todo) /\ c.verdict \in Verdicts /\ Head(c.todo) \in StepsOf(c.task)
         /\ 1 \in DOMAIN c.todo /\ Head(c.todo) = c.todo[1]
         /\ \A i, S : Tidied(S, i, c.todo) => Tidied(S, i, Tail(c.todo))
<1>1. c.todo \in Seq(StepsOf(c.task)) /\ c.verdict \in Verdicts
  BY DEF Sound, Parts
<1>2. IsPlan(c.todo)
  BY <1>1, Zenon DEF IsPlan
<1>3. \A n \in DOMAIN Tail(c.todo) : n + 1 \in DOMAIN c.todo /\ Tail(c.todo)[n] = c.todo[n + 1]
  BY <1>1
<1>4. 1 \in DOMAIN c.todo /\ Head(c.todo) = c.todo[1] /\ Head(c.todo) \in StepsOf(c.task)
  BY <1>1
<1>5. \A i, S : Tidied(S, i, c.todo) => Tidied(S, i, Tail(c.todo))
  BY <1>3 DEF Tidied
<1> QED
  BY <1>1, <1>2, <1>4, <1>5

LEMMA GoalLocal ==
  ASSUME NEW m, NEW c, Sound(c, m), c.task # Idle, c.todo # <<>>, NEW i, disk[i] \in Versions,
         c.task.module \notin Staged => booted = disk,
         NEW d, LocalTurn(c, d), Clean(d), ItemGoal(c, disk, i)
  PROVE  ItemGoal(d, disk, i)
<1> DEFINE t == c.task
           p == c.todo
           s == Head(p)
           r == Tail(p)
           W == Want(t, i)
<1>1. IsPlan(p) /\ c.verdict \in Verdicts /\ s \in StepsOf(t) /\ 1 \in DOMAIN p /\ s = p[1]
  BY PlanOf
<1>2. d.task = t /\ s.op \in {"stop", "ask", "take", "pick", "branch", "some", "each"}
  BY DEF LocalTurn
<1>3. CASE c.verdict \in {"failed", "err"}
  <2>1. d.verdict \in {"failed", "err"}
    BY <1>3 DEF LocalTurn, Ended
  <2> QED
    BY <2>1 DEF ItemGoal
<1>4. CASE c.verdict \in {"ok", "changed"}
  <2>1. Tidied(t, i, p)
    BY <1>4 DEF ItemGoal
  <2>2. s.op = "run"
    BY <1>1, <2>1 DEF Tidied, Tidy
  <2> QED
    BY <1>2, <2>2
<1>5. CASE c.verdict = "running"
  <2>1. TidyAfter(t, i, p) /\ \E k \in Labels : \E b : Claim(k, i, W, c, disk) /\ Path(t, i, p, k, b)
    BY <1>5 DEF ItemGoal
  <2>2. PICK a \in Labels : \E b : Claim(a, i, W, c, disk) /\ Path(t, i, p, a, b)
    BY <2>1
  <2>3. PICK b : Claim(a, i, W, c, disk) /\ Path(t, i, p, a, b)
    BY <2>2
  <2>4. PICK e \in Labels : Does(t, i, s, a, e) /\ Path(t, i, r, e, b)
    BY <2>3, PathSplits
  <2>5. TidyAfter(t, i, r)
    BY <1>1, <2>1, TidyTails
  <2>6. CASE s.op = "stop" /\ Ended(c, d, s.verdict) /\ \E h \in Holds(s.if, c) : h
    <3>1. s.verdict \in {"ok", "changed", "failed", "err"}
      BY <1>1, <2>6, StepFacts
    <3>2. s.verdict \in {"ok", "changed"} => disk[i] \in Promise(t, s.verdict, i)
      BY <2>3, <2>4, <2>6, GoalStop
    <3> QED
      BY <1>1, <1>2, <1>5, <2>1, <2>6, <3>1, <3>2, GoalEnded
  <2>7. CASE /\ d.verdict = c.verdict /\ d.listing = c.listing /\ d.todo = r
             /\ \/ s.op = "stop" /\ (\E h \in Holds(s.if, c) : ~ h) /\ d.needs = c.needs
                \/ s.op = "take" /\ d.needs = s.of
                \/ s.op = "pick" /\ d.needs = Picked(s, c.listing)
                \/ s.op \in {"some", "each"} /\ c.needs = {} /\ d.needs = c.needs
    <3>1. Claim(e, i, W, d, disk)
      BY <2>3, <2>4, <2>7, Selects
    <3> QED
      BY <1>2, <1>5, <2>4, <2>5, <2>7, <3>1, GoalOnward
  <2>8. CASE /\ d.verdict = c.verdict /\ d.listing = c.listing /\ s.op = "branch" /\ d.needs = c.needs
             /\ d.todo = IF c.needs = {} THEN r ELSE s.then \o r
    <3>1. /\ TidyAfter(t, i, d.todo)
          /\ \E k \in Labels : Claim(k, i, W, d, disk) /\ Path(t, i, d.todo, k, b)
      BY <1>1, <2>1, <2>3, <2>4, <2>8, Branches
    <3> QED
      BY <1>2, <1>5, <2>8, <3>1, GoalOnward
  <2>9. CASE /\ d.verdict = c.verdict /\ d.listing = c.listing /\ s.op = "ask"
             /\ \E j \in s.of : \E yes :
                  /\ Clean(d) => yes \in Answers(s.q, booted[j])
                  /\ d.needs = IF yes THEN c.needs \union {j} ELSE c.needs
                  /\ d.todo = IF s.of \ {j} = {} THEN r ELSE <<[s EXCEPT !.of = s.of \ {j}]>> \o r
    <3>1. PICK j \in s.of : \E yes :
                  /\ yes \in Answers(s.q, booted[j])
                  /\ d.needs = IF yes THEN c.needs \union {j} ELSE c.needs
                  /\ d.todo = IF s.of \ {j} = {} THEN r ELSE <<[s EXCEPT !.of = s.of \ {j}]>> \o r
      BY <2>9
    <3>2. PICK yes : /\ yes \in Answers(s.q, booted[j])
                     /\ d.needs = IF yes THEN c.needs \union {j} ELSE c.needs
                     /\ d.todo = IF s.of \ {j} = {} THEN r ELSE <<[s EXCEPT !.of = s.of \ {j}]>> \o r
      BY <3>1
    <3> DEFINE q == [s EXCEPT !.of = s.of \ {j}]
    <3>3. IF s.of \ {j} = {} THEN Claim(e, i, W, d, disk)
          ELSE \E k \in Labels : Claim(k, i, W, d, disk) /\ Does(t, i, q, k, e)
      <4>1. /\ d.needs \in {c.needs, c.needs \union {j}}
            /\ Answers(s.q, booted[j]) = {TRUE} => j \in d.needs
            /\ Answers(s.q, booted[j]) = {FALSE} => d.needs = c.needs
        <5> DEFINE A == Answers(s.q, booted[j])
        <5>1. yes \in A /\ d.needs = IF yes THEN c.needs \union {j} ELSE c.needs
          BY <3>2
        <5> HIDE DEF A, s
        <5>2. (A = {TRUE} => yes = TRUE) /\ (A = {FALSE} => yes = FALSE)
          BY <5>1
        <5> SUFFICES /\ d.needs \in {c.needs, c.needs \union {j}}
                     /\ A = {TRUE} => j \in d.needs
                     /\ A = {FALSE} => d.needs = c.needs
          BY DEF A
        <5> QED
          BY <5>1, <5>2, Zenon
      <4>2. s \in StepsOf(c.task) /\ s.op = "ask" /\ d.listing = c.listing /\ j \in s.of
        BY <1>1, <2>9
      <4>3. c.task.module \notin Staged =>
              /\ Answers(s.q, disk[j]) = {TRUE} => j \in d.needs
              /\ Answers(s.q, disk[j]) = {FALSE} => d.needs = c.needs
        BY <4>1
      <4>4. Claim(a, i, Want(c.task, i), c, disk) /\ Does(c.task, i, s, a, e)
        BY <2>3, <2>4
      <4> HIDE DEF s, r, t, W
      <4>5. d.needs \in {c.needs, c.needs \union {j}}
        BY <4>1
      <4>6. AskedOn(c, d, i, disk, s, j, e)
        BY <4>2, <4>3, <4>4, <4>5, Asks, Zenon
      <4> QED
        BY <4>6 DEF AskedOn, t, W
    <3>4. CASE s.of \ {j} = {}
      BY <1>2, <1>5, <2>4, <2>5, <2>9, <3>2, <3>3, <3>4, GoalOnward
    <3>5. CASE s.of \ {j} # {}
      <4>1. PICK k \in Labels : Claim(k, i, W, d, disk) /\ Does(t, i, q, k, e)
        BY <3>3, <3>5
      <4>2. d.todo = <<q>> \o r
        BY <3>2, <3>5
      <4>3. q.op # "return"
        BY <1>1, <2>9, StepFacts
      <4> HIDE DEF q
      <4>4. TidyAfter(t, i, <<q>> \o r)
        BY <1>1, <2>1, <4>3, TidyTails
      <4>5. Path(t, i, <<q>> \o r, k, b)
        BY <2>4, <4>1, PathOne, PathJoins
      <4> QED
        BY <1>2, <1>5, <2>9, <4>1, <4>2, <4>4, <4>5, GoalOnward
    <3> QED
      BY <3>4, <3>5
  <2> HIDE DEF s, r
  <2>10. \/ s.op = "stop" /\ Ended(c, d, s.verdict) /\ \E h \in Holds(s.if, c) : h
         \/ /\ d.verdict = c.verdict /\ d.listing = c.listing /\ d.todo = r
            /\ \/ s.op = "stop" /\ (\E h \in Holds(s.if, c) : ~ h) /\ d.needs = c.needs
               \/ s.op = "take" /\ d.needs = s.of
               \/ s.op = "pick" /\ d.needs = Picked(s, c.listing)
               \/ s.op \in {"some", "each"} /\ c.needs = {} /\ d.needs = c.needs
         \/ /\ d.verdict = c.verdict /\ d.listing = c.listing /\ s.op = "branch" /\ d.needs = c.needs
            /\ d.todo = IF c.needs = {} THEN r ELSE s.then \o r
         \/ /\ d.verdict = c.verdict /\ d.listing = c.listing /\ s.op = "ask"
            /\ \E j \in s.of : \E yes :
                 /\ Clean(d) => yes \in Answers(s.q, booted[j])
                 /\ d.needs = IF yes THEN c.needs \union {j} ELSE c.needs
                 /\ d.todo = IF s.of \ {j} = {} THEN r ELSE <<[s EXCEPT !.of = s.of \ {j}]>> \o r
    BY Zenon DEF LocalTurn, s, r
  <2> QED
    BY <2>6, <2>7, <2>8, <2>9, <2>10, Zenon
<1> QED
  BY <1>1, <1>3, <1>4, <1>5 DEF Verdicts

LEMMA PartsOf ==
  ASSUME NEW cmd, cmd \notin Direct, NEW i, NEW targets
  PROVE  PartOf(cmd, i, targets) = IF i \in targets THEN Aimed(cmd, i) ELSE Missed(cmd, i)
<1>1. cmd # "rollback" /\ cmd \notin Rewrites
  BY DEF Direct
<1>2. CASE cmd \in Everywhere
  BY <1>1, <1>2 DEF PartOf, Aimed, Missed, Everywhere
<1>3. CASE cmd \notin Everywhere /\ cmd = "autoremove"
  BY <1>3 DEF PartOf, Aimed, Missed, Everywhere, Rewrites
<1>4. CASE cmd \notin Everywhere /\ cmd = "sysupgrade+install"
  BY <1>4 DEF PartOf, Aimed, Missed, Everywhere, Rewrites
<1>5. CASE cmd \notin Everywhere \union {"autoremove", "sysupgrade+install"}
  BY <1>1, <1>5 DEF PartOf, Aimed, Missed
<1> QED
  BY <1>2, <1>3, <1>4, <1>5

LEMMA PathHead ==
  ASSUME NEW t, NEW i, NEW p, IsPlan(p), p # <<>>, NEW a \in Labels, NEW e \in Labels, NEW b,
         Does(t, i, Head(p), a, e), Path(t, i, Tail(p), e, b)
  PROVE  Path(t, i, p, a, b)
<1>1. p = <<Head(p)>> \o Tail(p)
  <2>1. PICK S : p \in Seq(S)
    BY Zenon DEF IsPlan
  <2> QED
    BY <2>1
<1>2. Path(t, i, <<Head(p)>>, a, e)
  BY PathOne
<1>3. Path(t, i, <<Head(p)>> \o Tail(p), a, b)
  BY <1>2, PathJoins
<1> QED
  BY <1>1, <1>3

(* What a command does to an item when it succeeds, and when it fails.       *)
LEMMA CommandFacts ==
  ASSUME NEW t \in Threads, NEW i \in DOMAIN disk, disk[i] \in Versions, booted[i] \in Versions,
         NEW targets, NEW f, NEW W, Step(t).cmd \notin Direct
  PROVE  LET s == Step(t)
         IN  /\ f \in Succeeding(t, targets) /\ Keeps(Aimed(s.cmd, i), W) /\ Keeps(Missed(s.cmd, i), W)
                => (disk[i] \in W => f[i] \in W)
             /\ f \in Succeeding(t, targets) /\ Sets(Aimed(s.cmd, i), W) /\ i \in targets
                => f[i] \in W
             /\ f \in Failing(t, targets) /\ Spares(Aimed(s.cmd, i), W) /\ Spares(Missed(s.cmd, i), W)
                => (disk[i] \in W => f[i] \in W)
<1> DEFINE s == Step(t)
           part == PartOf(s.cmd, i, targets)
<1>1. part = IF i \in targets THEN Aimed(s.cmd, i) ELSE Missed(s.cmd, i)
  BY PartsOf
<1>2. Before(t, s.cmd) = disk
  BY DEF Before, Direct
<1>3. f \in Succeeding(t, targets) => Possible(part, disk[i]) /\ f[i] \in After(part, disk[i], booted[i])
  BY <1>2 DEF Succeeding
<1>4. f \in Failing(t, targets) => f[i] = disk[i] \/ f[i] \in AfterFailed(part, disk[i], booted[i])
  BY <1>2 DEF Failing
<1> HIDE DEF s, part
<1>5. f \in Succeeding(t, targets) /\ Keeps(Aimed(s.cmd, i), W) /\ Keeps(Missed(s.cmd, i), W)
      => (disk[i] \in W => f[i] \in W)
  BY <1>1, <1>3 DEF Keeps
<1>6. f \in Succeeding(t, targets) /\ Sets(Aimed(s.cmd, i), W) /\ i \in targets => f[i] \in W
  BY <1>1, <1>3 DEF Sets
<1>7. f \in Failing(t, targets) /\ Spares(Aimed(s.cmd, i), W) /\ Spares(Missed(s.cmd, i), W)
      => (disk[i] \in W => f[i] \in W)
  BY <1>1, <1>4 DEF Spares
<1> QED
  BY <1>5, <1>6, <1>7 DEF s

(* A command's success takes what is known to the next label; one that goes  *)
(* through the items stays at its own.                                       *)
LEMMA GoalSuccess ==
  ASSUME TypeInv, NEW t \in Threads, Running(t), NEW targets, NEW f \in Succeeding(t, targets),
         NEW i \in DOMAIN disk, disk[i] \in Versions, booted[i] \in Versions,
         NEW d, Clean(d),
         LET c == call[t]
             s == Step(t)
         IN  /\ s.op \in {"run", "some", "each", "list"} /\ Passed(c, d, targets)
             /\ d.listing = IF s.op = "list" THEN booted ELSE c.listing
             /\ s.op = "list" => booted = disk,
         NEW W, W = Want(call[t].task, i),
         NEW a \in Labels, NEW e \in Labels, Claim(a, i, W, call[t], disk),
         CommandDoes(call[t].task, i, Step(t), a, e)
  PROVE  IF Step(t).op # "each" THEN Claim(e, i, W, d, f)
         ELSE \E k \in Labels : Claim(k, i, W, d, f) /\ CommandDoes(call[t].task, i, Step(t), k, e)
<1> DEFINE c == call[t]
           s == Step(t)
<1>0. Head(c.todo) = s
  BY DEF Step
<1>1. /\ s.op \in {"run", "some", "each", "list"}
      /\ s.op = "each" => targets \subseteq c.needs /\ d.needs = c.needs \ targets
      /\ s.op # "each" => targets = c.needs /\ d.needs = c.needs
      /\ d.listing = IF s.op = "list" THEN booted ELSE c.listing
      /\ s.op = "list" => booted = disk
  BY <1>0 DEF Passed
<1>2. \/ e = "lost"
      \/ s.op = "list" /\ s.cmd = "show" /\ e = "read"
      \/ s.op \in {"run", "some"} /\ a = e /\ Safe(s, i, W)
      \/ s.op \in {"run", "some", "each"} /\ a = "due" /\ e = "met" /\ Fixing(s, i, W)
      \/ s.op = "run" /\ a = "picked" /\ e = "met" /\ WritesBack(s, W)
  BY DEF CommandDoes
<1>3. s.cmd \notin Direct =>
        /\ Keeps(Aimed(s.cmd, i), W) /\ Keeps(Missed(s.cmd, i), W) => (disk[i] \in W => f[i] \in W)
        /\ Sets(Aimed(s.cmd, i), W) /\ i \in targets => f[i] \in W
  BY CommandFacts
<1>4. CASE e = "lost"
  <2>1. Claim("lost", i, W, d, f) /\ CommandDoes(c.task, i, s, "lost", "lost")
    BY <1>4 DEF Claim, CommandDoes
  <2> QED
    BY <1>4, <2>1 DEF Labels
<1>5. CASE s.op = "list" /\ s.cmd = "show" /\ e = "read"
  <2>1. PartOf("show", i, targets) = "show"
    BY DEF PartOf, Everywhere, Rewrites
  <2>2. f[i] \in After("show", disk[i], booted[i])
    BY <1>5, <2>1 DEF Succeeding, Before, Rewrites
  <2>3. f[i] = disk[i]
    BY <2>2 DEF After
  <2>4. i \in DOMAIN d.listing /\ d.listing[i] = disk[i]
    BY <1>1, <1>5
  <2> QED
    BY <1>1, <1>5, <2>3, <2>4 DEF Claim
<1>6. CASE s.op \in {"run", "some"} /\ a = e /\ Safe(s, i, W)
  <2>1. disk[i] \in W => f[i] \in W
    BY <1>3, <1>6 DEF Safe
  <2>2. d.needs = c.needs /\ d.listing = c.listing
    BY <1>1, <1>6
  <2> QED
    BY <1>6, <2>1, <2>2, ClaimStays
<1>7. CASE s.op \in {"run", "some", "each"} /\ a = "due" /\ e = "met" /\ Fixing(s, i, W)
  <2>1. disk[i] \in W => f[i] \in W \/ i \in targets
    <3>1. CASE i \notin targets
      <4>1. PartOf(s.cmd, i, targets) = Missed(s.cmd, i) /\ Before(t, s.cmd) = disk
        BY <1>7, <3>1, PartsOf DEF Fixing, Before, Direct
      <4>2. f[i] \in After(Missed(s.cmd, i), disk[i], booted[i]) /\ Possible(Missed(s.cmd, i), disk[i])
        BY <4>1 DEF Succeeding
      <4> QED
        BY <1>7, <4>2 DEF Fixing, Keeps
    <3> QED
      BY <3>1
  <2>2. i \in targets => f[i] \in W
    BY <1>3, <1>7 DEF Fixing
  <2>3. i \in c.needs \/ disk[i] \in W
    BY <1>7 DEF Claim
  <2>4. CASE s.op # "each"
    <3>1. f[i] \in W
      BY <1>1, <2>1, <2>2, <2>3, <2>4
    <3> QED
      BY <1>7, <2>4, <3>1 DEF Claim
  <2>5. CASE s.op = "each"
    <3>1. i \in d.needs \/ f[i] \in W
      BY <1>1, <2>1, <2>2, <2>3, <2>5
    <3>2. Claim("due", i, W, d, f)
      BY <3>1 DEF Claim
    <3> QED
      BY <1>7, <2>5, <3>2
  <2> QED
    BY <2>4, <2>5
<1>8. CASE s.op = "run" /\ a = "picked" /\ e = "met" /\ WritesBack(s, W)
  <2> DEFINE v == c.listing[i]
  <2>1. i \in DOMAIN c.listing /\ (i \in c.needs \/ v \in W)
    BY <1>8 DEF Claim
  <2>2. targets = c.needs /\ s.cmd \in Rewrites
    BY <1>1, <1>8 DEF WritesBack
  <2>3. PartOf(s.cmd, i, targets) = IF i \in c.needs THEN s.cmd ELSE "reread"
    BY <2>2 DEF PartOf, Rewrites, Everywhere
  <2>4. f[i] \in After(PartOf(s.cmd, i, targets), v, booted[i])
    BY <2>2 DEF Succeeding, Before
  <2>5. v \in Versions
    <3>1. c.listing \in [Items(module) -> Versions] \/ c.listing = <<>>
      BY DEF TypeInv, Sound
    <3> QED
      BY <2>1, <3>1
  <2>6. i \in c.needs => f[i] \in W
    BY <1>8, <2>3, <2>4, <2>5 DEF WritesBack
  <2>7. i \notin c.needs => f[i] = v
    BY <2>3, <2>4 DEF After
  <2> HIDE DEF v
  <2>8. f[i] \in W
    BY <2>1, <2>6, <2>7
  <2> QED
    BY <1>8, <2>8 DEF Claim
<1> QED
  BY <1>2, <1>4, <1>5, <1>6, <1>7, <1>8

(* A failure that is passed over loses it, or the command spares the item.   *)
LEMMA GoalFailure ==
  ASSUME TypeInv, NEW t \in Threads, Running(t), NEW targets, NEW f \in Failing(t, targets),
         NEW i \in DOMAIN disk, disk[i] \in Versions, booted[i] \in Versions,
         NEW d,
         LET c == call[t]
             s == Step(t)
         IN  /\ s.op \in {"run", "some", "each"} /\ Passed(c, d, targets)
             /\ d.listing = c.listing /\ (s.bad = "next" \/ (s.lost = "next" /\ f = disk)),
         NEW W, W = Want(call[t].task, i),
         NEW a \in Labels, NEW e \in Labels, Claim(a, i, W, call[t], disk),
         CommandDoes(call[t].task, i, Step(t), a, e)
  PROVE  IF Step(t).op # "each" THEN Claim(e, i, W, d, f)
         ELSE \E k \in Labels : Claim(k, i, W, d, f) /\ CommandDoes(call[t].task, i, Step(t), k, e)
<1> DEFINE c == call[t]
           s == Step(t)
<1>0. Head(c.todo) = s
  BY DEF Step
<1>1. s.op # "each" => d.needs = c.needs
  BY <1>0 DEF Passed
<1>2. \/ e = "lost"
      \/ s.op \in {"run", "some"} /\ a = e /\ Safe(s, i, W)
  BY DEF CommandDoes, Fixing, WritesBack, Strict
<1>4. CASE e = "lost"
  <2>1. Claim("lost", i, W, d, f) /\ CommandDoes(c.task, i, s, "lost", "lost")
    BY <1>4 DEF Claim, CommandDoes
  <2> QED
    BY <1>4, <2>1 DEF Labels
<1>5. CASE s.op \in {"run", "some"} /\ a = e /\ Safe(s, i, W)
  <2>1. disk[i] \in W => f[i] \in W
    <3>1. s.cmd \notin Direct /\ (s.bad = "next" => Spares(Aimed(s.cmd, i), W) /\ Spares(Missed(s.cmd, i), W))
      BY <1>5 DEF Safe
    <3>2. CASE s.bad = "next"
      BY <3>1, <3>2, CommandFacts
    <3>3. CASE f = disk
      BY <3>3
    <3> QED
      BY <3>2, <3>3
  <2>2. d.needs = c.needs /\ d.listing = c.listing
    BY <1>1, <1>5
  <2> QED
    BY <1>5, <2>1, <2>2, ClaimStays
<1> QED
  BY <1>2, <1>4, <1>5

LEMMA GoalMove ==
  ASSUME TypeInv, NEW t \in Threads, Running(t), NEW i \in DOMAIN disk,
         NEW targets, NEW f, NEW d, MoveTurn(t, targets, f, call[t], d), Clean(d),
         Head(call[t].todo).op \in {"run", "some", "each", "list"}, ItemGoal(call[t], disk, i)
  PROVE  ItemGoal(d, f, i)
<1> DEFINE c == call[t]
           q == c.task
           p == c.todo
           s == Head(p)
           r == Tail(p)
           W == Want(q, i)
<1>1. Sound(c, module) /\ q # Idle /\ p # <<>> /\ Step(t) = s
  BY RunningFacts
<1>2. /\ IsPlan(p) /\ c.verdict \in Verdicts /\ 1 \in DOMAIN p /\ s = p[1]
      /\ \A j, S : Tidied(S, j, p) => Tidied(S, j, Tail(p))
  BY <1>1, PlanOf
<1>3. disk[i] \in Versions /\ booted[i] \in Versions
  BY DEF TypeInv, Machine
<1>4. d.task = q
  BY DEF MoveTurn
<1>5. /\ s.op \in {"run", "some", "each", "list"}
      /\ \/ /\ f \in Succeeding(t, targets) /\ d.verdict = c.verdict /\ Passed(c, d, targets)
            /\ d.listing = IF s.op = "list" THEN booted ELSE c.listing
            /\ s.op = "list" => booted = disk
         \/ /\ f \in Failing(t, targets) /\ (s.bad = "next" \/ (s.lost = "next" /\ f = disk))
            /\ d.verdict = c.verdict /\ Passed(c, d, targets) /\ d.listing = c.listing
            /\ s.op # "list"
         \/ \/ s.bad \in {"failed", "err"} /\ Ended(c, d, s.bad)
            \/ s.lost \in {"failed", "err"} /\ Ended(c, d, s.lost)
         \/ ~ Plain(s) /\ d.verdict = c.verdict
  BY Zenon DEF MoveTurn
<1>6. Passed(c, d, targets) => d.todo = IF s.op = "each" THEN p ELSE r
  BY DEF Passed
<1> HIDE DEF W
<1>7. CASE c.verdict \in {"failed", "err"}
  <2>1. d.verdict \in {"failed", "err"}
    <3> HIDE DEF s, c
    <3> QED
      BY <1>5, <1>7 DEF Ended
  <2> QED
    BY <2>1 DEF ItemGoal
<1>8. CASE c.verdict \in {"ok", "changed"}
  <2>1. Tidied(q, i, p) /\ disk[i] \in Promise(q, c.verdict, i)
    BY <1>8 DEF ItemGoal
  <2>2. s.op = "run" /\ s.bad = "next" /\ s.lost = "err" /\ Safe(s, i, Promise(q, c.verdict, i))
    BY <1>2, <1>8, <2>1 DEF Tidied, Tidy
  <2> DEFINE V == Promise(q, c.verdict, i)
  <2>3. CASE Ended(c, d, "err")
    BY <2>3 DEF Ended, ItemGoal
  <2>4. CASE /\ f \in Succeeding(t, targets) \/ f \in Failing(t, targets)
             /\ d.verdict = c.verdict /\ Passed(c, d, targets)
    <3>1. s.cmd \notin Direct
      BY <2>2 DEF Safe
    <3>2. Keeps(Aimed(s.cmd, i), V) /\ Keeps(Missed(s.cmd, i), V)
          /\ Spares(Aimed(s.cmd, i), V) /\ Spares(Missed(s.cmd, i), V)
      BY <2>2 DEF Safe
    <3> HIDE DEF V
    <3>3. disk[i] \in V => f[i] \in V
      BY <1>1, <1>3, <2>4, <3>1, <3>2, CommandFacts
    <3>4. d.todo = r
      BY <1>6, <2>2, <2>4
    <3> QED
      BY <1>2, <1>4, <1>8, <2>1, <2>4, <3>3, <3>4 DEF ItemGoal, V
  <2>5. Plain(s)
    BY <2>2 DEF Plain
  <2> HIDE DEF s
  <2> QED
    BY <1>5, <2>2, <2>3, <2>4, <2>5
<1>9. CASE c.verdict = "running"
  <2>1. TidyAfter(q, i, p) /\ \E k \in Labels : \E b : Claim(k, i, W, c, disk) /\ Path(q, i, p, k, b)
    BY <1>9 DEF ItemGoal, W
  <2>2. PICK a \in Labels : \E b : Claim(a, i, W, c, disk) /\ Path(q, i, p, a, b)
    BY <2>1
  <2>3. PICK b : Claim(a, i, W, c, disk) /\ Path(q, i, p, a, b)
    BY <2>2
  <2>4. PICK e \in Labels : Does(q, i, s, a, e) /\ Path(q, i, r, e, b)
    BY <1>1, <2>3, PathSplits
  <2>5. TidyAfter(q, i, r)
    BY <1>1, <1>2, <2>1, TidyTails
  <2>6. CommandDoes(q, i, s, a, e)
    BY <1>5, <2>4 DEF Does, FlatDoes
  <2>7. Plain(s)
    BY <2>6 DEF CommandDoes
  <2>8. \A k : CommandDoes(q, i, s, k, e) => Does(q, i, s, k, e)
    BY <1>5 DEF Does, FlatDoes
  <2>9. ASSUME d.verdict = c.verdict, Passed(c, d, targets),
               IF s.op # "each" THEN Claim(e, i, W, d, f)
               ELSE \E k \in Labels : Claim(k, i, W, d, f) /\ CommandDoes(q, i, s, k, e)
        PROVE  ItemGoal(d, f, i)
    <3>1. CASE s.op # "each"
      <4>1. d.todo = r /\ Claim(e, i, W, d, f)
        BY <1>6, <2>9, <3>1
      <4> QED
        BY <1>4, <1>9, <2>4, <2>5, <2>9, <4>1, GoalOnward DEF W
    <3>2. CASE s.op = "each"
      <4>1. PICK k \in Labels : Claim(k, i, W, d, f) /\ CommandDoes(q, i, s, k, e)
        BY <2>9, <3>2
      <4>2. Path(q, i, p, k, b)
        BY <1>1, <1>2, <2>4, <2>8, <4>1, PathHead
      <4>3. d.todo = p
        BY <1>6, <2>9, <3>2
      <4> QED
        BY <1>4, <1>9, <2>1, <2>9, <4>1, <4>2, <4>3, GoalOnward DEF W
    <3> QED
      BY <3>1, <3>2
  <2>10. CASE /\ f \in Succeeding(t, targets) /\ d.verdict = c.verdict /\ Passed(c, d, targets)
              /\ d.listing = IF s.op = "list" THEN booted ELSE c.listing
              /\ s.op = "list" => booted = disk
    <3>1. IF s.op # "each" THEN Claim(e, i, W, d, f)
          ELSE \E k \in Labels : Claim(k, i, W, d, f) /\ CommandDoes(q, i, s, k, e)
      BY <1>1, <1>3, <1>5, <2>3, <2>6, <2>10, GoalSuccess DEF W
    <3> QED
      BY <2>9, <2>10, <3>1
  <2>11. CASE /\ f \in Failing(t, targets) /\ (s.bad = "next" \/ (s.lost = "next" /\ f = disk))
              /\ d.verdict = c.verdict /\ Passed(c, d, targets) /\ d.listing = c.listing
              /\ s.op # "list"
    <3>1. IF s.op # "each" THEN Claim(e, i, W, d, f)
          ELSE \E k \in Labels : Claim(k, i, W, d, f) /\ CommandDoes(q, i, s, k, e)
      BY <1>1, <1>3, <1>5, <2>3, <2>6, <2>11, GoalFailure DEF W
    <3> QED
      BY <2>9, <2>11, <3>1
  <2>12. ASSUME NEW v \in {"failed", "err"}, Ended(c, d, v) PROVE ItemGoal(d, f, i)
    BY <1>1, <1>2, <1>4, <1>9, <2>1, <2>12, GoalEnded
  <2> HIDE DEF s, c
  <2> QED
    BY <1>5, <2>7, <2>10, <2>11, <2>12
<1> QED
  BY <1>2, <1>7, <1>8, <1>9 DEF Verdicts

-----------------------------------------------------------------------------
(* The inductive invariant.                                                  *)
Excused(t, i) == (i = Orphan /\ Sweeps(t)) \/ Want(t, i) = Versions
GoalOf(c, D) ==
  c.task # Idle /\ Clean(c) => \A i \in c.task.names : Excused(c.task, i) \/ ItemGoal(c, D, i)
GoalInv ==
  /\ TypeInv
  /\ module \notin Staged => booted = disk
  /\ \A t \in Threads : GoalOf(call[t], disk)

LEMMA GoalBeside ==
  ASSUME NEW m, NEW c, Sound(c, m), NEW d, NEW D, NEW f, Beside(c, d, D, f), GoalOf(c, D),
         c.task # Idle => c.task.names \subseteq DOMAIN D
  PROVE  GoalOf(d, f)
<1> SUFFICES ASSUME d.task # Idle, Clean(d), NEW i \in d.task.names, ~ Excused(d.task, i)
             PROVE  ItemGoal(d, f, i)
  BY DEF GoalOf
<1> DEFINE t == c.task
           W == Want(t, i)
<1>1. /\ d.task = t /\ d.todo = c.todo /\ d.needs = c.needs /\ d.listing = c.listing
      /\ d.verdict = c.verdict /\ Clean(c) /\ t # Idle
      /\ f[i] = D[i] \/ f[i] \in W
  BY DEF Beside
<1>2. ItemGoal(c, D, i)
  BY <1>1 DEF GoalOf
<1>3. CASE c.verdict = "running"
  <2>1. TidyAfter(t, i, c.todo) /\ \E k \in Labels : \E b : Claim(k, i, W, c, D) /\ Path(t, i, c.todo, k, b)
    BY <1>2, <1>3 DEF ItemGoal
  <2> HIDE DEF W
  <2>2. \A k \in Labels : Claim(k, i, W, c, D) => Claim(k, i, W, d, f)
    BY <1>1, ClaimStays
  <2>3. PICK k \in Labels : \E b : Claim(k, i, W, d, f) /\ Path(t, i, c.todo, k, b)
    BY <2>1, <2>2
  <2> QED
    BY <1>1, <1>3, <2>1, <2>3 DEF ItemGoal, W
<1>4. CASE c.verdict \in {"ok", "changed"}
  <2>1. D[i] \in Promise(t, c.verdict, i) /\ Tidied(t, i, c.todo)
    BY <1>2, <1>4 DEF ItemGoal
  <2>2. f[i] \in Promise(t, c.verdict, i)
    BY <1>1, <1>4, <2>1, Promises
  <2> QED
    BY <1>1, <1>4, <2>1, <2>2 DEF ItemGoal
<1>5. CASE c.verdict \in {"failed", "err"}
  BY <1>1, <1>5 DEF ItemGoal
<1> QED
  BY <1>3, <1>4, <1>5 DEF Sound, Verdicts

LEMMA Booted ==
  ASSUME TypeInv, module \notin Staged => booted = disk, [Next]_vars
  PROVE  module' \notin Staged => booted' = disk'
<1>1. CASE UNCHANGED vars
  BY <1>1 DEF vars
<1>2. ASSUME NEW t \in Threads, NEW task \in Tasks(module), Begin(t, task)
      PROVE  module' \notin Staged => booted' = disk'
  BY <1>2 DEF Begin
<1>3. ASSUME NEW t \in Threads, StopOrGoOn(t) \/ AskNext(t) \/ Select(t)
      PROVE  module' \notin Staged => booted' = disk'
  BY <1>3, LocalTurns
<1>4. ASSUME NEW t \in Threads, Success(t) \/ Failure(t)
      PROVE  module' \notin Staged => booted' = disk'
  <2>1. \E f, c : Moves(t, f, c)
    BY <1>4, SuccessMoves, FailureMoves, Zenon
  <2> QED
    BY <2>1 DEF Moves, Move
<1>5. ASSUME NEW reboot \in BOOLEAN, Crash(reboot)
      PROVE  module' \notin Staged => booted' = disk'
  BY <1>5 DEF Crash
<1> QED
  BY <1>1, <1>2, <1>3, <1>4, <1>5, Zenon DEF Next

LEMMA GoalLocalStep ==
  ASSUME GoalInv, NEW t \in Threads, StopOrGoOn(t) \/ AskNext(t) \/ Select(t)
  PROVE  \A u \in Threads : GoalOf(call'[u], disk')
<1> DEFINE c == call[t]
           d == call'[t]
<1>1. /\ UNCHANGED <<module, disk, booted>> /\ LocalTurn(c, d)
      /\ \A u \in Threads \ {t} : call'[u] = call[u]
  BY LocalTurns DEF GoalInv
<1>2. Running(t)
  BY DEF StopOrGoOn, AskNext, Select, At
<1>3. /\ c.task # Idle /\ c.task \in Tasks(module) /\ Sound(c, module) /\ c.todo # <<>>
      /\ module \in Modules /\ disk \in [Items(module) -> Versions]
  BY <1>2, RunningFacts DEF GoalInv, TypeInv, Machine
<1>4. c.task.names \subseteq Items(module) /\ c.task.module = module
  BY <1>3, ManagedAssumption
<1>5. GoalOf(c, disk) /\ (module \notin Staged => booted = disk)
  BY DEF GoalInv
<1> HIDE DEF c, d
<1>6. d.task = c.task /\ (Clean(d) => Clean(c))
  BY <1>1 DEF LocalTurn
<1>7. GoalOf(d, disk)
  <2> SUFFICES ASSUME d.task # Idle, Clean(d), NEW i \in d.task.names, ~ Excused(d.task, i)
               PROVE  ItemGoal(d, disk, i)
    BY DEF GoalOf
  <2>1. ItemGoal(c, disk, i) /\ disk[i] \in Versions
    BY <1>3, <1>4, <1>5, <1>6 DEF GoalOf
  <2> QED
    BY <1>1, <1>3, <1>4, <1>5, <2>1, GoalLocal
<1>8. ASSUME NEW u \in Threads \ {t} PROVE GoalOf(call'[u], disk)
  BY <1>1, <1>8 DEF GoalInv
<1> QED
  BY <1>1, <1>7, <1>8 DEF d

LEMMA GoalMoveStep ==
  ASSUME GoalInv, NEW t \in Threads, Success(t) \/ Failure(t)
  PROVE  \A u \in Threads : GoalOf(call'[u], disk')
<1> DEFINE c == call[t]
           d == call'[t]
<1>1. PICK targets \in SUBSET c.task.names, f \in [DOMAIN disk -> Versions] :
           /\ MoveTurn(t, targets, f, c, d) /\ Head(c.todo).op \in {"run", "some", "each", "list"}
           /\ module' = module /\ disk' = f
           /\ \A u \in Threads \ {t} : Beside(call[u], call'[u], disk, f)
  BY MoveTurns DEF GoalInv
<1>2. Running(t) /\ TypeInv
  BY DEF Success, Failure, At, GoalInv
<1>3. /\ c.task # Idle /\ module \in Modules /\ disk \in [Items(module) -> Versions]
      /\ \A u \in Threads : Sound(call[u], module)
  BY <1>2, RunningFacts DEF TypeInv, Machine
<1>4. \A u \in Threads : call[u].task # Idle => call[u].task.names \subseteq DOMAIN disk
  BY <1>3, ManagedAssumption DEF Sound
<1>5. \A u \in Threads : GoalOf(call[u], disk)
  BY DEF GoalInv
<1>6. d.task = c.task /\ (Clean(d) => Clean(c))
  BY <1>1 DEF MoveTurn
<1>7. GoalOf(d, f)
  <2> SUFFICES ASSUME d.task # Idle, Clean(d), NEW i \in d.task.names, ~ Excused(d.task, i)
               PROVE  ItemGoal(d, f, i)
    BY DEF GoalOf
  <2>1. ItemGoal(c, disk, i) /\ i \in DOMAIN disk
    BY <1>4, <1>5, <1>6 DEF GoalOf
  <2> QED
    BY <1>1, <1>2, <2>1, GoalMove
<1>8. ASSUME NEW u \in Threads \ {t} PROVE GoalOf(call'[u], f)
  BY <1>1, <1>3, <1>4, <1>5, GoalBeside
<1> QED
  BY <1>1, <1>7, <1>8

-----------------------------------------------------------------------------
(* The plans of the modules leave every item as promised.  How the parts of  *)
(* a plan lead from label to label.                                          *)
Way(t, i, p, a, b) ==
  Path(t, i, p, a, b) /\ \A n \in 1..Len(p) : p[n].op # "return"
Ending(t, i, p, a) == TidyAfter(t, i, p) /\ \E b \in Labels : Path(t, i, p, a, b)
Reaches(t, i, p) == Ending(t, i, p, "lost")

LEMMA WaysJoin ==
  ASSUME NEW t, NEW i, NEW p, NEW a, NEW b, Way(t, i, p, a, b)
  PROVE  /\ b \in Labels => Ending(t, i, p, a)
         /\ \A q, e : Way(t, i, q, b, e) => Way(t, i, p \o q, a, e)
         /\ \A q : Ending(t, i, q, b) => Ending(t, i, p \o q, a)
<1>1. IsPlan(p) /\ Path(t, i, p, a, b) /\ \A n \in 1..Len(p) : p[n].op # "return"
  BY DEF Way, Path
<1>2. DOMAIN p = 1..Len(p)
  BY <1>1 DEF IsPlan
<1>3. b \in Labels => Ending(t, i, p, a)
  BY <1>1, <1>2, Zenon DEF Ending, TidyAfter
<1>4. ASSUME NEW q, IsPlan(q)
      PROVE  /\ (\A n \in 1..Len(q) : q[n].op # "return") =>
                  \A n \in 1..Len(p \o q) : (p \o q)[n].op # "return"
             /\ TidyAfter(t, i, q) => TidyAfter(t, i, p \o q)
  <2> DEFINE pq == p \o q
  <2>1. /\ Len(p) \in Nat /\ Len(q) \in Nat /\ Len(pq) = Len(p) + Len(q)
        /\ \A n \in 1..Len(p) : pq[n] = p[n]
        /\ \A n \in 1..Len(q) : pq[Len(p) + n] = q[n]
    BY <1>1, <1>4, PlanFacts
  <2>2. DOMAIN pq = 1..Len(pq) /\ DOMAIN q = 1..Len(q)
    BY <1>1, <1>4, PlanJoins DEF IsPlan
  <2> HIDE DEF pq
  <2>3. ASSUME NEW n \in 1..Len(pq)
        PROVE  \/ n \in 1..Len(p) /\ pq[n] = p[n]
               \/ n > Len(p) /\ n - Len(p) \in 1..Len(q) /\ pq[n] = q[n - Len(p)]
    <3>1. CASE n <= Len(p)
      BY <2>1, <3>1
    <3>2. CASE n > Len(p)
      <4>1. n - Len(p) \in 1..Len(q) /\ n = Len(p) + (n - Len(p))
        BY <2>1, <3>2
      <4> QED
        BY <2>1, <3>2, <4>1
    <3> QED
      BY <2>1, <3>1, <3>2
  <2>4. (\A n \in 1..Len(q) : q[n].op # "return") => \A n \in 1..Len(pq) : pq[n].op # "return"
    BY <1>1, <2>3
  <2>5. ASSUME TidyAfter(t, i, q), NEW n \in DOMAIN pq, NEW m \in DOMAIN pq, n < m,
               pq[n].op = "return"
        PROVE  Tidy(t, i, pq[m])
    <3>1. n > Len(p) /\ n - Len(p) \in 1..Len(q) /\ pq[n] = q[n - Len(p)]
      BY <1>1, <2>2, <2>3, <2>5
    <3>2. m > Len(p)
      BY <2>1, <2>2, <2>5, <3>1
    <3>3. m - Len(p) \in 1..Len(q) /\ pq[m] = q[m - Len(p)]
      BY <2>1, <2>2, <2>3, <3>2
    <3>4. n - Len(p) < m - Len(p)
      BY <2>1, <2>2, <2>5
    <3> QED
      BY <2>2, <2>5, <3>1, <3>3, <3>4 DEF TidyAfter
  <2> QED
    BY <2>4, <2>5 DEF TidyAfter, pq
<1>5. ASSUME NEW q, NEW e, Way(t, i, q, b, e) PROVE Way(t, i, p \o q, a, e)
  <2>1. IsPlan(q) /\ Path(t, i, q, b, e) /\ \A n \in 1..Len(q) : q[n].op # "return"
    BY <1>5 DEF Way, Path
  <2>2. Path(t, i, p \o q, a, e)
    BY <1>1, <2>1, PathJoins
  <2> QED
    BY <1>4, <2>1, <2>2 DEF Way
<1>6. ASSUME NEW q, Ending(t, i, q, b) PROVE Ending(t, i, p \o q, a)
  <2>1. PICK e \in Labels : Path(t, i, q, b, e)
    BY <1>6 DEF Ending
  <2>2. IsPlan(q) /\ TidyAfter(t, i, q)
    BY <1>6, <2>1 DEF Ending, Path
  <2>3. Path(t, i, p \o q, a, e) /\ TidyAfter(t, i, p \o q)
    BY <1>1, <1>4, <2>1, <2>2, PathJoins
  <2> QED
    BY <2>3 DEF Ending
<1> QED
  BY <1>3, <1>5, <1>6

(* Steps one by one. *)
LEMMA WayOne ==
  ASSUME NEW t, NEW i, NEW a \in Labels, NEW b \in Labels
  PROVE  /\ Way(t, i, <<>>, a, a) /\ FlatPath(t, i, <<>>, a, a)
         /\ \A s : FlatDoes(t, i, s, a, b) => FlatPath(t, i, <<s>>, a, b) /\ Way(t, i, <<s>>, a, b)
         /\ \A s : s.op = "branch" /\ BranchDoes(t, i, s, a, b) => Way(t, i, <<s>>, a, b)
         /\ \A p : FlatPath(t, i, p, a, b) => Way(t, i, p, a, b)
<1>1. Path(t, i, <<>>, a, a) /\ FlatPath(t, i, <<>>, a, a)
  BY PathOne, Zenon
<1>6. 1..Len(<<>>) = {}
  OBVIOUS
<1>2. \A s : 1..Len(<<s>>) = {1} /\ <<s>>[1] = s
  OBVIOUS
<1>3. ASSUME NEW p, FlatPath(t, i, p, a, b) PROVE Way(t, i, p, a, b)
  <2>1. PICK k : \A n \in 1..Len(p) : FlatDoes(t, i, p[n], k[n], k[n + 1])
    BY <1>3 DEF FlatPath
  <2>2. ASSUME NEW n \in 1..Len(p) PROVE p[n].op # "return"
    <3>1. FlatDoes(t, i, p[n], k[n], k[n + 1])
      BY <2>1
    <3> QED
      BY <3>1 DEF FlatDoes
  <2> QED
    BY <1>3, <2>2, FlatIsPath DEF Way
<1>4. ASSUME NEW s, FlatDoes(t, i, s, a, b) PROVE FlatPath(t, i, <<s>>, a, b)
  BY <1>4, PathOne
<1>5. ASSUME NEW s, s.op = "branch", BranchDoes(t, i, s, a, b) PROVE Way(t, i, <<s>>, a, b)
  <2>1. Path(t, i, <<s>>, a, b)
    BY <1>5, PathOne DEF Does
  <2> QED
    BY <1>2, <1>5, <2>1 DEF Way
<1> QED
  BY <1>1, <1>3, <1>4, <1>5, <1>6 DEF Way

(* Stops: a result that is no success, or that is promised anyhow, may come  *)
(* at any time; one when nothing is needed where the needed ones are what is *)
(* left; and any once the item is as wanted.                                 *)
LEMMA StopWays ==
  ASSUME NEW t, NEW i, NEW a \in Labels
  PROVE  /\ \A if : \A v \in {"failed", "err"} : FlatPath(t, i, Stop(v, if), a, a)
         /\ \A v, if : FlatPath(t, i, Stop(v, if), "met", "met")
         /\ \A b \in Labels : /\ FlatPath(t, i, Fail, a, b) /\ FlatPath(t, i, Err, a, b)
                              /\ FlatPath(t, i, Changed, "met", b) /\ FlatPath(t, i, Ok, "met", b)
                              /\ FlatPath(t, i, Did, "met", b)
         /\ FlatPath(t, i, DidAll, "met", "met")
         /\ FlatPath(t, i, OkIfNone, "met", "met")
         /\ \A b \in {"due", "picked"} : FlatPath(t, i, OkIfNone, b, b) /\ FlatPath(t, i, OkIfNone, b, "lost")
         /\ FlatPath(t, i, FailIfSome, "due", "met") /\ FlatPath(t, i, FailIfSome, a, a)
         /\ Promise(t, "ok", i) = Versions => FlatPath(t, i, OkIfNone, a, a)
         /\ \A v \in {"failed", "err"} : FlatPath(t, i, May(v), a, a)
         /\ FlatPath(t, i, May("changed"), "met", "met")
<1>1. ASSUME NEW x \in Labels, NEW b \in Labels, NEW v, NEW if,
             StopDoes(t, i, [op |-> "stop", verdict |-> v, if |-> if], x, b)
      PROVE  FlatPath(t, i, Stop(v, if), x, b)
  <2>1. FlatDoes(t, i, [op |-> "stop", verdict |-> v, if |-> if], x, b)
    BY <1>1 DEF FlatDoes
  <2> QED
    BY <2>1, WayOne DEF Stop
<1>2. \A x \in Labels, b \in Labels : \A v, if :
        /\ v \in {"failed", "err"} \/ Promise(t, v, i) = Versions \/ x = "met"
           \/ (if = "none needed" /\ x \in {"due", "picked"})
        /\ if = "always" \/ b \in {x, "lost"} \/ (if = "some needed" /\ x = "due" /\ b = "met")
        => FlatPath(t, i, Stop(v, if), x, b)
  BY <1>1, ZenonT(60) DEF StopDoes
<1>3. {"lost", "due", "have", "read", "picked", "met"} \subseteq Labels
  BY DEF Labels
<1>4. \A b \in Labels : FlatPath(t, i, OkIfUndone, "met", "met") /\ FlatPath(t, i, Changed, "met", b)
  BY <1>2, <1>3 DEF OkIfUndone, Changed
<1>5. \A b \in Labels : FlatPath(t, i, Did, "met", b)
  BY <1>4, FlatPathJoins DEF Did
<1>6. FlatPath(t, i, DidAll, "met", "met")
  <2>1. FlatPath(t, i, Stop("ok", "something met"), "met", "met")
    BY <1>2, <1>3
  <2> QED
    BY <1>3, <1>4, <2>1, FlatPathJoins DEF DidAll
<1>7. /\ \A if : \A v \in {"failed", "err"} : FlatPath(t, i, Stop(v, if), a, a)
      /\ \A v, if : FlatPath(t, i, Stop(v, if), "met", "met")
  BY <1>2, <1>3
<1>8. \A b \in Labels : /\ FlatPath(t, i, Fail, a, b) /\ FlatPath(t, i, Err, a, b)
                        /\ FlatPath(t, i, Ok, "met", b)
  BY <1>2, <1>3 DEF Fail, Err, Ok
<1>9. /\ FlatPath(t, i, OkIfNone, "met", "met")
      /\ \A b \in {"due", "picked"} : FlatPath(t, i, OkIfNone, b, b) /\ FlatPath(t, i, OkIfNone, b, "lost")
      /\ Promise(t, "ok", i) = Versions => FlatPath(t, i, OkIfNone, a, a)
  BY <1>2, <1>3 DEF OkIfNone
<1>10. FlatPath(t, i, FailIfSome, "due", "met") /\ FlatPath(t, i, FailIfSome, a, a)
  BY <1>2, <1>3 DEF FailIfSome
<1>11. /\ \A v \in {"failed", "err"} : FlatPath(t, i, May(v), a, a)
       /\ FlatPath(t, i, May("changed"), "met", "met")
  BY <1>2, <1>3 DEF May
<1> QED
  BY <1>4, <1>5, <1>6, <1>7, <1>8, <1>9, <1>10, <1>11

(* What a question must tell, and a command do, for the item to be reached.  *)
Tells(t, i, q)  == Decides(q, Want(t, i)) /\ t.module \notin Staged
Brings(t, i, c) ==
  c \notin Direct /\ Sets(Aimed(c, i), Want(t, i)) /\ Keeps(Missed(c, i), Want(t, i))
Mends(t, i, c) ==
  c \notin Direct /\ Keeps(Aimed(c, i), Want(t, i)) /\ Keeps(Missed(c, i), Want(t, i))
Harmless(t, i, c) ==
  Mends(t, i, c) /\ Spares(Aimed(c, i), Want(t, i)) /\ Spares(Missed(c, i), Want(t, i))

LEMMA SelectWays ==
  ASSUME NEW t, NEW i, NEW a \in Labels
  PROVE  /\ \A P : /\ FlatPath(t, i, Take(P), a, "lost") /\ FlatPath(t, i, Take(P), "met", "met")
                   /\ i \in P => FlatPath(t, i, Take(P), a, "due")
         /\ \A q, P : /\ FlatPath(t, i, Ask(q, P), a, "lost") /\ FlatPath(t, i, Ask(q, P), "met", "met")
                      /\ i \in P /\ Tells(t, i, q) => FlatPath(t, i, Ask(q, P), a, "due")
                      /\ Decides(q, Want(t, i)) /\ i \in P =>
                           /\ FlatPath(t, i, Pick(q, P), "read", "due")
                           /\ FlatPath(t, i, Pick(q, P), "read", "picked")
         /\ \A q : Confirms(q, Want(t, i)) /\ t.module \notin Staged =>
                     FlatPath(t, i, Ask(q, {i}), a, "have")
<1>1. {"lost", "due", "have", "read", "picked", "met"} \subseteq Labels
  BY DEF Labels
<1>2. ASSUME NEW x \in Labels, NEW b \in Labels, NEW s, s.op \in {"take", "ask", "pick"},
             SelectDoes(t, i, s, x, b)
      PROVE  FlatPath(t, i, <<s>>, x, b)
  BY <1>2, WayOne DEF FlatDoes
<1>3. ASSUME NEW P
      PROVE  /\ FlatPath(t, i, Take(P), a, "lost") /\ FlatPath(t, i, Take(P), "met", "met")
             /\ i \in P => FlatPath(t, i, Take(P), a, "due")
             /\ P = {} => FlatPath(t, i, Take(P), a, "have")
  <2> DEFINE s == [op |-> "take", of |-> P]
  <2>1. s.op = "take" /\ s.of = P /\ Take(P) = <<s>>
    BY DEF Take
  <2> HIDE DEF s
  <2> QED
    BY <1>1, <1>2, <2>1 DEF SelectDoes
<1>4. ASSUME NEW q, NEW P
      PROVE  LET s == <<[op |-> "ask", q |-> q, of |-> P]>>
             IN  /\ FlatPath(t, i, s, "lost", "lost") /\ FlatPath(t, i, s, "met", "met")
                 /\ i \in P /\ Tells(t, i, q) => FlatPath(t, i, s, "lost", "due")
                 /\ P = {i} /\ Confirms(q, Want(t, i)) /\ t.module \notin Staged =>
                      FlatPath(t, i, s, "have", "have")
  <2> DEFINE s == [op |-> "ask", q |-> q, of |-> P]
  <2>1. s.op = "ask" /\ s.of = P /\ s.q = q
    OBVIOUS
  <2> HIDE DEF s
  <2>2. /\ FlatPath(t, i, <<s>>, "lost", "lost") /\ FlatPath(t, i, <<s>>, "met", "met")
        /\ i \in P /\ Tells(t, i, q) => FlatPath(t, i, <<s>>, "lost", "due")
        /\ P = {i} /\ Confirms(q, Want(t, i)) /\ t.module \notin Staged =>
             FlatPath(t, i, <<s>>, "have", "have")
    BY <1>1, <1>2, <2>1 DEF SelectDoes, Tells
  <2> QED
    BY <2>2 DEF s
<1>5. ASSUME NEW q, NEW P
      PROVE  /\ FlatPath(t, i, Ask(q, P), a, "lost") /\ FlatPath(t, i, Ask(q, P), "met", "met")
             /\ i \in P /\ Tells(t, i, q) => FlatPath(t, i, Ask(q, P), a, "due")
             /\ P = {i} /\ Confirms(q, Want(t, i)) /\ t.module \notin Staged =>
                  FlatPath(t, i, Ask(q, P), a, "have")
  <2> DEFINE asked == IF P = {} THEN <<>> ELSE <<[op |-> "ask", q |-> q, of |-> P]>>
  <2>1. Ask(q, P) = Take({}) \o asked
    BY Zenon DEF Ask
  <2>2. \A b \in Labels : FlatPath(t, i, <<>>, b, b)
    BY WayOne
  <2>3. /\ FlatPath(t, i, asked, "lost", "lost") /\ FlatPath(t, i, asked, "met", "met")
        /\ i \in P /\ Tells(t, i, q) => FlatPath(t, i, asked, "lost", "due")
        /\ P = {i} /\ Confirms(q, Want(t, i)) /\ t.module \notin Staged =>
             FlatPath(t, i, asked, "have", "have")
    <3>1. CASE P = {}
      BY <1>1, <2>2, <3>1
    <3>2. CASE P # {}
      BY <1>4, <3>2
    <3> QED
      BY <3>1, <3>2
  <2> HIDE DEF asked
  <2>4. /\ FlatPath(t, i, Take({}), a, "lost") /\ FlatPath(t, i, Take({}), "met", "met")
        /\ FlatPath(t, i, Take({}), a, "have")
    BY <1>3
  <2> QED
    BY <2>1, <2>3, <2>4, FlatPathJoins
<1>6. ASSUME NEW q, NEW P, Decides(q, Want(t, i)), i \in P
      PROVE  FlatPath(t, i, Pick(q, P), "read", "due") /\ FlatPath(t, i, Pick(q, P), "read", "picked")
  <2> DEFINE s == [op |-> "pick", q |-> q, of |-> P]
  <2>1. s.op = "pick" /\ s.of = P /\ s.q = q /\ Pick(q, P) = <<s>>
    BY DEF Pick
  <2> HIDE DEF s
  <2> QED
    BY <1>1, <1>2, <1>6, <2>1 DEF SelectDoes
<1> QED
  BY <1>3, <1>5, <1>6

LEMMA CommandWays ==
  ASSUME NEW t, NEW i, NEW a \in Labels
  PROVE  /\ \A c : \A p \in {Run(c), Must(c), Loose(c), Try(c), RunSome(c), MustSome(c), RunEach(c)} :
              FlatPath(t, i, p, a, "lost")
         /\ \A c : Mends(t, i, c) =>
              \A p \in {Run(c), Must(c), RunSome(c), MustSome(c)} : FlatPath(t, i, p, a, a)
         /\ \A c : Harmless(t, i, c) =>
              \A p \in {Run(c), Must(c), Loose(c), Try(c)} : FlatPath(t, i, p, a, a)
         /\ \A c : Brings(t, i, c) =>
              \A p \in {Run(c), Must(c), RunSome(c), MustSome(c), RunEach(c)} :
                FlatPath(t, i, p, "due", "met")
         /\ \A c \in Rewrites : (\A v, b \in Versions : After(c, v, b) \subseteq Want(t, i)) =>
              FlatPath(t, i, Must(c), "picked", "met")
         /\ \A bad \in Leads : FlatPath(t, i, List(bad), a, "read")
<1>1. {"lost", "due", "have", "read", "picked", "met"} \subseteq Labels
  BY DEF Labels
<1>2. ASSUME NEW x \in Labels, NEW b \in Labels, NEW op \in {"run", "some", "each", "list"}, NEW c,
             NEW bad, NEW lost, CommandDoes(t, i, [op |-> op, cmd |-> c, bad |-> bad, lost |-> lost], x, b)
      PROVE  FlatPath(t, i, Command(op, c, bad, lost), x, b)
  <2> DEFINE s == [op |-> op, cmd |-> c, bad |-> bad, lost |-> lost]
  <2>1. s.op = op
    OBVIOUS
  <2>2. CommandDoes(t, i, s, x, b)
    BY <1>2
  <2> HIDE DEF s
  <2>3. FlatDoes(t, i, s, x, b)
    BY <2>1, <2>2 DEF FlatDoes
  <2>4. FlatPath(t, i, <<s>>, x, b)
    BY <2>3, WayOne
  <2> QED
    BY <2>4 DEF Command, s
<1>3. ASSUME NEW op \in {"run", "some", "each", "list"}, NEW c, NEW bad \in Leads, NEW lost \in Leads
      PROVE  LET p == Command(op, c, bad, lost)
             IN  /\ FlatPath(t, i, p, a, "lost")
                 /\ op = "list" /\ c = "show" => FlatPath(t, i, p, a, "read")
                 /\ op \in {"run", "some"} /\ Mends(t, i, c) /\ bad # "next" => FlatPath(t, i, p, a, a)
                 /\ op \in {"run", "some"} /\ Harmless(t, i, c) => FlatPath(t, i, p, a, a)
                 /\ op # "list" /\ Brings(t, i, c) /\ bad # "next" /\ lost # "next" =>
                      FlatPath(t, i, p, "due", "met")
                 /\ /\ op = "run" /\ c \in Rewrites /\ bad # "next" /\ lost # "next"
                    /\ \A v, b \in Versions : After(c, v, b) \subseteq Want(t, i)
                    => FlatPath(t, i, p, "picked", "met")
  <2> DEFINE s == [op |-> op, cmd |-> c, bad |-> bad, lost |-> lost]
  <2>1. s.op = op /\ s.cmd = c /\ s.bad = bad /\ s.lost = lost
    OBVIOUS
  <2>2. \A x, b \in Labels : CommandDoes(t, i, s, x, b) => FlatPath(t, i, Command(op, c, bad, lost), x, b)
    BY <1>2
  <2> HIDE DEF s
  <2>3. Plain(s) /\ (bad # "next" /\ lost # "next" => Strict(s))
    BY <2>1 DEF Plain, Strict, Leads
  <2>4. /\ Mends(t, i, c) /\ bad # "next" => Safe(s, i, Want(t, i))
        /\ Harmless(t, i, c) => Safe(s, i, Want(t, i))
    BY <2>1 DEF Mends, Harmless, Safe
  <2>5. Brings(t, i, c) /\ bad # "next" /\ lost # "next" => Fixing(s, i, Want(t, i))
    BY <2>1, <2>3 DEF Brings, Fixing
  <2>6. /\ c \in Rewrites /\ bad # "next" /\ lost # "next"
        /\ \A v, b \in Versions : After(c, v, b) \subseteq Want(t, i)
        => WritesBack(s, Want(t, i))
    BY <2>1, <2>3 DEF WritesBack
  <2> QED
    BY <1>1, <2>1, <2>2, <2>3, <2>4, <2>5, <2>6 DEF CommandDoes
<1>4. "next" \in Leads /\ "failed" \in Leads /\ "err" \in Leads /\ "next" \notin {"failed", "err"}
  BY DEF Leads
<1>5. ASSUME NEW c
      PROVE  /\ \A p \in {Run(c), Must(c), Loose(c), Try(c), RunSome(c), MustSome(c), RunEach(c)} :
                  FlatPath(t, i, p, a, "lost")
             /\ Mends(t, i, c) =>
                  \A p \in {Run(c), Must(c), RunSome(c), MustSome(c)} : FlatPath(t, i, p, a, a)
             /\ Harmless(t, i, c) =>
                  \A p \in {Run(c), Must(c), Loose(c), Try(c)} : FlatPath(t, i, p, a, a)
             /\ Brings(t, i, c) =>
                  \A p \in {Run(c), Must(c), RunSome(c), MustSome(c), RunEach(c)} :
                    FlatPath(t, i, p, "due", "met")
             /\ c \in Rewrites /\ (\A v, b \in Versions : After(c, v, b) \subseteq Want(t, i)) =>
                  FlatPath(t, i, Must(c), "picked", "met")
  BY <1>3, <1>4 DEF Run, Must, Loose, Try, RunSome, MustSome, RunEach
<1>6. \A bad \in Leads : FlatPath(t, i, List(bad), a, "read")
  BY <1>3, <1>4 DEF List
<1> QED
  BY <1>5, <1>6

(* What the commands and questions come to for what may be wanted. *)
LEMMA Effects ==
  ASSUME NEW t, NEW i
  PROVE  /\ Want(t, i) = Gone => Brings(t, i, "remove")
         /\ Want(t, i) = There =>
              \A c \in {"install", "installLatest", "install+other", "installLatest+other", "upgrade",
                        "sysupgrade+install", "reinstall", "write", "clone", "link"} : Brings(t, i, c)
         /\ Want(t, i) = {"new"} =>
              \A c \in {"installLatest", "installLatest+other", "upgrade", "sysupgrade+install",
                        "write", "link"} : Brings(t, i, c)
         /\ Want(t, i) = {"none", "new"} =>
              \A c \in {"installLatest", "upgrade", "write"} : Brings(t, i, c)
         /\ \A c \in Quiet \union Unseen : Harmless(t, i, c)
         /\ "new" \in Want(t, i) => Mends(t, i, "write") /\ Harmless(t, i, "installLatest")
<1> DEFINE W == Want(t, i)
<1>1. ASSUME NEW c, c \notin Everywhere \union {"autoremove", "sysupgrade+install"}
      PROVE  Aimed(c, i) = c /\ Missed(c, i) = "show"
  BY <1>1 DEF Aimed, Missed
<1>2. Aimed("sysupgrade+install", i) = "installLatest" /\ Missed("sysupgrade+install", i) = "sysupgrade"
  BY DEF Aimed, Missed, Everywhere
<1>3. \A c : c \in Quiet \union Unseen \union {"remove", "install", "installLatest", "install+other",
                "installLatest+other", "upgrade", "reinstall", "write", "clone", "link"} =>
        c \notin Everywhere \union {"autoremove", "sysupgrade+install"} /\ c \notin Direct
  BY DEF Quiet, Unseen, Everywhere, Direct, Rewrites
<1>4. "sysupgrade+install" \notin Direct
  BY DEF Direct, Rewrites
<1> HIDE DEF W
<1>5. ASSUME NEW c \in Quiet \union Unseen PROVE Keeps(c, W) /\ Spares(c, W)
  <2>1. ASSUME NEW v, NEW b PROVE After(c, v, b) = {v}
    BY DEF Quiet, Unseen, After
  <2>2. ASSUME NEW v, NEW b PROVE AfterFailed(c, v, b) = {v}
    <3>1. c \notin {"write", "rewrite", "clone"} /\ c # "reread"
      BY DEF Quiet, Unseen
    <3> QED
      BY <2>1, <3>1, Zenon DEF AfterFailed
  <2> QED
    BY <2>1, <2>2 DEF Keeps, Spares
<1>6. W = Gone => Sets("remove", W)
  BY DEF Gone, Sets, After
<1>7. W = There => /\ \A c \in {"install", "installLatest", "install+other", "installLatest+other",
                                "upgrade", "reinstall", "write", "clone", "link"} : Sets(c, W)
                   /\ Keeps("sysupgrade", W)
  BY DEF There, Sets, Keeps, After, Possible, Versions
<1>8. W = {"new"} => /\ \A c \in {"installLatest", "installLatest+other", "upgrade", "write", "link"} :
                          Sets(c, W)
                     /\ Keeps("sysupgrade", W)
  BY DEF Sets, Keeps, After, Possible, Versions
<1>9. W = {"none", "new"} => \A c \in {"installLatest", "upgrade", "write"} : Sets(c, W)
  <2>1. \A v, b \in Versions : After("installLatest", v, b) = {"new"} /\ After("write", v, b) = {"new"}
    BY DEF After
  <2>2. \A v, b \in Versions : Possible("upgrade", v) => After("upgrade", v, b) = {"new"}
    BY DEF After, Possible
  <2> QED
    BY <2>1, <2>2 DEF Sets
<1>10. "new" \in W => Keeps("write", W) /\ Keeps("installLatest", W) /\ Spares("installLatest", W)
  BY DEF Keeps, Spares, After, AfterFailed
<1>11. "show" \in Quiet \union Unseen
  BY DEF Quiet
<1>12. ASSUME NEW c, c \notin Everywhere \union {"autoremove", "sysupgrade+install"}, c \notin Direct
       PROVE  /\ Sets(c, W) => Brings(t, i, c)
              /\ Keeps(c, W) => Mends(t, i, c)
              /\ Keeps(c, W) /\ Spares(c, W) => Harmless(t, i, c)
  BY <1>1, <1>5, <1>11, <1>12 DEF Brings, Mends, Harmless, W
<1>13. Sets("installLatest", W) /\ Keeps("sysupgrade", W) => Brings(t, i, "sysupgrade+install")
  BY <1>2, <1>4 DEF Brings, W
<1>14. \A c \in Quiet \union Unseen : Harmless(t, i, c)
  BY <1>3, <1>5, <1>12
<1>15. W = Gone => Brings(t, i, "remove")
  BY <1>3, <1>6, <1>12
<1>16. W = There =>
         \A c \in {"install", "installLatest", "install+other", "installLatest+other", "upgrade",
                   "sysupgrade+install", "reinstall", "write", "clone", "link"} : Brings(t, i, c)
  BY <1>3, <1>7, <1>12, <1>13
<1>17. W = {"new"} =>
         \A c \in {"installLatest", "installLatest+other", "upgrade", "sysupgrade+install",
                   "write", "link"} : Brings(t, i, c)
  BY <1>3, <1>8, <1>12, <1>13
<1>18. W = {"none", "new"} => \A c \in {"installLatest", "upgrade", "write"} : Brings(t, i, c)
  BY <1>3, <1>9, <1>12
<1>19. "new" \in W => Mends(t, i, "write") /\ Harmless(t, i, "installLatest")
  BY <1>3, <1>10, <1>12
<1> QED
  BY <1>14, <1>15, <1>16, <1>17, <1>18, <1>19 DEF W

LEMMA Tellings ==
  ASSUME NEW t, NEW i
  PROVE  /\ Want(t, i) = Gone => Decides("installed", Want(t, i))
         /\ Want(t, i) = There => /\ Decides("missing", Want(t, i)) /\ Decides("missing, unread", Want(t, i))
                                  /\ Confirms("installed", Want(t, i))
         /\ Want(t, i) = {"new"} => Decides("differs", Want(t, i))
         /\ Want(t, i) = {"none", "new"} =>
              \A q \in {"check-update", "apt upgrade", "differs, there"} : Decides(q, Want(t, i))
<1> DEFINE W == Want(t, i)
<1> SUFFICES /\ W = Gone => Decides("installed", W)
             /\ W = There => /\ Decides("missing", W) /\ Decides("missing, unread", W)
                             /\ Confirms("installed", W)
             /\ W = {"new"} => Decides("differs", W)
             /\ W = {"none", "new"} =>
                  \A q \in {"check-update", "apt upgrade", "differs, there"} : Decides(q, W)
  OBVIOUS
<1> HIDE DEF W
<1>1. W = Gone => Decides("installed", W)
  BY DEF Gone, Decides, Answers, Versions
<1>2. W = There => /\ Decides("missing", W) /\ Decides("missing, unread", W)
                  /\ Confirms("installed", W)
  BY DEF There, Decides, Confirms, Answers, Versions
<1>3. W = {"new"} => Decides("differs", W)
  BY DEF Decides, Answers, Versions
<1>4. W = {"none", "new"} =>
        \A q \in {"check-update", "apt upgrade", "differs, there"} : Decides(q, W)
  BY DEF Decides, Answers, Versions
<1> QED
  BY <1>1, <1>2, <1>3, <1>4

(* The shapes. *)
LEMMA ShapeWays ==
  ASSUME NEW t, NEW i, NEW P, i \in P
  PROVE  /\ \A c : Brings(t, i, c) => /\ FlatPath(t, i, Whole(P, c), "lost", "met")
                                      /\ \A q : Tells(t, i, q) =>
                                           /\ FlatPath(t, i, Batch(q, P, c), "lost", "met")
                                           /\ FlatPath(t, i, EachNeeded(q, P, c), "lost", "met")
         /\ \A p, x : FlatPath(t, i, p, x, x) /\ x \in Labels => \A cond : FlatPath(t, i, When(cond, p), x, x)
         /\ \A p : Named(t, p) = p \/ t.names = {}
<1>1. "lost" \in Labels /\ "due" \in Labels /\ "met" \in Labels
  BY DEF Labels
<1>2. ASSUME NEW c, Brings(t, i, c) PROVE FlatPath(t, i, Whole(P, c), "lost", "met")
  <2>1. FlatPath(t, i, Take(P), "lost", "due")
    BY <1>1, SelectWays
  <2>2. FlatPath(t, i, Run(c), "due", "met")
    BY <1>1, <1>2, CommandWays
  <2> QED
    BY <2>1, <2>2, FlatPathJoins DEF Whole
<1>3. ASSUME NEW c, Brings(t, i, c), NEW q, Tells(t, i, q)
      PROVE  /\ FlatPath(t, i, Batch(q, P, c), "lost", "met")
             /\ FlatPath(t, i, EachNeeded(q, P, c), "lost", "met")
  <2>1. FlatPath(t, i, Ask(q, P), "lost", "due") /\ FlatPath(t, i, OkIfNone, "due", "due")
    BY <1>1, <1>3, SelectWays, StopWays
  <2>2. FlatPath(t, i, Ask(q, P) \o OkIfNone, "lost", "due")
    BY <2>1, FlatPathJoins
  <2>3. FlatPath(t, i, Run(c), "due", "met") /\ FlatPath(t, i, RunEach(c), "due", "met")
    BY <1>1, <1>3, CommandWays
  <2>4. FlatPath(t, i, Changed, "met", "met")
    BY <1>1, StopWays
  <2>5. /\ FlatPath(t, i, Ask(q, P) \o OkIfNone \o Run(c), "lost", "met")
        /\ FlatPath(t, i, Ask(q, P) \o OkIfNone \o RunEach(c), "lost", "met")
    BY <2>2, <2>3, FlatPathJoins
  <2>6. /\ FlatPath(t, i, Ask(q, P) \o OkIfNone \o Run(c) \o Changed, "lost", "met")
        /\ FlatPath(t, i, Ask(q, P) \o OkIfNone \o RunEach(c) \o Changed, "lost", "met")
    BY <2>4, <2>5, FlatPathJoins
  <2> QED
    BY <2>6 DEF Batch, EachNeeded
<1>4. ASSUME NEW p, NEW x, FlatPath(t, i, p, x, x), x \in Labels, NEW cond
      PROVE  FlatPath(t, i, When(cond, p), x, x)
  BY <1>4, WayOne DEF When
<1>5. \A p : Named(t, p) = p \/ t.names = {}
  BY DEF Named
<1> QED
  BY <1>2, <1>3, <1>4, <1>5

(* Parts that leave nothing known, that find what is needed, that bring the  *)
(* item to where it is wanted, and that leave it there.                      *)
Idles(t, i, p)  == FlatPath(t, i, p, "lost", "lost")
Finds(t, i, p)  == FlatPath(t, i, p, "lost", "due")
Fixes(t, i, p)  == FlatPath(t, i, p, "lost", "met")
Finishes(t, i, p) == FlatPath(t, i, p, "met", "met")

LEMMA FixWords ==
  ASSUME NEW t, NEW i
  PROVE  /\ \A p, q : /\ Idles(t, i, p) /\ Idles(t, i, q) => Idles(t, i, p \o q)
                      /\ Idles(t, i, p) /\ Finds(t, i, q) => Finds(t, i, p \o q)
                      /\ Idles(t, i, p) /\ Fixes(t, i, q) => Fixes(t, i, p \o q)
                      /\ Fixes(t, i, p) /\ Finishes(t, i, q) => Fixes(t, i, p \o q)
                      /\ Finishes(t, i, p) /\ Finishes(t, i, q) => Finishes(t, i, p \o q)
         /\ \A cond : \A p : /\ Idles(t, i, p) => Idles(t, i, When(cond, p))
                             /\ Finishes(t, i, p) => Finishes(t, i, When(cond, p))
         /\ \A p \in {Fail, Err} : Idles(t, i, p) /\ Finds(t, i, p) /\ Fixes(t, i, p) /\ Finishes(t, i, p)
         /\ \A p \in {Ok, Changed, Did, DidAll, OkIfNone, May("changed")} : Finishes(t, i, p)
         /\ \A c : Idles(t, i, Run(c)) /\ Idles(t, i, Must(c)) /\ Idles(t, i, Loose(c)) /\ Idles(t, i, Try(c))
         /\ \A c : Brings(t, i, c) =>
              \A p : Finds(t, i, p) => /\ Fixes(t, i, p \o Run(c)) /\ Fixes(t, i, p \o Must(c))
                                       /\ Fixes(t, i, p \o RunSome(c)) /\ Fixes(t, i, p \o RunEach(c))
                                       /\ Fixes(t, i, p \o MustSome(c))
         /\ \A p : Finds(t, i, p) => Finds(t, i, p \o OkIfNone)
         /\ Promise(t, "ok", i) = Versions =>
              Idles(t, i, OkIfNone) /\ \A p : Idles(t, i, p) => Idles(t, i, p \o OkIfNone)
<1>1. "lost" \in Labels /\ "due" \in Labels /\ "met" \in Labels
  BY DEF Labels
<1>2. \A p, q, a, b, e : FlatPath(t, i, p, a, b) /\ FlatPath(t, i, q, b, e) => FlatPath(t, i, p \o q, a, e)
  BY FlatPathJoins
<1>3. \A p, q : /\ Idles(t, i, p) /\ Idles(t, i, q) => Idles(t, i, p \o q)
                /\ Idles(t, i, p) /\ Finds(t, i, q) => Finds(t, i, p \o q)
                /\ Idles(t, i, p) /\ Fixes(t, i, q) => Fixes(t, i, p \o q)
                /\ Fixes(t, i, p) /\ Finishes(t, i, q) => Fixes(t, i, p \o q)
                /\ Finishes(t, i, p) /\ Finishes(t, i, q) => Finishes(t, i, p \o q)
  BY <1>2, Zenon DEF Idles, Finds, Fixes, Finishes
<1>4. FlatPath(t, i, <<>>, "lost", "lost") /\ FlatPath(t, i, <<>>, "met", "met")
  BY <1>1, WayOne
<1>5. \A cond : \A p : /\ Idles(t, i, p) => Idles(t, i, When(cond, p))
                       /\ Finishes(t, i, p) => Finishes(t, i, When(cond, p))
  BY <1>4 DEF When, Idles, Finishes
<1>6. /\ \A p \in {Fail, Err} : Idles(t, i, p) /\ Finds(t, i, p) /\ Fixes(t, i, p) /\ Finishes(t, i, p)
      /\ \A p \in {Ok, Changed, Did, DidAll, OkIfNone, May("changed")} : Finishes(t, i, p)
  BY <1>1, StopWays DEF Idles, Finds, Fixes, Finishes
<1>7. \A c : Idles(t, i, Run(c)) /\ Idles(t, i, Must(c)) /\ Idles(t, i, Loose(c)) /\ Idles(t, i, Try(c))
  BY <1>1, CommandWays DEF Idles
<1>8. ASSUME NEW c, Brings(t, i, c), NEW p, Finds(t, i, p)
      PROVE  /\ Fixes(t, i, p \o Run(c)) /\ Fixes(t, i, p \o Must(c))
             /\ Fixes(t, i, p \o RunSome(c)) /\ Fixes(t, i, p \o RunEach(c))
             /\ Fixes(t, i, p \o MustSome(c))
  <2>1. /\ FlatPath(t, i, Run(c), "due", "met") /\ FlatPath(t, i, Must(c), "due", "met")
        /\ FlatPath(t, i, RunSome(c), "due", "met") /\ FlatPath(t, i, RunEach(c), "due", "met")
        /\ FlatPath(t, i, MustSome(c), "due", "met")
    BY <1>1, <1>8, CommandWays
  <2> QED
    BY <1>2, <1>8, <2>1, Zenon DEF Finds, Fixes
<1>9. ASSUME NEW p, Finds(t, i, p) PROVE Finds(t, i, p \o OkIfNone)
  <2>1. FlatPath(t, i, OkIfNone, "due", "due")
    BY <1>1, StopWays
  <2> QED
    BY <1>2, <1>9, <2>1, Zenon DEF Finds
<1>10. Promise(t, "ok", i) = Versions => Idles(t, i, OkIfNone)
  BY <1>1, StopWays DEF Idles
<1> QED
  BY <1>3, <1>5, <1>6, <1>7, <1>8, <1>9, <1>10, Zenon

LEMMA FindWords ==
  ASSUME NEW t, NEW i
  PROVE  /\ \A P : /\ Idles(t, i, Take(P)) /\ Finishes(t, i, Take(P))
                   /\ i \in P => Finds(t, i, Take(P))
         /\ \A q, P : /\ Idles(t, i, Ask(q, P))
                      /\ i \in P /\ Tells(t, i, q) => Finds(t, i, Ask(q, P))
         /\ \A P : i \in P => \A c : Brings(t, i, c) =>
              /\ Fixes(t, i, Whole(P, c))
              /\ \A q : Tells(t, i, q) => Fixes(t, i, Batch(q, P, c)) /\ Fixes(t, i, EachNeeded(q, P, c))
         /\ \A p : i \in t.names => Named(t, p) = p
         /\ \A c : Mends(t, i, c) => Finishes(t, i, Must(c)) /\ Finishes(t, i, Run(c))
                                     /\ Finishes(t, i, MustSome(c))
         /\ \A c : Harmless(t, i, c) => /\ Finishes(t, i, Must(c)) /\ Finishes(t, i, Run(c))
                                        /\ Finishes(t, i, Loose(c)) /\ Finishes(t, i, Try(c))
<1>1. "lost" \in Labels /\ "due" \in Labels /\ "met" \in Labels
  BY DEF Labels
<1>2. /\ \A P : /\ Idles(t, i, Take(P)) /\ Finishes(t, i, Take(P))
                /\ i \in P => Finds(t, i, Take(P))
      /\ \A q, P : /\ Idles(t, i, Ask(q, P))
                   /\ i \in P /\ Tells(t, i, q) => Finds(t, i, Ask(q, P))
  BY <1>1, SelectWays DEF Idles, Finds, Finishes
<1>3. \A P : i \in P => \A c : Brings(t, i, c) =>
        /\ Fixes(t, i, Whole(P, c))
        /\ \A q : Tells(t, i, q) => Fixes(t, i, Batch(q, P, c)) /\ Fixes(t, i, EachNeeded(q, P, c))
  BY ShapeWays DEF Fixes
<1>4. \A p : i \in t.names => Named(t, p) = p
  BY DEF Named
<1>5. /\ \A c : Mends(t, i, c) => Finishes(t, i, Must(c)) /\ Finishes(t, i, Run(c))
                                  /\ Finishes(t, i, MustSome(c))
      /\ \A c : Harmless(t, i, c) => /\ Finishes(t, i, Must(c)) /\ Finishes(t, i, Run(c))
                                     /\ Finishes(t, i, Loose(c)) /\ Finishes(t, i, Try(c))
  BY <1>1, CommandWays DEF Finishes
<1> QED
  BY <1>2, <1>3, <1>4, <1>5

(* A package task that is not excused wants its items gone, there or new.    *)
PackageTask(t, i) ==
  /\ i \in t.names /\ ~ Excused(t, i)
  /\ t.module \notin FileModules /\ t.module # "lineinfile"
LEMMA PackageWants ==
  ASSUME NEW t, NEW i, PackageTask(t, i)
  PROVE  /\ ~ Unbound(t) /\ t.names # {}
         /\ Unread(t) => t.state = "present"
         /\ \/ Removal(t) /\ Want(t, i) = Gone
            \/ t.state = "present" /\ Want(t, i) = There
            \/ /\ t.state = "latest"
               /\ Want(t, i) = IF t.module \in LatestIsPresence THEN There
                               ELSE IF t.module \in LatestOfPresent THEN {"none", "new"} ELSE {"new"}
<1>1. ~ Unbound(t) /\ t.names # {}
  BY DEF PackageTask, Excused, Want, Promise
<1>2. Want(t, i) = PackagePromise(t)
  BY <1>1 DEF PackageTask, Want, Promise
<1>3. PackagePromise(t) # Versions
  BY <1>2 DEF PackageTask, Excused
<1>4. ~ (Removal(t) /\ t.state \in {"present", "latest"})
  BY DEF Removal
<1>5. Unread(t) => t.state = "present"
  BY <1>3 DEF PackagePromise
<1> QED
  BY <1>1, <1>2, <1>3, <1>4, <1>5 DEF PackagePromise

(* What such a task has to go on with, according to what it wants.           *)
LEMMA PackageGoals ==
  ASSUME NEW t, NEW i, PackageTask(t, i), t.module \notin Staged
  PROVE  /\ Removal(t) =>
              /\ Brings(t, i, "remove") /\ Tells(t, i, "installed")
         /\ t.state = "present" \/ (t.state = "latest" /\ t.module \in LatestIsPresence) =>
              /\ Brings(t, i, "install") /\ Brings(t, i, "installLatest") /\ Brings(t, i, "upgrade")
              /\ Brings(t, i, "install+other") /\ Brings(t, i, "sysupgrade+install")
              /\ Brings(t, i, "reinstall")
              /\ Tells(t, i, "missing") /\ Tells(t, i, "missing, unread")
         /\ t.state = "latest" /\ t.module \in LatestOfPresent =>
              /\ Brings(t, i, "installLatest") /\ Brings(t, i, "upgrade")
              /\ Tells(t, i, "check-update") /\ Tells(t, i, "apt upgrade")
         /\ t.state = "latest" /\ t.module \notin LatestOfPresent =>
              /\ Brings(t, i, "installLatest") /\ Brings(t, i, "upgrade")
              /\ Brings(t, i, "installLatest+other") /\ Brings(t, i, "sysupgrade+install")
         /\ Removal(t) \/ t.state \in {"present", "latest"}
         /\ t.state \in {"present", "latest"} => ~ Removal(t)
         /\ Unread(t) => t.state = "present"
<1>1. t.state \in {"present", "latest"} => ~ Removal(t)
  BY DEF Removal
<1>2. Removal(t) => Want(t, i) = Gone
  BY <1>1, PackageWants
<1>3. t.state = "present" => Want(t, i) = There
  BY <1>1, PackageWants
<1>4. t.state = "latest" =>
        Want(t, i) = IF t.module \in LatestIsPresence THEN There
                     ELSE IF t.module \in LatestOfPresent THEN {"none", "new"} ELSE {"new"}
  BY <1>1, PackageWants
<1>5. t.module \notin LatestIsPresence \/ t.module \notin LatestOfPresent
  BY DEF LatestIsPresence, LatestOfPresent
<1>6. Removal(t) \/ t.state \in {"present", "latest"}
  BY PackageWants
<1>7. ASSUME Removal(t) PROVE Brings(t, i, "remove") /\ Tells(t, i, "installed")
  BY <1>2, <1>7, Effects, Tellings DEF Tells
<1>8. ASSUME Want(t, i) = There
      PROVE  /\ Brings(t, i, "install") /\ Brings(t, i, "installLatest") /\ Brings(t, i, "upgrade")
             /\ Brings(t, i, "install+other") /\ Brings(t, i, "installLatest+other")
             /\ Brings(t, i, "sysupgrade+install") /\ Brings(t, i, "reinstall")
             /\ Tells(t, i, "missing") /\ Tells(t, i, "missing, unread")
  BY <1>8, Effects, Tellings DEF Tells
<1>9. ASSUME Want(t, i) = {"none", "new"}
      PROVE  /\ Brings(t, i, "installLatest") /\ Brings(t, i, "upgrade")
             /\ Tells(t, i, "check-update") /\ Tells(t, i, "apt upgrade")
  BY <1>9, Effects, Tellings DEF Tells
<1>10. ASSUME Want(t, i) = {"new"}
       PROVE  /\ Brings(t, i, "installLatest") /\ Brings(t, i, "upgrade")
              /\ Brings(t, i, "installLatest+other") /\ Brings(t, i, "sysupgrade+install")
  BY <1>10, Effects
<1>11. Unread(t) => t.state = "present"
  BY PackageWants
<1> QED
  BY <1>1, <1>3, <1>4, <1>5, <1>6, <1>7, <1>8, <1>9, <1>10, <1>11

(* What comes after apt's result.                                            *)
LEMMA Sweeping ==
  ASSUME NEW t, NEW i, i # Orphan
  PROVE  Ending(t, i, Return \o Loose("autoremove"), "met")
<1> DEFINE s == [op |-> "run", cmd |-> "autoremove", bad |-> "next", lost |-> "err"]
           r == [op |-> "return"]
<1>1. Return = <<r>> /\ Loose("autoremove") = <<s>>
  BY DEF Return, Loose, Command
<1>2. Aimed("autoremove", i) = "show" /\ Missed("autoremove", i) = "show"
  BY DEF Aimed, Missed, Everywhere
<1>3. \A W : Keeps("show", W) /\ Spares("show", W)
  BY DEF Keeps, Spares, After, AfterFailed
<1>4. "autoremove" \notin Direct
  BY DEF Direct, Rewrites
<1>5. s.op = "run" /\ s.cmd = "autoremove" /\ s.bad = "next" /\ s.lost = "err" /\ r.op = "return"
  OBVIOUS
<1> HIDE DEF s, r
<1>6. \A W : Safe(s, i, W)
  BY <1>2, <1>3, <1>4, <1>5 DEF Safe
<1>7. Tidy(t, i, s)
  BY <1>5, <1>6 DEF Tidy
<1>8. IsPlan(<<r>>) /\ IsPlan(<<s>>) /\ IsPlan(<<r>> \o <<s>>)
  BY PlanJoins
<1>9. Len(<<r>>) = 1 /\ Len(<<s>>) = 1 /\ <<r>>[1] = r /\ <<s>>[1] = s /\ 1..1 = {1} /\ 1 + 1 = 2
  OBVIOUS
<1> DEFINE p == <<r>> \o <<s>>
<1>10. p[1] = r /\ p[2] = s /\ Len(p) = 2 /\ DOMAIN p = 1..Len(p)
  BY <1>8, <1>9, PlanFacts DEF IsPlan
<1>11. TidyAfter(t, i, p)
  <2> HIDE DEF p
  <2>1. DOMAIN p = {1, 2}
    BY <1>10
  <2> QED
    BY <1>5, <1>7, <1>10, <2>1 DEF TidyAfter
<1>12. Does(t, i, s, "met", "met") /\ Does(t, i, r, "met", "met")
  <2>1. CommandDoes(t, i, s, "met", "met")
    BY <1>5, <1>6 DEF CommandDoes, Plain
  <2> QED
    BY <1>5, <2>1 DEF Does, FlatDoes
<1>13. "met" \in Labels
  BY DEF Labels
<1>14. Path(t, i, p, "met", "met")
  BY <1>12, <1>13, PathOne, PathJoins
<1> QED
  BY <1>1, <1>11, <1>13, <1>14 DEF Ending

(* What such a task has to go on with, as parts of its plan. *)
Meets(t, i, p) == FlatPath(t, i, p, "due", "met")

PartWords(t, i) ==
  /\ \A p, q : Finds(t, i, p) /\ Meets(t, i, q) => Fixes(t, i, p \o q)
  /\ \A p : Finds(t, i, p) => Finds(t, i, p \o OkIfNone)
  /\ \A p : Meets(t, i, p) => Meets(t, i, OkIfNone \o p)
  /\ \A p : Meets(t, i, p) =>
       /\ \A q : Finishes(t, i, q) => Meets(t, i, p \o q)
       /\ \A q \in {Changed, Ok, May("changed")} : Meets(t, i, p \o q)
  /\ \A p : Finds(t, i, p) => Finds(t, i, p \o Must("other"))
  /\ \A c : Brings(t, i, c) => /\ Meets(t, i, Run(c)) /\ Meets(t, i, Must(c))
                               /\ Meets(t, i, RunSome(c)) /\ Meets(t, i, RunEach(c))
                               /\ Meets(t, i, MustSome(c))
  /\ \A p : Fixes(t, i, p) =>
       /\ \A q \in {Changed, Did, DidAll, May("changed")} : Fixes(t, i, p \o q)
       /\ \A cond, c : /\ Fixes(t, i, When(cond, Must(c)) \o p)
                        /\ Fixes(t, i, When(cond, Run(c)) \o p)
LEMMA PartsJoin == ASSUME NEW t, NEW i PROVE PartWords(t, i)
<1>1. "lost" \in Labels /\ "due" \in Labels /\ "met" \in Labels
  BY DEF Labels
<1>2. \A p, q, a, b, e : FlatPath(t, i, p, a, b) /\ FlatPath(t, i, q, b, e) => FlatPath(t, i, p \o q, a, e)
  BY FlatPathJoins
<1>3. FlatPath(t, i, OkIfNone, "due", "due")
  BY <1>1, StopWays
<1>4. /\ \A p, q : Finds(t, i, p) /\ Meets(t, i, q) => Fixes(t, i, p \o q)
      /\ \A p : Finds(t, i, p) => Finds(t, i, p \o OkIfNone)
      /\ \A p : Meets(t, i, p) => Meets(t, i, OkIfNone \o p)
      /\ \A p : Meets(t, i, p) => \A q : Finishes(t, i, q) => Meets(t, i, p \o q)
  BY <1>2, <1>3, Zenon DEF Finds, Meets, Fixes, Finishes
<1>5. \A c : Brings(t, i, c) => /\ Meets(t, i, Run(c)) /\ Meets(t, i, Must(c))
                               /\ Meets(t, i, RunSome(c)) /\ Meets(t, i, RunEach(c))
                               /\ Meets(t, i, MustSome(c))
  BY <1>1, CommandWays DEF Meets
<1>6. ASSUME NEW p, Fixes(t, i, p)
      PROVE  /\ \A q \in {Changed, Did, DidAll, May("changed")} : Fixes(t, i, p \o q)
             /\ \A cond, c : /\ Fixes(t, i, When(cond, Must(c)) \o p)
                              /\ Fixes(t, i, When(cond, Run(c)) \o p)
  <2>1. \A q \in {Changed, Did, DidAll, May("changed")} : Finishes(t, i, q)
    BY FixWords
  <2>2. \A cond, c : Idles(t, i, When(cond, Must(c))) /\ Idles(t, i, When(cond, Run(c)))
    BY FixWords
  <2>3. \A q : Finishes(t, i, q) => Fixes(t, i, p \o q)
    BY <1>2, <1>6, Zenon DEF Fixes, Finishes
  <2>4. \A q : Idles(t, i, q) => Fixes(t, i, q \o p)
    BY <1>2, <1>6, Zenon DEF Fixes, Idles
  <2> QED
    BY <2>1, <2>2, <2>3, <2>4
<1>7. \A q \in {Changed, Ok, May("changed")} : Finishes(t, i, q)
  BY FixWords
<1>8. FlatPath(t, i, Must("other"), "due", "due")
  BY <1>1, CommandWays, Effects DEF Quiet
<1>9. \A p : Finds(t, i, p) => Finds(t, i, p \o Must("other"))
  BY <1>2, <1>8, Zenon DEF Finds
<1> QED
  BY <1>4, <1>5, <1>6, <1>7, <1>9 DEF PartWords

PackageParts(t, i, P) ==
  /\ P # {} /\ ~ Unbound(t) /\ \A p : Named(t, p) = p
  /\ Removal(t) =>
       /\ Finds(t, i, Ask("installed", P)) /\ Meets(t, i, Run("remove"))
       /\ Fixes(t, i, Batch("installed", P, "remove"))
       /\ Fixes(t, i, EachNeeded("installed", P, "remove"))
       /\ Fixes(t, i, Whole(P, "remove"))
  /\ t.state = "present" \/ (t.state = "latest" /\ t.module \in LatestIsPresence) =>
       /\ Finds(t, i, Ask("missing", P))
       /\ \A c \in {"install", "installLatest", "upgrade", "install+other"} :
            /\ Meets(t, i, Run(c)) /\ Fixes(t, i, Whole(P, c))
            /\ Fixes(t, i, Batch("missing", P, c)) /\ Fixes(t, i, EachNeeded("missing", P, c))
       /\ Meets(t, i, Run("sysupgrade+install")) /\ Meets(t, i, RunEach("install"))
  /\ t.state = "latest" /\ t.module \in LatestOfPresent =>
       /\ Fixes(t, i, Batch("check-update", P, "upgrade"))
       /\ Fixes(t, i, Batch("apt upgrade", P, "installLatest"))
  /\ t.state = "latest" /\ t.module \notin LatestOfPresent =>
       /\ \A c \in {"installLatest", "upgrade", "installLatest+other", "sysupgrade+install"} :
            Meets(t, i, Run(c)) /\ Fixes(t, i, Whole(P, c))
       /\ Meets(t, i, RunEach("upgrade"))
  /\ Finds(t, i, Take(P))
  /\ Removal(t) \/ t.state \in {"present", "latest"}
  /\ t.state \in {"present", "latest"} => ~ Removal(t)
LEMMA PackagesHave ==
  ASSUME NEW t, NEW i, PackageTask(t, i), t.module \notin Staged
  PROVE  PackageParts(t, i, t.names)
<1> DEFINE P == t.names
<1>1. i \in P /\ P # {} /\ ~ Unbound(t) /\ \A p : Named(t, p) = p
  BY PackageWants DEF PackageTask, Named
<1>2. \A c : Brings(t, i, c) =>
        /\ Fixes(t, i, Whole(P, c)) /\ Meets(t, i, Run(c)) /\ Meets(t, i, RunEach(c))
        /\ \A q : Tells(t, i, q) => Fixes(t, i, Batch(q, P, c)) /\ Fixes(t, i, EachNeeded(q, P, c))
  BY <1>1, FindWords, PartsJoin DEF PartWords
<1>3. Finds(t, i, Take(P)) /\ \A q : Tells(t, i, q) => Finds(t, i, Ask(q, P))
  BY <1>1, FindWords
<1> HIDE DEF P
<1>4. Removal(t) => /\ Finds(t, i, Ask("installed", P)) /\ Meets(t, i, Run("remove"))
                    /\ Fixes(t, i, Batch("installed", P, "remove"))
                    /\ Fixes(t, i, EachNeeded("installed", P, "remove"))
                    /\ Fixes(t, i, Whole(P, "remove"))
  BY <1>2, <1>3, PackageGoals
<1>5. t.state = "present" \/ (t.state = "latest" /\ t.module \in LatestIsPresence) =>
        /\ Finds(t, i, Ask("missing", P))
        /\ \A c \in {"install", "installLatest", "upgrade", "install+other"} :
             /\ Meets(t, i, Run(c)) /\ Fixes(t, i, Whole(P, c))
             /\ Fixes(t, i, Batch("missing", P, c)) /\ Fixes(t, i, EachNeeded("missing", P, c))
        /\ Meets(t, i, Run("sysupgrade+install")) /\ Meets(t, i, RunEach("install"))
  BY <1>2, <1>3, PackageGoals
<1>6. t.state = "latest" /\ t.module \in LatestOfPresent =>
        /\ Fixes(t, i, Batch("check-update", P, "upgrade"))
        /\ Fixes(t, i, Batch("apt upgrade", P, "installLatest"))
  BY <1>2, PackageGoals
<1>7. t.state = "latest" /\ t.module \notin LatestOfPresent =>
        /\ \A c \in {"installLatest", "upgrade", "installLatest+other", "sysupgrade+install"} :
             Meets(t, i, Run(c)) /\ Fixes(t, i, Whole(P, c))
        /\ Meets(t, i, RunEach("upgrade"))
  BY <1>2, PackageGoals
<1>8. /\ Removal(t) \/ t.state \in {"present", "latest"}
      /\ t.state \in {"present", "latest"} => ~ Removal(t)
  BY PackageGoals
<1> QED
  BY <1>1, <1>3, <1>4, <1>5, <1>6, <1>7, <1>8 DEF P, PackageParts

(* Where what is there reads as missing, it is installed once more.          *)
LEMMA UnreadHave ==
  ASSUME NEW t, NEW i, PackageTask(t, i), t.module \notin Staged
  PROVE  /\ Unread(t) => t.state = "present" /\ ~ Removal(t)
         /\ t.state = "present" =>
              \A q \in {"missing", "missing, unread"} : Fixes(t, i, Batch(q, t.names, "reinstall"))
<1>1. i \in t.names
  BY DEF PackageTask
<1>2. ASSUME t.state = "present", NEW q \in {"missing", "missing, unread"}
      PROVE  Fixes(t, i, Batch(q, t.names, "reinstall"))
  <2>1. Brings(t, i, "reinstall") /\ Tells(t, i, q)
    BY <1>2, PackageGoals
  <2> QED
    BY <1>1, <2>1, FindWords
<1> QED
  BY <1>2, PackageGoals

LEMMA Autoremoves ==
  ASSUME NEW t, NEW i, Want(t, i) = Gone
  PROVE  Finishes(t, i, Run("autoremove"))
<1>1. Aimed("autoremove", i) \in {"show", "autoremove"} /\ Missed("autoremove", i) \in {"show", "autoremove"}
  BY DEF Aimed, Missed, Everywhere
<1>2. \A c \in {"show", "autoremove"} : Keeps(c, Gone)
  BY DEF Keeps, Gone, After
<1>3. "autoremove" \notin Direct
  BY DEF Direct, Rewrites
<1>4. Mends(t, i, "autoremove")
  BY <1>1, <1>2, <1>3 DEF Mends
<1> QED
  BY <1>4, FindWords

LEMMA LinuxReach ==
  ASSUME NEW t, NEW i, PackageTask(t, i), t.module \notin Staged
  PROVE  /\ t.module = "apt" => Reaches(t, i, Apt(t))
         /\ t.module = "yum" => Fixes(t, i, Yum(t))
         /\ t.module = "zypper" => Fixes(t, i, Zypper(t))
         /\ t.module = "apk" => Fixes(t, i, Apk(t))
         /\ t.module = "pacman" => Fixes(t, i, Pacman(t))
         /\ t.module = "portage" => Fixes(t, i, Portage(t))
         /\ t.module = "snap" => Fixes(t, i, Snap(t))
         /\ t.module = "flatpak" => Fixes(t, i, Flatpak(t))
         /\ t.module = "slackpkg" => Fixes(t, i, Slackpkg(t))
<1>0. PackageParts(t, i, t.names) /\ PartWords(t, i)
  BY PackagesHave, PartsJoin
<1> USE DEF PackageParts, PartWords
<1>1. i \in t.names /\ t.names # {} /\ ~ Unbound(t)
  BY <1>0 DEF PackageTask
<1>11. Unread(t) => t.state = "present" /\ ~ Removal(t)
  BY UnreadHave
<1>2. ASSUME t.module = "apt" PROVE Reaches(t, i, Apt(t))
  <2>1. t.module \in LatestOfPresent
    BY <1>2 DEF LatestOfPresent
  <2> DEFINE main == CASE t.state \in {"absent", "purged"} -> AptRemove(t)
                       [] t.state = "latest"    -> AptInstall(t, IF Unread(t) THEN "apt upgrade, held"
                                                                 ELSE "apt upgrade")
                       [] t.state = "build-dep" -> AptBuildDep
                       [] OTHER                 -> AptInstall(t, IsMissing(t))
             last == When(Has(t, "autoremove"), Return \o Loose("autoremove"))
             first == When(Has(t, "update_cache"), AptGetUpdate)
  <2>2. Fixes(t, i, main)
    <3>1. CASE Removal(t)
      <4>1. ~ Unread(t) /\ t.state \in {"absent", "purged"}
        BY <1>2, <1>11, <3>1 DEF Removal
      <4>2. main = Batch("installed", t.names, "remove")
        BY <4>1 DEF AptRemove, IsInstalled
      <4> QED
        BY <1>0, <3>1, <4>2
    <3>2. CASE t.state = "latest"
      <4>1. main = Batch("apt upgrade", t.names, "installLatest")
        BY <1>11, <3>2 DEF AptInstall
      <4> QED
        BY <1>0, <2>1, <3>2, <4>1
    <3>3. CASE t.state = "present"
      <4>1. main = Batch(IsMissing(t), t.names, IF Unread(t) THEN "reinstall" ELSE "installLatest")
        BY <3>3 DEF AptInstall
      <4> QED
        BY <1>0, <3>3, <4>1, UnreadHave DEF IsMissing
    <3> QED
      BY <1>0, <3>1, <3>2, <3>3
  <2>3. Idles(t, i, first)
    BY FixWords DEF AptGetUpdate
  <2>4. Ending(t, i, last, "met")
    <3>1. CASE ~ Has(t, "autoremove")
      <4>1. Way(t, i, <<>>, "met", "met") /\ "met" \in Labels
        BY WayOne DEF Labels
      <4> QED
        BY <3>1, <4>1, WaysJoin DEF When
    <3>2. CASE Has(t, "autoremove")
      <4>1. i # Orphan
        BY <1>2, <3>2 DEF PackageTask, Excused, Sweeps
      <4> QED
        BY <3>2, <4>1, Sweeping DEF When
    <3> QED
      BY <3>1, <3>2
  <2>5. Apt(t) = first \o (main \o last)
    BY <1>0, <1>1, Zenon DEF Apt
  <2> HIDE DEF main, last, first
  <2>6. Way(t, i, main, "lost", "met") /\ Way(t, i, first, "lost", "lost")
    BY <2>2, <2>3, WayOne DEF Fixes, Idles, Labels
  <2>7. Ending(t, i, first \o (main \o last), "lost")
    BY <2>4, <2>6, WaysJoin
  <2> QED
    BY <2>5, <2>7 DEF Reaches, Ending
<1>3. ASSUME t.module = "yum" PROVE Fixes(t, i, Yum(t))
  <2>1. t.module \in LatestOfPresent
    BY <1>3 DEF LatestOfPresent
  <2>2. CASE Removal(t)
    <3> DEFINE P == t.names
               any == RunSome("remove") \o Run("autoremove")
               all == OkIfNone \o Run("remove")
    <3>1. Finds(t, i, Ask("installed", P)) /\ Meets(t, i, Run("remove")) /\ Meets(t, i, RunSome("remove"))
      BY <1>0, <1>1, <2>2, FindWords, PackageGoals
    <3>2. Finishes(t, i, Run("autoremove"))
      BY <2>2, Autoremoves, PackageWants DEF Removal
    <3>3. Meets(t, i, any) /\ Meets(t, i, all)
      BY <1>0, <3>1, <3>2
    <3>4. YumRemove(t) = Ask("installed", P) \o (IF Has(t, "autoremove") THEN any ELSE all) \o Changed
      BY DEF YumRemove
    <3> HIDE DEF P, any, all
    <3>5. Fixes(t, i, YumRemove(t))
      BY <1>0, <3>1, <3>3, <3>4
    <3> QED
      BY <1>0, <1>1, <1>3, <2>2, <3>5 DEF Removal, Yum, YumMakecache
  <2>3. CASE ~ Removal(t)
    BY <1>0, <1>1, <1>3, <2>1, <2>3 DEF Removal, Yum, YumMakecache, YumInstall
  <2> QED
    BY <2>2, <2>3
<1>4. ASSUME t.module = "zypper" PROVE Fixes(t, i, Zypper(t))
  <2>1. t.module \notin LatestOfPresent
    BY <1>4 DEF LatestOfPresent
  <2>2. CASE Removal(t)
    <3>1. ~ Unread(t) /\ t.state = "absent"
      BY <1>4, <1>11, <2>2 DEF Removal
    <3>2. ZypperRemove(t) = Batch("installed", t.names, "remove")
      BY <3>1 DEF ZypperRemove, IsInstalled
    <3> QED
      BY <1>0, <1>1, <2>2, <3>1, <3>2 DEF Zypper, ZypperRefresh
  <2>3. CASE t.state = "present"
    <3>1. ZypperInstall(t, FALSE) =
            Batch(IsMissing(t), t.names, IF Unread(t) THEN "reinstall" ELSE "install")
      BY DEF ZypperInstall
    <3>2. Fixes(t, i, ZypperInstall(t, FALSE))
      BY <1>0, <2>3, <3>1, UnreadHave DEF IsMissing
    <3> QED
      BY <1>0, <1>1, <2>3, <3>2 DEF Zypper, ZypperRefresh
  <2>4. CASE t.state = "latest"
    BY <1>0, <1>1, <1>4, <2>1, <2>4 DEF LatestIsPresence, Zypper, ZypperRefresh, ZypperInstall, ZypperRemove
  <2> QED
    BY <1>0, <2>2, <2>3, <2>4
<1>5. ASSUME t.module = "apk" PROVE Fixes(t, i, Apk(t))
  <2>1. t.module \notin LatestOfPresent
    BY <1>5 DEF LatestOfPresent
  <2>2. CASE Removal(t)
    BY <1>0, <1>1, <1>5, <2>2 DEF Removal, Apk, ApkUpdate, ApkAdd, ApkDel
  <2>3. CASE t.state = "present"
    BY <1>0, <1>1, <1>5, <2>3 DEF Apk, ApkUpdate, ApkAdd, ApkDel
  <2>4. CASE t.state = "latest"
    BY <1>0, <1>1, <1>5, <2>1, <2>4 DEF LatestIsPresence, Apk, ApkUpdate, ApkAdd, ApkDel
  <2> QED
    BY <1>0, <2>2, <2>3, <2>4
<1>6. ASSUME t.module = "pacman" PROVE Fixes(t, i, Pacman(t))
  <2>1. t.module \notin LatestOfPresent
    BY <1>6 DEF LatestOfPresent
  <2>2. CASE Removal(t)
    BY <1>0, <1>1, <1>6, <2>2 DEF Removal, Pacman, PacmanSyncDb, PacmanInstall, PacmanRemove
  <2>3. CASE t.state = "present"
    BY <1>0, <1>1, <1>6, <2>3 DEF Pacman, PacmanSyncDb, PacmanInstall, PacmanRemove
  <2>4. CASE t.state = "latest"
    BY <1>0, <1>1, <1>6, <2>1, <2>4 DEF LatestIsPresence, Pacman, PacmanSyncDb, PacmanInstall, PacmanRemove
  <2> QED
    BY <1>0, <2>2, <2>3, <2>4
<1>7. ASSUME t.module = "portage" PROVE Fixes(t, i, Portage(t))
  <2>1. t.module \notin LatestOfPresent
    BY <1>7 DEF LatestOfPresent
  <2>5. Removal(t) => t.state = "absent"
    BY <1>7 DEF Removal
  <2>2. CASE Removal(t)
    <3>1. \A p : Named(t, p) = p
      BY <1>0
    <3>2. Portage(t) = Whole(t.names, "remove") \o Changed
      BY <1>7, <2>2, <2>5, <3>1 DEF Portage, EmergeUnmerge
    <3> QED
      BY <1>0, <2>2, <3>2
  <2>3. CASE t.state = "present"
    BY <1>0, <1>1, <1>7, <2>3 DEF Portage, BuildFlags, EmergeInstall, EmergeUnmerge
  <2>4. CASE t.state = "latest"
    <3>1. \A p : Named(t, p) = p
      BY <1>0
    <3>2. Portage(t) = Whole(t.names, "installLatest") \o Did
      BY <2>4, <3>1 DEF Portage, BuildFlags, EmergeInstall
    <3> QED
      BY <1>0, <2>1, <2>4, <3>2
  <2> QED
    BY <1>0, <2>2, <2>3, <2>4
<1>8. ASSUME t.module = "snap" PROVE Fixes(t, i, Snap(t))
  <2>1. t.module \notin LatestOfPresent
    BY <1>8 DEF LatestOfPresent
  <2>2. CASE Removal(t)
    BY <1>0, <1>1, <1>8, <2>2 DEF Removal, Snap, SnapInstall, SnapRemove
  <2>3. CASE t.state = "present"
    BY <1>0, <1>1, <1>8, <2>3 DEF Snap, SnapInstall, SnapRemove
  <2>4. CASE t.state = "latest"
    BY <1>0, <1>1, <1>8, <2>1, <2>4 DEF LatestIsPresence, Snap, SnapInstall, SnapRemove
  <2> QED
    BY <1>0, <2>2, <2>3, <2>4
<1>9. ASSUME t.module = "flatpak" PROVE Fixes(t, i, Flatpak(t))
  <2>1. t.module \notin LatestOfPresent
    BY <1>9 DEF LatestOfPresent
  <2>2. CASE Removal(t)
    BY <1>0, <1>1, <1>9, <2>2 DEF Removal, Flatpak, FlatpakInstall, FlatpakUninstall
  <2>3. CASE t.state = "present"
    BY <1>0, <1>1, <1>9, <2>3 DEF Flatpak, FlatpakInstall, FlatpakUninstall
  <2>4. CASE t.state = "latest"
    BY <1>0, <1>1, <1>9, <2>1, <2>4 DEF LatestIsPresence, Flatpak, FlatpakInstall, FlatpakUninstall
  <2> QED
    BY <1>0, <2>2, <2>3, <2>4
<1>10. ASSUME t.module = "slackpkg" PROVE Fixes(t, i, Slackpkg(t))
  <2>1. t.module \notin LatestOfPresent /\ ~ Has(t, "src")
    BY <1>0, <1>1, <1>10 DEF LatestOfPresent, Unbound, Has
  <2>2. CASE Removal(t)
    <3>1. t.state = "absent" /\ \A p : Named(t, p) = p
      BY <1>0, <1>10, <2>2 DEF Removal
    <3>3. PkgtoolDispatch(t) = Whole(t.names, "remove") \o Changed
      BY <1>1, <2>1, <3>1 DEF PkgtoolDispatch
    <3>4. \A c : FrontEnd(t, c) = Whole(t.names, "remove") \o Changed
      BY <3>1 DEF FrontEnd, RunSlackpkg
    <3>2. Slackpkg(t) = Whole(t.names, "remove") \o Changed
      BY <3>3, <3>4 DEF Slackpkg, SlackpkgDispatch, SlaptDispatch
    <3> QED
      BY <1>0, <2>2, <3>2
  <2>3. CASE t.state = "present"
    BY <1>0, <1>1, <1>10, <2>1, <2>3 DEF Slackpkg, PkgtoolDispatch, SlackpkgDispatch, SlaptDispatch,
                             FrontEnd, RunSlackpkg
  <2>4. CASE t.state = "latest"
    <3>1. Fixes(t, i, Whole(t.names, "upgrade") \o Changed) /\ Fixes(t, i, Whole(t.names, "installLatest") \o Changed)
      BY <1>0, <2>1, <2>4
    <3>2. \A p : Named(t, p) = p
      BY <1>0
    <3>3. PkgtoolDispatch(t) = Whole(t.names, "upgrade") \o Changed
      BY <1>1, <2>1, <2>4, <3>2 DEF PkgtoolDispatch
    <3>4. \A c : FrontEnd(t, c) = Whole(t.names, c) \o Changed
      BY <2>4, <3>2 DEF FrontEnd, RunSlackpkg
    <3> QED
      BY <3>1, <3>3, <3>4 DEF Slackpkg, SlackpkgDispatch, SlaptDispatch
  <2> QED
    BY <1>0, <2>2, <2>3, <2>4
<1> QED
  BY <1>2, <1>3, <1>4, <1>5, <1>6, <1>7, <1>8, <1>9, <1>10

LEMMA UnixReach ==
  ASSUME NEW t, NEW i, PackageTask(t, i), t.module \notin Staged
  PROVE  /\ t.module = "homebrew" => Fixes(t, i, Homebrew(t))
         /\ t.module = "macports" => Fixes(t, i, MacPorts(t))
         /\ t.module = "pkg_add" => Fixes(t, i, PkgAdd(t))
         /\ t.module = "pkgng" => Fixes(t, i, Pkgng(t))
         /\ t.module = "pkgsrc" => Fixes(t, i, Pkgsrc(t))
         /\ t.module = "pkg5" => Fixes(t, i, Pkg5(t))
         /\ t.module = "svr4pkg" => Fixes(t, i, Svr4Pkg(t))
         /\ t.module = "nix" => Fixes(t, i, Nix(t))
         /\ t.module = "chocolatey" => Fixes(t, i, Chocolatey(t))
<1>0. PackageParts(t, i, t.names) /\ PartWords(t, i)
  BY PackagesHave, PartsJoin
<1> USE DEF PackageParts, PartWords
<1>1. t.names # {} /\ ~ Unbound(t)
  BY <1>0
<1>2. ASSUME t.module = "homebrew" PROVE Fixes(t, i, Homebrew(t))
  <2>1. t.module \notin LatestOfPresent
    BY <1>1, <1>2 DEF LatestOfPresent
  <2>5. Removal(t) => t.state = "absent"
    BY <1>2 DEF Removal
  <2>2. CASE Removal(t)
    BY <1>0, <1>1, <1>2, <2>2, <2>5 DEF Homebrew, BrewUpdate, BrewInstall, BrewUninstall
  <2>3. CASE t.state = "present"
    BY <1>0, <1>1, <1>2, <2>3 DEF Homebrew, BrewUpdate, BrewInstall, BrewUninstall
  <2>4. CASE t.state = "latest"
    BY <1>0, <1>1, <1>2, <2>1, <2>4 DEF LatestIsPresence, Homebrew, BrewUpdate, BrewInstall, BrewUninstall
  <2> QED
    BY <1>0, <2>2, <2>3, <2>4
<1>3. ASSUME t.module = "macports" PROVE Fixes(t, i, MacPorts(t))
  <2>1. t.module \notin LatestOfPresent
    BY <1>1, <1>3 DEF LatestOfPresent
  <2>2. CASE Removal(t)
    BY <1>0, <1>1, <1>3, <2>2 DEF Removal, MacPorts, PortSelfupdate, PortInstall, PortUpgrade, PortUninstall
  <2>3. CASE t.state = "present"
    BY <1>0, <1>1, <1>3, <2>3 DEF MacPorts, PortSelfupdate, PortInstall, PortUpgrade, PortUninstall
  <2>4. CASE t.state = "latest"
    BY <1>0, <1>1, <1>3, <2>1, <2>4 DEF LatestIsPresence, MacPorts, PortSelfupdate, PortInstall, PortUpgrade, PortUninstall
  <2> QED
    BY <1>0, <2>2, <2>3, <2>4
<1>4. ASSUME t.module = "pkg_add" PROVE Fixes(t, i, PkgAdd(t))
  <2>1. t.module \notin LatestOfPresent
    BY <1>1, <1>4 DEF LatestOfPresent
  <2>5. Removal(t) => t.state = "absent"
    BY <1>4 DEF Removal
  <2>2. CASE Removal(t)
    BY <1>0, <1>1, <1>4, <2>2, <2>5 DEF PkgAdd, PkgAddInstall, PkgAddDelete
  <2>3. CASE t.state = "present"
    BY <1>0, <1>1, <1>4, <2>3 DEF PkgAdd, PkgAddInstall, PkgAddDelete
  <2>4. CASE t.state = "latest"
    BY <1>0, <1>1, <1>4, <2>1, <2>4 DEF LatestIsPresence, PkgAdd, PkgAddInstall, PkgAddDelete
  <2> QED
    BY <1>0, <2>2, <2>3, <2>4
<1>5. ASSUME t.module = "pkgng" PROVE Fixes(t, i, Pkgng(t))
  <2>1. t.module \notin LatestOfPresent
    BY <1>1, <1>5 DEF LatestOfPresent
  <2>5. Removal(t) => t.state = "absent"
    BY <1>5 DEF Removal
  <2>2. CASE Removal(t)
    BY <1>0, <1>1, <1>5, <2>2, <2>5 DEF Pkgng, PkgngUpdate, PkgngInstall, PkgngDelete
  <2>3. CASE t.state = "present"
    BY <1>0, <1>1, <1>5, <2>3 DEF Pkgng, PkgngUpdate, PkgngInstall, PkgngDelete
  <2>4. CASE t.state = "latest"
    BY <1>0, <1>1, <1>5, <2>1, <2>4 DEF LatestIsPresence, Pkgng, PkgngUpdate, PkgngInstall, PkgngDelete
  <2> QED
    BY <1>0, <2>2, <2>3, <2>4
<1>6. ASSUME t.module = "pkgsrc" PROVE Fixes(t, i, Pkgsrc(t))
  <2>1. t.module \notin LatestOfPresent
    BY <1>1, <1>6 DEF LatestOfPresent
  <2>5. Removal(t) => t.state = "absent"
    BY <1>6 DEF Removal
  <2>2. CASE Removal(t)
    BY <1>0, <1>1, <1>6, <2>2, <2>5 DEF Pkgsrc, PkgsrcLowlevelDispatch, PkginRun, PkginDispatch
  <2>3. CASE t.state = "present"
    BY <1>0, <1>1, <1>6, <2>3 DEF Pkgsrc, PkgsrcLowlevelDispatch, PkginRun, PkginDispatch
  <2>4. CASE t.state = "latest"
    BY <1>0, <1>1, <1>6, <2>1, <2>4 DEF LatestIsPresence, Pkgsrc, PkgsrcLowlevelDispatch, PkginRun, PkginDispatch
  <2> QED
    BY <1>0, <2>2, <2>3, <2>4
<1>7. ASSUME t.module = "pkg5" PROVE Fixes(t, i, Pkg5(t))
  <2>1. t.module \notin LatestOfPresent
    BY <1>1, <1>7 DEF LatestOfPresent
  <2>5. Removal(t) => t.state = "absent"
    BY <1>7 DEF Removal
  <2>2. CASE Removal(t)
    BY <1>0, <1>1, <1>7, <2>2, <2>5 DEF Pkg5, Pkg5Refresh, RunPkg, Pkg5Install, Pkg5Uninstall
  <2>3. CASE t.state = "present"
    BY <1>0, <1>1, <1>7, <2>3 DEF Pkg5, Pkg5Refresh, RunPkg, Pkg5Install, Pkg5Uninstall
  <2>4. CASE t.state = "latest"
    BY <1>0, <1>1, <1>7, <2>1, <2>4 DEF LatestIsPresence, Pkg5, Pkg5Refresh, RunPkg, Pkg5Install, Pkg5Uninstall
  <2> QED
    BY <1>0, <2>2, <2>3, <2>4
<1>8. ASSUME t.module = "svr4pkg" PROVE Fixes(t, i, Svr4Pkg(t))
  <2>1. t.module \notin LatestOfPresent
    BY <1>1, <1>8 DEF LatestOfPresent
  <2>5. Removal(t) => t.state = "absent"
    BY <1>8 DEF Removal
  <2>2. CASE Removal(t)
    BY <1>0, <1>1, <1>8, <2>2, <2>5 DEF Svr4Pkg, EnsureAdminFile, Svr4Install, Svr4Remove
  <2>3. CASE t.state = "present"
    BY <1>0, <1>1, <1>8, <2>3 DEF Svr4Pkg, EnsureAdminFile, Svr4Install, Svr4Remove
  <2>4. CASE t.state = "latest"
    <3>1. \A p : Named(t, p) = p
      BY <1>0
    <3>2. Svr4Pkg(t) = Svr4Install(t.names)
      BY <2>4, <3>1 DEF Svr4Pkg
    <3> QED
      BY <1>0, <1>8, <2>4, <3>2 DEF LatestIsPresence, EnsureAdminFile, Svr4Install
  <2> QED
    BY <1>0, <2>2, <2>3, <2>4
<1>9. ASSUME t.module = "nix" PROVE Fixes(t, i, Nix(t))
  <2>1. t.module \notin LatestOfPresent /\ ~ Has(t, "flake")
    BY <1>1, <1>9 DEF LatestOfPresent, Unbound, Has
  <2>5. Removal(t) => t.state = "absent"
    BY <1>9 DEF Removal
  <2>2. CASE Removal(t)
    <3>1. \A p : Named(t, p) = p
      BY <1>0
    <3>2. Nix(t) = Whole(t.names, "remove") \o Changed
      BY <1>1, <1>9, <2>1, <2>2, <2>5, <3>1 DEF Nix, GuixDispatch, NixEnvUninstall
    <3> QED
      BY <1>0, <2>2, <3>2
  <2>3. CASE t.state = "present"
    <3>1. \A p : Named(t, p) = p
      BY <1>0
    <3>2. Nix(t) = Whole(t.names, "installLatest") \o Changed
      BY <1>1, <2>1, <2>3, <3>1 DEF Nix, GuixDispatch, NixEnvInstall
    <3> QED
      BY <1>0, <2>3, <3>2
  <2>4. CASE t.state = "latest"
    <3>1. \A p : Named(t, p) = p
      BY <1>0
    <3>2. Nix(t) = Whole(t.names, "installLatest") \o Changed
      BY <1>1, <2>1, <2>4, <3>1 DEF Nix, GuixDispatch, NixEnvInstall
    <3> QED
      BY <1>0, <2>1, <2>4, <3>2
  <2> QED
    BY <1>0, <2>2, <2>3, <2>4
<1>10. ASSUME t.module = "chocolatey" PROVE Fixes(t, i, Chocolatey(t))
  <2>1. t.module \notin LatestOfPresent
    BY <1>1, <1>10 DEF LatestOfPresent
  <2>5. Removal(t) => t.state = "absent"
    BY <1>10 DEF Removal
  <2>2. CASE Removal(t)
    <3>1. \A p : Named(t, p) = p
      BY <1>0
    <3>2. Chocolatey(t) = Whole(t.names, "remove") \o Changed
      BY <1>1, <1>10, <2>2, <2>5, <3>1 DEF Chocolatey, ChocoUninstall
    <3> QED
      BY <1>0, <2>2, <3>2
  <2>3. CASE t.state = "present"
    BY <1>0, <1>1, <1>10, <2>3 DEF Chocolatey, ChocoInstall, ChocoUpgrade, ChocoUninstall
  <2>4. CASE t.state = "latest"
    BY <1>0, <1>1, <1>10, <2>1, <2>4 DEF LatestIsPresence, Chocolatey, ChocoInstall, ChocoUpgrade, ChocoUninstall
  <2> QED
    BY <1>0, <2>2, <2>3, <2>4
<1> QED
  BY <1>2, <1>3, <1>4, <1>5, <1>6, <1>7, <1>8, <1>9, <1>10

LEMMA LanguageReach ==
  ASSUME NEW t, NEW i, PackageTask(t, i), t.module \notin Staged
  PROVE  /\ t.module = "pip" => Fixes(t, i, Pip(t))
         /\ t.module = "pipenv" => Fixes(t, i, Pipenv(t))
         /\ t.module = "poetry" => Fixes(t, i, Poetry(t))
         /\ t.module = "conda" => Fixes(t, i, Conda(t))
         /\ t.module = "uv" => Fixes(t, i, Uv(t))
         /\ t.module = "pixi" => Fixes(t, i, Pixi(t))
         /\ t.module = "zopen" => Fixes(t, i, Zopen(t))
<1>0. PackageParts(t, i, t.names) /\ PartWords(t, i)
  BY PackagesHave, PartsJoin
<1> USE DEF PackageParts, PartWords
<1>1. t.names # {} /\ ~ Unbound(t)
  BY <1>0
<1>2. ASSUME t.module = "pip" PROVE Fixes(t, i, Pip(t))
  <2>1. t.module \notin LatestOfPresent
    BY <1>1, <1>2 DEF LatestOfPresent
  <2>5. Removal(t) => t.state = "absent"
    BY <1>2 DEF Removal
  <2>2. CASE Removal(t)
    BY <1>0, <1>1, <1>2, <2>2, <2>5 DEF Pip, EnsureVirtualenv, PipInstall, PipUninstall
  <2>3. CASE t.state = "present"
    BY <1>0, <1>1, <1>2, <2>3 DEF Pip, EnsureVirtualenv, PipInstall, PipUninstall
  <2>4. CASE t.state = "latest"
    BY <1>0, <1>1, <1>2, <2>1, <2>4 DEF LatestIsPresence, Pip, EnsureVirtualenv, PipInstall, PipUninstall
  <2> QED
    BY <1>0, <2>2, <2>3, <2>4
<1>3. ASSUME t.module = "pipenv" PROVE Fixes(t, i, Pipenv(t))
  <2>1. t.module \notin LatestOfPresent
    BY <1>1, <1>3 DEF LatestOfPresent
  <2>5. Removal(t) => t.state = "absent"
    BY <1>3 DEF Removal
  <2>2. CASE Removal(t)
    <3>1. \A p : Named(t, p) = p
      BY <1>0
    <3>2. Pipenv(t) = Whole(t.names, "remove") \o Changed
      BY <1>3, <2>2, <2>5, <3>1 DEF Pipenv, PipenvUninstall
    <3> QED
      BY <1>0, <2>2, <3>2
  <2>3. CASE t.state = "present"
    BY <1>0, <1>1, <1>3, <2>3 DEF Pipenv, PipenvRunChange, PipenvInstallPkgs, PipenvUninstall, PipenvUpdate
  <2>4. CASE t.state = "latest"
    BY <1>0, <1>1, <1>3, <2>1, <2>4 DEF LatestIsPresence, Pipenv, PipenvRunChange, PipenvInstallPkgs, PipenvUninstall, PipenvUpdate
  <2> QED
    BY <1>0, <2>2, <2>3, <2>4
<1>4. ASSUME t.module = "poetry" PROVE Fixes(t, i, Poetry(t))
  <2>1. t.module \notin LatestOfPresent /\ ~ Has(t, "dry_run")
    BY <1>1, <1>4 DEF LatestOfPresent, Unbound, Has
  <2>5. Removal(t) => t.state = "absent"
    BY <1>4 DEF Removal
  <2>2. CASE Removal(t)
    <3>1. \A p : Named(t, p) = p
      BY <1>0
    <3>2. Poetry(t) = Take(t.names) \o (Run("remove") \o Changed)
      BY <1>1, <1>4, <2>1, <2>2, <2>5, <3>1 DEF Poetry, PoetryRemove, PoetryRunChange
    <3> QED
      BY <1>0, <2>2, <3>2
  <2>3. CASE t.state = "present"
    BY <1>0, <1>1, <1>4, <2>1, <2>3 DEF Poetry, PoetryRunChange, PoetryAdd, PoetryRemove, PoetryUpdate
  <2>4. CASE t.state = "latest"
    BY <1>0, <1>1, <1>4, <2>1, <2>4 DEF LatestIsPresence, Poetry, PoetryRunChange, PoetryAdd, PoetryRemove, PoetryUpdate
  <2> QED
    BY <1>0, <2>2, <2>3, <2>4
<1>5. ASSUME t.module = "conda" PROVE Fixes(t, i, Conda(t))
  <2>1. t.module \notin LatestOfPresent
    BY <1>1, <1>5 DEF LatestOfPresent
  <2>5. Removal(t) => t.state = "absent"
    BY <1>5 DEF Removal
  <2>2. CASE Removal(t)
    <3>1. \A p : Named(t, p) = p
      BY <1>0
    <3>2. Conda(t) = Whole(t.names, "remove") \o Changed
      BY <1>5, <2>2, <2>5, <3>1 DEF Conda, CondaUninstall
    <3> QED
      BY <1>0, <2>2, <3>2
  <2>3. CASE t.state = "present"
    BY <1>0, <1>1, <1>5, <2>3 DEF Conda, CondaInstall, CondaUninstall
  <2>4. CASE t.state = "latest"
    <3>1. \A p : Named(t, p) = p
      BY <1>0
    <3>2. Conda(t) = Whole(t.names, "sysupgrade+install") \o May("changed") \o Did
      BY <2>4, <3>1 DEF Conda, CondaInstall
    <3> QED
      BY <1>0, <2>1, <2>4, <3>2
  <2> QED
    BY <1>0, <2>2, <2>3, <2>4
<1>6. ASSUME t.module = "uv" PROVE Fixes(t, i, Uv(t))
  <2>1. t.module \notin LatestOfPresent
    BY <1>1, <1>6 DEF LatestOfPresent
  <2>5. Removal(t) => t.state = "absent"
    BY <1>6 DEF Removal
  <2>2. CASE Removal(t)
    <3>1. \A p : Named(t, p) = p
      BY <1>0
    <3>2. Uv(t) = Take(t.names) \o (Run("remove") \o Changed)
      BY <1>1, <1>6, <2>2, <2>5, <3>1 DEF Uv, UvRemove, UvRunChange
    <3> QED
      BY <1>0, <2>2, <3>2
  <2>3. CASE t.state = "present"
    BY <1>0, <1>1, <1>6, <2>3 DEF Uv, UvRunChange, UvAddOrPip, UvRemove
  <2>4. CASE t.state = "latest"
    BY <1>0, <1>1, <1>6, <2>1, <2>4 DEF LatestIsPresence, Uv, UvRunChange, UvAddOrPip, UvRemove
  <2> QED
    BY <1>0, <2>2, <2>3, <2>4
<1>7. ASSUME t.module = "pixi" PROVE Fixes(t, i, Pixi(t))
  <2>1. t.module \notin LatestOfPresent
    BY <1>1, <1>7 DEF LatestOfPresent
  <2>5. Removal(t) => t.state = "absent"
    BY <1>7 DEF Removal
  <2>2. CASE Removal(t)
    <3>1. \A p : Named(t, p) = p
      BY <1>0
    <3>2. Pixi(t) = Whole(t.names, "remove") \o Changed
      BY <1>7, <2>2, <2>5, <3>1 DEF Pixi, PixiRemove
    <3> QED
      BY <1>0, <2>2, <3>2
  <2>3. CASE t.state = "present"
    BY <1>0, <1>1, <1>7, <2>3 DEF Pixi, PixiAdd, PixiRemove, PixiUpdate
  <2>4. CASE t.state = "latest"
    BY <1>0, <1>1, <1>7, <2>1, <2>4 DEF LatestIsPresence, Pixi, PixiAdd, PixiRemove, PixiUpdate
  <2> QED
    BY <1>0, <2>2, <2>3, <2>4
<1>8. ASSUME t.module = "zopen" PROVE Fixes(t, i, Zopen(t))
  <2>1. t.module \notin LatestOfPresent
    BY <1>1, <1>8 DEF LatestOfPresent
  <2>5. Removal(t) => t.state = "absent"
    BY <1>8 DEF Removal
  <2>2. CASE Removal(t)
    BY <1>0, <1>1, <1>8, <2>2, <2>5 DEF Zopen, ZopenRun, ZopenInstall, ZopenRemove
  <2>3. CASE t.state = "present"
    BY <1>0, <1>1, <1>8, <2>3 DEF Zopen, ZopenRun, ZopenInstall, ZopenRemove
  <2>4. CASE t.state = "latest"
    BY <1>0, <1>1, <1>8, <2>1, <2>4 DEF LatestIsPresence, Zopen, ZopenRun, ZopenInstall, ZopenRemove
  <2> QED
    BY <1>0, <2>2, <2>3, <2>4
<1> QED
  BY <1>2, <1>3, <1>4, <1>5, <1>6, <1>7, <1>8

(* The modules that list first: rpm_ostree, whose questions are to the       *)
(* booted deployment, and lineinfile.                                        *)
LEMMA OstreeReach ==
  ASSUME NEW t, NEW i, PackageTask(t, i), t.module = "rpm_ostree"
  PROVE  Fixes(t, i, RpmOstree(t))
<1>1. {"lost", "due", "read", "met"} \subseteq Labels
  BY DEF Labels
<1>2. \A p, q, a, b, e : FlatPath(t, i, p, a, b) /\ FlatPath(t, i, q, b, e) => FlatPath(t, i, p \o q, a, e)
  BY FlatPathJoins
<1>3. FlatPath(t, i, RunStatus, "lost", "read")
  <2>1. FlatPath(t, i, List("next"), "lost", "read")
    BY <1>1, CommandWays DEF Leads
  <2>2. FlatPath(t, i, May("err"), "read", "read")
    BY <1>1, StopWays
  <2> QED
    BY <1>2, <2>1, <2>2 DEF RunStatus
<1>4. i \in t.names /\ t.names # {} /\ ~ Has(t, "check") /\ \A p : Named(t, p) = p
  BY PackageWants DEF PackageTask, Unbound, Has, Named
<1>5. FlatPath(t, i, Take(t.names), "read", "due")
  BY <1>1, <1>4, SelectWays
<1>6. ASSUME NEW q, Decides(q, Want(t, i)) PROVE FlatPath(t, i, Selected(t, q), "read", "due")
  <2>1. FlatPath(t, i, Pick(q, t.names), "read", "due")
    BY <1>1, <1>4, <1>6, SelectWays
  <2>2. FlatPath(t, i, OkIfNone, "due", "due")
    BY <1>1, StopWays
  <2> QED
    BY <1>2, <1>5, <2>1, <2>2 DEF Selected
<1>7. Finishes(t, i, DoReboot(t)) /\ Finishes(t, i, Changed) /\ Finishes(t, i, Did)
  <2>1. Finishes(t, i, Loose("reboot"))
    BY Effects, FindWords DEF Quiet
  <2> QED
    BY <2>1, FixWords DEF DoReboot, WhenFlag
<1>8. ASSUME NEW c, Brings(t, i, c) PROVE Meets(t, i, Run(c) \o DoReboot(t)) /\ Meets(t, i, RunRpmOstree(t, c))
  <2>1. Meets(t, i, Run(c)) /\ \A p, q : Meets(t, i, p) /\ Finishes(t, i, q) => Meets(t, i, p \o q)
    BY <1>8, PartsJoin DEF PartWords
  <2> QED
    BY <1>7, <2>1 DEF RunRpmOstree
<1>9. ASSUME NEW p, FlatPath(t, i, p, "read", "met") PROVE Fixes(t, i, RunStatus \o p)
  BY <1>2, <1>3, <1>9 DEF Fixes
<1>10. Fixes(t, i, Fail)
  BY FixWords
<1>11. CASE Removal(t)
  <2>1. t.state = "absent" /\ Want(t, i) = Gone
    BY <1>11, PackageWants DEF PackageTask, Removal
  <2>2. FlatPath(t, i, HandleUninstall(t), "read", "met")
    BY <1>2, <1>6, <1>8, <2>1, Effects, Tellings DEF HandleUninstall, Meets
  <2>3. RpmOstree(t) \in {Fail, RunStatus \o HandleUninstall(t)}
    BY <1>4, <2>1 DEF RpmOstree, Overrides
  <2> QED
    BY <1>9, <1>10, <2>2, <2>3
<1>12. CASE t.state = "present"
  <2>1. Want(t, i) = There
    BY <1>12, PackageWants DEF Removal
  <2>2. FlatPath(t, i, HandleInstall(t), "read", "met")
    BY <1>2, <1>6, <1>8, <2>1, Effects, Tellings DEF HandleInstall, Meets
  <2>3. RpmOstree(t) \in {Fail, RunStatus \o HandleInstall(t)}
    BY <1>4, <1>12 DEF RpmOstree, Overrides
  <2> QED
    BY <1>9, <1>10, <2>2, <2>3
<1>13. CASE t.state = "latest"
  <2>1. Want(t, i) = {"new"}
    BY <1>13, PackageWants DEF Removal, LatestIsPresence, LatestOfPresent
  <2> DEFINE run == Run("sysupgrade+install") \o DoReboot(t)
  <2>2. Meets(t, i, run) /\ Brings(t, i, "sysupgrade+install")
    BY <1>8, <2>1, Effects
  <2>3. Meets(t, i, Run("sysupgrade+install"))
    BY <2>2, PartsJoin DEF PartWords
  <2>4. HandleUpgrade(t) = Take(t.names) \o Run("sysupgrade+install") \o DoReboot(t) \o Did
    BY <1>4 DEF HandleUpgrade
  <2>5. FlatPath(t, i, HandleUpgrade(t), "read", "met")
    BY <1>2, <1>5, <1>7, <2>3, <2>4 DEF Meets, Finishes
  <2>6. RpmOstree(t) \in {Fail, RunStatus \o HandleUpgrade(t)}
    BY <1>4, <1>13 DEF RpmOstree, Overrides
  <2> QED
    BY <1>9, <1>10, <2>5, <2>6
<1> QED
  BY <1>11, <1>12, <1>13, PackageWants

LEMMA LineReach ==
  ASSUME NEW t, NEW i, i \in t.names, ~ Excused(t, i), t.module = "lineinfile"
  PROVE  Fixes(t, i, LineInFile(t))
<1>1. {"lost", "read", "picked", "met"} \subseteq Labels
  BY DEF Labels
<1>2. \A p, q, a, b, e : FlatPath(t, i, p, a, b) /\ FlatPath(t, i, q, b, e) => FlatPath(t, i, p \o q, a, e)
  BY FlatPathJoins
<1>3. Want(t, i) = IF t.state = "absent" THEN Gone
                   ELSE IF Has(t, "backrefs") THEN {"none", "new"} ELSE {"new"}
  BY DEF Excused, Want, Promise, FileModules
<1> DEFINE pick == IF t.state = "absent" THEN RemoveLines(t) ELSE InsertOrReplace(t)
           open == IF Has(t, "create") THEN CreateDirAll \o Must("create file") ELSE May("failed")
           save == Must(IF t.state = "absent" THEN "rewrite without" ELSE "rewrite")
           keep == When(Has(t, "backup"), Must("backup"))
<1>4. FlatPath(t, i, pick, "read", "picked")
  <2>1. FlatPath(t, i, Err, "read", "picked")
    BY <1>1, StopWays
  <2>2. /\ t.state = "absent" => FlatPath(t, i, Pick("installed", t.names), "read", "picked")
        /\ t.state # "absent" /\ Has(t, "backrefs") =>
             FlatPath(t, i, Pick("differs, there", t.names), "read", "picked")
        /\ t.state # "absent" /\ ~ Has(t, "backrefs") =>
             FlatPath(t, i, Pick("differs", t.names), "read", "picked")
    BY <1>1, <1>3, SelectWays, Tellings
  <2> QED
    BY <2>1, <2>2 DEF RemoveLines, InsertOrReplace
<1>5. FlatPath(t, i, save, "picked", "met")
  <2>1. \A v, b : After("rewrite without", v, b) = Gone /\ After("rewrite", v, b) = {"new"}
    BY DEF After, Gone
  <2>2. "rewrite" \in Rewrites /\ "rewrite without" \in Rewrites
    BY DEF Rewrites
  <2> QED
    BY <1>1, <1>3, <2>1, <2>2, CommandWays
<1>6. FlatPath(t, i, open, "lost", "lost")
  <2>1. FlatPath(t, i, CreateDirAll, "lost", "lost") /\ FlatPath(t, i, Must("create file"), "lost", "lost")
    BY <1>1, CommandWays DEF CreateDirAll
  <2>2. FlatPath(t, i, May("failed"), "lost", "lost")
    BY <1>1, StopWays
  <2> QED
    BY <1>2, <2>1, <2>2
<1>7. FlatPath(t, i, keep, "picked", "picked")
  <2>1. FlatPath(t, i, Must("backup"), "picked", "picked")
    BY <1>1, CommandWays, Effects DEF Quiet
  <2>2. FlatPath(t, i, <<>>, "picked", "picked")
    BY <1>1, WayOne
  <2> QED
    BY <2>1, <2>2 DEF When
<1>8. /\ FlatPath(t, i, List("err"), "lost", "read") /\ FlatPath(t, i, OkIfNone, "picked", "picked")
      /\ FlatPath(t, i, Changed, "met", "met")
  <2>1. FlatPath(t, i, List("err"), "lost", "read")
    BY <1>1, CommandWays DEF Leads
  <2> QED
    BY <1>1, <2>1, StopWays
<1>9. LineInFile(t) \in {Err, open \o List("err") \o pick \o OkIfNone \o keep \o save \o Changed}
  BY DEF LineInFile, Requires
<1> HIDE DEF open, pick, keep, save
<1>10. FlatPath(t, i, open \o List("err") \o pick \o OkIfNone, "lost", "picked")
  BY <1>2, <1>4, <1>6, <1>8
<1>11. FlatPath(t, i, open \o List("err") \o pick \o OkIfNone \o keep \o save \o Changed, "lost", "met")
  BY <1>2, <1>5, <1>7, <1>8, <1>10
<1>12. Fixes(t, i, Err)
  BY FixWords
<1> QED
  BY <1>9, <1>11, <1>12 DEF Fixes

(* The modules of one file, or one command, for its content and its mode.    *)
FileTask(t, i) ==
  /\ t.module \in FileModules /\ {i, "content"} \subseteq t.names /\ t.names \subseteq FileItems
  /\ ~ Excused(t, i)
FileRules(t, i) ==
  /\ \A p, q : /\ Idles(t, i, p) /\ Idles(t, i, q) => Idles(t, i, p \o q)
               /\ Idles(t, i, p) /\ Finds(t, i, q) => Finds(t, i, p \o q)
               /\ Idles(t, i, p) /\ Fixes(t, i, q) => Fixes(t, i, p \o q)
               /\ Finds(t, i, p) /\ Meets(t, i, q) => Fixes(t, i, p \o q)
               /\ Meets(t, i, p) /\ Finishes(t, i, q) => Meets(t, i, p \o q)
               /\ Fixes(t, i, p) /\ Finishes(t, i, q) => Fixes(t, i, p \o q)
               /\ Finishes(t, i, p) /\ Finishes(t, i, q) => Finishes(t, i, p \o q)
  /\ \A p : Meets(t, i, p) => Meets(t, i, OkIfNone \o p)
  /\ \A p : Finds(t, i, p) => Finds(t, i, p \o OkIfNone) /\ Idles(t, i, p \o OkIfNone)
  /\ \A cond, p : /\ Idles(t, i, p) => Idles(t, i, When(cond, p))
                  /\ Finishes(t, i, p) => Finishes(t, i, When(cond, p))
  /\ \A p \in {Fail, Err} : Idles(t, i, p) /\ Fixes(t, i, p) /\ Meets(t, i, p) /\ Finishes(t, i, p)
  /\ \A p \in {Ok, Changed, Did} : Finishes(t, i, p)
  /\ \A c : Idles(t, i, Must(c)) /\ Idles(t, i, Run(c)) /\ Idles(t, i, Try(c))
  /\ \A c \in Quiet \union Unseen :
       /\ Finishes(t, i, Must(c)) /\ Finishes(t, i, Try(c))
       /\ \A p : Finds(t, i, p) => Finds(t, i, p \o Must(c)) /\ Finds(t, i, p \o Try(c))
       /\ \A p : Meets(t, i, p) => Meets(t, i, Must(c) \o p)
  /\ \A P : Idles(t, i, Take(P)) /\ Finishes(t, i, Take(P)) /\ (i \in P => Finds(t, i, Take(P)))
  /\ \A q, P : Idles(t, i, Ask(q, P)) /\ (i \in P /\ Tells(t, i, q) => Finds(t, i, Ask(q, P)))
  /\ \A c : Brings(t, i, c) => Meets(t, i, Run(c)) /\ Meets(t, i, Must(c)) /\ Meets(t, i, MustSome(c))
  /\ \A c : Mends(t, i, c) => Finishes(t, i, Must(c)) /\ Finishes(t, i, MustSome(c))
  /\ \A c : Harmless(t, i, c) => Finishes(t, i, Try(c))

LEMMA FileWays == ASSUME NEW t, NEW i PROVE FileRules(t, i)
<1>1. "lost" \in Labels /\ "due" \in Labels /\ "met" \in Labels
  BY DEF Labels
<1>2. \A p, q, a, b, e : FlatPath(t, i, p, a, b) /\ FlatPath(t, i, q, b, e) => FlatPath(t, i, p \o q, a, e)
  BY FlatPathJoins
<1>3. \A p, q : /\ Idles(t, i, p) /\ Idles(t, i, q) => Idles(t, i, p \o q)
                /\ Idles(t, i, p) /\ Finds(t, i, q) => Finds(t, i, p \o q)
                /\ Idles(t, i, p) /\ Fixes(t, i, q) => Fixes(t, i, p \o q)
                /\ Finds(t, i, p) /\ Meets(t, i, q) => Fixes(t, i, p \o q)
                /\ Meets(t, i, p) /\ Finishes(t, i, q) => Meets(t, i, p \o q)
                /\ Fixes(t, i, p) /\ Finishes(t, i, q) => Fixes(t, i, p \o q)
                /\ Finishes(t, i, p) /\ Finishes(t, i, q) => Finishes(t, i, p \o q)
  BY <1>2, Zenon DEF Idles, Finds, Meets, Fixes, Finishes
<1>4. FlatPath(t, i, OkIfNone, "due", "due") /\ FlatPath(t, i, OkIfNone, "due", "lost")
  BY <1>1, StopWays
<1>5. \A p : /\ Meets(t, i, p) => Meets(t, i, OkIfNone \o p)
             /\ Finds(t, i, p) => Finds(t, i, p \o OkIfNone) /\ Idles(t, i, p \o OkIfNone)
  BY <1>2, <1>4, Zenon DEF Idles, Finds, Meets
<1>6. /\ \A cond, p : /\ Idles(t, i, p) => Idles(t, i, When(cond, p))
                      /\ Finishes(t, i, p) => Finishes(t, i, When(cond, p))
      /\ \A p \in {Ok, Changed, Did} : Finishes(t, i, p)
      /\ \A c : Idles(t, i, Must(c)) /\ Idles(t, i, Run(c)) /\ Idles(t, i, Try(c))
  BY FixWords
<1>7. \A p \in {Fail, Err} : Idles(t, i, p) /\ Fixes(t, i, p) /\ Meets(t, i, p) /\ Finishes(t, i, p)
  BY <1>1, StopWays DEF Idles, Fixes, Meets, Finishes
<1>8. ASSUME NEW c \in Quiet \union Unseen
      PROVE  /\ Finishes(t, i, Must(c)) /\ Finishes(t, i, Try(c))
             /\ \A p : Finds(t, i, p) => Finds(t, i, p \o Must(c)) /\ Finds(t, i, p \o Try(c))
             /\ \A p : Meets(t, i, p) => Meets(t, i, Must(c) \o p)
  <2>1. Harmless(t, i, c)
    BY Effects
  <2>2. FlatPath(t, i, Must(c), "due", "due") /\ FlatPath(t, i, Try(c), "due", "due")
    BY <1>1, <2>1, CommandWays
  <2>3. Finishes(t, i, Must(c)) /\ Finishes(t, i, Try(c))
    BY <2>1, FindWords
  <2> QED
    BY <1>2, <2>2, <2>3, Zenon DEF Finds, Meets
<1>9. /\ \A P : Idles(t, i, Take(P)) /\ Finishes(t, i, Take(P)) /\ (i \in P => Finds(t, i, Take(P)))
      /\ \A q, P : Idles(t, i, Ask(q, P)) /\ (i \in P /\ Tells(t, i, q) => Finds(t, i, Ask(q, P)))
      /\ \A c : Mends(t, i, c) => Finishes(t, i, Must(c)) /\ Finishes(t, i, MustSome(c))
      /\ \A c : Harmless(t, i, c) => Finishes(t, i, Try(c))
  BY FindWords
<1>10. \A c : Brings(t, i, c) => Meets(t, i, Run(c)) /\ Meets(t, i, Must(c)) /\ Meets(t, i, MustSome(c))
  BY PartsJoin DEF PartWords
<1> QED
  BY <1>3, <1>5, <1>6, <1>7, <1>8, <1>9, <1>10, Zenon DEF FileRules

(* What is wanted of the content, and of the mode. *)
LEMMA FileWants ==
  ASSUME NEW t, NEW i, FileTask(t, i)
  PROVE  /\ ~ Unbound(t) /\ i \in t.names /\ i \in {"content", "mode"} /\ i \in {"content"} \union ModeOf(t)
         /\ i = "content" => Want(t, i) = ContentPromise(t) /\ i \in Content
         /\ i = "mode" => Want(t, i) = {"new"} /\ ModeIsSet(t, "changed") /\ i \in ModeOf(t)
         /\ i = "mode" /\ t.module # "file" => Idles(t, i, OkIfNone)
         /\ t.module \notin Staged
<1>1. ~ Unbound(t) /\ i \in t.names /\ i \in {"content", "mode"} /\ t.module # "lineinfile"
  BY DEF FileTask, FileItems, FileModules, Excused, Want, Promise
<1>2. \A v : Promise(t, v, i) = FilePromise(t, v, i)
  BY <1>1 DEF FileTask, Promise
<1>3. i = "mode" => Want(t, i) = {"new"} /\ ModeIsSet(t, "changed")
  BY <1>1, <1>2 DEF FileTask, Excused, Want, FilePromise
<1>4. i = "content" => Want(t, i) = ContentPromise(t)
  BY <1>1, <1>2 DEF FileTask, Want, FilePromise
<1>5. i \in {"content"} \union ModeOf(t) /\ (i = "content" => i \in Content) /\ (i = "mode" => i \in ModeOf(t))
  BY <1>1 DEF ModeOf, Content
<1>6. t.module \notin Staged
  BY DEF FileTask, FileModules, Staged
<1>7. ASSUME i = "mode", t.module # "file" PROVE Idles(t, i, OkIfNone)
  <2>1. Promise(t, "ok", i) = Versions
    BY <1>2, <1>7 DEF FilePromise, ModeIsSet
  <2> QED
    BY <2>1, FixWords
<1> QED
  BY <1>1, <1>3, <1>4, <1>5, <1>6, <1>7

LEMMA ModeApplied ==
  ASSUME NEW t, NEW i, FileTask(t, i)
  PROVE  /\ Idles(t, i, ApplyMode(t))
         /\ "new" \in Want(t, i) => Finishes(t, i, ApplyMode(t))
         /\ i = "mode" => Fixes(t, i, ApplyMode(t))
<1> DEFINE bad == When(Has(t, "bad mode"), Err)
<1>1. "lost" \in Labels /\ "due" \in Labels /\ "met" \in Labels
  BY DEF Labels
<1>2. FileRules(t, i)
  BY FileWays
<1>3. ApplyMode(t) = Take(ModeOf(t)) \o bad \o MustSome("write")
  BY DEF ApplyMode
<1>4. Idles(t, i, bad) /\ Finishes(t, i, bad)
  BY <1>2 DEF FileRules
<1>5. Idles(t, i, MustSome("write"))
  BY <1>1, CommandWays DEF Idles
<1>6. FlatPath(t, i, bad, "due", "due")
  BY <1>1, StopWays, WayOne DEF When
<1> HIDE DEF bad
<1>7. Idles(t, i, ApplyMode(t))
  BY <1>2, <1>3, <1>4, <1>5 DEF FileRules
<1>8. ASSUME "new" \in Want(t, i) PROVE Finishes(t, i, ApplyMode(t))
  <2>1. Finishes(t, i, MustSome("write"))
    BY <1>2, <1>8, Effects DEF FileRules
  <2> QED
    BY <1>2, <1>3, <1>4, <2>1 DEF FileRules
<1>9. ASSUME i = "mode" PROVE Fixes(t, i, ApplyMode(t))
  <2>1. Brings(t, i, "write") /\ i \in ModeOf(t)
    BY <1>9, FileWants, Effects
  <2>2. Finds(t, i, Take(ModeOf(t))) /\ Meets(t, i, MustSome("write"))
    BY <1>2, <2>1 DEF FileRules
  <2>3. Finds(t, i, Take(ModeOf(t)) \o bad)
    BY <1>6, <2>2, FlatPathJoins DEF Finds
  <2> QED
    BY <1>2, <1>3, <2>2, <2>3 DEF FileRules
<1> QED
  BY <1>7, <1>8, <1>9

LEMMA CopyReach ==
  ASSUME NEW t, NEW i, FileTask(t, i), t.module = "copy"
  PROVE  Fixes(t, i, Copy(t))
<1> DEFINE q == IF Has(t, "empty") THEN "differs, there" ELSE "differs"
           mode == When(~Has(t, "inline"), ApplyMode(t))
           ask == Ask(q, Content) \o OkIfNone
<1>1. FileRules(t, i)
  BY FileWays
<1>2. CopyFile(t) = ask \o Must("write") \o mode \o Changed
  BY DEF CopyFile
<1>3. Copy(t) \in {Err, CreateDirAll \o Fail, CreateDirAll \o CopyFile(t)}
  BY DEF Copy, Requires
<1> HIDE DEF q, mode, ask
<1>4. Idles(t, i, CreateDirAll) /\ Fixes(t, i, Fail) /\ Fixes(t, i, Err) /\ Finishes(t, i, Changed)
  BY <1>1 DEF FileRules, CreateDirAll
<1>5. CASE i = "content"
  <2>1. /\ Brings(t, i, "write") /\ Tells(t, i, q) /\ "new" \in Want(t, i) /\ i \in Content
    <3>1. Want(t, i) = (IF Has(t, "empty") THEN {"none", "new"} ELSE {"new"}) /\ i \in Content
      BY <1>5, FileWants DEF FileTask, ContentPromise
    <3>2. t.module \notin Staged
      BY FileWants
    <3> QED
      BY <3>1, <3>2, Effects, Tellings DEF Tells, q
  <2>2. Finds(t, i, ask) /\ Meets(t, i, Must("write"))
    BY <1>1, <2>1 DEF FileRules, ask
  <2>3. Finishes(t, i, mode)
    BY <1>1, <2>1, ModeApplied DEF FileRules, mode
  <2> QED
    BY <1>1, <1>2, <1>3, <1>4, <2>2, <2>3 DEF FileRules
<1>6. CASE i = "mode"
  <2>1. Fixes(t, i, mode)
    BY <1>6, FileWants, ModeApplied DEF FileTask, ModeIsSet, mode, When
  <2>2. Idles(t, i, ask) /\ Idles(t, i, Must("write"))
    BY <1>1, <1>6, FileWants DEF FileRules, ask
  <2> QED
    BY <1>1, <1>2, <1>3, <1>4, <2>1, <2>2 DEF FileRules
<1> QED
  BY <1>5, <1>6, FileWants

LEMMA TemplateReach ==
  ASSUME NEW t, NEW i, FileTask(t, i), t.module = "template"
  PROVE  Fixes(t, i, Template(t))
<1> DEFINE ask == When(Has(t, "no force"), Ask("differs", Content) \o OkIfNone)
           keep == When(Has(t, "backup"), Must("backup"))
           open == Must("show") \o ask \o keep \o CreateDirAll
<1>1. FileRules(t, i)
  BY FileWays
<1>2. Template(t) \in {Err, open \o Take(Content) \o Must("write") \o ApplyMode(t) \o Changed}
  BY DEF Template, Requires
<1>3. /\ Idles(t, i, CreateDirAll) /\ Idles(t, i, keep) /\ Idles(t, i, Must("show"))
      /\ Fixes(t, i, Err) /\ Finishes(t, i, Changed)
  BY <1>1 DEF FileRules, CreateDirAll
<1>4. Idles(t, i, Ask("differs", Content) \o OkIfNone)
  <2>1. CASE i = "content"
    <3>1. Want(t, i) \in {{"none", "new"}, {"new"}} /\ i \in Content /\ t.module \notin Staged
      BY <2>1, FileWants DEF FileTask, ContentPromise
    <3>2. Tells(t, i, "differs")
      BY <3>1 DEF Tells, Decides, Answers, Versions
    <3> QED
      BY <1>1, <3>1, <3>2 DEF FileRules
  <2>2. CASE i = "mode"
    BY <1>1, <2>2, FileWants DEF FileRules
  <2> QED
    BY <2>1, <2>2, FileWants
<1>5. Idles(t, i, ask)
  BY <1>1, <1>4 DEF FileRules
<1>6. Idles(t, i, open)
  <2> HIDE DEF ask, keep
  <2> QED
    BY <1>1, <1>3, <1>5 DEF FileRules
<1> HIDE DEF ask, keep, open
<1>7. CASE i = "content"
  <2>1. Brings(t, i, "write") /\ "new" \in Want(t, i) /\ i \in Content
    <3>1. Want(t, i) \in {{"none", "new"}, {"new"}} /\ i \in Content
      BY <1>7, FileWants DEF FileTask, ContentPromise
    <3> QED
      BY <3>1, Effects
  <2>2. Finds(t, i, Take(Content)) /\ Meets(t, i, Must("write")) /\ Finishes(t, i, ApplyMode(t))
    BY <1>1, <2>1, ModeApplied DEF FileRules
  <2> QED
    BY <1>1, <1>2, <1>3, <1>6, <2>2 DEF FileRules
<1>8. CASE i = "mode"
  <2>1. Fixes(t, i, ApplyMode(t)) /\ Idles(t, i, Take(Content)) /\ Idles(t, i, Must("write"))
    BY <1>1, <1>8, ModeApplied DEF FileRules
  <2> QED
    BY <1>1, <1>2, <1>3, <1>6, <2>1 DEF FileRules
<1> QED
  BY <1>7, <1>8, FileWants

LEMMA AppimageReach ==
  ASSUME NEW t, NEW i, FileTask(t, i), t.module = "appimage"
  PROVE  Fixes(t, i, Appimage(t))
<1>1. FileRules(t, i)
  BY FileWays
<1>2. Fixes(t, i, Err) /\ Finishes(t, i, Changed) /\ Finishes(t, i, Did)
  BY <1>1 DEF FileRules
<1>3. t.state = "absent" => Fixes(t, i, AppimageAbsent(t))
  <2> SUFFICES ASSUME t.state = "absent" PROVE Fixes(t, i, AppimageAbsent(t))
    OBVIOUS
  <2>5. i = "content" /\ i \in {"content"} /\ t.module \notin Staged
    BY FileWants DEF FileTask, ModeIsSet
  <2>6. ~ Has(t, "dangling") /\ Want(t, i) = Gone
    BY <2>5, FileWants DEF FileTask, Excused, ContentPromise
  <2>1. i = "content" /\ Want(t, i) = Gone /\ i \in {"content"} /\ t.module \notin Staged
    BY <2>5, <2>6
  <2>2. Brings(t, i, "remove") /\ Tells(t, i, "installed")
    BY <2>1, Effects, Tellings DEF Tells
  <2>3. Finds(t, i, Ask("installed", {"content"}) \o OkIfNone) /\ Meets(t, i, Must("remove"))
    BY <1>1, <2>1, <2>2 DEF FileRules
  <2>4. Finds(t, i, Ask("installed", {"content"}) \o OkIfNone \o Try("other"))
    BY <1>1, <2>3 DEF FileRules, Quiet
  <2> QED
    BY <1>1, <1>2, <2>3, <2>4, <2>6 DEF FileRules, AppimageAbsent
<1>4. t.state = "latest" => Fixes(t, i, AppimageUpdate(t))
  <2> SUFFICES ASSUME t.state = "latest" PROVE Fixes(t, i, AppimageUpdate(t))
    OBVIOUS
  <2>1. i = "content" /\ Want(t, i) = {"new"} /\ i \in {"content"}
    BY FileWants DEF FileTask, ModeIsSet, ContentPromise
  <2>2. Fixes(t, i, Whole({"content"}, "upgrade"))
    BY <2>1, Effects, FindWords
  <2>3. Idles(t, i, FailIfSome)
    BY StopWays DEF Idles, Labels
  <2>4. Idles(t, i, Ask("missing", {"content"}))
    BY <1>1 DEF FileRules
  <2>5. Fixes(t, i, Ask("missing", {"content"}) \o FailIfSome \o Whole({"content"}, "upgrade") \o Did)
    BY <1>1, <1>2, <2>2, <2>3, <2>4 DEF FileRules
  <2>6. Fixes(t, i, Fail)
    BY <1>1 DEF FileRules
  <2> QED
    BY <2>5, <2>6 DEF AppimageUpdate
<1>5. t.state \notin {"absent", "latest"} => Fixes(t, i, AppimageInstall(t))
  <2> SUFFICES ASSUME t.state \notin {"absent", "latest"} PROVE Fixes(t, i, AppimageInstall(t))
    OBVIOUS
  <2> DEFINE dest == {"content"}
             ask == When(~Has(t, "force"), Ask("missing", dest) \o OkIfNone) \o Must("mkdir")
             put == IF Has(t, "local source") THEN Must("write") ELSE Download
             sum == When(Has(t, "wrong checksum"), Sha256File \o Reject)
             sign == When(Has(t, "wrong signature"), Try("show") \o Reject)
             rest == When(Has(t, "integrate"), Try("other"))
  <2>1. AppimageInstall(t) = ask \o Take(dest) \o put \o sum \o sign \o Take(t.names \ dest) \o Must("write")
                             \o rest \o Changed
    BY DEF AppimageInstall
  <2>2. Idles(t, i, Reject) /\ Finishes(t, i, Reject)
    <3>1. FlatPath(t, i, Try("remove"), "met", "lost") /\ FlatPath(t, i, Fail, "lost", "met")
      BY CommandWays, StopWays DEF Labels
    <3>2. FlatPath(t, i, Try("remove") \o Fail, "met", "met")
      BY <3>1, FlatPathJoins
    <3> QED
      BY <1>1, <3>2 DEF FileRules, Reject, Finishes
  <2>3. /\ \A c \in Quiet : Finishes(t, i, Must(c)) /\ Finishes(t, i, Try(c))
        /\ \A c : Idles(t, i, Must(c)) /\ Idles(t, i, Try(c))
        /\ "show" \in Quiet /\ "other" \in Quiet
    BY <1>1 DEF FileRules, Quiet
  <2>4. /\ Idles(t, i, Sha256File \o Reject) /\ Finishes(t, i, Sha256File \o Reject)
        /\ Idles(t, i, Try("show") \o Reject) /\ Finishes(t, i, Try("show") \o Reject)
        /\ Finishes(t, i, Try("other"))
    BY <1>1, <2>2, <2>3 DEF FileRules, Sha256File
  <2>5. Idles(t, i, sum) /\ Finishes(t, i, sum) /\ Idles(t, i, sign) /\ Finishes(t, i, sign)
        /\ Finishes(t, i, rest)
    BY <1>1, <2>4 DEF FileRules
  <2>6. ASSUME "new" \in Want(t, i)
        PROVE  Finishes(t, i, Must("write")) /\ Finishes(t, i, Take(t.names \ dest))
    BY <1>1, <2>6, Effects DEF FileRules
  <2>7. CASE i = "content"
    <3>1. Want(t, i) = There /\ i \in dest /\ "new" \in Want(t, i) /\ t.module \notin Staged
      BY <2>7, FileWants DEF FileTask, ContentPromise, There
    <3>2. Brings(t, i, "write") /\ Tells(t, i, "missing")
      BY <3>1, Effects, Tellings DEF Tells
    <3>3. Finds(t, i, Take(dest)) /\ Meets(t, i, put)
      BY <1>1, <3>1, <3>2 DEF FileRules, Download
    <3>4. Idles(t, i, ask)
      BY <1>1, <3>1, <3>2 DEF FileRules
    <3>5. Finishes(t, i, Must("write")) /\ Finishes(t, i, Take(t.names \ dest))
      BY <2>6, <3>1
    <3> HIDE DEF dest, ask, put, sum, sign, rest
    <3>6. Fixes(t, i, ask \o Take(dest) \o put \o sum \o sign)
      BY <1>1, <2>5, <3>3, <3>4 DEF FileRules
    <3> QED
      BY <1>1, <1>2, <2>1, <2>5, <3>5, <3>6 DEF FileRules
  <2>8. CASE i = "mode"
    <3>1. Want(t, i) = {"new"} /\ i \in t.names \ dest
      BY <2>8, FileWants
    <3>2. Idles(t, i, ask)
      BY <1>1, <2>8, FileWants DEF FileRules, FileTask
    <3>3. Idles(t, i, put) /\ Idles(t, i, Take(dest))
      BY <1>1 DEF FileRules, Download
    <3>4. Finds(t, i, Take(t.names \ dest)) /\ Meets(t, i, Must("write"))
      BY <1>1, <3>1, Effects DEF FileRules
    <3> HIDE DEF dest, ask, put, sum, sign, rest
    <3>5. Idles(t, i, ask \o Take(dest) \o put \o sum \o sign)
      BY <1>1, <2>5, <3>2, <3>3 DEF FileRules
    <3> QED
      BY <1>1, <1>2, <2>1, <2>5, <3>4, <3>5 DEF FileRules
  <2> QED
    BY <2>7, <2>8, FileWants
<1>6. /\ t.state = "absent" => Appimage(t) \in {Err, AppimageAbsent(t)}
      /\ t.state = "latest" => Appimage(t) \in {Err, AppimageUpdate(t)}
      /\ t.state \notin {"absent", "latest"} => Appimage(t) \in {Err, AppimageInstall(t)}
  BY DEF Appimage
<1> QED
  BY <1>2, <1>3, <1>4, <1>5, <1>6

(* file: one way for each state. *)
LEMMA FileStates ==
  ASSUME NEW t, NEW i, FileTask(t, i), t.module = "file"
  PROVE  /\ t.state = "absent" => Fixes(t, i, RemovePath(t))
         /\ t.state = "hard" => Fixes(t, i, CreateHardlink(t))
         /\ t.state \notin {"absent", "directory", "touch", "link", "hard"} =>
              Fixes(t, i, EnsureFile(t))
<1>1. FileRules(t, i)
  BY FileWays
<1>2. Finishes(t, i, Ok) /\ Finishes(t, i, Changed) /\ t.module \notin Staged
  BY <1>1, FileWants DEF FileRules
<1>6. Fixes(t, i, Err) /\ Fixes(t, i, Fail)
  BY <1>1 DEF FileRules
<1>3. ASSUME t.state = "absent" PROVE Fixes(t, i, RemovePath(t))
  <2>3. i = "content" /\ i \in Content
    BY <1>3, FileWants DEF ModeIsSet
  <2>4. ~ Has(t, "dangling") /\ Want(t, i) = Gone
    BY <1>3, <2>3, FileWants DEF FileTask, Excused, ContentPromise
  <2>1. Want(t, i) = Gone /\ i \in Content
    BY <2>3, <2>4
  <2>2. Finds(t, i, Ask("installed", Content) \o OkIfNone) /\ Meets(t, i, Must("remove"))
    BY <1>1, <1>2, <2>1, Effects, Tellings DEF FileRules, Tells
  <2> QED
    BY <1>1, <1>2, <2>2, <2>4 DEF FileRules, RemovePath
<1>4. ASSUME t.state = "hard" PROVE Fixes(t, i, CreateHardlink(t))
  <2>1. Want(t, i) = There /\ i \in Content
    BY <1>4, FileWants DEF FileTask, ModeIsSet, ContentPromise
  <2>2. Finds(t, i, Ask("missing", Content) \o OkIfNone) /\ Meets(t, i, Must("link"))
    BY <1>1, <1>2, <2>1, Effects, Tellings DEF FileRules, Tells
  <2>3. Fixes(t, i, Ask("missing", Content) \o OkIfNone \o Must("link") \o Changed)
    BY <1>1, <1>2, <2>2 DEF FileRules
  <2> QED
    BY <1>6, <2>3 DEF CreateHardlink
<1>5. ASSUME t.state \notin {"absent", "directory", "touch", "link", "hard"}
      PROVE  Fixes(t, i, EnsureFile(t))
  <2> DEFINE ask == Ask("missing", Content) \o FailIfSome
  <2>1. CASE i = "content"
    <3>1. Want(t, i) = There /\ i \in Content /\ "new" \in Want(t, i)
      BY <1>5, <2>1, FileWants DEF FileTask, ContentPromise, There
    <3>2. Finds(t, i, Ask("missing", Content))
      BY <1>1, <1>2, <3>1, Tellings DEF FileRules, Tells
    <3>3. Meets(t, i, FailIfSome)
      BY StopWays DEF Meets, Labels
    <3>4. Fixes(t, i, ask)
      BY <1>1, <3>2, <3>3 DEF FileRules
    <3>5. Finishes(t, i, ApplyMode(t) \o Changed)
      BY <1>1, <1>2, <3>1, ModeApplied DEF FileRules
    <3> QED
      BY <1>1, <1>2, <1>6, <3>4, <3>5 DEF FileRules, EnsureFile
  <2>2. CASE i = "mode"
    <3>1. Idles(t, i, FailIfSome)
      BY StopWays DEF Idles, Labels
    <3>2. Idles(t, i, ask)
      BY <1>1, <3>1 DEF FileRules
    <3>3. ModeOf(t) # {} /\ Fixes(t, i, ApplyMode(t))
      BY <2>2, FileWants, ModeApplied
    <3>4. Fixes(t, i, ApplyMode(t) \o Changed)
      BY <1>1, <1>2, <3>3 DEF FileRules
    <3> QED
      BY <1>1, <1>6, <3>2, <3>3, <3>4 DEF FileRules, EnsureFile
  <2> QED
    BY <2>1, <2>2, FileWants
<1> QED
  BY <1>3, <1>4, <1>5

(* What is made when it is not there: the branch leads on from needed to as  *)
(* wanted, or, for the mode, from nothing to nothing.                        *)
LEMMA BranchWays ==
  ASSUME NEW t, NEW i
  PROVE  /\ \A p : FlatPath(t, i, p, "lost", "lost") => Way(t, i, IfNeeded(p), "lost", "lost")
         /\ \A p : Meets(t, i, p) => Way(t, i, IfNeeded(p), "due", "met")
         /\ \A p : FlatPath(t, i, p, "met", "lost") => Way(t, i, IfNeeded(p), "have", "lost")
<1>1. {"lost", "due", "have", "met"} \subseteq Labels
  BY DEF Labels
<1>2. ASSUME NEW a \in Labels, NEW b \in Labels, NEW p, BranchDoes(t, i, [op |-> "branch", then |-> p], a, b)
      PROVE  Way(t, i, IfNeeded(p), a, b)
  BY <1>2, WayOne DEF IfNeeded
<1> QED
  BY <1>1, <1>2 DEF BranchDoes, Meets

LEMMA FileMakes ==
  ASSUME NEW t, NEW i, FileTask(t, i), t.module = "file", t.state \in {"directory", "touch"},
         NEW then, i = "content" => Meets(t, i, then), i = "mode" => FlatPath(t, i, then, "lost", "lost"),
         NEW show, Idles(t, i, show), Finishes(t, i, show)
  PROVE  LET ask == Ask("missing", Content) \o IfNeeded(then)
         IN  Reaches(t, i, ask \o ApplyMode(t) \o Ok) /\ Reaches(t, i, ask \o show \o ApplyMode(t) \o Ok)
<1> DEFINE ask == Ask("missing", Content) \o IfNeeded(then)
<1>1. FileRules(t, i)
  BY FileWays
<1>2. "lost" \in Labels /\ "due" \in Labels /\ "met" \in Labels
  BY DEF Labels
<1>3. ASSUME NEW a \in {"lost", "met"}, Way(t, i, ask, "lost", a),
             FlatPath(t, i, show, a, a), FlatPath(t, i, ApplyMode(t), a, "met")
      PROVE  Reaches(t, i, ask \o ApplyMode(t) \o Ok) /\ Reaches(t, i, ask \o show \o ApplyMode(t) \o Ok)
  <2>1. Way(t, i, show, a, a) /\ Way(t, i, ApplyMode(t), a, "met")
    BY <1>2, <1>3, WayOne
  <2>2. Way(t, i, Ok, "met", "met")
    BY <1>2, StopWays, WayOne
  <2> HIDE DEF ask
  <2>3. /\ Way(t, i, ask \o ApplyMode(t) \o Ok, "lost", "met")
        /\ Way(t, i, ask \o show \o ApplyMode(t) \o Ok, "lost", "met")
    BY <1>3, <2>1, <2>2, WaysJoin
  <2> QED
    BY <1>2, <2>3, WaysJoin DEF Reaches, Ending
<1>4. CASE i = "content"
  <2>1. Want(t, i) = There /\ i \in Content /\ "new" \in Want(t, i) /\ t.module \notin Staged
    BY <1>4, FileWants DEF FileTask, ContentPromise, There
  <2>2. Finds(t, i, Ask("missing", Content)) /\ Finishes(t, i, ApplyMode(t))
    BY <1>1, <2>1, Tellings, ModeApplied DEF Tells, FileRules
  <2>3. Way(t, i, Ask("missing", Content), "lost", "due") /\ Way(t, i, IfNeeded(then), "due", "met")
    BY <1>2, <1>4, <2>2, BranchWays, WayOne DEF Finds
  <2>4. Way(t, i, ask, "lost", "met")
    BY <2>3, WaysJoin
  <2> QED
    BY <1>3, <2>2, <2>4 DEF Finishes
<1>5. CASE i = "mode"
  <2>1. Fixes(t, i, ApplyMode(t)) /\ Idles(t, i, Ask("missing", Content))
    BY <1>1, <1>5, ModeApplied DEF FileRules
  <2>2. Way(t, i, Ask("missing", Content), "lost", "lost") /\ Way(t, i, IfNeeded(then), "lost", "lost")
    BY <1>2, <1>5, <2>1, BranchWays, WayOne DEF Idles
  <2>3. Way(t, i, ask, "lost", "lost")
    BY <2>2, WaysJoin
  <2> QED
    BY <1>3, <2>1, <2>3 DEF Idles, Fixes
<1> QED
  BY <1>4, <1>5, FileWants

LEMMA FileReach ==
  ASSUME NEW t, NEW i, FileTask(t, i), t.module = "file"
  PROVE  Reaches(t, i, File(t))
<1>1. FileRules(t, i)
  BY FileWays
<1>2. "lost" \in Labels /\ "due" \in Labels /\ "met" \in Labels
  BY DEF Labels
<1>3. \A p : Fixes(t, i, p) => Reaches(t, i, p)
  BY <1>2, WayOne, WaysJoin DEF Fixes, Reaches, Ending
<1>4. Fixes(t, i, Err)
  BY <1>1 DEF FileRules
<1>5. Idles(t, i, Must("show")) /\ Finishes(t, i, Must("show"))
  BY <1>1 DEF FileRules, Quiet
<1>6. ASSUME t.state \in {"directory", "touch"}
      PROVE  Reaches(t, i, EnsureDirectory(t)) /\ Reaches(t, i, TouchFile(t))
  <2> DEFINE make == Must("install") \o ApplyMode(t) \o Changed
             touch == CreateDirAll \o Must("install") \o ApplyMode(t) \o Changed
  <2>1. i = "content" => Meets(t, i, make) /\ Meets(t, i, touch)
    <3> SUFFICES ASSUME i = "content" PROVE Meets(t, i, make) /\ Meets(t, i, touch)
      OBVIOUS
    <3>1. Want(t, i) = There /\ "new" \in Want(t, i)
      BY <1>6, FileWants DEF FileTask, ContentPromise, There
    <3>2. Meets(t, i, Must("install")) /\ Finishes(t, i, ApplyMode(t)) /\ Finishes(t, i, Changed)
      BY <1>1, <3>1, Effects, ModeApplied DEF FileRules
    <3>3. Meets(t, i, CreateDirAll \o Must("install"))
      BY <1>1, <3>2 DEF FileRules, CreateDirAll, Quiet
    <3> QED
      BY <1>1, <3>2, <3>3 DEF FileRules
  <2>2. i = "mode" => FlatPath(t, i, make, "lost", "lost") /\ FlatPath(t, i, touch, "lost", "lost")
    <3> SUFFICES ASSUME i = "mode"
                 PROVE  FlatPath(t, i, make, "lost", "lost") /\ FlatPath(t, i, touch, "lost", "lost")
      OBVIOUS
    <3>1. Fixes(t, i, ApplyMode(t)) /\ Idles(t, i, Must("install")) /\ Idles(t, i, CreateDirAll)
      BY <1>1, ModeApplied DEF FileRules, CreateDirAll
    <3>2. Fixes(t, i, Must("install") \o ApplyMode(t)) /\ Fixes(t, i, CreateDirAll \o Must("install") \o ApplyMode(t))
      BY <1>1, <3>1 DEF FileRules
    <3>3. FlatPath(t, i, Changed, "met", "lost")
      BY <1>2, StopWays
    <3> QED
      BY <3>2, <3>3, FlatPathJoins DEF Fixes
  <2> HIDE DEF make, touch
  <2> DEFINE other == When(Has(t, "not a directory"), Err)
  <2>5. Idles(t, i, other) /\ Finishes(t, i, other)
    BY <1>1 DEF FileRules
  <2> HIDE DEF other
  <2>3. Reaches(t, i, Ask("missing", Content) \o IfNeeded(make) \o other \o ApplyMode(t) \o Ok)
    BY <1>6, <2>1, <2>2, <2>5, FileMakes
  <2>6. Reaches(t, i, Err)
    BY <1>3, <1>4
  <2>4. Reaches(t, i, Ask("missing", Content) \o IfNeeded(touch) \o Must("show") \o ApplyMode(t) \o Ok)
    BY <1>5, <1>6, <2>1, <2>2, FileMakes
  <2> QED
    BY <2>3, <2>4, <2>6 DEF EnsureDirectory, TouchFile, make, touch, other
<1>7. ASSUME t.state = "link" PROVE Reaches(t, i, CreateSymlink)
  <2> DEFINE clear == Ask("differs", Content) \o OkIfNone \o Must("remove")
             ask == Ask("installed", Content) \o IfNeeded(clear)
  <2>1. Want(t, i) = {"new"} /\ i \in Content /\ t.module \notin Staged
    BY <1>7, FileWants DEF FileTask, ModeIsSet, ContentPromise
  <2>2. Finds(t, i, Ask("differs", Content) \o OkIfNone)
    BY <1>1, <2>1, Tellings DEF FileRules, Tells
  <2>3. FlatPath(t, i, Must("remove"), "due", "lost")
    BY <1>2, CommandWays
  <2>4. FlatPath(t, i, clear, "lost", "lost")
    BY <2>2, <2>3, FlatPathJoins DEF Finds
  <2>5. Way(t, i, Ask("installed", Content), "lost", "lost") /\ Way(t, i, IfNeeded(clear), "lost", "lost")
    BY <1>1, <1>2, <2>4, BranchWays, WayOne DEF FileRules, Idles
  <2>6. Way(t, i, ask, "lost", "lost")
    BY <2>5, WaysJoin
  <2> HIDE DEF ask
  <2>7. /\ Way(t, i, Take(Content), "lost", "due") /\ Way(t, i, Must("link"), "due", "met")
        /\ Way(t, i, Changed, "met", "met")
    BY <1>1, <1>2, <2>1, Effects, WayOne DEF FileRules, Finds, Meets, Finishes
  <2>8. Way(t, i, ask \o Take(Content) \o Must("link") \o Changed, "lost", "met")
    BY <2>6, <2>7, WaysJoin
  <2> QED
    BY <1>2, <2>8, WaysJoin DEF CreateSymlink, Reaches, Ending, ask
<1>8. \/ File(t) = Err
      \/ t.state = "absent" /\ File(t) = RemovePath(t)
      \/ t.state \in {"directory", "touch"} /\ File(t) \in {EnsureDirectory(t), TouchFile(t)}
      \/ t.state = "link" /\ File(t) = CreateSymlink
      \/ t.state = "hard" /\ File(t) = CreateHardlink(t)
      \/ /\ t.state \notin {"absent", "directory", "touch", "link", "hard"}
         /\ File(t) = EnsureFile(t)
  BY DEF File, Requires
<1> QED
  BY <1>3, <1>4, <1>6, <1>7, <1>8, FileStates

LEMMA GitReach ==
  ASSUME NEW t, NEW i, FileTask(t, i), t.module = "git"
  PROVE  Reaches(t, i, Git(t))
<1> DEFINE pull == IF Has(t, "no update") THEN Ok
                   ELSE When(Has(t, "force"), Try("checkout force")) \o GitRun("fetch") \o GitCheckout \o
                        When(Has(t, "recursive"), Try("submodules")) \o Did
           turn == When(~Has(t, "single branch"), Try("installLatest"))
           ask == Ask("installed", Content) \o IfNeeded(pull)
<1>1. FileRules(t, i)
  BY FileWays
<1>2. {"lost", "due", "have", "met"} \subseteq Labels
  BY DEF Labels
<1>3. i \in Content /\ Content = {i} /\ Want(t, i) = There /\ "new" \in Want(t, i) /\ t.module \notin Staged
  BY FileWants DEF FileTask, ModeIsSet, ContentPromise, There, Content
<1>4. FlatPath(t, i, pull, "met", "lost")
  <2>1. FlatPath(t, i, Ok, "met", "lost") /\ FlatPath(t, i, Did, "met", "lost")
    BY <1>2, StopWays
  <2>2. /\ Finishes(t, i, Try("checkout force")) /\ Finishes(t, i, Try("submodules"))
        /\ Finishes(t, i, GitRun("fetch"))
    BY <1>1 DEF FileRules, Quiet, Unseen, GitRun
  <2>3. Finishes(t, i, GitCheckout)
    BY <1>1, <1>3, Effects DEF FileRules, Harmless, GitCheckout
  <2>4. Finishes(t, i, When(Has(t, "force"), Try("checkout force")) \o GitRun("fetch") \o GitCheckout \o
                         When(Has(t, "recursive"), Try("submodules")))
    BY <1>1, <2>2, <2>3 DEF FileRules
  <2> QED
    BY <2>1, <2>4, FlatPathJoins DEF Finishes
<1>5. Finishes(t, i, turn)
  BY <1>1, <1>3, Effects DEF FileRules
<1>6. Git(t) \in {Err, ask \o Take(Content) \o GitRun("clone") \o turn \o Changed}
  BY DEF Git, Requires
<1>7. Way(t, i, Ask("installed", Content), "lost", "have")
  BY <1>2, <1>3, SelectWays, Tellings, WayOne
<1> HIDE DEF pull, turn
<1>8. Way(t, i, IfNeeded(pull), "have", "lost")
  BY <1>4, BranchWays
<1>9. Way(t, i, ask, "lost", "lost")
  BY <1>7, <1>8, WaysJoin
<1>10. /\ Way(t, i, Take(Content), "lost", "due") /\ Way(t, i, GitRun("clone"), "due", "met")
       /\ Way(t, i, turn, "met", "met") /\ Way(t, i, Changed, "met", "met")
  BY <1>1, <1>2, <1>3, <1>5, Effects, WayOne DEF FileRules, GitRun, Finds, Meets, Finishes
<1> HIDE DEF ask
<1>11. Way(t, i, ask \o Take(Content) \o GitRun("clone") \o turn \o Changed, "lost", "met")
  BY <1>9, <1>10, WaysJoin
<1>12. Ending(t, i, Err, "lost")
  BY <1>1, <1>2, WayOne, WaysJoin DEF FileRules, Fixes
<1> QED
  BY <1>2, <1>6, <1>11, <1>12, WaysJoin DEF Reaches, Ending

LEMMA ShellReach ==
  ASSUME NEW t, NEW i, FileTask(t, i), t.module \in {"shell", "command"}
  PROVE  Fixes(t, i, Shell(t)) /\ Fixes(t, i, CommandModule(t))
<1>1. FileRules(t, i)
  BY FileWays
<1>2. /\ t.state \in {"creates", "removes"} /\ i \in Content /\ t.module \notin Staged
      /\ t.state = "creates" => Want(t, i) = There
      /\ t.state = "removes" => Want(t, i) = Gone /\ ~ Has(t, "dangling")
  BY FileWants DEF FileTask, Excused, Unbound, ModeIsSet, ContentPromise
<1>3. Fixes(t, i, Fail) /\ Fixes(t, i, Err) /\ Finishes(t, i, Changed)
  BY <1>1 DEF FileRules
<1>4. ASSUME t.state = "creates"
      PROVE  Fixes(t, i, Ask("missing", Content) \o OkIfNone \o Run("install") \o Changed)
  <2>1. Finds(t, i, Ask("missing", Content) \o OkIfNone) /\ Meets(t, i, Run("install"))
    BY <1>1, <1>2, <1>4, Effects, Tellings DEF FileRules, Tells
  <2> QED
    BY <1>1, <1>3, <2>1 DEF FileRules
<1>5. ASSUME t.state = "removes"
      PROVE  Fixes(t, i, Ask("installed", Content) \o OkIfNone \o Run("remove") \o Changed)
  <2>1. Finds(t, i, Ask("installed", Content) \o OkIfNone) /\ Meets(t, i, Run("remove"))
    BY <1>1, <1>2, <1>5, Effects, Tellings DEF FileRules, Tells
  <2> QED
    BY <1>1, <1>3, <2>1 DEF FileRules
<1>6. Fixes(t, i, Shell(t))
  BY <1>2, <1>3, <1>4, <1>5 DEF Shell, Requires
<1> QED
  BY <1>3, <1>6 DEF CommandModule

(* Whatever module a task names, its plan leaves each item as promised.      *)

LEMMA InvocationsReach ==
  ASSUME NEW m \in Modules, NEW t \in Tasks(m), NEW i \in t.names, ~ Excused(t, i)
  PROVE  Reaches(t, i, Invoke(t))
<1> DEFINE P == {p \in Plans(t) : Reaches(t, i, p)}
<1>1. \A p \in Plans(t) : Fixes(t, i, p) => p \in P
  <2>1. "lost" \in Labels /\ "met" \in Labels
    BY DEF Labels
  <2> QED
    BY <2>1, WayOne, WaysJoin DEF Fixes, Reaches, Ending
<1>2. \A p \in Plans(t) : Reaches(t, i, p) => p \in P
  OBVIOUS
<1>3. PlansIn(t, Plans(t))
  BY AllPlans
<1>4. ~ Unbound(t)
  BY DEF Excused, Want, Promise
<1>5. t.module = m /\ t.names \subseteq Items(m) /\ (m \in FileModules => "content" \in t.names)
  BY ManagedAssumption
<1>6. Fixes(t, i, Fail) /\ Fixes(t, i, FailModule)
  BY FixWords DEF FailModule
<1> HIDE DEF P
<1>7. ASSUME t.module = "lineinfile" PROVE PlansIn(t, P)
  BY <1>1, <1>3, <1>6, <1>7, LineReach DEF PlansIn
<1>8. ASSUME t.module \in FileModules PROVE PlansIn(t, P)
  <2>1. FileTask(t, i)
    BY <1>5, <1>8 DEF FileTask, Items
  <2>2. t.module # "preview"
    BY <1>4 DEF Unbound
  <2> QED
    BY <1>1, <1>2, <1>3, <1>6, <1>8, <2>1, <2>2, CopyReach, TemplateReach, AppimageReach, FileReach,
       GitReach, ShellReach DEF PlansIn, FileModules
<1>9. ASSUME t.module \notin FileModules, t.module # "lineinfile" PROVE PlansIn(t, P)
  <2>1. PackageTask(t, i)
    BY <1>9 DEF PackageTask
  <2>2. t.module = "rpm_ostree" => Fixes(t, i, RpmOstree(t))
    BY <2>1, OstreeReach
  <2>3. t.module \notin {"preview", "python", "zos", "ostree", "pip_tools", "dnf_history", "stat", "find",
                          "setup", "debug", "set_fact", "copy", "template", "file", "git", "command",
                          "shell", "appimage", "lineinfile"}
    BY <1>4, <1>9 DEF Unbound, FileModules
  <2>4. CASE t.module = "rpm_ostree"
    BY <1>1, <1>3, <1>6, <2>2, <2>4 DEF PlansIn
  <2>5. CASE t.module \notin Staged
    BY <1>1, <1>2, <1>3, <1>6, <2>1, <2>3, <2>5, LinuxReach, UnixReach, LanguageReach DEF PlansIn, Staged
  <2> QED
    BY <2>4, <2>5 DEF Staged
<1>10. PlansIn(t, P)
  BY <1>7, <1>8, <1>9
<1>11. Invoke(t) \in P
  BY <1>10, ByModule
<1> QED
  BY <1>11 DEF P

LEMMA GoalBegin ==
  ASSUME GoalInv, NEW t \in Threads, NEW task \in Tasks(module), Begin(t, task)
  PROVE  \A u \in Threads : GoalOf(call'[u], disk')
<1>1. module \in Modules /\ disk' = disk
  BY DEF GoalInv, TypeInv, Machine, Begin
<1>2. /\ \E x : call'[t] = Started(task, Invoke(task), x)
      /\ \A u \in Threads \ {t} : \E x : call'[u] = [call[u] EXCEPT !.shared = x]
  BY Zenon DEF Begin
<1>3. GoalOf(call'[t], disk)
  <2> DEFINE d == call'[t]
  <2>1. d.task = task /\ d.todo = Invoke(task) /\ d.verdict = "running"
    BY <1>2 DEF Started
  <2> HIDE DEF d
  <2> SUFFICES ASSUME NEW i \in d.task.names, ~ Excused(d.task, i) PROVE ItemGoal(d, disk, i)
    BY DEF GoalOf, d
  <2>2. Reaches(task, i, Invoke(task))
    BY <1>1, <2>1, InvocationsReach
  <2>3. Claim("lost", i, Want(task, i), d, disk) /\ "lost" \in Labels
    BY DEF Claim, Labels
  <2> QED
    BY <2>1, <2>2, <2>3, GoalOnward DEF Reaches, Ending
<1>4. ASSUME NEW u \in Threads \ {t} PROVE GoalOf(call'[u], disk)
  <2> DEFINE c == call[u]
             d == call'[u]
  <2>1. DOMAIN c = Fields /\ GoalOf(c, disk)
    BY DEF GoalInv, TypeInv, Sound
  <2>2. PICK x : d = [c EXCEPT !.shared = x]
    BY <1>2
  <2> HIDE DEF c, d
  <2>3. /\ d.task = c.task /\ d.todo = c.todo /\ d.needs = c.needs /\ d.listing = c.listing
        /\ d.verdict = c.verdict /\ d.blind = c.blind /\ d.stale = c.stale /\ d.undone = c.undone
    BY <2>1, <2>2 DEF Fields
  <2>4. \A k, i, W : Claim(k, i, W, d, disk) = Claim(k, i, W, c, disk)
    BY <2>3 DEF Claim
  <2>5. Clean(d) = Clean(c) /\ \A i : ItemGoal(c, disk, i) => ItemGoal(d, disk, i)
    BY <2>3, <2>4 DEF Clean, ItemGoal
  <2>6. GoalOf(d, disk)
    BY <2>1, <2>3, <2>5 DEF GoalOf
  <2> QED
    BY <2>6 DEF d
<1> QED
  BY <1>1, <1>3, <1>4

LEMMA GoalInit == Init => GoalInv
<1>1. Between.task = Idle
  BY DEF Between, Started
<1> QED
  BY <1>1, TypeInit DEF Init, GoalInv, GoalOf

LEMMA GoalStep == GoalInv /\ [Next]_vars => GoalInv'
<1> SUFFICES ASSUME GoalInv, [Next]_vars PROVE GoalInv'
  OBVIOUS
<1>1. TypeInv' /\ (module' \notin Staged => booted' = disk')
  BY TypeStep, Booted DEF GoalInv
<1>2. CASE UNCHANGED vars
  BY <1>1, <1>2 DEF GoalInv, vars
<1>3. ASSUME NEW t \in Threads, NEW task \in Tasks(module), Begin(t, task)
      PROVE  \A u \in Threads : GoalOf(call'[u], disk')
  BY <1>3, GoalBegin
<1>4. ASSUME NEW t \in Threads, StopOrGoOn(t) \/ AskNext(t) \/ Select(t)
      PROVE  \A u \in Threads : GoalOf(call'[u], disk')
  BY <1>4, GoalLocalStep
<1>5. ASSUME NEW t \in Threads, Success(t) \/ Failure(t)
      PROVE  \A u \in Threads : GoalOf(call'[u], disk')
  BY <1>5, GoalMoveStep
<1>6. ASSUME NEW reboot \in BOOLEAN, Crash(reboot)
      PROVE  \A u \in Threads : GoalOf(call'[u], disk')
  <2>1. Between.task = Idle /\ \A t \in Threads : call'[t] = Between
    BY <1>6 DEF Crash, Between, Started
  <2> QED
    BY <2>1 DEF GoalOf
<1>7. ~ UNCHANGED vars => \A u \in Threads : GoalOf(call'[u], disk')
  BY <1>3, <1>4, <1>5, <1>6, Zenon DEF Next
<1> QED
  BY <1>1, <1>2, <1>7 DEF GoalInv

(* GoalsReached: every call that says ok or changed leaves each item it was  *)
(* given as its task asks, whichever way its questions and commands went,    *)
(* whatever failed or was killed before it and whatever runs beside it, for  *)
(* every task of every module; but for the orphan that apt's autoremove      *)
(* sweeps away after the result.  Promise says what each task asks: nothing  *)
(* of the removal of a package that reads as absent (held, padded) or of a   *)
(* dangling link, and of a line with backrefs only that no old one is left.  *)
THEOREM GoalsReached == Spec => []GoalReached
<1>1. GoalInv => GoalReached
  <2> SUFFICES ASSUME GoalInv, NEW t \in Threads, NEW verdict \in {"ok", "changed"},
                      Done(t, verdict), ~ call[t].blind, ~ call[t].undone, ~ call[t].stale,
                      NEW i \in call[t].task.names
               PROVE  \/ disk[i] \in Promise(call[t].task, verdict, i)
                      \/ i = Orphan /\ Sweeps(call[t].task)
    BY DEF GoalReached
  <2> DEFINE c == call[t]
  <2>1. GoalOf(c, disk) /\ Clean(c) /\ c.task # Idle /\ c.verdict = verdict
    BY DEF GoalInv, Clean, Done
  <2>2. disk[i] \in Versions
    <3>1. Sound(c, module) /\ module \in Modules /\ disk \in [Items(module) -> Versions]
      BY DEF GoalInv, TypeInv, Machine
    <3>2. c.task.names \subseteq Items(module)
      BY <2>1, <3>1, ManagedAssumption DEF Sound
    <3> QED
      BY <3>1, <3>2
  <2>3. CASE Want(c.task, i) = Versions
    BY <2>2, <2>3, Promises
  <2>4. CASE ItemGoal(c, disk, i)
    BY <2>1, <2>4 DEF ItemGoal
  <2> QED
    BY <2>1, <2>3, <2>4 DEF GoalOf, Excused
<1> QED
  BY <1>1, GoalInit, GoalStep, PTL DEF Spec
=============================================================================
