------------------------------- MODULE Steps -------------------------------
(* What the modules of ansiblers-modules are built from.  Every module is a  *)
(* stateless `invoke(args, host, ctx)` that asks the machine what it has,    *)
(* runs commands and builds one TaskResult.  An invocation is written here   *)
(* as a plan: the sequence of the steps it takes when nothing ends it early. *)
(* Managed gives the steps their meaning, one transition each.               *)
(*                                                                           *)
(* What a step is about is a set of items: packages, deployments, or the     *)
(* parts of a file.  `needs`, kept by Managed, is the `Vec` of items the     *)
(* questions have selected (`missing`, `installed`, `to_install`...).        *)
EXTENDS Naturals, Sequences

When(cond, s) == IF cond THEN s ELSE <<>>

(* Returns: `verdict` is the TaskResult, "err" an Err; `if` tells when.      *)
Stop(verdict, if) == <<[op |-> "stop", verdict |-> verdict, if |-> if]>>

Fail    == Stop("failed", "always")
Err     == Stop("err", "always")
Ok      == Stop("ok", "always")
Changed == Stop("changed", "always")

OkIfNone   == Stop("ok", "none needed")      \* `if needs.is_empty()`
FailIfSome == Stop("failed", "some needed")  \* `if !exists { return failed }`
May(verdict) == Stop(verdict, "maybe")       \* a check that is not of an item

(* `changed` read off the output of the commands: they said they changed     *)
(* something, none said that an item had been there already, at least one of *)
(* several ended with 0.                                                     *)
OkIfUndone == Stop("ok", "nothing done")
Did        == OkIfUndone \o Changed
DidAll     == Stop("ok", "something met") \o Changed
Succeeded  == Stop("ok", "none succeeded") \o Changed

(* needs := the items of P of which q holds, asked one by one, or picked out *)
(* of a listing made earlier; needs := P without a question.                 *)
Take(P)    == <<[op |-> "take", of |-> P]>>
Ask(q, P)  == Take({}) \o IF P = {} THEN <<>> ELSE <<[op |-> "ask", q |-> q, of |-> P]>>
Pick(q, P) == <<[op |-> "pick", q |-> q, of |-> P]>>

(* s comes next when something is needed.                                    *)
IfNeeded(s) == <<[op |-> "branch", then |-> s]>>

(* A command of one of the kinds below: `bad` is what an exit status other than 0 leads to, `lost`     *)
(* what a command that cannot be started leads to ("next": it is ignored).   *)
Command(op, c, bad, lost) == <<[op |-> op, cmd |-> c, bad |-> bad, lost |-> lost]>>

Run(c)   == Command("run", c, "failed", "err") \* `if !success { return failed }`
Must(c)  == Command("run", c, "err", "err")    \* a helper that makes an Err of both
Loose(c) == Command("run", c, "next", "err")   \* `run(..)?`, the code is dropped
Try(c)   == Command("run", c, "next", "next")  \* `let _ =`, `.is_ok()`, `if let Ok`

(* The listing Pick reads: everything, at once.                              *)
List(bad) == Command("list", "show", bad, "err")

(* `.or_else(|_| ...)`: s comes next when c fails in either way.             *)
Attempt(c, s) == <<[op |-> "run", cmd |-> c, bad |-> "else", lost |-> "else", else |-> s]>>

(* Only if something is needed; and once for each item that is.              *)
RunSome(c)  == Command("some", c, "failed", "err")
MustSome(c) == Command("some", c, "err", "err")
RunEach(c)  == Command("each", c, "failed", "err")
TryEach(c)  == Command("each", c, "next", "next")

(* What comes after Return runs whatever the result so far, unless it is an  *)
(* Err, and does not replace it.                                             *)
Return == <<[op |-> "return"]>>
AfterReturn(s) ==
  LET marks == {i \in DOMAIN s : s[i].op = "return"}
  IN  IF marks = {} THEN <<>>
      ELSE SubSeq(s, 1 + CHOOSE i \in marks : \A j \in marks : i <= j, Len(s))

(* The shapes most package modules share. *)
Batch(q, P, c) == Ask(q, P) \o OkIfNone \o Run(c) \o Changed
EachNeeded(q, P, c) == Ask(q, P) \o OkIfNone \o RunEach(c) \o Changed
Whole(P, c) == Take(P) \o Run(c)

(* A task: the module, its `state` (or operation), the names it is given,    *)
(* and the arguments and circumstances that decide which way it goes.        *)
Has(task, flag) == flag \in task.flags
Named(task, s)  == IF task.names = {} THEN Fail ELSE s

-----------------------------------------------------------------------------
(* Circumstances in which a package that is there is told in words the       *)
(* module does not look for, and so reads as not installed.                  *)
Unread(t)      == t.flags \intersect {"held", "padded"} # {}
IsInstalled(t) == IF Unread(t) THEN "installed, unread" ELSE "installed"
IsMissing(t)   == IF Unread(t) THEN "missing, unread" ELSE "missing"

(* The machine as the modules see it: every item is absent, present in an    *)
(* old version, or present in the wanted one.                                *)
Versions == {"none", "old", "new"}

(* What a command that ends with 0 may leave of an item it is pointed at;    *)
(* `boot` is what the running deployment has of it.                          *)
After(c, v, boot) ==
  CASE c \in {"remove", "rewrite without", "autoremove"} -> {"none"}
    [] c \in {"install", "install+other"}    -> {IF v = "none" THEN "new" ELSE v}
    [] c \in {"installLatest", "installLatest+other", "transaction", "write", "rewrite", "link"} -> {"new"}
    [] c = "reinstall"                       -> IF v = "none" THEN {"new"} ELSE {v, "new"}
    [] c \in {"upgrade", "sysupgrade"}       -> {IF v = "none" THEN v ELSE "new"}
    [] c = "clone"                           -> {"old", "new"}
    [] c = "empty"                           -> {"old"}
    [] c = "unstage"                         -> {boot}
    [] c = "anything"                        -> Versions
    [] OTHER                                 -> {v}

(* One that fails may have come anywhere, a file being half written.         *)
AfterFailed(c, v, boot) ==
  {v} \union After(c, v, boot)
      \union (IF c \in {"write", "rewrite", "clone"} THEN {"old"} ELSE {})
      \union (IF c = "reread" THEN {"none"} ELSE {})

(* What a command needs in order to succeed.                                 *)
Possible(c, v) ==
  CASE c = "upgrade" -> v # "none"
    [] c = "link"    -> v = "none"
    [] OTHER         -> TRUE

(* Commands that act on every item, and those that also act, or whose output *)
(* also speaks, of what no item stands for.                                  *)
Everywhere == {"sysupgrade", "unstage"}
Elsewhere  == {"other", "check", "sysupgrade", "autoremove", "install+other", "installLatest+other"}

(* Commands that may change what no item stands for and the task is about    *)
(* all the same: a file without lines comes to be, local changes are         *)
(* discarded, submodules move.                                               *)
Unseen == {"create file", "checkout force", "submodules"}

(* The answers a question may get, and those the code takes when the command *)
(* behind the question fails or cannot be started.                           *)
Answers(q, v) ==
  CASE q = "missing"               -> {v = "none"}
    [] q \in {"installed", "kept"} -> {v # "none"}
    [] q = "missing, unread"       -> {TRUE, v = "none"}
    [] q = "installed, unread"     -> {FALSE, v # "none"}
    [] q = "apt upgrade"           -> IF v = "old" THEN {TRUE} ELSE BOOLEAN
    [] q = "apt upgrade, held"     -> BOOLEAN
    [] q = "check-update"          -> {v = "old"}
    [] q = "differs"               -> {v # "new"}
    [] q = "differs, there"        -> {v = "old"}

FailedAnswers(q) ==
  CASE q \in {"missing", "missing, unread", "kept", "differs"}       -> {TRUE}
    [] q \in {"installed", "installed, unread", "differs, there"}    -> {FALSE}
    [] q \in {"apt upgrade", "apt upgrade, held", "check-update"}    -> BOOLEAN
=============================================================================
