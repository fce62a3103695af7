--------------------------- MODULE OtherPackages ---------------------------
(* zopen and zos, which manage z/OS, and appimage, whose package is one file *)
(* with a mode.  See LinuxPackages.                                          *)
EXTENDS Steps

(* zopen.rs.  "already" anywhere in the output makes an install ok.          *)
ZopenRun        == Must("other")
ZopenInstall(t) ==
  Whole(t.names, IF t.state = "latest" THEN "upgrade" ELSE "install") \o DidAll
ZopenRemove(P)  == Whole(P, "remove") \o Changed

Zopen(t) ==
  When(Has(t, "update_sources"), ZopenRun) \o
  CASE t.state = "init" -> Run("other") \o Changed
    [] t.state \in {"upgrade_all", "latest"} /\ t.names = {} -> Run("sysupgrade") \o Did
    [] t.state = "list"   -> Loose("show") \o Ok
    [] t.state = "info"   -> Named(t, Try("show") \o Ok)
    [] t.state = "absent" -> Named(t, ZopenRemove(t.names))
    [] OTHER              -> Named(t, ZopenInstall(t))

-----------------------------------------------------------------------------
(* zos.rs: one HTTP request each.  curl runs without --fail, so what z/OSMF  *)
(* refuses is reported like what it does.                                    *)
Get      == Run("show")
PostJson == Run("other")
Delete   == Run("other")
PutData  == Run("other")
RunAndParse(request, changed) == request \o IF changed THEN Changed ELSE Ok
Needs(t, s) == IF Has(t, "argument missing") THEN Err ELSE s
Body(t, s)  == IF Has(t, "no content") THEN Fail ELSE May("err") \o s

FromArgs(t, s)   == IF Has(t, "no credentials") THEN Err ELSE s
JobSubmit(t)     == Body(t, RunAndParse(PostJson, TRUE))
JobStatus        == RunAndParse(Get, FALSE)
JobCancel(t)     == Needs(t, RunAndParse(PostJson, TRUE))
JobPurge(t)      == Needs(t, RunAndParse(Delete, TRUE))
DatasetCreate(t) == Needs(t, RunAndParse(PostJson, TRUE))
DatasetDelete(t) == Needs(t, RunAndParse(Delete, TRUE))
DatasetCopy(t)   == Needs(t, RunAndParse(PostJson, TRUE))
DatasetFetch(t)  == Needs(t, RunAndParse(Get, FALSE))
DatasetWrite(t)  == Needs(t, Body(t, RunAndParse(PutData, TRUE)))
MemberList(t)    == Needs(t, RunAndParse(Get, FALSE))
TsoCommand(t)    == Needs(t, RunAndParse(PostJson, TRUE))
UssCommand(t)    == Needs(t, RunAndParse(PostJson, TRUE))
Sysvar(t)        == Needs(t, RunAndParse(Get, FALSE))

Zos(t) ==
  FromArgs(t,
    CASE t.state = "job_submit"     -> JobSubmit(t)
      [] t.state = "job_status"     -> JobStatus
      [] t.state = "job_cancel"     -> JobCancel(t)
      [] t.state = "job_purge"      -> JobPurge(t)
      [] t.state = "dataset_create" -> DatasetCreate(t)
      [] t.state = "dataset_delete" -> DatasetDelete(t)
      [] t.state = "dataset_copy"   -> DatasetCopy(t)
      [] t.state = "dataset_fetch"  -> DatasetFetch(t)
      [] t.state = "dataset_write"  -> DatasetWrite(t)
      [] t.state = "member_list"    -> MemberList(t)
      [] t.state = "command"        -> TsoCommand(t)
      [] t.state = "uss_command"    -> UssCommand(t)
      [] t.state = "sysvar"         -> Sysvar(t)
      [] OTHER                      -> Fail)

-----------------------------------------------------------------------------
(* appimage.rs.  The file is asked for by name only.  A download that fails  *)
(* leaves what has come of it, and the next run takes that for the AppImage; *)
(* one whose checksum or signature is wrong is removed.  A dangling link is  *)
(* no file (see Files).                                                      *)
Download    == Run("write")
Sha256File  == Must("show")
Reject      == Try("remove") \o Fail

AppimageInstall(t) ==
  LET dest == {"content"}
  IN  When(~Has(t, "force"), Ask("missing", dest) \o OkIfNone) \o Must("mkdir") \o Take(dest) \o
      (IF Has(t, "local source") THEN Must("write") ELSE Download) \o
      When(Has(t, "wrong checksum"), Sha256File \o Reject) \o
      When(Has(t, "wrong signature"), Try("show") \o Reject) \o
      Take(t.names \ dest) \o Must("write") \o
      When(Has(t, "integrate"), Try("other")) \o Changed
AppimageAbsent(t) == IF Has(t, "dangling") THEN Ok ELSE
  Ask("installed", {"content"}) \o OkIfNone \o Try("other") \o Must("remove") \o Changed
AppimageUpdate(t) == IF Has(t, "dangling") THEN Fail ELSE
  Ask("missing", {"content"}) \o FailIfSome \o Whole({"content"}, "upgrade") \o Did

Appimage(t) ==
  CASE Has(t, "no dest")    -> Err
    [] t.state = "absent"   -> AppimageAbsent(t)
    [] t.state = "latest"   -> AppimageUpdate(t)
    [] Has(t, "no source")  -> Err
    [] OTHER                -> AppimageInstall(t)
=============================================================================
