-------------------------- MODULE MCServerObjects --------------------------
(* Instances of ServerObjects for TLC. *)
EXTENDS ServerObjects, TLC

SomeNumerals == "0" :> 0 @@ "5" :> 5 @@ "30" :> 30 @@ "90" :> 90 @@ "2000" :> 2000

Ok(c) == [ok |-> TRUE, config |-> c]
Val(x) == [value |-> x, data |-> <<>>]
Perms(d) == "FilePermissions" :> [value |-> "", data |-> d]

\* The StorageClass: of the tutorial; with FSGID; with the owner of the files and
\* times that are zero or no number; not valid in one way or another; missing.
SomeClasses ==
  {Ok("BackendStorageClass" :> Val("hostpath")),
   Ok("FSGID" :> Val("2000")),
   Ok(Perms("UID" :> "1000") @@ "CustomServerConfig" :> Val("custom")
      @@ "LeaseTime" :> Val("0") @@ "GraceTime" :> Val("junk")),
   Ok("FSGID" :> Val("junk")),
   Ok("NFSServerType" :> Val("ganesha")),
   Ok("NFSServerResourceLimits" :> Val("junk")),
   [ok |-> FALSE, config |-> <<>>]}

\* The claim: nothing; group and mode of the files and a time; the mode alone, with a
\* server configuration; an annotation that does not parse.
SomeClaims ==
  {Ok(<<>>),
   Ok(Perms("GID" :> "2000" @@ "mode" :> "g+s") @@ "LeaseTime" :> Val("30")),
   Ok(Perms("mode" :> "0755") @@ "CustomServerConfig" :> Val("mine")),
   [ok |-> FALSE, config |-> <<>>]}

SomeImages == {"", "nfs-server-alpine"}
OneRule == <<[key |-> "zone", operator |-> "Exists"]>>
=============================================================================
