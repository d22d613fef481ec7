--------------------------- MODULE MCNodeAffinity ---------------------------
(* Instances of NodeAffinity for TLC. *)
EXTENDS NodeAffinity

SomeWords == {"storage", "nfs", "zone", "a", "b"}

Rule(key, values, style) == [key |-> key, values |-> values, style |-> style]

\* The forms a rule takes in the documentation and the tests.
Forms ==
  {Rule("storage", <<>>, "plain"), Rule("nfs", <<>>, "brackets"),
   Rule("zone", <<"a">>, "padded"), Rule("zone", <<"a", "b">>, "plain")}

\* No setting, and every list of one or two forms; one key after another before
\* the values; values before, between and after bare keys.
SomeSettings ==
  BoundedSeq(Forms, 2) \cup
  {<<Rule("storage", <<>>, "plain"), Rule("nfs", <<>>, "padded"),
     Rule("zone", <<"a", "b">>, "plain")>>,
   <<Rule("zone", <<"a">>, "plain"), Rule("storage", <<>>, "plain"),
     Rule("nfs", <<>>, "plain"), Rule("zone", <<"a", "b">>, "plain"),
     Rule("storage", <<>>, "brackets"), Rule("nfs", <<>>, "padded")>>}

\* A node in zone b, and a storage node in zone a.
SomeLabelings ==
  {<<"zone">> :> <<"b">>,
   <<"zone">> :> <<"a">> @@ <<"storage">> :> <<"yes">> @@ <<"nfs">> :> <<"yes">>}
=============================================================================
