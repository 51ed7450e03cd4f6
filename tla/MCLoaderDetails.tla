--------------------------- MODULE MCLoaderDetails ---------------------------
(* The session's asset and another one, each with a subset of two versions;  *)
(* one representation under two names that differ in their letters; a loader *)
(* of each kind; a picture for one asset and one version, a picture without  *)
(* data and one whose document is missing.                                   *)
EXTENDS LoaderDetails

MCAssets == {"context", "other"}
MCContext == "context"
MCNoAsset == "none"
MCVersions == 1..2
MCLatest == 2
MCNames == {"abc", "ABC"}
MCLower == [n \in MCNames |-> "abc"]
MCLoaders == {"read", "add", "remove"}
MCAddLoaders == {"add"}
MCRemoveLoaders == {"remove"}
MCFits == {"read", "remove"} \X MCNames \cup {<<"add", "abc">>}
MCSides == {"active", "remote"}
\* A representation is whole on the active site, its old version on neither.
MCProgress ==
  [p \in (MCAssets \X MCVersions \X MCNames) \X MCSides |->
     IF p[1][2] = 1 THEN "none" ELSE IF p[2] = "active" THEN "all" ELSE "some"]
MCPublished == {<<"context", 2, "abc">>, <<"other", 2, "abc">>, <<"other", 2, "ABC">>,
                <<"context", 1, "ABC">>}
MCChanging == {<<"other", 2, "abc">>, <<"context", 2, "ABC">>}
MCThumbnail ==
  [e \in {<<a>> : a \in MCAssets} \cup MCAssets \X MCVersions |->
     CASE e = <<"context">>    -> "a"
       [] e = <<"context", 2>> -> "b"
       [] e = <<"context", 1>> -> "lost"
       [] e = <<"other", 2>>   -> "bare"
       [] OTHER -> "none"]
MCPictures == [a |-> "there", b |-> "there", lost |-> "missing", bare |-> "empty",
               none |-> "empty"]
=============================================================================
